-------------------------- MODULE ManagedSubagent --------------------------
(***************************************************************************)
(* The parent's handle on one child Pi process                             *)
(* (extensions/subagents/rpc.ts, class ManagedSubagent), composed with an  *)
(* RPC child that reads requests from stdin and writes responses and       *)
(* session events to stdout, both in order.                                *)
(*                                                                         *)
(* A message (the kickoff prompt, a steer or a follow-up) is its sequence  *)
(* number; an answer is the number of the message it answers.  The text a  *)
(* message is queued under is the number itself, or Expanded(number) when  *)
(* the child's input handlers or prompt expansion rewrote it.              *)
(*                                                                         *)
(* Every action is one macrotask of the parent's event loop, or a step of  *)
(* the child.  A response settles a promise whose continuation runs only   *)
(* after the whole stdout chunk was parsed, so between the two the parent  *)
(* may handle more lines (of the same chunk), and nothing else.            *)
(***************************************************************************)
EXTENDS Integers, Sequences, FiniteSets, SequencesExt

CONSTANTS
    MaxMessages,    \* messages ever sent, the kickoff prompt included
    MaxInterrupts,  \* interrupt() calls
    MaxRefreshes,   \* refresh() calls
    MaxLines        \* lines the child may have written ahead of the parent

ASSUME BoundsAssumption ==
    /\ MaxMessages \in Nat \ {0}
    /\ {MaxInterrupts, MaxRefreshes, MaxLines} \subseteq Nat

None == 0
Messages == 1..MaxMessages
Expanded(m) == m + MaxMessages
\* The message a text was sent as.
Of(text) == IF text > MaxMessages THEN text - MaxMessages ELSE text
Slots == {"start", "control"}

VARIABLES
    \* the parent
    state, final, interruptedOperation, queuedAfterInterrupt, queueClaims,
    queuedTexts, abortAttempt, pendingMessages,
    pending,        \* slot -> is its request awaited?
    settled,        \* the continuations to run: slots with their outcomes, in order
    control,        \* the serialized control operation in progress
    stoppedIntentionally, termination, deaf, closed,
    \* the pipes and the child
    stdin, stdout, alive, hasPid,
    preflight,      \* the prompt being checked, not yet answered
    serving,        \* the user message the agent run is answering
    announced,      \* has the run written its agent_start?
    answered,       \* did the run already complete an answer to it?
    childQueue, ack,
    \* history
    sent, interrupts, refreshes,
    interrupted,    \* messages covered by an interrupt not explicitly rejected
    lastUser,       \* the user message whose start the parent saw last
    lastAnswer,     \* the completed answer the parent saw last, None once
                    \* a later event of the child superseded it
    misclaimed,     \* since the last prompt, was a claim given the entry of
                    \* interrupted work?
    overtaken       \* did the run under way begin behind a report of rest
                    \* that a refresh had still to write?

recovery == <<interruptedOperation, queuedAfterInterrupt, queueClaims>>
process  == <<stoppedIntentionally, termination, deaf, closed>>
child    == <<alive, hasPid, preflight, serving, announced, answered, childQueue, ack>>
counters == <<sent, interrupts, refreshes>>
history  == <<interrupted, lastUser, lastAnswer, misclaimed, overtaken>>
rpc      == <<pending, settled>>
vars == <<state, final, recovery, queuedTexts, abortAttempt, pendingMessages,
          rpc, control, process, stdin, stdout, child, counters, history>>

\* What a response says; the last two fields are those of get_state.
Result(result) == [result |-> result, streaming |-> FALSE, count |-> 0]
Failure   == Result("failure")

NoControl == [kind |-> "none", msg |-> None, claimed |-> FALSE,
              previous |-> "none", spared |-> {}, atRest |-> FALSE]
Control(kind) == [NoControl EXCEPT !.kind = kind]
NoClaims  == [m \in Messages |-> None]
NoAttempt == [live |-> FALSE, wasInterrupted |-> FALSE, final |-> None,
              queuedAfterInterrupt |-> NoClaims, queueClaims |-> {},
              queuedWorkStarted |-> FALSE]
NoPreflight == [id |-> "none", msg |-> None]

Queued(map) == {map[m] : m \in Messages} \ {None}

-----------------------------------------------------------------------------
(* Requests and responses.  A request id that has left `pending` (timed    *)
(* out, or rejected with all the others) can never be matched again; its   *)
(* request and response keep travelling under the id "dropped".            *)

Forget(slots) ==
    /\ stdin' = [i \in DOMAIN stdin |->
                    IF stdin[i].id \in slots THEN [stdin[i] EXCEPT !.id = "dropped"]
                    ELSE stdin[i]]
    /\ stdout' = [i \in DOMAIN stdout |->
                    IF stdout[i].type = "response" /\ stdout[i].id \in slots
                    THEN [stdout[i] EXCEPT !.id = "dropped"]
                    ELSE stdout[i]]
    /\ ack' = IF ack \in slots THEN "dropped" ELSE ack
    /\ preflight' = IF preflight.id \in slots THEN [preflight EXCEPT !.id = "dropped"]
                    ELSE preflight

Awaited == {s \in Slots : pending[s]}

Settle(slot, outcome) ==
    settled' = Append(settled, [slot |-> slot, outcome |-> outcome])

\* request(): rejected on the spot when the process is known to be gone.
Request(slot, command, msg) ==
    IF alive
    THEN /\ stdin' = Append(stdin, [id |-> slot, command |-> command, msg |-> msg])
         /\ pending' = [pending EXCEPT ![slot] = TRUE]
         /\ UNCHANGED settled
    ELSE /\ Settle(slot, Failure)
         /\ UNCHANGED <<stdin, pending>>

\* mutant: the map is cleared without rejecting what it holds
RejectPendingSilently ==
    /\ pending' = [s \in Slots |-> FALSE]
    /\ UNCHANGED <<settled, stdin, stdout, ack, preflight>>

Rejected(slot) ==
    IF pending[slot] THEN <<[slot |-> slot, outcome |-> Failure]>> ELSE <<>>

\* rejectPending()
RejectPending ==
    /\ pending' = [s \in Slots |-> FALSE]
    /\ settled' = settled \o Rejected("start") \o Rejected("control")
    /\ Forget(Awaited)

NoContinuation == settled = <<>>

\* terminateProcess(), whose escalation is the module Termination
TerminateProcess ==
    termination' = IF hasPid /\ termination = "none" THEN "pending" ELSE termination

Fail == state' = "failed"

-----------------------------------------------------------------------------
(* The parent's calls.  Control operations are serialized: one begins when *)
(* the previous one has ended.                                             *)

MayBegin == NoContinuation /\ control = NoControl
Controllable == state \notin {"stopped", "failed"}

BeginQueueMessage ==
    /\ MayBegin /\ sent < MaxMessages
    /\ Controllable
    /\ state \in {"running", "interrupting"}
    /\ sent' = sent + 1
    /\ control' = [Control("queue") EXCEPT !.msg = sent', !.claimed = interruptedOperation]
    /\ IF interruptedOperation
       THEN /\ queuedAfterInterrupt' = [queuedAfterInterrupt EXCEPT ![sent'] = sent']
            /\ queueClaims' = queueClaims \cup {sent'}
       ELSE UNCHANGED <<queuedAfterInterrupt, queueClaims>>
    /\ Request("control", "queue", sent')
    /\ UNCHANGED <<state, final, interruptedOperation, queuedTexts, abortAttempt,
                   pendingMessages, process, stdout, child, interrupts, refreshes, history>>

BeginPrompt ==
    /\ MayBegin /\ sent < MaxMessages
    /\ Controllable
    /\ state \notin {"running", "interrupting"}
    /\ sent' = sent + 1
    /\ control' = Control("prompt")
    /\ final' = None
    /\ interruptedOperation' = FALSE
    /\ queuedAfterInterrupt' = NoClaims
    /\ queueClaims' = {}
    /\ Request("control", "prompt", sent')
    /\ lastAnswer' = None
    /\ interrupted' = {}
    /\ misclaimed' = FALSE
    /\ UNCHANGED <<state, queuedTexts, abortAttempt, pendingMessages, process, stdout,
                   child, interrupts, refreshes, lastUser, overtaken>>

BeginInterrupt ==
    /\ MayBegin /\ interrupts < MaxInterrupts
    /\ Controllable
    /\ state # "idle"
    /\ interrupts' = interrupts + 1
    /\ control' = [Control("interrupt") EXCEPT !.previous = state, !.spared = interrupted]
    /\ abortAttempt' = [live |-> TRUE, wasInterrupted |-> interruptedOperation,
                        final |-> final, queuedAfterInterrupt |-> queuedAfterInterrupt,
                        queueClaims |-> queueClaims, queuedWorkStarted |-> FALSE]
    /\ queuedAfterInterrupt' = NoClaims
    /\ queueClaims' = {}
    /\ state' = "interrupting"
    /\ final' = None
    /\ interruptedOperation' = TRUE
    /\ Request("control", "abort", None)
    /\ interrupted' = interrupted \cup 1..sent
    /\ UNCHANGED <<queuedTexts, pendingMessages, process, stdout, child, sent,
                   refreshes, lastUser, lastAnswer, misclaimed, overtaken>>

\* isSettled() of a child that neither failed nor was stopped
Settled == state = "idle" /\ pendingMessages = 0

\* On its own, or by a wait that found the child settled (`atRest`) or did not.
BeginRefresh ==
    /\ MayBegin /\ refreshes < MaxRefreshes
    /\ state \notin {"stopped", "failed"}
    /\ refreshes' = refreshes + 1
    /\ control' = [Control("get_state") EXCEPT !.atRest = Settled]
    /\ Request("control", "get_state", None)
    /\ UNCHANGED <<state, final, recovery, queuedTexts, abortAttempt, pendingMessages,
                   process, stdout, child, sent, interrupts, history>>

\* stop() is not queued behind the control operations.
Stop ==
    /\ NoContinuation
    /\ state # "stopped"
    /\ stoppedIntentionally' = TRUE
    /\ state' = "stopped"
    /\ RejectPending
    /\ TerminateProcess
    /\ UNCHANGED <<final, recovery, queuedTexts, abortAttempt, pendingMessages, control,
                   deaf, closed, alive, hasPid, serving, announced, answered, childQueue,
                   counters, history>>

\* The timer of a request fires, or its write fails: either way the
\* request leaves `pending` and its caller sees a failure.
RequestFails(slot) ==
    /\ NoContinuation
    /\ pending[slot]
    /\ pending' = [pending EXCEPT ![slot] = FALSE]
    /\ Settle(slot, Failure)
    /\ Forget({slot})
    /\ UNCHANGED <<state, final, recovery, queuedTexts, abortAttempt, pendingMessages,
                   control, process, alive, hasPid, serving, announced, answered, childQueue,
                   counters, history>>

-----------------------------------------------------------------------------
(* Continuations: what each awaiting function does with its outcome.       *)

Resuming(slot) == settled # <<>> /\ Head(settled).slot = slot
Outcome == Head(settled).outcome

ResumeStart ==
    /\ Resuming("start")
    /\ settled' = Tail(settled)
    /\ state' = IF Outcome.result = "ok" /\ state = "starting"
                THEN "running" ELSE state
    /\ UNCHANGED <<final, recovery, queuedTexts, abortAttempt, pendingMessages, pending,
                   control, process, stdin, stdout, child, counters, history>>

ResumePrompt ==
    /\ control.kind = "prompt" /\ Resuming("control")
    /\ settled' = Tail(settled)
    /\ control' = NoControl
    /\ state' = IF Outcome.result = "ok" THEN "running" ELSE state
    /\ UNCHANGED <<final, recovery, queuedTexts, abortAttempt, pendingMessages, pending,
                   process, stdin, stdout, child, counters, history>>

\* Only an acknowledged "handled" and an explicit rejection drop the claim.
ResumeQueueMessage ==
    /\ control.kind = "queue" /\ Resuming("control")
    /\ settled' = Tail(settled)
    /\ control' = NoControl
    /\ IF control.claimed /\ Outcome.result \in {"handled", "rejected"}
       THEN /\ queuedAfterInterrupt' = [queuedAfterInterrupt EXCEPT ![control.msg] = None]
            /\ queueClaims' = queueClaims \ {control.msg}
       ELSE UNCHANGED <<queuedAfterInterrupt, queueClaims>>
    /\ UNCHANGED <<state, final, interruptedOperation, queuedTexts, abortAttempt,
                   pendingMessages, pending, process, stdin, stdout, child, counters, history>>

\* mutant: forgets queued work that started during the rejected attempt
EligibleUnlessInterrupted == ~abortAttempt.wasInterrupted

AnswerEligible == abortAttempt.queuedWorkStarted \/ ~abortAttempt.wasInterrupted

\* mutant: settles the child although a run started meanwhile
StateAfterAbortUnchecked(result) == IF result = "ok" THEN "idle" ELSE control.previous

StateAfterAbort(result) ==
    IF state # "interrupting" THEN state
    ELSE IF result = "ok" THEN "idle" ELSE control.previous

\* finishInterrupt() on success, restoreInterrupt() otherwise
ResumeInterrupt ==
    /\ control.kind = "interrupt" /\ Resuming("control")
    /\ settled' = Tail(settled)
    /\ control' = NoControl
    /\ abortAttempt' = NoAttempt
    /\ LET result   == Outcome.result
           rejected == result = "rejected" /\ termination = "none"
       IN /\ state' = StateAfterAbort(result)
          /\ interruptedOperation' = IF rejected THEN ~AnswerEligible ELSE interruptedOperation
          /\ final' = IF rejected /\ AnswerEligible THEN abortAttempt.final ELSE final
          /\ IF rejected /\ ~AnswerEligible
             THEN /\ queuedAfterInterrupt' = abortAttempt.queuedAfterInterrupt
                  /\ queueClaims' = abortAttempt.queueClaims
             ELSE UNCHANGED <<queuedAfterInterrupt, queueClaims>>
          /\ interrupted' = IF rejected THEN control.spared ELSE interrupted
    /\ UNCHANGED <<queuedTexts, pendingMessages, pending, process, stdin, stdout, child,
                   counters, lastUser, lastAnswer, misclaimed, overtaken>>

\* refresh() asks for the state, then for the statistics.
ResumeGetState ==
    /\ control.kind = "get_state" /\ Resuming("control")
    /\ control' = [Control("get_session_stats") EXCEPT !.atRest = control.atRest]
    /\ IF Outcome.result = "ok"
       THEN /\ pendingMessages' = Outcome.count
            /\ state' = IF Outcome.streaming THEN "running"
                        ELSE IF state # "starting" THEN "idle" ELSE state
       ELSE UNCHANGED <<pendingMessages, state>>
    /\ IF alive
       THEN /\ stdin' = Append(stdin, [id |-> "control", command |-> "get_session_stats",
                                       msg |-> None])
            /\ pending' = [pending EXCEPT !["control"] = TRUE]
            /\ settled' = Tail(settled)
       ELSE /\ settled' = <<[slot |-> "control", outcome |-> Failure]>> \o Tail(settled)
            /\ UNCHANGED <<stdin, pending>>
    /\ UNCHANGED <<final, recovery, queuedTexts, abortAttempt, process, stdout, child,
                   counters, history>>

ResumeGetStats ==
    /\ control.kind = "get_session_stats" /\ Resuming("control")
    /\ settled' = Tail(settled)
    /\ control' = NoControl
    /\ UNCHANGED <<state, final, recovery, queuedTexts, abortAttempt, pendingMessages,
                   pending, process, stdin, stdout, child, counters, history>>

-----------------------------------------------------------------------------
(* handleLine() and handleEvent(): one line of stdout.                     *)

Line(type) == stdout # <<>> /\ Head(stdout).type = type
Consume == stdout' = Tail(stdout)

\* What handling a session event leaves alone.
EventFrame == UNCHANGED <<queuedTexts, rpc, control, stoppedIntentionally, deaf, closed,
                          stdin, child, counters, interrupted, misclaimed>>

HandleResponse ==
    /\ Line("response") /\ Consume
    /\ LET slot == Head(stdout).id
       IN IF slot = "dropped" THEN UNCHANGED rpc
          ELSE /\ pending' = [pending EXCEPT ![slot] = FALSE]
               /\ Settle(slot, Head(stdout).outcome)
    /\ UNCHANGED <<state, final, recovery, queuedTexts, abortAttempt, pendingMessages,
                   control, process, stdin, child, counters, history>>

\* A refresh has been told that the child rests and will write it.
RestReported ==
    control.kind = "get_state"
    /\ \E i \in DOMAIN settled : /\ settled[i].slot = "control"
                                /\ settled[i].outcome.result = "ok"
                                /\ ~settled[i].outcome.streaming

HandleAgentStart ==
    /\ Line("agent_start") /\ Consume
    /\ state' = "running"
    /\ final' = None
    /\ abortAttempt' = IF abortAttempt.live THEN [abortAttempt EXCEPT !.final = None]
                       ELSE abortAttempt
    /\ lastAnswer' = None
    /\ overtaken' = RestReported
    /\ UNCHANGED <<recovery, pendingMessages, termination, lastUser>> /\ EventFrame

HandleAgentSettled ==
    /\ Line("agent_settled") /\ Consume
    /\ state' = IF state \in {"failed", "stopped"} THEN state ELSE "idle"
    /\ overtaken' = FALSE
    /\ UNCHANGED <<final, recovery, abortAttempt, pendingMessages, termination,
                   lastUser, lastAnswer>>
    /\ EventFrame

\* recordQueueUpdate(): the n-th new entry goes to the n-th open claim.
Rank(set, m) == Cardinality({k \in set : k <= m})

Attribute(claims, map, texts) ==
    LET new == {i \in DOMAIN texts : texts[i] \notin ToSet(queuedTexts)}
        Taken(m) == {i \in new : Rank(new, i) = Rank(claims, m)}
        taking == {m \in claims : Taken(m) # {}}
    IN [claims |-> claims \ taking,
        map    |-> [m \in Messages |->
                      IF m \in taking THEN texts[CHOOSE i \in Taken(m) : TRUE] ELSE map[m]]]

\* What a rejected attempt to interrupt would leave covered, and the claims
\* it would leave open.
Covered == IF abortAttempt.live THEN control.spared ELSE interrupted
HeldClaims == IF abortAttempt.live THEN abortAttempt.queueClaims ELSE queueClaims

Misclaims(texts) ==
    LET given == Attribute(HeldClaims, NoClaims, texts).map
    IN \E m \in Messages : given[m] # None /\ Of(given[m]) \in Covered

HandleQueueUpdate ==
    /\ Line("queue_update") /\ Consume
    /\ LET texts == Head(stdout).texts
       IN /\ pendingMessages' = Len(texts)
          /\ queuedTexts' = texts
          /\ misclaimed' = (misclaimed \/ Misclaims(texts))
          /\ IF abortAttempt.live
             THEN LET a == Attribute(abortAttempt.queueClaims,
                                     abortAttempt.queuedAfterInterrupt, texts)
                  IN /\ abortAttempt' = [abortAttempt EXCEPT
                                           !.queueClaims = a.claims,
                                           !.queuedAfterInterrupt = a.map]
                     /\ UNCHANGED <<queueClaims, queuedAfterInterrupt>>
             ELSE LET a == Attribute(queueClaims, queuedAfterInterrupt, texts)
                  IN /\ queueClaims' = a.claims
                     /\ queuedAfterInterrupt' = a.map
                     /\ UNCHANGED abortAttempt
    /\ UNCHANGED <<state, final, interruptedOperation, rpc, control, process, stdin,
                   child, counters, interrupted, lastUser, lastAnswer, overtaken>>

HandleUserMessageStart ==
    /\ Line("user") /\ Consume
    /\ LET text == Head(stdout).text
       IN IF abortAttempt.live /\ text \in Queued(abortAttempt.queuedAfterInterrupt)
          THEN /\ abortAttempt' = [abortAttempt EXCEPT !.queuedWorkStarted = TRUE,
                                                       !.final = None]
               /\ UNCHANGED <<final, recovery>>
          ELSE /\ UNCHANGED abortAttempt
               /\ IF text \in Queued(queuedAfterInterrupt)
                  THEN /\ interruptedOperation' = FALSE
                       /\ queuedAfterInterrupt' = NoClaims
                       /\ queueClaims' = {}
                       /\ final' = None
                  ELSE UNCHANGED <<final, recovery>>
    /\ lastUser' = Head(stdout).msg
    /\ lastAnswer' = None
    /\ UNCHANGED <<state, pendingMessages, termination, overtaken>> /\ EventFrame

\* mutant: an interrupted operation's answer counts
AnswerOfAnyOperation(text) == text

\* mutant: working text leaves the previous answer in place
AnswerKeptByWorkingText(text) ==
    IF interruptedOperation THEN None ELSE IF text = None THEN final ELSE text

Answer(text) == IF interruptedOperation THEN None ELSE text

\* message_end of the assistant: a completed answer, working or aborted
\* text (neither counts as an answer), or an error that fails the child
HandleAssistantMessageEnd ==
    /\ Line("assistant") /\ Consume
    /\ LET text == Head(stdout).answer
       IN /\ final' = Answer(text)
          /\ abortAttempt' = IF abortAttempt.live THEN [abortAttempt EXCEPT !.final = text]
                             ELSE abortAttempt
          /\ lastAnswer' = text
    /\ IF Head(stdout).error THEN Fail /\ TerminateProcess
       ELSE UNCHANGED <<state, termination>>
    /\ UNCHANGED <<recovery, pendingMessages, lastUser, overtaken>> /\ EventFrame

\* A line above MAX_JSONL_LINE_BYTES: stdout is destroyed, the rest is lost.
RejectOversizedOutput ==
    /\ ~deaf /\ ~closed /\ alive
    /\ deaf' = TRUE
    /\ stdout' = <<>>
    /\ Fail
    /\ TerminateProcess
    /\ UNCHANGED <<final, recovery, queuedTexts, abortAttempt, pendingMessages, rpc, control,
                   stoppedIntentionally, closed, stdin, child, counters, history>>

\* The 'error' event of a process that could not be spawned: its pipes
\* carry nothing, and its 'close' follows.
ProcessError ==
    /\ ~hasPid /\ ~deaf /\ NoContinuation
    /\ deaf' = TRUE
    /\ Fail
    /\ UNCHANGED <<final, recovery, queuedTexts, abortAttempt, pendingMessages, rpc, control,
                   stoppedIntentionally, termination, closed, stdin, stdout, child, counters,
                   history>>

\* The 'close' event, after the process exited and its stdout was drained
Close ==
    /\ ~alive /\ stdout = <<>> /\ ~closed /\ NoContinuation
    /\ hasPid \/ deaf
    /\ closed' = TRUE
    /\ IF stoppedIntentionally
       THEN state' = "stopped" /\ UNCHANGED termination
       ELSE Fail /\ TerminateProcess
    /\ RejectPending
    /\ UNCHANGED <<final, recovery, queuedTexts, abortAttempt, pendingMessages, control,
                   stoppedIntentionally, deaf, alive, hasPid, serving, announced, answered, childQueue,
                   counters, history>>

\* terminationDone resolves (see the module Termination)
FinishTermination ==
    /\ termination = "pending"
    /\ termination' = "done"
    /\ UNCHANGED <<state, final, recovery, queuedTexts, abortAttempt, pendingMessages, rpc,
                   control, stoppedIntentionally, deaf, closed, stdin, stdout, child,
                   counters, history>>

-----------------------------------------------------------------------------
(* The child Pi process (external): it serves one agent run at a time and  *)
(* writes its lines in the order things happened to it.                    *)

ParentFrame == UNCHANGED <<state, final, recovery, queuedTexts, abortAttempt,
                           pendingMessages, rpc, control, process, hasPid, counters, history>>

Emit(lines) ==
    /\ Len(stdout) + Len(lines) <= MaxLines
    /\ stdout' = IF deaf THEN stdout ELSE stdout \o lines

Response(id, result) == [type |-> "response", id |-> id, outcome |-> Result(result)]
Event(type) == [type |-> type]
UserMessage(entry) == [type |-> "user", text |-> entry.text, msg |-> entry.msg]
Assistant(answer, error) == [type |-> "assistant", answer |-> answer, error |-> error]
QueueUpdate(queue) ==
    [type |-> "queue_update", texts |-> [i \in DOMAIN queue |-> queue[i].text]]

Streaming == serving # None

\* A prompt is checked first; one that finds the session busy is rejected.
ChildTakesPrompt ==
    /\ alive /\ ack = "none" /\ stdin # <<>> /\ Head(stdin).command = "prompt"
    /\ stdin' = Tail(stdin)
    /\ IF preflight = NoPreflight /\ ~Streaming
       THEN /\ preflight' = [id |-> Head(stdin).id, msg |-> Head(stdin).msg]
            /\ UNCHANGED stdout
       ELSE /\ Emit(<<Response(Head(stdin).id, "rejected")>>)
            /\ UNCHANGED preflight
    /\ UNCHANGED <<alive, serving, announced, answered, childQueue, ack>> /\ ParentFrame

\* The checked prompt starts a run, is consumed by an input handler without
\* one, or is rejected.
ChildAnswersPrompt ==
    /\ alive /\ preflight # NoPreflight
    /\ preflight' = NoPreflight
    /\ \/ /\ serving' = preflight.msg
          /\ Emit(<<Response(preflight.id, "ok")>>)
       \/ /\ UNCHANGED serving
          /\ \E result \in {"ok", "rejected"} : Emit(<<Response(preflight.id, result)>>)
    /\ UNCHANGED <<stdin, alive, announced, answered, childQueue, ack>> /\ ParentFrame

ChildAnnouncesRun ==
    /\ alive /\ Streaming /\ ~announced
    /\ announced' = TRUE
    /\ Emit(<<Event("agent_start"), UserMessage([msg |-> serving, text |-> serving])>>)
    /\ UNCHANGED <<stdin, alive, preflight, serving, answered, childQueue, ack>>
    /\ ParentFrame

\* steer and follow_up: queued under their text, handled, or rejected.
ChildTakesQueueRequest ==
    /\ alive /\ ack = "none" /\ stdin # <<>> /\ Head(stdin).command = "queue"
    /\ stdin' = Tail(stdin)
    /\ \/ \E text \in {Head(stdin).msg, Expanded(Head(stdin).msg)} :
            /\ childQueue' = Append(childQueue, [msg |-> Head(stdin).msg, text |-> text])
            /\ \/ /\ ack' = Head(stdin).id
                  /\ Emit(<<QueueUpdate(childQueue')>>)
               \/ /\ UNCHANGED ack
                  /\ Emit(<<Response(Head(stdin).id, "ok"), QueueUpdate(childQueue')>>)
       \/ \E result \in {"handled", "rejected"} :
            /\ Emit(<<Response(Head(stdin).id, result)>>)
            /\ UNCHANGED <<childQueue, ack>>
    /\ UNCHANGED <<alive, preflight, serving, announced, answered>> /\ ParentFrame

\* The acknowledgement may precede the announcement of the queued message,
\* or follow even its start.
ChildAcknowledges ==
    /\ alive /\ ack # "none"
    /\ ack' = "none"
    /\ Emit(<<Response(ack, "ok")>>)
    /\ UNCHANGED <<stdin, alive, preflight, serving, announced, answered, childQueue>> /\ ParentFrame

\* An acknowledged abort has ended the run, or found no run to end: the
\* start and final messages of a prompt still being checked, or of a run
\* about to start, can follow.
ChildTakesAbort ==
    /\ alive /\ ack = "none" /\ stdin # <<>> /\ Head(stdin).command = "abort"
    /\ stdin' = Tail(stdin)
    /\ \/ /\ announced
          /\ serving' = None
          /\ announced' = FALSE
          /\ answered' = FALSE
          /\ Emit(<<Assistant(None, FALSE), Event("agent_settled"),
                    Response(Head(stdin).id, "ok")>>)
       \/ /\ \/ ~announced /\ Emit(<<Response(Head(stdin).id, "ok")>>)
             \/ Emit(<<Response(Head(stdin).id, "rejected")>>)
          /\ UNCHANGED <<serving, announced, answered>>
    /\ UNCHANGED <<alive, preflight, childQueue, ack>> /\ ParentFrame

ChildReportsState ==
    /\ alive /\ ack = "none" /\ stdin # <<>>
    /\ Head(stdin).command \in {"get_state", "get_session_stats"}
    /\ stdin' = Tail(stdin)
    /\ Emit(<<[type |-> "response", id |-> Head(stdin).id,
               outcome |-> [result |-> "ok", streaming |-> Streaming,
                            count |-> Len(childQueue)]]>>)
    /\ UNCHANGED <<alive, preflight, serving, announced, answered, childQueue, ack>> /\ ParentFrame

ChildEndsMessage ==
    /\ alive /\ announced /\ ~answered
    /\ \/ answered' = TRUE  /\ Emit(<<Assistant(serving, FALSE)>>)
       \/ answered' = FALSE /\ Emit(<<Assistant(None, FALSE)>>)
       \/ answered' = TRUE  /\ Emit(<<Assistant(None, TRUE)>>)
    /\ UNCHANGED <<stdin, alive, preflight, serving, announced, childQueue, ack>> /\ ParentFrame

\* The run picks up the next queued message.
ChildDequeues ==
    /\ alive /\ announced /\ childQueue # <<>>
    /\ childQueue' = Tail(childQueue)
    /\ serving' = Head(childQueue).msg
    /\ answered' = FALSE
    /\ Emit(<<QueueUpdate(Tail(childQueue)), UserMessage(Head(childQueue))>>)
    /\ UNCHANGED <<stdin, alive, preflight, announced, ack>> /\ ParentFrame

ChildSettles ==
    /\ alive /\ answered /\ childQueue = <<>>
    /\ serving' = None
    /\ announced' = FALSE
    /\ answered' = FALSE
    /\ Emit(<<Event("agent_settled")>>)
    /\ UNCHANGED <<stdin, alive, preflight, childQueue, ack>> /\ ParentFrame

\* A failed model call is retried: a new agent_start for the same message.
ChildRetries ==
    /\ alive /\ answered
    /\ answered' = FALSE
    /\ Emit(<<Event("agent_start")>>)
    /\ UNCHANGED <<stdin, alive, preflight, serving, announced, childQueue, ack>> /\ ParentFrame

\* The process exits, crashes or is killed.
ChildExits ==
    /\ alive
    /\ alive' = FALSE
    /\ UNCHANGED <<stdin, stdout, preflight, serving, announced, answered, childQueue, ack>>
    /\ ParentFrame

-----------------------------------------------------------------------------
(* The constructor, and start() up to its first await.                     *)
Init ==
    /\ state = "starting"
    /\ final = None
    /\ interruptedOperation = FALSE
    /\ queuedAfterInterrupt = NoClaims
    /\ queueClaims = {}
    /\ queuedTexts = <<>>
    /\ abortAttempt = NoAttempt
    /\ pendingMessages = 0
    /\ pending = [s \in Slots |-> s = "start"]
    /\ settled = <<>>
    /\ control = NoControl
    /\ stoppedIntentionally = FALSE
    /\ termination = "none"
    /\ deaf = FALSE
    /\ closed = FALSE
    /\ stdin = <<[id |-> "start", command |-> "prompt", msg |-> 1]>>
    /\ stdout = <<>>
    /\ hasPid \in BOOLEAN
    /\ alive = hasPid
    /\ preflight = NoPreflight
    /\ serving = None
    /\ announced = FALSE
    /\ answered = FALSE
    /\ childQueue = <<>>
    /\ ack = "none"
    /\ sent = 1
    /\ interrupts = 0
    /\ refreshes = 0
    /\ interrupted = {}
    /\ lastUser = None
    /\ lastAnswer = None
    /\ misclaimed = FALSE
    /\ overtaken = FALSE

CallerNext == BeginQueueMessage \/ BeginPrompt \/ BeginInterrupt \/ BeginRefresh \/ Stop

Continuations == ResumeStart \/ ResumePrompt \/ ResumeQueueMessage \/ ResumeInterrupt
                 \/ ResumeGetState \/ ResumeGetStats

HandleLine == HandleResponse \/ HandleAgentStart \/ HandleAgentSettled \/ HandleQueueUpdate
              \/ HandleUserMessageStart \/ HandleAssistantMessageEnd

ProcessEvents == RejectOversizedOutput \/ ProcessError \/ Close \/ FinishTermination

ChildNext == ChildTakesPrompt \/ ChildAnswersPrompt \/ ChildAnnouncesRun \/ ChildTakesQueueRequest
             \/ ChildAcknowledges \/ ChildTakesAbort \/ ChildReportsState
             \/ ChildEndsMessage \/ ChildDequeues \/ ChildSettles \/ ChildRetries
             \/ ChildExits

Next == \/ CallerNext
        \/ Continuations
        \/ HandleLine
        \/ ProcessEvents
        \/ \E slot \in Slots : RequestFails(slot)
        \/ ChildNext

(* The event loop runs: promise continuations are drained, buffered lines   *)
(* are parsed and every request has a timer.  Nothing is assumed of the     *)
(* callers, and nothing of the child but that its process, once dead, has   *)
(* its 'close' reported.                                                    *)
Fairness ==
    /\ WF_vars(Continuations)
    /\ WF_vars(HandleLine)
    /\ \A slot \in Slots : WF_vars(RequestFails(slot))
    /\ WF_vars(Close)

Spec == Init /\ [][Next]_vars /\ Fairness

-----------------------------------------------------------------------------
(* The values of the variables.                                            *)
Numbers  == 0..MaxMessages
Texts    == 1..2 * MaxMessages
Ids      == Slots \cup {"dropped"}
States   == {"starting", "running", "interrupting", "idle", "failed", "stopped"}
Kinds    == {"none", "prompt", "queue", "interrupt", "get_state", "get_session_stats"}
ClaimMaps == [Messages -> Texts \cup {None}]
Outcomes == [result : {"ok", "handled", "rejected", "failure"},
             streaming : BOOLEAN, count : Nat]
Settlements == [slot : Slots, outcome : Outcomes]
Requests == [id : Ids, command : {"prompt"}, msg : Messages]
            \cup [id : Ids \ {"start"}, command : {"queue"}, msg : Messages]
            \cup [id : Ids \ {"start"}, command : {"abort", "get_state", "get_session_stats"},
                  msg : {None}]
Entries  == [msg : Messages, text : Texts]
Lines    == [type : {"response"}, id : Ids, outcome : Outcomes]
            \cup [type : {"agent_start", "agent_settled"}]
            \cup [type : {"user"}, text : Texts, msg : Messages]
            \cup [type : {"assistant"}, answer : Numbers, error : BOOLEAN]
            \cup [type : {"queue_update"}, texts : Seq(Texts)]
Attempts == [live : BOOLEAN, wasInterrupted : BOOLEAN, final : Numbers,
             queuedAfterInterrupt : ClaimMaps, queueClaims : SUBSET Messages,
             queuedWorkStarted : BOOLEAN]
Controls == [kind : Kinds, msg : Numbers, claimed : BOOLEAN,
             previous : States \cup {"none"}, spared : SUBSET Messages, atRest : BOOLEAN]

HandleTypes ==
    /\ state \in States /\ final \in Numbers /\ interruptedOperation \in BOOLEAN
    /\ queuedAfterInterrupt \in ClaimMaps /\ queueClaims \in SUBSET Messages
    /\ queuedTexts \in Seq(Texts) /\ abortAttempt \in Attempts
    /\ pendingMessages \in Nat /\ control \in Controls
    /\ control.kind = "interrupt" => control.previous \in States

RpcTypes == /\ pending \in [Slots -> BOOLEAN]
            /\ settled \in Seq(Settlements)

ProcessTypes ==
    /\ stoppedIntentionally \in BOOLEAN /\ termination \in {"none", "pending", "done"}
    /\ deaf \in BOOLEAN /\ closed \in BOOLEAN /\ alive \in BOOLEAN /\ hasPid \in BOOLEAN

PipeTypes == stdin \in Seq(Requests) /\ stdout \in Seq(Lines)

ChildTypes ==
    /\ preflight \in [id : Ids, msg : Messages] \cup {NoPreflight}
    /\ serving \in Numbers /\ announced \in BOOLEAN /\ answered \in BOOLEAN
    /\ childQueue \in Seq(Entries) /\ ack \in Ids \cup {"none"}

HistoryTypes ==
    /\ sent \in Messages /\ interrupts \in Nat /\ refreshes \in Nat
    /\ interrupted \in SUBSET Messages /\ lastUser \in Numbers /\ lastAnswer \in Numbers
    /\ misclaimed \in BOOLEAN /\ overtaken \in BOOLEAN

TypeOK == HandleTypes /\ RpcTypes /\ ProcessTypes /\ PipeTypes /\ ChildTypes /\ HistoryTypes

-----------------------------------------------------------------------------
(* Properties.                                                             *)

\* waitSnapshot(): the answer a settled wait returns, None for metadata only
Exposed == IF Settled THEN final ELSE None

\* README "interrupted work ... [does] not count", "an unknown outcome ...
\* keeps it hidden": no answer to a message sent before an interrupt is ever
\* the final one, unless that interrupt was explicitly rejected or, its outcome
\* being unknown, a new prompt was sent.
InterruptedAnswerHidden == final # None => final \notin interrupted

\* recordQueueUpdate() is the only way it is shown after all: by giving an
\* entry of interrupted work to the claim of a later request.
HiddenUnlessMisclaimed == misclaimed \/ InterruptedAnswerHidden

\* README "an earlier operation's answer [does] not count": what a settled
\* wait returns answers the last message the child started.
ExposedAnswerIsCurrent == Exposed # None => Exposed = lastUser

\* The same of what it really returns, once the refresh it makes has ended.
WaitReturns == /\ control.kind = "get_session_stats" /\ control.atRest /\ control' = NoControl
               /\ termination = "none"
ReturnedAnswerIsCurrent == [][WaitReturns => ExposedAnswerIsCurrent']_vars

\* A refresh that writes a report of rest over the start of a run is the
\* only way another answer is shown.
CurrentUnlessOvertaken == overtaken \/ ExposedAnswerIsCurrent

\* Nothing is in flight between the parent and a live, resting child.
Quiescent ==
    /\ alive /\ ~deaf /\ stdin = <<>> /\ stdout = <<>> /\ ack = "none"
    /\ preflight = NoPreflight /\ serving = None
    /\ control = NoControl /\ NoContinuation /\ Awaited = {}

\* README "an explicit abort rejection restores the completed answer" and
\* "leaves that queued work recoverable": once everything is at rest, a
\* completed answer no interrupt covers is not lost.
CompletedAnswerVisible ==
    (Quiescent /\ lastAnswer # None /\ lastAnswer \notin interrupted) => final = lastAnswer

\* waitForIdle() reports a child as settled while it works only when a
\* refresh wrote a report of rest over the start of the run: otherwise, when
\* all it wrote was handled and it is in the middle of a run, it is not idle.
WorkingChildNotIdle ==
    (announced /\ ~overtaken /\ stdout = <<>> /\ ~deaf /\ NoContinuation) => state # "idle"

\* The serialized control queue never wedges: whatever the child does, a
\* begun operation ends, and so the operation behind it gets its turn.
ControlCompletes == []<>(control = NoControl)
=============================================================================
