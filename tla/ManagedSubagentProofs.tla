------------------------ MODULE ManagedSubagentProofs ------------------------
(***************************************************************************)
(* What the handle promises of the answer it shows, for any number of      *)
(* messages, interrupts and lines in the pipe.                             *)
(*                                                                         *)
(*  TypeOK     the values of the variables                                 *)
(*  ControlInv the request of the serialized control operation is in one   *)
(*             place, from its line on stdin to its continuation           *)
(*  HandleInv  the run of the child, its process, the attempt to interrupt *)
(*  SentInv    whatever is under way has been sent                         *)
(*  SpeechInv  the message the parent will take for the one being answered *)
(*             after each line of stdout; an answer is to that message     *)
(*  MoodInv    what the parent will believe of the child's rest and of its *)
(*             answer after each line                                      *)
(*  FlowInv    messages sent before an interrupt start before later ones   *)
(*  GuardInv   an answer counts again only once the message being answered *)
(*             is one that no standing interrupt covers                    *)
(*                                                                         *)
(* SpeechInv, MoodInv and FlowInv speak of lines the parent has not read   *)
(* yet: a reader that starts from what the parent knows now can read all   *)
(* of stdout.  The first six are IInv, which is inductive; HiddenInv adds  *)
(* what hides an interrupted answer.                                       *)
(***************************************************************************)
EXTENDS ManagedSubagent, TLAPS

-----------------------------------------------------------------------------
(* Types.                                                                  *)

LEMMA Kickoff ==
  /\ 1 \in Messages /\ None \notin Messages
  /\ None \in Numbers /\ \A m \in Messages : m \in Numbers
  BY BoundsAssumption DEF Messages, Numbers, None

\* A function on 1..n is a sequence.
LEMMA IsSeq ==
  ASSUME NEW S, NEW n \in Nat, NEW f \in [1..n -> S]
  PROVE  f \in Seq(S) /\ Len(f) = n
  OBVIOUS

LEMMA NeutralTypes ==
    /\ NoClaims \in ClaimMaps /\ NoAttempt \in Attempts
    /\ NoControl \in Controls /\ NoControl.kind = "none"
    /\ Failure \in Outcomes
    /\ \A kind \in Kinds : Control(kind) \in Controls /\ Control(kind).kind = kind
    /\ \A kind \in Kinds, rest \in BOOLEAN :
          LET asked == [Control(kind) EXCEPT !.atRest = rest]
          IN asked \in Controls /\ asked.kind = kind /\ asked.spared = {} /\ asked.msg = None
    /\ \A r \in {"ok", "handled", "rejected", "failure"} : Result(r) \in Outcomes
<1>1. NoClaims \in ClaimMaps
  BY DEF NoClaims, ClaimMaps
<1>2. NoAttempt \in Attempts
  BY <1>1, Kickoff, BoundsAssumption DEF NoAttempt, Attempts, Numbers, None
<1>3. NoControl \in Controls /\ NoControl.kind = "none"
  BY BoundsAssumption DEF NoControl, Controls, Numbers, Kinds, None
<1>4. \A kind \in Kinds : Control(kind) \in Controls /\ Control(kind).kind = kind
  BY <1>3 DEF Control, Controls, NoControl
<1>5. \A r \in {"ok", "handled", "rejected", "failure"} : Result(r) \in Outcomes
  BY DEF Result, Outcomes
<1>6. ASSUME NEW kind \in Kinds, NEW rest \in BOOLEAN
      PROVE  LET asked == [Control(kind) EXCEPT !.atRest = rest]
             IN asked \in Controls /\ asked.kind = kind /\ asked.spared = {} /\ asked.msg = None
  BY <1>3 DEF Control, Controls, NoControl
<1> QED
  BY <1>1, <1>2, <1>3, <1>4, <1>5, <1>6 DEF Failure

LEMMA SettleTypes ==
  ASSUME RpcTypes, NEW slot \in Slots, NEW outcome \in Outcomes, Settle(slot, outcome)
  PROVE  settled' \in Seq(Settlements)
<1>1. [slot |-> slot, outcome |-> outcome] \in Settlements
  BY DEF Settlements
<1> QED
  BY <1>1 DEF Settle, RpcTypes

LEMMA RequestTypes ==
  ASSUME PipeTypes, RpcTypes, NEW command, NEW m,
         [id |-> "control", command |-> command, msg |-> m] \in Requests,
         Request("control", command, m)
  PROVE  stdin' \in Seq(Requests) /\ RpcTypes'
<1>1. "control" \in Slots
  BY DEF Slots
<1>2. CASE alive
  <2>2. stdin' = Append(stdin, [id |-> "control", command |-> command, msg |-> m])
        /\ pending' = [pending EXCEPT !["control"] = TRUE] /\ settled' = settled
    BY <1>2 DEF Request
  <2>3. stdin' \in Seq(Requests)
    BY <2>2 DEF PipeTypes
  <2> QED
    BY <2>2, <2>3 DEF RpcTypes
<1>3. CASE ~alive
  BY <1>1, <1>3, NeutralTypes, SettleTypes DEF Request, RpcTypes, PipeTypes
<1> QED
  BY <1>2, <1>3

LEMMA ForgetTypes ==
  ASSUME PipeTypes, ChildTypes, NEW slots \in SUBSET Slots, Forget(slots)
  PROVE  /\ PipeTypes' /\ Len(stdin') = Len(stdin) /\ Len(stdout') = Len(stdout)
         /\ ack' \in Ids \cup {"none"}
         /\ preflight' \in [id : Ids, msg : Messages] \cup {NoPreflight}
<1>1. ASSUME NEW l \in Requests PROVE [l EXCEPT !.id = "dropped"] \in Requests
  <2>1. CASE l \in [id : Ids, command : {"prompt"}, msg : Messages]
    BY <2>1 DEF Requests, Ids
  <2>2. CASE l \in [id : Ids \ {"start"}, command : {"queue"}, msg : Messages]
    BY <2>2 DEF Requests, Ids, Slots
  <2>3. CASE l \in [id : Ids \ {"start"}, command : {"abort", "get_state", "get_session_stats"},
                    msg : {None}]
    BY <2>3 DEF Requests, Ids, Slots
  <2> QED
    BY <2>1, <2>2, <2>3 DEF Requests
<1>2. ASSUME NEW l \in Lines, l.type = "response" PROVE [l EXCEPT !.id = "dropped"] \in Lines
  BY DEF Lines, Ids
<1>3. stdin' \in Seq(Requests) /\ Len(stdin') = Len(stdin)
  <2>1. stdin' \in [1..Len(stdin) -> Requests]
    BY <1>1 DEF Forget, PipeTypes
  <2> QED
    BY <2>1, IsSeq DEF PipeTypes
<1>4. stdout' \in Seq(Lines) /\ Len(stdout') = Len(stdout)
  <2>1. stdout' \in [1..Len(stdout) -> Lines]
    BY <1>2 DEF Forget, PipeTypes
  <2> QED
    BY <2>1, IsSeq DEF PipeTypes
<1>5. ack' \in Ids \cup {"none"}
  BY DEF Forget, Ids, ChildTypes
<1>6. ASSUME NEW p \in [id : Ids, msg : Messages]
      PROVE  [p EXCEPT !.id = "dropped"] \in [id : Ids, msg : Messages]
  BY DEF Ids
<1>7. NoPreflight.id \notin slots
  BY DEF NoPreflight, Slots
<1> QED
  BY <1>3, <1>4, <1>5, <1>6, <1>7 DEF Forget, PipeTypes, ChildTypes

LEMMA RejectPendingTypes ==
  ASSUME PipeTypes, RpcTypes, ChildTypes, RejectPending
  PROVE  /\ PipeTypes' /\ RpcTypes' /\ ack' \in Ids \cup {"none"}
         /\ preflight' \in [id : Ids, msg : Messages] \cup {NoPreflight}
<1>1. Awaited \in SUBSET Slots
  BY DEF Awaited
<1>2. ASSUME NEW slot \in Slots
      PROVE  Rejected(slot) \in Seq(Settlements)
  <2>1. [slot |-> slot, outcome |-> Failure] \in Settlements
    BY NeutralTypes DEF Settlements
  <2>2. CASE pending[slot]
    <3>1. Rejected(slot) = <<[slot |-> slot, outcome |-> Failure]>>
      BY <2>2 DEF Rejected
    <3> QED
      BY <2>1, <3>1
  <2>3. CASE ~pending[slot]
    BY <2>3 DEF Rejected
  <2> QED
    BY <2>2, <2>3
<1>3. settled' \in Seq(Settlements)
  BY <1>2 DEF RejectPending, RpcTypes, Slots
<1>4. pending' \in [Slots -> BOOLEAN]
  BY DEF RejectPending
<1> QED
  BY <1>1, <1>3, <1>4, ForgetTypes DEF RejectPending, RpcTypes

\* What the child writes are lines.
LEMMA LineTypes ==
  /\ \A id \in Ids : \A r \in {"ok", "handled", "rejected"} : Response(id, r) \in Lines
  /\ Event("agent_start") \in Lines /\ Event("agent_settled") \in Lines
  /\ \A e \in Entries : UserMessage(e) \in Lines
  /\ \A a \in Numbers : \A error \in BOOLEAN : Assistant(a, error) \in Lines
  /\ \A q \in Seq(Entries) : QueueUpdate(q) \in Lines
<1>1. ASSUME NEW id \in Ids, NEW r \in {"ok", "handled", "rejected"}
      PROVE  Response(id, r) \in Lines
  BY DEF Response, Lines, Result, Outcomes
<1>2. Event("agent_start") \in Lines /\ Event("agent_settled") \in Lines
  BY DEF Event, Lines
<1>3. ASSUME NEW e \in Entries PROVE UserMessage(e) \in Lines
  BY DEF UserMessage, Lines, Entries
<1>4. ASSUME NEW a \in Numbers, NEW error \in BOOLEAN PROVE Assistant(a, error) \in Lines
  BY DEF Assistant, Lines
<1>5. ASSUME NEW q \in Seq(Entries) PROVE QueueUpdate(q) \in Lines
  <2>1. [i \in DOMAIN q |-> q[i].text] \in Seq(Texts)
    <3>1. ASSUME NEW i \in 1..Len(q) PROVE q[i].text \in Texts
      <4>1. q[i] \in Entries
        OBVIOUS
      <4> QED
        BY <4>1 DEF Entries
    <3>2. DOMAIN q = 1..Len(q)
      OBVIOUS
    <3>3. [i \in DOMAIN q |-> q[i].text] \in [1..Len(q) -> Texts]
      BY <3>1, <3>2
    <3> QED
      BY <3>3, IsSeq
  <2> QED
    BY <2>1 DEF QueueUpdate, Lines
<1> QED
  BY <1>1, <1>2, <1>3, <1>4, <1>5

\* The fields of a line, by its type.
LEMMA LineFields ==
  ASSUME NEW l \in Lines
  PROVE  /\ l.type = "response" => l.id \in Ids /\ l.outcome \in Outcomes
         /\ l.type = "user" => l.text \in Texts /\ l.msg \in Messages
         /\ l.type = "assistant" => l.answer \in Numbers /\ l.error \in BOOLEAN
         /\ l.type = "queue_update" => l.texts \in Seq(Texts)
         /\ l.type \in {"response", "agent_start", "agent_settled", "user", "assistant", "queue_update"}
  BY DEF Lines

LEMMA RequestFields ==
  ASSUME NEW l \in Requests
  PROVE  /\ l.id \in Ids /\ (l.id = "start" => l.command = "prompt")
         /\ \/ l.command \in {"prompt", "queue"} /\ l.msg \in Messages
            \/ l.command \in {"abort", "get_state", "get_session_stats"} /\ l.msg = None
  BY DEF Requests

-----------------------------------------------------------------------------
(* Every step keeps the types.                                             *)

USE DEF recovery, process, child, counters, history, rpc

LEMMA ResumeTypes ==
  ASSUME TypeOK, Resuming("start") \/ Resuming("control")
  PROVE  /\ Tail(settled) \in Seq(Settlements)
         /\ Outcome \in Outcomes
         /\ settled # <<>> /\ settled[1].slot \in Slots
<1>1. settled \in Seq(Settlements) /\ settled # <<>>
  BY DEF TypeOK, RpcTypes, Resuming
<1>2. Head(settled) = settled[1] /\ settled[1] \in Settlements
  BY <1>1
<1> QED
  BY <1>1, <1>2 DEF Outcome, Settlements

LEMMA LineHeard ==
  ASSUME TypeOK, stdout # <<>>
  PROVE  Head(stdout) = stdout[1] /\ stdout[1] \in Lines /\ Tail(stdout) \in Seq(Lines)
  BY DEF TypeOK, PipeTypes

LEMMA EventTypes ==
  ASSUME TypeOK, NEW type, Line(type), Consume, EventFrame, termination' \in {"none", "pending", "done"}
  PROVE  RpcTypes' /\ ProcessTypes' /\ PipeTypes' /\ ChildTypes'
  BY LineHeard DEF Line, Consume, EventFrame, TypeOK, RpcTypes, ProcessTypes, PipeTypes, ChildTypes

LEMMA TypesResumeQueueMessage == ASSUME TypeOK, ResumeQueueMessage PROVE TypeOK'
<1>1. RpcTypes'
  BY ResumeTypes DEF ResumeQueueMessage, TypeOK, RpcTypes
<1>2. HandleTypes'
  <2>1. queuedAfterInterrupt' \in ClaimMaps
    BY DEF ResumeQueueMessage, TypeOK, HandleTypes, ClaimMaps
  <2> QED
    BY <2>1, NeutralTypes DEF ResumeQueueMessage, TypeOK, HandleTypes, NoControl
<1> QED
  BY <1>1, <1>2 DEF ResumeQueueMessage, TypeOK, ProcessTypes, PipeTypes, ChildTypes, HistoryTypes

LEMMA TypesResumeInterrupt == ASSUME TypeOK, ResumeInterrupt PROVE TypeOK'
<1>1. RpcTypes'
  BY ResumeTypes DEF ResumeInterrupt, TypeOK, RpcTypes
<1>2. abortAttempt.final \in Numbers /\ abortAttempt.queuedAfterInterrupt \in ClaimMaps
      /\ abortAttempt.queueClaims \in SUBSET Messages /\ AnswerEligible \in BOOLEAN
  BY DEF TypeOK, HandleTypes, Attempts, AnswerEligible
<1>3. control.spared \in SUBSET Messages
  BY DEF TypeOK, HandleTypes, Controls
<1>4. state' \in States
  BY DEF ResumeInterrupt, StateAfterAbort, TypeOK, HandleTypes, States
<1>5. HandleTypes'
  BY <1>2, <1>4, NeutralTypes DEF ResumeInterrupt, TypeOK, HandleTypes, NoControl
<1> QED
  BY <1>1, <1>3, <1>5 DEF ResumeInterrupt, TypeOK, ProcessTypes, PipeTypes, ChildTypes, HistoryTypes

LEMMA TypesOtherResumes ==
  ASSUME TypeOK, ResumeStart \/ ResumePrompt \/ ResumeGetStats
  PROVE  TypeOK'
<1>1. RpcTypes'
  BY ResumeTypes DEF ResumeStart, ResumePrompt, ResumeGetStats, TypeOK, RpcTypes
<1>2. HandleTypes'
  BY NeutralTypes DEF ResumeStart, ResumePrompt, ResumeGetStats, TypeOK, HandleTypes, States
<1> QED
  BY <1>1, <1>2 DEF ResumeStart, ResumePrompt, ResumeGetStats, TypeOK, ProcessTypes, PipeTypes,
                    ChildTypes, HistoryTypes

LEMMA TypesResumeGetState == ASSUME TypeOK, ResumeGetState PROVE TypeOK'
<1>1. stdin' \in Seq(Requests)
  <2>1. [id |-> "control", command |-> "get_session_stats", msg |-> None] \in Requests
    BY Kickoff DEF Requests, Ids, Slots
  <2>2. stdin \in Seq(Requests)
    BY DEF TypeOK, PipeTypes
  <2>3. \/ stdin' = Append(stdin, [id |-> "control", command |-> "get_session_stats", msg |-> None])
        \/ stdin' = stdin
    BY DEF ResumeGetState
  <2> QED
    BY <2>1, <2>2, <2>3
<1>2. RpcTypes'
  <2>1. pending' \in [Slots -> BOOLEAN]
    BY DEF ResumeGetState, TypeOK, RpcTypes
  <2>2. <<[slot |-> "control", outcome |-> Failure]>> \in Seq(Settlements)
    <3>1. [slot |-> "control", outcome |-> Failure] \in Settlements
      BY NeutralTypes DEF Settlements, Slots
    <3> QED
      BY <3>1
  <2>3. Tail(settled) \in Seq(Settlements)
    BY ResumeTypes DEF ResumeGetState
  <2>4. \/ settled' = Tail(settled)
        \/ settled' = <<[slot |-> "control", outcome |-> Failure]>> \o Tail(settled)
    BY DEF ResumeGetState
  <2>5. settled' \in Seq(Settlements)
    BY <2>2, <2>3, <2>4
  <2> QED
    BY <2>1, <2>5 DEF RpcTypes
<1>3. HandleTypes'
  <2>1. state' \in States /\ pendingMessages' \in Nat
    BY ResumeTypes DEF ResumeGetState, TypeOK, HandleTypes, States, Outcomes
  <2>2. control' \in Controls /\ control'.kind # "interrupt"
    <3>1. control.atRest \in BOOLEAN
      BY DEF TypeOK, HandleTypes, Controls
    <3> QED
      BY <3>1, NeutralTypes DEF ResumeGetState, Kinds
  <2> QED
    BY <2>1, <2>2 DEF ResumeGetState, TypeOK, HandleTypes
<1> QED
  BY <1>1, <1>2, <1>3 DEF ResumeGetState, TypeOK, ProcessTypes, PipeTypes, ChildTypes,
                          HistoryTypes

LEMMA TypesBegin ==
  ASSUME TypeOK, BeginQueueMessage \/ BeginPrompt \/ BeginInterrupt \/ BeginRefresh
  PROVE  TypeOK'
<1> USE Kickoff
<1>1. sent' \in Messages /\ interrupts' \in Nat /\ refreshes' \in Nat
  BY BoundsAssumption DEF BeginQueueMessage, BeginPrompt, BeginInterrupt, BeginRefresh, TypeOK,
         HistoryTypes, Messages
<1>2. interrupted' \in SUBSET Messages
  BY <1>1, BoundsAssumption DEF BeginQueueMessage, BeginPrompt, BeginInterrupt, BeginRefresh,
         TypeOK, HistoryTypes, Messages
<1>3. HistoryTypes'
  BY <1>1, <1>2 DEF BeginQueueMessage, BeginPrompt, BeginInterrupt, BeginRefresh, TypeOK,
         HistoryTypes
<1>4. stdin' \in Seq(Requests) /\ RpcTypes'
  <2>2. CASE BeginQueueMessage
    <3>1. Request("control", "queue", sent')
      BY <2>2 DEF BeginQueueMessage
    <3> QED
      BY <1>1, <3>1, RequestTypes DEF TypeOK, Requests, Ids, Slots
  <2>3. CASE BeginPrompt
    <3>1. Request("control", "prompt", sent')
      BY <2>3 DEF BeginPrompt
    <3> QED
      BY <1>1, <3>1, RequestTypes DEF TypeOK, Requests, Ids, Slots
  <2>4. CASE BeginInterrupt
    BY <2>4, RequestTypes DEF BeginInterrupt, TypeOK, Requests, Ids, Slots
  <2>5. CASE BeginRefresh
    BY <2>5, RequestTypes DEF BeginRefresh, TypeOK, Requests, Ids, Slots
  <2> QED
    BY <2>2, <2>3, <2>4, <2>5
<1>5. control' \in Controls /\ (control'.kind = "interrupt" => control'.previous \in States)
  <2>1. CASE BeginQueueMessage
    <3>1. interruptedOperation \in BOOLEAN
      BY DEF TypeOK, HandleTypes
    <3>2. control' = [kind |-> "queue", msg |-> sent', claimed |-> interruptedOperation,
                      previous |-> "none", spared |-> {}, atRest |-> FALSE]
      BY <2>1 DEF BeginQueueMessage, Control, NoControl
    <3> QED
      BY <1>1, <3>1, <3>2 DEF Controls, Kinds
  <2>2. CASE BeginPrompt \/ BeginRefresh
    BY <2>2, NeutralTypes DEF BeginPrompt, BeginRefresh, Settled, Kinds
  <2>3. CASE BeginInterrupt
    <3>1. state \in States /\ interrupted \in SUBSET Messages
      BY DEF TypeOK, HandleTypes, HistoryTypes
    <3>2. control' = [kind |-> "interrupt", msg |-> None, claimed |-> FALSE,
                      previous |-> state, spared |-> interrupted, atRest |-> FALSE]
      BY <2>3 DEF BeginInterrupt, Control, NoControl
    <3> QED
      BY <3>1, <3>2 DEF Controls, Kinds
  <2> QED
    BY <2>1, <2>2, <2>3
<1>6. queuedAfterInterrupt' \in ClaimMaps /\ queueClaims' \in SUBSET Messages
  <2>1. CASE BeginQueueMessage
    <3>1. sent' \in Texts
      BY <1>1, BoundsAssumption DEF Messages, Texts
    <3> QED
      BY <2>1, <1>1, <3>1 DEF BeginQueueMessage, TypeOK, HandleTypes, ClaimMaps
  <2> QED
    BY <2>1, NeutralTypes DEF BeginPrompt, BeginInterrupt, BeginRefresh, TypeOK, HandleTypes
<1>7. abortAttempt' \in Attempts
  <2>1. CASE BeginInterrupt
    BY <2>1 DEF BeginInterrupt, TypeOK, HandleTypes, Attempts
  <2> QED
    BY <2>1 DEF BeginQueueMessage, BeginPrompt, BeginRefresh, TypeOK, HandleTypes
<1>8. HandleTypes'
  BY <1>5, <1>6, <1>7 DEF BeginQueueMessage, BeginPrompt, BeginInterrupt, BeginRefresh, TypeOK,
                          HandleTypes, States
<1>9. ProcessTypes' /\ stdout' \in Seq(Lines) /\ ChildTypes'
  BY DEF BeginQueueMessage, BeginPrompt, BeginInterrupt, BeginRefresh, TypeOK, ProcessTypes,
         PipeTypes, ChildTypes
<1> QED
  BY <1>3, <1>4, <1>8, <1>9 DEF TypeOK, PipeTypes

LEMMA TypesProcess ==
  ASSUME TypeOK,
         \/ Stop \/ Close \/ RejectOversizedOutput \/ ProcessError \/ FinishTermination
         \/ \E slot \in Slots : RequestFails(slot)
  PROVE  TypeOK'
<1>1. CASE Stop \/ Close
  <2>1. PipeTypes' /\ RpcTypes' /\ ack' \in Ids \cup {"none"}
        /\ preflight' \in [id : Ids, msg : Messages] \cup {NoPreflight}
    BY <1>1, RejectPendingTypes DEF Stop, Close, TypeOK
  <2>2. HandleTypes' /\ HistoryTypes'
    BY <1>1 DEF Stop, Close, TypeOK, HandleTypes, HistoryTypes, Fail, States
  <2>3. ProcessTypes'
    BY <1>1 DEF Stop, Close, TypeOK, ProcessTypes, TerminateProcess
  <2> QED
    BY <1>1, <2>1, <2>2, <2>3 DEF Stop, Close, TypeOK, ChildTypes
<1>2. CASE RejectOversizedOutput \/ ProcessError \/ FinishTermination
  <2>1. HandleTypes' /\ ProcessTypes'
    BY <1>2 DEF RejectOversizedOutput, ProcessError, FinishTermination, TypeOK, HandleTypes,
                ProcessTypes, TerminateProcess, Fail, States
  <2>2. stdout' \in Seq(Lines)
    <3>1. stdout' \in {<<>>, stdout}
      BY <1>2 DEF RejectOversizedOutput, ProcessError, FinishTermination
    <3>2. stdout \in Seq(Lines) /\ <<>> \in Seq(Lines)
      BY DEF TypeOK, PipeTypes
    <3> QED
      BY <3>1, <3>2
  <2> QED
    BY <1>2, <2>1, <2>2 DEF RejectOversizedOutput, ProcessError, FinishTermination, TypeOK,
                            PipeTypes, RpcTypes, ChildTypes, HistoryTypes
<1>3. ASSUME NEW slot \in Slots, RequestFails(slot) PROVE TypeOK'
  <2>1. PipeTypes' /\ ack' \in Ids \cup {"none"}
        /\ preflight' \in [id : Ids, msg : Messages] \cup {NoPreflight}
    BY <1>3, ForgetTypes DEF RequestFails, TypeOK
  <2>2. settled' \in Seq(Settlements)
    BY <1>3, SettleTypes, NeutralTypes DEF RequestFails, TypeOK
  <2>3. pending' \in [Slots -> BOOLEAN]
    BY <1>3 DEF RequestFails, TypeOK, RpcTypes
  <2> QED
    BY <1>3, <2>1, <2>2, <2>3 DEF RequestFails, TypeOK, HandleTypes, RpcTypes, ProcessTypes,
                                  ChildTypes, HistoryTypes
<1> QED
  BY <1>1, <1>2, <1>3

LEMMA TypesHear == ASSUME TypeOK, HandleLine PROVE TypeOK'
<1> USE LineHeard
<1>1. CASE HandleResponse
  <2>1. stdout[1] \in Lines /\ stdout[1].type = "response"
    BY <1>1 DEF HandleResponse, Line
  <2>2. stdout[1].id \in Ids /\ stdout[1].outcome \in Outcomes
    BY <2>1, LineFields
  <2>3. RpcTypes'
    <3>1. CASE stdout[1].id = "dropped"
      BY <1>1, <3>1 DEF HandleResponse, Line, TypeOK, RpcTypes
    <3>2. CASE stdout[1].id # "dropped"
      <4>1. stdout[1].id \in Slots
        BY <2>2, <3>2 DEF Ids
      <4>2. Settle(stdout[1].id, stdout[1].outcome)
            /\ pending' = [pending EXCEPT ![stdout[1].id] = FALSE]
        BY <1>1, <3>2 DEF HandleResponse, Line
      <4> QED
        BY <4>1, <4>2, <2>2, SettleTypes DEF TypeOK, RpcTypes
    <3> QED
      BY <3>1, <3>2
  <2>4. PipeTypes'
    BY <1>1 DEF HandleResponse, Line, Consume, TypeOK, PipeTypes
  <2> QED
    BY <1>1, <2>3, <2>4 DEF HandleResponse, TypeOK, HandleTypes, ProcessTypes, ChildTypes,
                            HistoryTypes
<1>2. CASE HandleAgentStart \/ HandleAgentSettled
  <2>1. RpcTypes' /\ ProcessTypes' /\ PipeTypes' /\ ChildTypes'
    BY <1>2, EventTypes DEF HandleAgentStart, HandleAgentSettled, TypeOK, ProcessTypes
  <2>2. abortAttempt' \in Attempts
    BY <1>2, Kickoff DEF HandleAgentStart, HandleAgentSettled, TypeOK, HandleTypes, Attempts
  <2>3. HistoryTypes'
    BY <1>2, Kickoff DEF HandleAgentStart, HandleAgentSettled, EventFrame, RestReported, TypeOK,
       HistoryTypes
  <2> QED
    BY <1>2, <2>1, <2>2, <2>3, Kickoff DEF HandleAgentStart, HandleAgentSettled, EventFrame, TypeOK,
       HandleTypes, States
<1>3. CASE HandleUserMessageStart
  <2>1. stdout[1] \in Lines /\ stdout[1].type = "user" /\ Head(stdout) = stdout[1]
    BY <1>3 DEF HandleUserMessageStart, Line
  <2>2. stdout[1].msg \in Messages
    BY <2>1, LineFields
  <2>3. RpcTypes' /\ ProcessTypes' /\ PipeTypes' /\ ChildTypes'
    BY <1>3, EventTypes DEF HandleUserMessageStart, TypeOK, ProcessTypes
  <2>4. abortAttempt' \in Attempts
    BY <1>3, Kickoff DEF HandleUserMessageStart, TypeOK, HandleTypes, Attempts
  <2> QED
    BY <1>3, <2>1, <2>2, <2>3, <2>4, Kickoff, NeutralTypes DEF HandleUserMessageStart, EventFrame,
       TypeOK, HandleTypes, HistoryTypes
<1>4. CASE HandleAssistantMessageEnd
  <2>1. stdout[1] \in Lines /\ stdout[1].type = "assistant" /\ Head(stdout) = stdout[1]
    BY <1>4 DEF HandleAssistantMessageEnd, Line
  <2>2. stdout[1].answer \in Numbers
    BY <2>1, LineFields
  <2>3. RpcTypes' /\ ProcessTypes' /\ PipeTypes' /\ ChildTypes'
    BY <1>4, EventTypes DEF HandleAssistantMessageEnd, TerminateProcess, TypeOK, ProcessTypes
  <2>4. abortAttempt' \in Attempts
    BY <1>4, <2>1, <2>2 DEF HandleAssistantMessageEnd, TypeOK, HandleTypes, Attempts
  <2> QED
    BY <1>4, <2>1, <2>2, <2>3, <2>4, Kickoff DEF HandleAssistantMessageEnd, EventFrame, Answer,
       TypeOK, HandleTypes, HistoryTypes, Fail, States
<1>5. CASE HandleQueueUpdate
  <2>1. stdout[1] \in Lines /\ stdout[1].type = "queue_update" /\ Head(stdout) = stdout[1]
    BY <1>5 DEF HandleQueueUpdate, Line
  <2>2. stdout[1].texts \in Seq(Texts)
    BY <2>1, LineFields
  <2>3. ASSUME NEW claims \in SUBSET Messages, NEW map \in ClaimMaps
        PROVE  /\ Attribute(claims, map, stdout[1].texts).claims \in SUBSET Messages
               /\ Attribute(claims, map, stdout[1].texts).map \in ClaimMaps
    <3> DEFINE texts == stdout[1].texts
               new == {i \in DOMAIN texts : texts[i] \notin ToSet(queuedTexts)}
               Taken(m) == {i \in new : Rank(new, i) = Rank(claims, m)}
               taking == {m \in claims : Taken(m) # {}}
    <3>1. ASSUME NEW m \in taking PROVE texts[CHOOSE i \in Taken(m) : TRUE] \in Texts
      <4>1. (CHOOSE i \in Taken(m) : TRUE) \in Taken(m)
        OBVIOUS
      <4>2. (CHOOSE i \in Taken(m) : TRUE) \in DOMAIN texts
        BY <4>1
      <4>3. texts \in Seq(Texts)
        BY <2>2
      <4> HIDE DEF texts, Taken
      <4> QED
        BY <4>2, <4>3
    <3>2. Attribute(claims, map, texts) =
             [claims |-> claims \ taking,
              map |-> [m \in Messages |-> IF m \in taking THEN texts[CHOOSE i \in Taken(m) : TRUE]
                                          ELSE map[m]]]
      BY DEF Attribute
    <3>3. taking \in SUBSET Messages
      OBVIOUS
    <3> HIDE DEF taking, texts, Taken
    <3>4. [m \in Messages |-> IF m \in taking THEN texts[CHOOSE i \in Taken(m) : TRUE] ELSE map[m]]
             \in ClaimMaps
      BY <3>1 DEF ClaimMaps
    <3> QED
      BY <3>2, <3>3, <3>4 DEF texts
  <2>4. abortAttempt' \in Attempts /\ queueClaims' \in SUBSET Messages
        /\ queuedAfterInterrupt' \in ClaimMaps
    <3>1. CASE abortAttempt.live
      <4>1. abortAttempt.queueClaims \in SUBSET Messages
            /\ abortAttempt.queuedAfterInterrupt \in ClaimMaps
        BY DEF TypeOK, HandleTypes, Attempts
      <4> DEFINE a == Attribute(abortAttempt.queueClaims, abortAttempt.queuedAfterInterrupt,
                                stdout[1].texts)
      <4>2. a.claims \in SUBSET Messages /\ a.map \in ClaimMaps
        BY <2>3, <4>1
      <4>3. abortAttempt' = [abortAttempt EXCEPT !.queueClaims = a.claims,
                                                 !.queuedAfterInterrupt = a.map]
            /\ UNCHANGED <<queueClaims, queuedAfterInterrupt>>
        BY <1>5, <2>1, <3>1 DEF HandleQueueUpdate
      <4> HIDE DEF a
      <4> QED
        BY <4>2, <4>3 DEF TypeOK, HandleTypes, Attempts
    <3>2. CASE ~abortAttempt.live
      BY <1>5, <2>1, <2>3, <3>2 DEF HandleQueueUpdate, TypeOK, HandleTypes
    <3> QED
      BY <3>1, <3>2
  <2>5. pendingMessages' \in Nat /\ queuedTexts' \in Seq(Texts)
    BY <1>5, <2>1, <2>2 DEF HandleQueueUpdate
  <2> QED
    BY <1>5, <2>4, <2>5 DEF HandleQueueUpdate, Line, Consume, TypeOK, HandleTypes, RpcTypes,
       ProcessTypes, PipeTypes, ChildTypes, HistoryTypes
<1> QED
  BY <1>1, <1>2, <1>3, <1>4, <1>5 DEF HandleLine

LEMMA TypesChild == ASSUME TypeOK, ChildNext PROVE TypeOK'
<1> USE LineTypes, Kickoff
<1>1. ASSUME ParentFrame, stdin' \in Seq(Requests), stdout' \in Seq(Lines), alive' \in BOOLEAN,
             ChildTypes'
      PROVE  TypeOK'
  BY <1>1 DEF ParentFrame, TypeOK, HandleTypes, RpcTypes, ProcessTypes, PipeTypes, HistoryTypes
<1>2. /\ stdin \in Seq(Requests) /\ stdout \in Seq(Lines) /\ alive \in BOOLEAN
      /\ preflight \in [id : Ids, msg : Messages] \cup {NoPreflight}
      /\ serving \in Numbers /\ announced \in BOOLEAN /\ answered \in BOOLEAN
      /\ childQueue \in Seq(Entries) /\ ack \in Ids \cup {"none"}
  BY DEF TypeOK, PipeTypes, ProcessTypes, ChildTypes
<1>3. ASSUME stdin # <<>>
      PROVE  /\ Tail(stdin) \in Seq(Requests) /\ Head(stdin).id \in Ids
             /\ Head(stdin).command \in {"prompt", "queue"} => Head(stdin).msg \in Messages
  <2>1. Head(stdin) = stdin[1] /\ stdin[1] \in Requests /\ Tail(stdin) \in Seq(Requests)
    BY <1>2, <1>3
  <2> QED
    BY <2>1, RequestFields
<1>4. ASSUME NEW a \in Lines PROVE <<a>> \in Seq(Lines)
  BY <1>4
<1>5. ASSUME NEW a \in Lines, NEW b \in Lines PROVE <<a, b>> \in Seq(Lines)
  BY <1>5
<1>6. ASSUME NEW a \in Lines, NEW b \in Lines, NEW c \in Lines PROVE <<a, b, c>> \in Seq(Lines)
  BY <1>6
<1>7. ASSUME NEW lines \in Seq(Lines), Emit(lines) PROVE stdout' \in Seq(Lines)
  BY <1>2, <1>7 DEF Emit
<1>8. CASE ChildTakesPrompt
  <2>1. Tail(stdin) \in Seq(Requests) /\ Head(stdin).id \in Ids /\ Head(stdin).msg \in Messages
    BY <1>3, <1>8 DEF ChildTakesPrompt
  <2>2. preflight' \in [id : Ids, msg : Messages] \cup {NoPreflight}
    <3>1. \/ preflight' = [id |-> Head(stdin).id, msg |-> Head(stdin).msg]
          \/ preflight' = preflight
      BY <1>8 DEF ChildTakesPrompt
    <3> QED
      BY <1>2, <2>1, <3>1
  <2>3. stdout' \in Seq(Lines)
    <3>1. Response(Head(stdin).id, "rejected") \in Lines
      BY <2>1
    <3>2. stdout' = stdout \/ Emit(<<Response(Head(stdin).id, "rejected")>>)
      BY <1>8 DEF ChildTakesPrompt
    <3> QED
      BY <1>2, <1>4, <1>7, <3>1, <3>2
  <2> QED
    BY <1>1, <1>2, <1>8, <2>1, <2>2, <2>3 DEF ChildTakesPrompt, ChildTypes
<1>9. CASE ChildAnswersPrompt
  <2>1. preflight.id \in Ids /\ preflight.msg \in Messages
    BY <1>2, <1>9 DEF ChildAnswersPrompt
  <2> QED
    BY <1>1, <1>2, <1>4, <1>7, <1>9, <2>1 DEF ChildAnswersPrompt, ChildTypes
<1>10. CASE ChildAnnouncesRun
  <2>1. [msg |-> serving, text |-> serving] \in Entries
    BY <1>2, <1>10, BoundsAssumption
       DEF ChildAnnouncesRun, Streaming, None, Numbers, Entries, Messages, Texts
  <2> QED
    BY <1>1, <1>2, <1>5, <1>7, <1>10, <2>1 DEF ChildAnnouncesRun, ChildTypes
<1>11. CASE ChildTakesQueueRequest
  <2>1. Tail(stdin) \in Seq(Requests) /\ Head(stdin).id \in Ids /\ Head(stdin).msg \in Messages
    BY <1>3, <1>11 DEF ChildTakesQueueRequest
  <2>2. CASE \E text \in {Head(stdin).msg, Expanded(Head(stdin).msg)} :
               /\ childQueue' = Append(childQueue, [msg |-> Head(stdin).msg, text |-> text])
               /\ \/ /\ ack' = Head(stdin).id
                     /\ Emit(<<QueueUpdate(childQueue')>>)
                  \/ /\ UNCHANGED ack
                     /\ Emit(<<Response(Head(stdin).id, "ok"), QueueUpdate(childQueue')>>)
    <3>1. PICK text \in {Head(stdin).msg, Expanded(Head(stdin).msg)} :
               /\ childQueue' = Append(childQueue, [msg |-> Head(stdin).msg, text |-> text])
               /\ \/ /\ ack' = Head(stdin).id
                     /\ Emit(<<QueueUpdate(childQueue')>>)
                  \/ /\ UNCHANGED ack
                     /\ Emit(<<Response(Head(stdin).id, "ok"), QueueUpdate(childQueue')>>)
      BY <2>2
    <3>2. [msg |-> Head(stdin).msg, text |-> text] \in Entries
      BY <2>1, BoundsAssumption DEF Entries, Expanded, Messages, Texts
    <3>3. childQueue' \in Seq(Entries)
      BY <1>2, <3>1, <3>2
    <3>4. QueueUpdate(childQueue') \in Lines /\ Response(Head(stdin).id, "ok") \in Lines
      BY <2>1, <3>3
    <3>5. stdout' \in Seq(Lines)
      BY <1>4, <1>5, <1>7, <3>1, <3>4
    <3>6. ack' \in Ids \cup {"none"}
      BY <1>2, <2>1, <3>1
    <3>7. ChildTypes'
      BY <1>2, <1>11, <3>3, <3>6 DEF ChildTakesQueueRequest, ChildTypes
    <3> QED
      BY <1>1, <1>2, <1>11, <2>1, <3>5, <3>7 DEF ChildTakesQueueRequest
  <2>3. CASE \E result \in {"handled", "rejected"} :
               /\ Emit(<<Response(Head(stdin).id, result)>>)
               /\ UNCHANGED <<childQueue, ack>>
    <3>1. stdout' \in Seq(Lines)
      BY <1>4, <1>7, <2>1, <2>3
    <3> QED
      BY <1>1, <1>2, <1>11, <2>1, <2>3, <3>1 DEF ChildTakesQueueRequest, ChildTypes
  <2> QED
    BY <1>11, <2>2, <2>3 DEF ChildTakesQueueRequest
<1>12. CASE ChildAcknowledges
  <2>1. ack \in Ids
    BY <1>2, <1>12 DEF ChildAcknowledges
  <2> QED
    BY <1>1, <1>2, <1>4, <1>7, <1>12, <2>1 DEF ChildAcknowledges, ChildTypes
<1>13. CASE ChildTakesAbort
  BY <1>1, <1>2, <1>3, <1>4, <1>6, <1>7, <1>13 DEF ChildTakesAbort, ChildTypes
<1>14. CASE ChildReportsState
  <2> DEFINE outcome == [result |-> "ok", streaming |-> Streaming, count |-> Len(childQueue)]
             line == [type |-> "response", id |-> Head(stdin).id, outcome |-> outcome]
  <2>1. Tail(stdin) \in Seq(Requests) /\ Head(stdin).id \in Ids
    BY <1>3, <1>14 DEF ChildReportsState
  <2>2. Len(childQueue) \in Nat /\ Streaming \in BOOLEAN
    BY <1>2 DEF Streaming
  <2>3. outcome \in Outcomes
    BY <2>2 DEF Outcomes
  <2>4. line \in Lines
    BY <2>1, <2>3 DEF Lines
  <2>5. Emit(<<line>>)
    BY <1>14 DEF ChildReportsState
  <2> HIDE DEF line
  <2>6. stdout' \in Seq(Lines)
    BY <1>4, <1>7, <2>4, <2>5
  <2> QED
    BY <1>1, <1>2, <1>14, <2>1, <2>6 DEF ChildReportsState, ChildTypes
<1>15. CASE ChildEndsMessage
  BY <1>1, <1>2, <1>4, <1>7, <1>15 DEF ChildEndsMessage, ChildTypes
<1>16. CASE ChildDequeues
  <2>1. Head(childQueue) \in Entries /\ Tail(childQueue) \in Seq(Entries)
        /\ Head(childQueue).msg \in Messages
    <3>1. Head(childQueue) = childQueue[1] /\ childQueue[1] \in Entries
          /\ Tail(childQueue) \in Seq(Entries)
      BY <1>2, <1>16 DEF ChildDequeues
    <3> QED
      BY <3>1 DEF Entries
  <2> QED
    BY <1>1, <1>2, <1>5, <1>7, <1>16, <2>1 DEF ChildDequeues, ChildTypes
<1>17. CASE ChildSettles
  BY <1>1, <1>2, <1>4, <1>7, <1>17 DEF ChildSettles, ChildTypes
<1>18. CASE ChildRetries
  BY <1>1, <1>2, <1>4, <1>7, <1>18 DEF ChildRetries, ChildTypes
<1>19. CASE ChildExits
  BY <1>1, <1>2, <1>19 DEF ChildExits, ChildTypes
<1> QED
  BY <1>8, <1>9, <1>10, <1>11, <1>12, <1>13, <1>14, <1>15, <1>16, <1>17, <1>18, <1>19
     DEF ChildNext

LEMMA TypesInit == ASSUME Init PROVE TypeOK
<1> USE Kickoff, NeutralTypes DEF Init
<1>1. HandleTypes
  <2>1. <<>> \in Seq(Texts)
    OBVIOUS
  <2> QED
    BY <2>1 DEF HandleTypes, States
<1>2. RpcTypes
  BY DEF RpcTypes
<1>3. ProcessTypes
  BY DEF ProcessTypes
<1>4. PipeTypes
  <2>1. [id |-> "start", command |-> "prompt", msg |-> 1] \in Requests
    BY DEF Requests, Ids, Slots
  <2>2. stdin \in Seq(Requests)
    BY <2>1
  <2> QED
    BY <2>2 DEF PipeTypes
<1>5. ChildTypes
  <2>1. <<>> \in Seq(Entries)
    OBVIOUS
  <2>2. childQueue \in Seq(Entries) /\ ack \in Ids \cup {"none"}
    BY <2>1
  <2>3. preflight \in [id : Ids, msg : Messages] \cup {NoPreflight}
    OBVIOUS
  <2> QED
    BY <2>2, <2>3 DEF ChildTypes
<1>6. HistoryTypes
  BY DEF HistoryTypes
<1> QED
  BY <1>1, <1>2, <1>3, <1>4, <1>5, <1>6 DEF TypeOK

LEMMA TypesStep == TypeOK /\ [Next]_vars => TypeOK'
<1> SUFFICES ASSUME TypeOK, [Next]_vars PROVE TypeOK'
  OBVIOUS
<1>1. CASE CallerNext
  BY <1>1, TypesBegin, TypesProcess DEF CallerNext
<1>2. CASE Continuations
  BY <1>2, TypesOtherResumes, TypesResumeQueueMessage, TypesResumeInterrupt, TypesResumeGetState
     DEF Continuations
<1>3. CASE HandleLine
  BY <1>3, TypesHear
<1>4. CASE ProcessEvents \/ \E slot \in Slots : RequestFails(slot)
  BY <1>4, TypesProcess DEF ProcessEvents
<1>5. CASE ChildNext
  BY <1>5, TypesChild
<1>6. CASE UNCHANGED vars
  BY <1>6 DEF vars, TypeOK, HandleTypes, RpcTypes, ProcessTypes, PipeTypes, ChildTypes, HistoryTypes
<1> QED
  BY <1>1, <1>2, <1>3, <1>4, <1>5, <1>6 DEF Next

\* Type correctness of the handle, its pipes and its child: requests and lines
\* are well formed, and whatever is kept of a message is a number of one.
THEOREM TypeCorrect == Spec => []TypeOK
  BY TypesInit, TypesStep, PTL DEF Spec

-----------------------------------------------------------------------------
(* A run of a reader over a sequence of lines: states in R, each line read  *)
(* by a step in T.  The invariants below say of the lines on stdout what    *)
(* the parent will have been told after each of them.                       *)

Run(R, T, q, r, s) ==
    \E h \in [0..Len(q) -> R] :
        /\ h[0] = r /\ h[Len(q)] = s
        /\ \A i \in 1..Len(q) : <<h[i - 1], q[i], h[i]>> \in T

LEMMA RunNil ==
  ASSUME NEW R, NEW T, NEW r \in R
  PROVE  Run(R, T, <<>>, r, r)
<1>1. [i \in {0} |-> r] \in [0..0 -> R]
  OBVIOUS
<1>2. Len(<<>>) = 0
  OBVIOUS
<1> DEFINE h == [i \in {0} |-> r]
<1>3. h \in [0..0 -> R] /\ h[0] = r
  BY <1>1
<1> HIDE DEF h
<1> QED
  BY <1>2, <1>3 DEF Run

LEMMA RunEnds ==
  ASSUME NEW R, NEW T, NEW L, NEW q \in Seq(L), NEW r, NEW s, Run(R, T, q, r, s)
  PROVE  r \in R /\ s \in R /\ (q = <<>> => r = s)
<1>1. PICK h \in [0..Len(q) -> R] : h[0] = r /\ h[Len(q)] = s
  BY DEF Run
<1>2. Len(q) \in Nat /\ 0 \in 0..Len(q) /\ Len(q) \in 0..Len(q)
  OBVIOUS
<1> QED
  BY <1>1, <1>2

LEMMA RunAppend ==
  ASSUME NEW R, NEW T, NEW L, NEW q \in Seq(L), NEW r, NEW s, NEW l \in L, NEW t \in R,
         Run(R, T, q, r, s), <<s, l, t>> \in T
  PROVE  Run(R, T, Append(q, l), r, t)
<1>1. PICK h \in [0..Len(q) -> R] :
         /\ h[0] = r /\ h[Len(q)] = s
         /\ \A i \in 1..Len(q) : <<h[i - 1], q[i], h[i]>> \in T
  BY DEF Run
<1> DEFINE n == Len(q)
           p == Append(q, l)
           g == [i \in 0..n + 1 |-> IF i = n + 1 THEN t ELSE h[i]]
<1>2. n \in Nat /\ Len(p) = n + 1 /\ \A i \in 1..n + 1 : p[i] = IF i = n + 1 THEN l ELSE q[i]
  OBVIOUS
<1>3. g \in [0..n + 1 -> R]
  BY <1>2
<1>4. g[0] = r /\ g[n + 1] = t
  BY <1>1, <1>2
<1>5. ASSUME NEW i \in 1..n + 1 PROVE <<g[i - 1], p[i], g[i]>> \in T
  <2>1. CASE i = n + 1
    <3>1. g[i - 1] = s /\ g[i] = t /\ p[i] = l
      BY <1>1, <1>2, <2>1
    <3> HIDE DEF g, p
    <3> QED
      BY <3>1
  <2>2. CASE i # n + 1
    <3>1. i \in 1..n /\ g[i - 1] = h[i - 1] /\ g[i] = h[i] /\ p[i] = q[i]
      BY <1>2, <2>2
    <3> HIDE DEF g, p
    <3> QED
      BY <1>1, <3>1
  <2> QED
    BY <2>1, <2>2
<1> HIDE DEF g, p
<1> QED
  BY <1>2, <1>3, <1>4, <1>5 DEF Run, p

LEMMA RunTail ==
  ASSUME NEW R, NEW T, NEW L, NEW q \in Seq(L), q # <<>>, NEW r, NEW s, Run(R, T, q, r, s)
  PROVE  \E t \in R : <<r, q[1], t>> \in T /\ Run(R, T, Tail(q), t, s)
<1>1. PICK h \in [0..Len(q) -> R] :
         /\ h[0] = r /\ h[Len(q)] = s
         /\ \A i \in 1..Len(q) : <<h[i - 1], q[i], h[i]>> \in T
  BY DEF Run
<1> DEFINE n == Len(q)
           p == Tail(q)
           g == [i \in 0..n - 1 |-> h[i + 1]]
<1>2. n \in Nat \ {0} /\ Len(p) = n - 1 /\ \A i \in 1..n - 1 : p[i] = q[i + 1]
  OBVIOUS
<1>3. g \in [0..n - 1 -> R] /\ g[0] = h[1] /\ g[n - 1] = s
  BY <1>1, <1>2
<1>4. h[1] \in R /\ <<r, q[1], h[1]>> \in T
  <2>1. 1 \in 1..n /\ 1 - 1 = 0
    BY <1>2
  <2> QED
    BY <1>1, <2>1
<1>5. ASSUME NEW i \in 1..n - 1 PROVE <<g[i - 1], p[i], g[i]>> \in T
  <2>1. i + 1 \in 1..n /\ (i + 1) - 1 = i /\ g[i - 1] = h[i] /\ g[i] = h[i + 1] /\ p[i] = q[i + 1]
    BY <1>2
  <2> HIDE DEF g, p
  <2>2. <<h[(i + 1) - 1], q[i + 1], h[i + 1]>> \in T
    BY <1>1, <2>1
  <2> QED
    BY <2>1, <2>2
<1> HIDE DEF g, p
<1>6. Run(R, T, p, h[1], s)
  BY <1>2, <1>3, <1>5 DEF Run
<1> QED
  BY <1>4, <1>6 DEF p

LEMMA RunMap ==
  ASSUME NEW R, NEW T, NEW R2, NEW T2, NEW f \in [R -> R2],
         NEW q, NEW p, Len(q) \in Nat, Len(p) = Len(q), NEW r, NEW s,
         \A i \in 1..Len(q) : \A x, y \in R :
            <<x, q[i], y>> \in T => <<f[x], p[i], f[y]>> \in T2,
         Run(R, T, q, r, s)
  PROVE  Run(R2, T2, p, f[r], f[s])
<1>1. PICK h \in [0..Len(q) -> R] :
         /\ h[0] = r /\ h[Len(q)] = s
         /\ \A i \in 1..Len(q) : <<h[i - 1], q[i], h[i]>> \in T
  BY DEF Run
<1> DEFINE n == Len(q)
           g == [i \in 0..n |-> f[h[i]]]
<1>2. g \in [0..n -> R2] /\ g[0] = f[r] /\ g[n] = f[s]
  BY <1>1
<1>3. ASSUME NEW i \in 1..n PROVE <<g[i - 1], p[i], g[i]>> \in T2
  <2>1. i - 1 \in 0..n /\ i \in 0..n /\ g[i - 1] = f[h[i - 1]] /\ g[i] = f[h[i]]
    OBVIOUS
  <2>2. h[i - 1] \in R /\ h[i] \in R /\ <<h[i - 1], q[i], h[i]>> \in T
    BY <1>1, <2>1
  <2> HIDE DEF g
  <2> QED
    BY <2>1, <2>2
<1> HIDE DEF g
<1> QED
  BY <1>2, <1>3 DEF Run

LEMMA RunWiden ==
  ASSUME NEW R, NEW T, NEW R2, NEW T2, R \subseteq R2,
         NEW q, NEW p, Len(q) \in Nat, Len(p) = Len(q), NEW r \in R, NEW s \in R,
         \A i \in 1..Len(q) : \A x, y \in R :
            <<x, q[i], y>> \in T => <<x, p[i], y>> \in T2,
         Run(R, T, q, r, s)
  PROVE  Run(R2, T2, p, r, s)
<1> DEFINE f == [x \in R |-> x]
<1>1. f \in [R -> R2] /\ \A x \in R : f[x] = x
  OBVIOUS
<1> HIDE DEF f
<1>2. \A i \in 1..Len(q) : \A x, y \in R :
         <<x, q[i], y>> \in T => <<f[x], p[i], f[y]>> \in T2
  BY <1>1
<1>3. Run(R2, T2, p, f[r], f[s])
  BY <1>1, <1>2, RunMap
<1> QED
  BY <1>1, <1>3

-----------------------------------------------------------------------------
(* One request of the serialized control operation at a time.              *)

Reply(l) == l.type = "response" /\ l.id = "control"
InStdin == \E i \in 1..Len(stdin) : stdin[i].id = "control"
InStdout == \E i \in 1..Len(stdout) : Reply(stdout[i])
InSettled == \E i \in 1..Len(settled) : settled[i].slot = "control"

\* The request of the control operation is in at most one place, from its
\* line on stdin to its reply; while it is anywhere, its caller awaits it.
PlaceInv ==
    /\ \A i, j \in 1..Len(stdin) : stdin[i].id = "control" /\ stdin[j].id = "control" => i = j
    /\ \A i, j \in 1..Len(stdout) : Reply(stdout[i]) /\ Reply(stdout[j]) => i = j
    /\ InStdin => ~InStdout /\ ack # "control" /\ preflight.id # "control"
    /\ InStdout => ack # "control" /\ preflight.id # "control"
    /\ ack = "control" => preflight.id # "control"
    /\ InStdin \/ InStdout \/ ack = "control" \/ preflight.id = "control" => pending["control"]

\* It has the kind of the operation; its continuation runs once.
KindInv ==
    /\ \A i \in 1..Len(stdin) : stdin[i].id = "control" =>
          control.kind = IF stdin[i].command = "abort" THEN "interrupt" ELSE stdin[i].command
    /\ ack = "control" => control.kind = "queue"
    /\ preflight.id = "control" => control.kind = "prompt"
    /\ pending["control"] => control.kind # "none" /\ ~InSettled
    /\ InSettled => control.kind # "none"
    /\ \A i, j \in 1..Len(settled) :
          settled[i].slot = "control" /\ settled[j].slot = "control" => i = j

ControlInv == PlaceInv /\ KindInv

LEMMA EmitOne ==
  ASSUME PipeTypes, NEW a, a \in Lines, Emit(<<a>>)
  PROVE  stdout' = IF deaf THEN stdout ELSE Append(stdout, a)
<1>1. stdout \o <<a>> = Append(stdout, a)
  BY DEF PipeTypes
<1> QED
  BY <1>1 DEF Emit

LEMMA EmitTwo ==
  ASSUME PipeTypes, NEW a, a \in Lines, NEW b, b \in Lines, Emit(<<a, b>>)
  PROVE  stdout' = IF deaf THEN stdout ELSE Append(Append(stdout, a), b)
<1>1. stdout \o <<a, b>> = Append(Append(stdout, a), b)
  BY DEF PipeTypes
<1> QED
  BY <1>1 DEF Emit

LEMMA EmitThree ==
  ASSUME PipeTypes, NEW a, a \in Lines, NEW b, b \in Lines, NEW c, c \in Lines, Emit(<<a, b, c>>)
  PROVE  stdout' = IF deaf THEN stdout ELSE Append(Append(Append(stdout, a), b), c)
<1>1. stdout \o <<a, b, c>> = Append(Append(Append(stdout, a), b), c)
  BY DEF PipeTypes
<1> QED
  BY <1>1 DEF Emit

\* What forgetting requests leaves of the lines.
LEMMA Forgotten ==
  ASSUME PipeTypes, ChildTypes, NEW slots \in SUBSET Slots, Forget(slots)
  PROVE  /\ Len(stdin') = Len(stdin) /\ Len(stdout') = Len(stdout)
         /\ \A i \in 1..Len(stdin) :
               /\ stdin'[i].id = "control" <=> stdin[i].id = "control" /\ "control" \notin slots
               /\ stdin'[i].command = stdin[i].command /\ stdin'[i].msg = stdin[i].msg
         /\ \A i \in 1..Len(stdout) :
               /\ stdout'[i].type = stdout[i].type
               /\ Reply(stdout'[i]) <=> Reply(stdout[i]) /\ "control" \notin slots
               /\ stdout[i].type # "response" => stdout'[i] = stdout[i]
               /\ stdout[i].type = "response" => stdout'[i].outcome = stdout[i].outcome
         /\ ack' = "control" <=> ack = "control" /\ "control" \notin slots
         /\ preflight'.id = "control" <=> preflight.id = "control" /\ "control" \notin slots
         /\ preflight'.msg = preflight.msg /\ (preflight' = NoPreflight <=> preflight = NoPreflight)
<1>1. Len(stdin') = Len(stdin) /\ Len(stdout') = Len(stdout)
  BY ForgetTypes
<1>2. ASSUME NEW i \in 1..Len(stdin)
      PROVE  /\ stdin'[i].id = "control" <=> stdin[i].id = "control" /\ "control" \notin slots
             /\ stdin'[i].command = stdin[i].command /\ stdin'[i].msg = stdin[i].msg
  <2>1. stdin[i] \in Requests
    BY DEF PipeTypes
  <2>2. stdin'[i] = IF stdin[i].id \in slots THEN [stdin[i] EXCEPT !.id = "dropped"] ELSE stdin[i]
    <3>1. i \in DOMAIN stdin
      BY DEF PipeTypes
    <3>2. stdin' = [k \in DOMAIN stdin |->
                      IF stdin[k].id \in slots THEN [stdin[k] EXCEPT !.id = "dropped"]
                      ELSE stdin[k]]
      BY DEF Forget
    <3> QED
      BY <3>1, <3>2
  <2>3. ASSUME NEW l \in Requests
        PROVE  /\ [l EXCEPT !.id = "dropped"].id = "dropped"
               /\ [l EXCEPT !.id = "dropped"].command = l.command
               /\ [l EXCEPT !.id = "dropped"].msg = l.msg
    BY DEF Requests
  <2> QED
    BY <2>1, <2>2, <2>3
<1>3. ASSUME NEW i \in 1..Len(stdout)
      PROVE  /\ stdout'[i].type = stdout[i].type
             /\ Reply(stdout'[i]) <=> Reply(stdout[i]) /\ "control" \notin slots
             /\ stdout[i].type # "response" => stdout'[i] = stdout[i]
             /\ stdout[i].type = "response" => stdout'[i].outcome = stdout[i].outcome
  <2>1. stdout[i] \in Lines
    BY DEF PipeTypes
  <2>2. stdout'[i] = IF stdout[i].type = "response" /\ stdout[i].id \in slots
                     THEN [stdout[i] EXCEPT !.id = "dropped"] ELSE stdout[i]
    BY DEF Forget, PipeTypes
  <2>3. ASSUME NEW l \in Lines, l.type = "response"
        PROVE  /\ [l EXCEPT !.id = "dropped"].id = "dropped"
               /\ [l EXCEPT !.id = "dropped"].type = l.type
               /\ [l EXCEPT !.id = "dropped"].outcome = l.outcome
    BY <2>3 DEF Lines
  <2> QED
    BY <2>1, <2>2, <2>3 DEF Reply
<1>4. ack' = "control" <=> ack = "control" /\ "control" \notin slots
  BY DEF Forget
<1>5. /\ preflight'.id = "control" <=> preflight.id = "control" /\ "control" \notin slots
      /\ preflight'.msg = preflight.msg /\ (preflight' = NoPreflight <=> preflight = NoPreflight)
  <2>1. CASE preflight = NoPreflight
    BY <2>1 DEF Forget, NoPreflight, Slots
  <2>2. CASE preflight \in [id : Ids, msg : Messages]
    <3>1. preflight.msg # None
      BY <2>2, Kickoff
    <3> QED
      BY <2>2, <3>1 DEF Forget, NoPreflight
  <2> QED
    BY <2>1, <2>2 DEF ChildTypes
<1> QED
  BY <1>1, <1>2, <1>3, <1>4, <1>5

LEMMA ControlForgotten ==
  ASSUME PipeTypes, ChildTypes, PlaceInv, KindInv, NEW slots \in SUBSET Slots, Forget(slots)
  PROVE  /\ InStdin' <=> InStdin /\ "control" \notin slots
         /\ InStdout' <=> InStdout /\ "control" \notin slots
         /\ \A i, j \in 1..Len(stdin') : stdin'[i].id = "control" /\ stdin'[j].id = "control" => i = j
         /\ \A i, j \in 1..Len(stdout') : Reply(stdout'[i]) /\ Reply(stdout'[j]) => i = j
         /\ \A i \in 1..Len(stdin') : stdin'[i].id = "control" =>
               control.kind = IF stdin'[i].command = "abort" THEN "interrupt" ELSE stdin'[i].command
<1> USE Forgotten
<1>1. InStdin' <=> InStdin /\ "control" \notin slots
  BY DEF InStdin
<1>2. InStdout' <=> InStdout /\ "control" \notin slots
  BY DEF InStdout, Reply
<1>3. \A i, j \in 1..Len(stdin') : stdin'[i].id = "control" /\ stdin'[j].id = "control" => i = j
  BY DEF PlaceInv
<1>4. \A i, j \in 1..Len(stdout') : Reply(stdout'[i]) /\ Reply(stdout'[j]) => i = j
  BY DEF PlaceInv
<1>5. \A i \in 1..Len(stdin') : stdin'[i].id = "control" =>
         control.kind = IF stdin'[i].command = "abort" THEN "interrupt" ELSE stdin'[i].command
  BY DEF KindInv
<1> QED
  BY <1>1, <1>2, <1>3, <1>4, <1>5

\* The continuation of a request that ends joins the others.
LEMMA ControlSettles ==
  ASSUME RpcTypes, KindInv, NEW slot \in Slots, NEW outcome, Settle(slot, outcome),
         slot = "control" => ~InSettled
  PROVE  /\ InSettled' <=> InSettled \/ slot = "control"
         /\ \A i, j \in 1..Len(settled') :
               settled'[i].slot = "control" /\ settled'[j].slot = "control" => i = j
<1> DEFINE r == [slot |-> slot, outcome |-> outcome]
<1>1. /\ Len(settled) \in Nat /\ Len(settled') = Len(settled) + 1
      /\ \A i \in 1..Len(settled') : settled'[i] = IF i = Len(settled) + 1 THEN r ELSE settled[i]
      /\ r.slot = slot
  BY DEF Settle, RpcTypes
<1> HIDE DEF r
<1> QED
  BY <1>1 DEF KindInv, InSettled

LEMMA ControlRequested ==
  ASSUME TypeOK, ControlInv, ~pending["control"], ~InSettled, NEW c, NEW m, c # "none",
         [id |-> "control", command |-> c, msg |-> m] \in Requests,
         Request("control", c, m), UNCHANGED <<stdout, ack, preflight>>,
         control'.kind = IF c = "abort" THEN "interrupt" ELSE c
  PROVE  ControlInv'
<1>1. ~InStdin /\ ~InStdout /\ ack # "control" /\ preflight.id # "control"
  BY DEF ControlInv, PlaceInv
<1>2. ~InStdout' /\ ack' # "control" /\ preflight'.id # "control"
      /\ \A i, j \in 1..Len(stdout') : Reply(stdout'[i]) /\ Reply(stdout'[j]) => i = j
  BY <1>1 DEF InStdout, ControlInv, PlaceInv
<1>3. control'.kind # "none"
  OBVIOUS
<1>4. CASE alive
  <2> DEFINE r == [id |-> "control", command |-> c, msg |-> m]
  <2>1. stdin' = Append(stdin, r) /\ pending' = [pending EXCEPT !["control"] = TRUE]
        /\ settled' = settled
    BY <1>4 DEF Request
  <2>2. r.id = "control" /\ r.command = c
    OBVIOUS
  <2>3. r \in Requests
    OBVIOUS
  <2> HIDE DEF r
  <2>4. /\ Len(stdin) \in Nat /\ Len(stdin') = Len(stdin) + 1
        /\ \A i \in 1..Len(stdin') : stdin'[i] = IF i = Len(stdin) + 1 THEN r ELSE stdin[i]
    BY <2>1, <2>3 DEF TypeOK, PipeTypes
  <2>5. \A i \in 1..Len(stdin') : stdin'[i].id = "control" => i = Len(stdin) + 1
    BY <1>1, <2>4 DEF InStdin
  <2>6. pending'["control"]
    BY <2>1 DEF TypeOK, RpcTypes, Slots
  <2>7. ~InSettled' /\ \A i, j \in 1..Len(settled') :
               settled'[i].slot = "control" /\ settled'[j].slot = "control" => i = j
    BY <2>1 DEF InSettled, ControlInv, KindInv
  <2>8. PlaceInv'
    BY <1>2, <2>5, <2>6 DEF PlaceInv
  <2>9. KindInv'
    BY <1>2, <1>3, <2>2, <2>4, <2>5, <2>7 DEF KindInv
  <2> QED
    BY <2>8, <2>9 DEF ControlInv
<1>5. CASE ~alive
  <2>1. Settle("control", Failure) /\ stdin' = stdin /\ pending' = pending
    BY <1>5 DEF Request
  <2>2. \A i, j \in 1..Len(settled') :
               settled'[i].slot = "control" /\ settled'[j].slot = "control" => i = j
    BY <2>1, ControlSettles DEF TypeOK, ControlInv, Slots
  <2>3. ~InStdin' /\ ~pending'["control"]
    BY <1>1, <2>1 DEF InStdin
  <2>4. PlaceInv'
    BY <1>2, <2>1, <2>3 DEF ControlInv, PlaceInv
  <2>5. KindInv'
    BY <1>2, <1>3, <2>1, <2>2, <2>3 DEF KindInv, InStdin
  <2> QED
    BY <2>4, <2>5 DEF ControlInv
<1> QED
  BY <1>4, <1>5

\* Nothing of a control operation is under way between two of them.
LEMMA ControlRests ==
  ASSUME TypeOK, ControlInv, control = NoControl
  PROVE  ~pending["control"] /\ ~InSettled
  BY NeutralTypes DEF ControlInv, KindInv

LEMMA ControlBegins ==
  ASSUME TypeOK, ControlInv, BeginQueueMessage \/ BeginPrompt \/ BeginInterrupt \/ BeginRefresh
  PROVE  ControlInv'
<1>1. ~pending["control"] /\ ~InSettled
  BY ControlRests DEF BeginQueueMessage, BeginPrompt, BeginInterrupt, BeginRefresh, MayBegin
<1>2. UNCHANGED <<stdout, ack, preflight>>
  BY DEF BeginQueueMessage, BeginPrompt, BeginInterrupt, BeginRefresh
<1>3. sent' \in Messages
  BY TypesBegin DEF TypeOK, HistoryTypes
<1>4. CASE BeginQueueMessage
  <2>1. Request("control", "queue", sent') /\ control'.kind = "queue"
    BY <1>4 DEF BeginQueueMessage, Control, NoControl
  <2>2. [id |-> "control", command |-> "queue", msg |-> sent'] \in Requests
    BY <1>3 DEF Requests, Ids, Slots
  <2> QED
    BY <1>1, <1>2, <2>1, <2>2, ControlRequested
<1>5. CASE BeginPrompt
  <2>1. Request("control", "prompt", sent') /\ control'.kind = "prompt"
    BY <1>5 DEF BeginPrompt, Control, NoControl
  <2>2. [id |-> "control", command |-> "prompt", msg |-> sent'] \in Requests
    BY <1>3 DEF Requests, Ids, Slots
  <2> QED
    BY <1>1, <1>2, <2>1, <2>2, ControlRequested
<1>6. CASE BeginInterrupt
  <2>1. Request("control", "abort", None) /\ control'.kind = "interrupt"
    BY <1>6 DEF BeginInterrupt, Control, NoControl
  <2>2. [id |-> "control", command |-> "abort", msg |-> None] \in Requests
    BY DEF Requests, Ids, Slots
  <2> QED
    BY <1>1, <1>2, <2>1, <2>2, ControlRequested
<1>7. CASE BeginRefresh
  <2>1. Request("control", "get_state", None) /\ control'.kind = "get_state"
    BY <1>7 DEF BeginRefresh, Control, NoControl
  <2>2. [id |-> "control", command |-> "get_state", msg |-> None] \in Requests
    BY DEF Requests, Ids, Slots
  <2> QED
    BY <1>1, <1>2, <2>1, <2>2, ControlRequested
<1> QED
  BY <1>4, <1>5, <1>6, <1>7

\* Rejecting every request: the control operation resumes with a failure.
LEMMA ControlRejected ==
  ASSUME TypeOK, ControlInv, RejectPending, control' = control
  PROVE  ControlInv'
<1>1. Awaited \in SUBSET Slots /\ Forget(Awaited)
      /\ ("control" \in Awaited <=> pending["control"])
  BY DEF Awaited, RejectPending, Slots
<1>2. ~InStdin' /\ ~InStdout' /\ ack' # "control" /\ preflight'.id # "control"
  BY <1>1, ControlForgotten, Forgotten DEF TypeOK, ControlInv, PlaceInv
<1>3. ~pending'["control"]
  BY DEF RejectPending, Slots
<1>4. /\ InSettled' <=> InSettled \/ pending["control"]
      /\ \A i, j \in 1..Len(settled') :
            settled'[i].slot = "control" /\ settled'[j].slot = "control" => i = j
  <2> DEFINE first == settled \o Rejected("start")
             n == Len(settled)
             m == Len(first)
  <2>1. settled \in Seq(Settlements) /\ n \in Nat
    BY DEF TypeOK, RpcTypes
  <2>2. ASSUME NEW slot \in Slots
        PROVE  /\ Rejected(slot) = IF pending[slot] THEN <<[slot |-> slot, outcome |-> Failure]>>
                                   ELSE <<>>
               /\ [slot |-> slot, outcome |-> Failure] \in Settlements
    BY NeutralTypes DEF Rejected, Settlements
  <2>3. /\ first \in Seq(Settlements) /\ m \in {n, n + 1}
        /\ \A i \in 1..m : first[i].slot = IF i = n + 1 THEN "start" ELSE settled[i].slot
    <3>1. CASE pending["start"]
      <4>1. first = Append(settled, [slot |-> "start", outcome |-> Failure])
        <5>1. ASSUME NEW r \in Settlements PROVE settled \o <<r>> = Append(settled, r)
          BY <2>1
        <5>2. Rejected("start") = <<[slot |-> "start", outcome |-> Failure]>>
              /\ [slot |-> "start", outcome |-> Failure] \in Settlements
          BY <2>2, <3>1 DEF Slots
        <5> QED
          BY <5>1, <5>2
      <4> HIDE DEF first
      <4> QED
        BY <2>1, <2>2, <4>1 DEF Slots
    <3>2. CASE ~pending["start"]
      <4>1. first = settled
        BY <2>1, <2>2, <3>2 DEF Slots
      <4> HIDE DEF first
      <4> QED
        BY <2>1, <2>2, <4>1 DEF Slots
    <3> QED
      BY <3>1, <3>2
  <2>4. settled' = first \o Rejected("control")
    BY DEF RejectPending
  <2> HIDE DEF first
  <2>5. \A i, j \in 1..m : first[i].slot = "control" /\ first[j].slot = "control" => i = j
    BY <2>1, <2>3 DEF ControlInv, KindInv
  <2>6. InSettled <=> \E i \in 1..m : first[i].slot = "control"
    BY <2>1, <2>3 DEF InSettled
  <2>7. CASE pending["control"]
    <3>1. settled' = Append(first, [slot |-> "control", outcome |-> Failure])
      BY <2>2, <2>3, <2>4, <2>7 DEF Slots
    <3>2. ~InSettled
      BY <2>7 DEF ControlInv, KindInv
    <3>3. Len(settled') = m + 1 /\ \A i \in 1..m + 1 : settled'[i].slot =
             IF i = m + 1 THEN "control" ELSE first[i].slot
      BY <2>2, <2>3, <3>1 DEF Slots
    <3> QED
      BY <2>3, <2>5, <2>6, <2>7, <3>2, <3>3 DEF InSettled
  <2>8. CASE ~pending["control"]
    <3>1. settled' = first
      BY <2>2, <2>3, <2>4, <2>8 DEF Slots
    <3> QED
      BY <2>5, <2>6, <2>8, <3>1 DEF InSettled
  <2> QED
    BY <2>7, <2>8
<1>5. PlaceInv'
  BY <1>1, <1>2, <1>3, ControlForgotten DEF TypeOK, ControlInv, PlaceInv
<1>6. KindInv'
  BY <1>1, <1>2, <1>3, <1>4, ControlForgotten DEF TypeOK, ControlInv, KindInv
<1> QED
  BY <1>5, <1>6 DEF ControlInv

LEMMA ControlFails ==
  ASSUME TypeOK, ControlInv, NEW slot \in Slots, RequestFails(slot)
  PROVE  ControlInv'
<1>1. Forget({slot}) /\ {slot} \in SUBSET Slots /\ Settle(slot, Failure) /\ control' = control
      /\ pending[slot] /\ pending' = [pending EXCEPT ![slot] = FALSE]
  BY DEF RequestFails
<1>2. /\ InSettled' <=> InSettled \/ slot = "control"
      /\ \A i, j \in 1..Len(settled') :
            settled'[i].slot = "control" /\ settled'[j].slot = "control" => i = j
  BY <1>1, ControlSettles DEF TypeOK, ControlInv, KindInv
<1>3. pending'["control"] <=> pending["control"] /\ slot # "control"
  BY <1>1 DEF TypeOK, RpcTypes, Slots
<1>4. PlaceInv'
  BY <1>1, <1>3, Forgotten, ControlForgotten DEF TypeOK, ControlInv, PlaceInv
<1>5. KindInv'
  BY <1>1, <1>2, <1>3, Forgotten, ControlForgotten DEF TypeOK, ControlInv, KindInv
<1> QED
  BY <1>4, <1>5 DEF ControlInv

LEMMA ControlResumes ==
  ASSUME TypeOK, ControlInv,
         ResumeStart \/ ResumePrompt \/ ResumeQueueMessage \/ ResumeInterrupt \/ ResumeGetStats
  PROVE  ControlInv'
<1>1. settled \in Seq(Settlements) /\ settled # <<>> /\ settled' = Tail(settled)
  BY ResumeTypes DEF TypeOK, RpcTypes, ResumeStart, ResumePrompt, ResumeQueueMessage,
     ResumeInterrupt, ResumeGetStats
<1>2. /\ Len(settled) \in Nat \ {0} /\ Len(settled') = Len(settled) - 1
      /\ \A i \in 1..Len(settled') : settled'[i] = settled[i + 1]
      /\ Head(settled) = settled[1]
  BY <1>1
<1>3. UNCHANGED <<stdin, stdout, ack, preflight, pending>>
  BY DEF ResumeStart, ResumePrompt, ResumeQueueMessage, ResumeInterrupt, ResumeGetStats
<1>4. InSettled' => InSettled
  BY <1>2 DEF InSettled
<1>5. \A i, j \in 1..Len(settled') :
         settled'[i].slot = "control" /\ settled'[j].slot = "control" => i = j
  BY <1>2 DEF ControlInv, KindInv
<1>6. PlaceInv'
  BY <1>3 DEF ControlInv, PlaceInv, InStdin, InStdout
<1>7. CASE ResumeStart
  <2>1. control' = control
    BY <1>7 DEF ResumeStart
  <2>2. KindInv'
    BY <1>3, <1>4, <1>5, <2>1 DEF ControlInv, KindInv
  <2> QED
    BY <1>6, <2>2 DEF ControlInv
<1>8. CASE ~ResumeStart
  <2>1. control' = NoControl /\ settled[1].slot = "control"
    BY <1>2, <1>8 DEF ResumePrompt, ResumeQueueMessage, ResumeInterrupt, ResumeGetStats, Resuming
  <2>2. InSettled /\ ~InSettled'
    BY <1>2, <2>1 DEF InSettled, ControlInv, KindInv
  <2>3. ~pending["control"] /\ ~InStdin /\ ack # "control" /\ preflight.id # "control"
    BY <2>2 DEF ControlInv, KindInv, PlaceInv
  <2>4. KindInv'
    BY <1>3, <1>5, <2>2, <2>3 DEF KindInv, InStdin
  <2> QED
    BY <1>6, <2>4 DEF ControlInv
<1> QED
  BY <1>7, <1>8

LEMMA ControlResumesGetState == ASSUME TypeOK, ControlInv, ResumeGetState PROVE ControlInv'
<1> DEFINE rest == Tail(settled)
           n == Len(settled)
<1>1. settled \in Seq(Settlements) /\ n \in Nat \ {0} /\ settled[1].slot = "control"
  BY ResumeTypes DEF TypeOK, RpcTypes, ResumeGetState, Resuming
<1>2. /\ rest \in Seq(Settlements) /\ Len(rest) = n - 1
      /\ \A i \in 1..n - 1 : rest[i] = settled[i + 1]
  BY <1>1
<1>3. InSettled
  BY <1>1 DEF InSettled
<1>4. ~pending["control"] /\ ~InStdin /\ ~InStdout /\ ack # "control" /\ preflight.id # "control"
  BY <1>3 DEF ControlInv, KindInv, PlaceInv
<1> HIDE DEF rest
<1>5. \A i \in 1..n - 1 : rest[i].slot # "control"
  BY <1>1, <1>2 DEF ControlInv, KindInv
<1>6. UNCHANGED <<stdout, ack, preflight>> /\ control'.kind = "get_session_stats"
  BY DEF ResumeGetState, Control, NoControl
<1>7. ~InStdout' /\ \A i, j \in 1..Len(stdout') : Reply(stdout'[i]) /\ Reply(stdout'[j]) => i = j
  BY <1>4, <1>6 DEF InStdout, ControlInv, PlaceInv
<1>8. CASE alive
  <2> DEFINE r == [id |-> "control", command |-> "get_session_stats", msg |-> None]
  <2>1. stdin' = Append(stdin, r) /\ pending' = [pending EXCEPT !["control"] = TRUE]
        /\ settled' = rest
    BY <1>8 DEF ResumeGetState, rest
  <2>2. r.command = "get_session_stats" /\ r \in Requests
    BY DEF Requests, Ids, Slots
  <2> HIDE DEF r
  <2>3. /\ Len(stdin) \in Nat /\ Len(stdin') = Len(stdin) + 1
        /\ \A i \in 1..Len(stdin') : stdin'[i] = IF i = Len(stdin) + 1 THEN r ELSE stdin[i]
    BY <2>1, <2>2 DEF TypeOK, PipeTypes
  <2>4. \A i \in 1..Len(stdin') : stdin'[i].id = "control" => i = Len(stdin) + 1
    BY <1>4, <2>3 DEF InStdin
  <2>5. pending'["control"] /\ ~InSettled'
    BY <1>2, <1>5, <2>1 DEF TypeOK, RpcTypes, Slots, InSettled
  <2>6. PlaceInv'
    BY <1>4, <1>6, <1>7, <2>4, <2>5 DEF PlaceInv
  <2>7. KindInv'
    BY <1>2, <1>4, <1>5, <1>6, <2>1, <2>2, <2>3, <2>4, <2>5 DEF KindInv
  <2> QED
    BY <2>6, <2>7 DEF ControlInv
<1>9. CASE ~alive
  <2> DEFINE r == [slot |-> "control", outcome |-> Failure]
  <2>1. settled' = <<r>> \o rest /\ stdin' = stdin /\ pending' = pending
    BY <1>9 DEF ResumeGetState, rest
  <2> HIDE DEF r
  <2>2. Len(settled') = n /\ \A i \in 2..n : settled'[i] = rest[i - 1]
    BY <1>1, <1>2, <2>1
  <2>3. \A i \in 1..n : settled'[i].slot = "control" => i = 1
    BY <1>1, <1>5, <2>2
  <2>4. ~InStdin' /\ ~pending'["control"]
    BY <1>4, <2>1 DEF InStdin
  <2>5. PlaceInv'
    BY <1>4, <1>6, <1>7, <2>1, <2>4 DEF ControlInv, PlaceInv
  <2>6. KindInv'
    BY <1>4, <1>6, <2>1, <2>2, <2>3, <2>4 DEF KindInv, InStdin
  <2> QED
    BY <2>5, <2>6 DEF ControlInv
<1> QED
  BY <1>8, <1>9

\* A line is taken from stdout.
LEMMA ControlHears == ASSUME TypeOK, ControlInv, HandleLine PROVE ControlInv'
<1>1. /\ stdout \in Seq(Lines) /\ stdout # <<>> /\ stdout' = Tail(stdout) /\ Head(stdout) = stdout[1]
      /\ UNCHANGED <<control, stdin, ack, preflight>>
  BY LineHeard DEF TypeOK, PipeTypes, HandleLine, HandleResponse, HandleAgentStart, HandleAgentSettled,
     HandleQueueUpdate, HandleUserMessageStart, HandleAssistantMessageEnd, Line, Consume, EventFrame
<1>2. /\ Len(stdout) \in Nat \ {0} /\ Len(stdout') = Len(stdout) - 1
      /\ \A i \in 1..Len(stdout') : stdout'[i] = stdout[i + 1]
  BY <1>1
<1>3. InStdout' => InStdout /\ ~Reply(stdout[1])
  BY <1>2 DEF InStdout, ControlInv, PlaceInv
<1>4. \A i, j \in 1..Len(stdout') : Reply(stdout'[i]) /\ Reply(stdout'[j]) => i = j
  BY <1>2 DEF ControlInv, PlaceInv
<1>5. CASE ~Reply(stdout[1])
  <2>1. /\ pending'["control"] = pending["control"] /\ (InSettled' <=> InSettled)
        /\ \A i, j \in 1..Len(settled') :
               settled'[i].slot = "control" /\ settled'[j].slot = "control" => i = j
    <3>1. CASE pending' = pending /\ settled' = settled
      BY <3>1 DEF InSettled, ControlInv, KindInv
    <3>2. CASE ~(pending' = pending /\ settled' = settled)
      <4>1. HandleResponse /\ stdout[1].id # "dropped" /\ stdout[1].type = "response"
        BY <1>1, <3>2 DEF HandleLine, HandleResponse, HandleAgentStart, HandleAgentSettled, Line,
           HandleQueueUpdate, HandleUserMessageStart, HandleAssistantMessageEnd, EventFrame
      <4>2. stdout[1].id = "start"
        BY <1>1, <1>5, <4>1, LineHeard, LineFields DEF Reply, Ids, Slots
      <4>3. pending' = [pending EXCEPT !["start"] = FALSE] /\ Settle("start", stdout[1].outcome)
        BY <1>1, <4>1, <4>2 DEF HandleResponse
      <4>4. pending'["control"] = pending["control"]
        BY <4>3 DEF TypeOK, RpcTypes, Slots
      <4> QED
        BY <4>3, <4>4, ControlSettles DEF TypeOK, ControlInv, Slots
    <3> QED
      BY <3>1, <3>2
  <2>2. PlaceInv'
    BY <1>1, <1>3, <1>4, <2>1 DEF ControlInv, PlaceInv, InStdin
  <2>3. KindInv'
    BY <1>1, <2>1 DEF ControlInv, KindInv
  <2> QED
    BY <2>2, <2>3 DEF ControlInv
<1>6. CASE Reply(stdout[1])
  <2>1. InStdout
    BY <1>2, <1>6 DEF InStdout
  <2>2. ~InStdin /\ ack # "control" /\ preflight.id # "control" /\ pending["control"]
        /\ ~InSettled /\ control.kind # "none"
    BY <2>1 DEF ControlInv, PlaceInv, KindInv
  <2>3. pending' = [pending EXCEPT !["control"] = FALSE] /\ Settle("control", stdout[1].outcome)
    BY <1>1, <1>6 DEF Reply, HandleLine, HandleResponse, HandleAgentStart, HandleAgentSettled, Line,
       HandleQueueUpdate, HandleUserMessageStart, HandleAssistantMessageEnd
  <2>4. ~pending'["control"]
    BY <2>3 DEF TypeOK, RpcTypes, Slots
  <2>5. \A i, j \in 1..Len(settled') :
            settled'[i].slot = "control" /\ settled'[j].slot = "control" => i = j
    BY <2>2, <2>3, ControlSettles DEF TypeOK, ControlInv, Slots
  <2>6. ~InStdin' /\ ~InStdout'
    BY <1>1, <1>3, <1>6, <2>2 DEF InStdin
  <2>7. PlaceInv'
    BY <1>1, <1>4, <2>2, <2>6 DEF PlaceInv, ControlInv
  <2>8. KindInv'
    BY <1>1, <2>2, <2>4, <2>5, <2>6 DEF KindInv, InStdin
  <2> QED
    BY <2>7, <2>8 DEF ControlInv
<1> QED
  BY <1>5, <1>6

LEMMA EmitReplies ==
  ASSUME TypeOK, ControlInv, NEW lines, lines \in Seq(Lines), Emit(lines),
         \A i, j \in 1..Len(lines) : Reply(lines[i]) /\ Reply(lines[j]) => i = j,
         ~InStdout \/ \A i \in 1..Len(lines) : ~Reply(lines[i])
  PROVE  /\ InStdout' => InStdout \/ \E i \in 1..Len(lines) : Reply(lines[i])
         /\ \A i, j \in 1..Len(stdout') : Reply(stdout'[i]) /\ Reply(stdout'[j]) => i = j
<1>1. CASE deaf
  BY <1>1 DEF Emit, InStdout, ControlInv, PlaceInv
<1>2. CASE ~deaf
  <2> DEFINE n == Len(stdout)
             m == Len(lines)
  <2>1. stdout' = stdout \o lines /\ stdout \in Seq(Lines)
    BY <1>2 DEF Emit, TypeOK, PipeTypes
  <2>2. /\ n \in Nat /\ m \in Nat /\ Len(stdout') = n + m
        /\ \A i \in 1..n : stdout'[i] = stdout[i]
        /\ \A i \in n + 1..n + m : stdout'[i] = lines[i - n]
    BY <2>1
  <2>3. ASSUME NEW i \in 1..n + m, Reply(stdout'[i])
        PROVE  \/ i \in 1..n /\ Reply(stdout[i])
               \/ i \in n + 1..n + m /\ i - n \in 1..m /\ Reply(lines[i - n])
    <3>1. CASE i \in 1..n
      BY <2>2, <2>3, <3>1
    <3>2. CASE i \in n + 1..n + m
      BY <2>2, <2>3, <3>2
    <3> QED
      BY <2>2, <3>1, <3>2
  <2>4. InStdout' => InStdout \/ \E i \in 1..m : Reply(lines[i])
    BY <2>2, <2>3 DEF InStdout
  <2>5. \A i, j \in 1..n + m : Reply(stdout'[i]) /\ Reply(stdout'[j]) => i = j
    <3>1. \A i, j \in 1..n : Reply(stdout[i]) /\ Reply(stdout[j]) => i = j
      BY DEF ControlInv, PlaceInv
    <3> QED
      BY <2>2, <2>3, <3>1 DEF InStdout
  <2> QED
    BY <2>2, <2>4, <2>5
<1> QED
  BY <1>1, <1>2

LEMMA TakesRequest ==
  ASSUME TypeOK, ControlInv, stdin # <<>>, stdin' = Tail(stdin), control' = control
  PROVE  /\ stdin[1] \in Requests /\ Head(stdin) = stdin[1]
         /\ InStdin' => InStdin /\ stdin[1].id # "control"
         /\ stdin[1].id = "control" =>
               InStdin /\ control.kind = IF stdin[1].command = "abort" THEN "interrupt"
                                         ELSE stdin[1].command
         /\ \A i, j \in 1..Len(stdin') : stdin'[i].id = "control" /\ stdin'[j].id = "control" => i = j
         /\ \A i \in 1..Len(stdin') : stdin'[i].id = "control" =>
               control'.kind = IF stdin'[i].command = "abort" THEN "interrupt" ELSE stdin'[i].command
<1>1. /\ stdin \in Seq(Requests) /\ Len(stdin) \in Nat \ {0} /\ Len(stdin') = Len(stdin) - 1
      /\ \A i \in 1..Len(stdin') : stdin'[i] = stdin[i + 1]
      /\ Head(stdin) = stdin[1] /\ stdin[1] \in Requests
  BY DEF TypeOK, PipeTypes
<1>2. InStdin' => InStdin /\ stdin[1].id # "control"
  BY <1>1 DEF InStdin, ControlInv, PlaceInv
<1>3. stdin[1].id = "control" =>
         InStdin /\ control.kind = IF stdin[1].command = "abort" THEN "interrupt"
                                   ELSE stdin[1].command
  BY <1>1 DEF InStdin, ControlInv, KindInv
<1>4. \A i, j \in 1..Len(stdin') : stdin'[i].id = "control" /\ stdin'[j].id = "control" => i = j
  BY <1>1 DEF ControlInv, PlaceInv
<1>5. \A i \in 1..Len(stdin') : stdin'[i].id = "control" =>
         control'.kind = IF stdin'[i].command = "abort" THEN "interrupt" ELSE stdin'[i].command
  BY <1>1 DEF ControlInv, KindInv
<1> QED
  BY <1>1, <1>2, <1>3, <1>4, <1>5

LEMMA Replies ==
  /\ \A id, r : Reply(Response(id, r)) <=> id = "control"
  /\ \A e : ~Reply(UserMessage(e))
  /\ \A a, error : ~Reply(Assistant(a, error))
  /\ \A q : ~Reply(QueueUpdate(q))
  /\ ~Reply(Event("agent_start")) /\ ~Reply(Event("agent_settled"))
  BY DEF Reply, Response, UserMessage, Assistant, QueueUpdate, Event

LEMMA ControlFrame ==
  ASSUME ParentFrame, ControlInv
  PROVE  /\ UNCHANGED <<control, pending, settled>>
         /\ InSettled' <=> InSettled
         /\ PlaceInv' /\ (\A i \in 1..Len(stdin') : stdin'[i].id = "control" =>
               control'.kind = IF stdin'[i].command = "abort" THEN "interrupt" ELSE stdin'[i].command)
            /\ (ack' = "control" => control.kind = "queue")
            /\ (preflight'.id = "control" => control.kind = "prompt")
            => ControlInv'
  BY DEF ParentFrame, InSettled, ControlInv, KindInv

\* Lines that reply to nothing.
LEMMA ControlSpeaks ==
  ASSUME TypeOK, ControlInv, ParentFrame, NEW lines, lines \in Seq(Lines), Emit(lines),
         \A i \in 1..Len(lines) : ~Reply(lines[i]),
         UNCHANGED <<stdin, ack, preflight>>
  PROVE  ControlInv'
<1>1. /\ InStdout' => InStdout
      /\ \A i, j \in 1..Len(stdout') : Reply(stdout'[i]) /\ Reply(stdout'[j]) => i = j
  BY EmitReplies
<1>2. PlaceInv'
  BY <1>1, ControlFrame DEF ControlInv, PlaceInv, InStdin
<1> QED
  BY <1>2, ControlFrame DEF ControlInv, KindInv

LEMMA ControlTakesPrompt == ASSUME TypeOK, ControlInv, ChildTakesPrompt PROVE ControlInv'
<1>1. /\ ParentFrame /\ stdin # <<>> /\ stdin' = Tail(stdin) /\ control' = control
      /\ Head(stdin).command = "prompt" /\ ack' = ack
      /\ \/ preflight = NoPreflight
            /\ preflight' = [id |-> Head(stdin).id, msg |-> Head(stdin).msg] /\ stdout' = stdout
         \/ Emit(<<Response(Head(stdin).id, "rejected")>>) /\ preflight' = preflight
  BY DEF ChildTakesPrompt, ParentFrame
<1>2. Head(stdin).id \in Ids /\ Response(Head(stdin).id, "rejected") \in Lines
  BY <1>1, TakesRequest, RequestFields, LineTypes
<1>3. CASE preflight' = [id |-> Head(stdin).id, msg |-> Head(stdin).msg] /\ stdout' = stdout
           /\ preflight = NoPreflight
  <2>1. preflight'.id = Head(stdin).id /\ preflight.id # "control" /\ (InStdout' <=> InStdout)
    BY <1>3 DEF NoPreflight, InStdout
  <2>2. \A i, j \in 1..Len(stdout') : Reply(stdout'[i]) /\ Reply(stdout'[j]) => i = j
    BY <1>3 DEF ControlInv, PlaceInv
  <2>3. PlaceInv'
    BY <1>1, <2>1, <2>2, TakesRequest, ControlFrame DEF ControlInv, PlaceInv
  <2> QED
    BY <1>1, <2>1, <2>3, TakesRequest, ControlFrame DEF ControlInv, KindInv
<1>4. CASE Emit(<<Response(Head(stdin).id, "rejected")>>) /\ preflight' = preflight
  <2> DEFINE lines == <<Response(Head(stdin).id, "rejected")>>
  <2>1. lines \in Seq(Lines) /\ Len(lines) = 1 /\ (Reply(lines[1]) <=> Head(stdin).id = "control")
    BY <1>2, Replies
  <2>2. Emit(lines)
    BY <1>4
  <2> HIDE DEF lines
  <2>3. Head(stdin).id = "control" => ~InStdout
    BY <1>1, TakesRequest DEF ControlInv, PlaceInv
  <2>4. /\ InStdout' => InStdout \/ Head(stdin).id = "control"
        /\ \A i, j \in 1..Len(stdout') : Reply(stdout'[i]) /\ Reply(stdout'[j]) => i = j
    BY <2>1, <2>2, <2>3, EmitReplies
  <2>5. PlaceInv'
    BY <1>1, <1>4, <2>4, TakesRequest, ControlFrame DEF ControlInv, PlaceInv
  <2> QED
    BY <1>1, <1>4, <2>5, TakesRequest, ControlFrame DEF ControlInv, KindInv
<1> QED
  BY <1>1, <1>3, <1>4

LEMMA ControlTakesQueueRequest == ASSUME TypeOK, ControlInv, ChildTakesQueueRequest PROVE ControlInv'
<1> DEFINE id == Head(stdin).id
<1>1. /\ ParentFrame /\ stdin # <<>> /\ stdin' = Tail(stdin) /\ control' = control
      /\ Head(stdin).command = "queue" /\ ack # "control" /\ preflight' = preflight
  BY DEF ChildTakesQueueRequest, ParentFrame
<1>2. id \in Ids /\ (id = "control" => InStdin /\ control.kind = "queue")
  BY <1>1, TakesRequest, RequestFields
<1>3. PICK lines \in Seq(Lines) :
         /\ Emit(lines)
         /\ \A i \in 1..Len(lines) : Reply(lines[i]) => i = 1 /\ id = "control" /\ ack' = ack
         /\ ack' = ack \/ ack' = id
  <2>1. CASE \E text \in {Head(stdin).msg, Expanded(Head(stdin).msg)} :
               \/ /\ ack' = id
                  /\ Emit(<<QueueUpdate(childQueue')>>)
               \/ /\ UNCHANGED ack
                  /\ Emit(<<Response(id, "ok"), QueueUpdate(childQueue')>>)
    <3>1. QueueUpdate(childQueue') \in Lines /\ ~Reply(QueueUpdate(childQueue'))
      BY TypesChild, LineTypes, Replies DEF TypeOK, ChildTypes, ChildNext
    <3>2. CASE ack' = id /\ Emit(<<QueueUpdate(childQueue')>>)
      <4>1. ASSUME NEW l \in Lines, ~Reply(l)
            PROVE  <<l>> \in Seq(Lines) /\ \A i \in 1..Len(<<l>>) : ~Reply(<<l>>[i])
        BY <4>1
      <4> QED
        BY <3>1, <3>2, <4>1
    <3>3. CASE ack' = ack /\ Emit(<<Response(id, "ok"), QueueUpdate(childQueue')>>)
      <4>1. Response(id, "ok") \in Lines /\ (Reply(Response(id, "ok")) <=> id = "control")
        BY <1>2, LineTypes, Replies
      <4>2. ASSUME NEW l \in Lines, NEW k \in Lines, ~Reply(k)
            PROVE  <<l, k>> \in Seq(Lines) /\ \A i \in 1..Len(<<l, k>>) :
                      Reply(<<l, k>>[i]) => i = 1 /\ Reply(l)
        BY <4>2
      <4> QED
        BY <3>1, <3>3, <4>1, <4>2
    <3> QED
      BY <2>1, <3>2, <3>3
  <2>2. CASE \E result \in {"handled", "rejected"} :
               Emit(<<Response(id, result)>>) /\ UNCHANGED <<childQueue, ack>>
    <3>1. PICK result \in {"handled", "rejected"} : Emit(<<Response(id, result)>>) /\ ack' = ack
      BY <2>2
    <3>2. Response(id, result) \in Lines /\ (Reply(Response(id, result)) <=> id = "control")
      BY <1>2, LineTypes, Replies
    <3>3. ASSUME NEW l \in Lines
          PROVE  <<l>> \in Seq(Lines) /\ \A i \in 1..Len(<<l>>) : Reply(<<l>>[i]) => i = 1 /\ Reply(l)
      BY <3>3
    <3> QED
      BY <3>1, <3>2, <3>3
  <2> QED
    BY <2>1, <2>2 DEF ChildTakesQueueRequest
<1>4. id = "control" => ~InStdout /\ preflight.id # "control"
  BY <1>2 DEF ControlInv, PlaceInv
<1>5. /\ InStdout' => InStdout \/ (id = "control" /\ ack' = ack)
      /\ \A i, j \in 1..Len(stdout') : Reply(stdout'[i]) /\ Reply(stdout'[j]) => i = j
  BY <1>3, <1>4, EmitReplies
<1> HIDE DEF id
<1>6. /\ InStdin' => InStdin /\ id # "control"
      /\ \A i, j \in 1..Len(stdin') : stdin'[i].id = "control" /\ stdin'[j].id = "control" => i = j
      /\ \A i \in 1..Len(stdin') : stdin'[i].id = "control" =>
            control'.kind = IF stdin'[i].command = "abort" THEN "interrupt" ELSE stdin'[i].command
  BY <1>1, TakesRequest DEF id
<1>7. PlaceInv'
  BY <1>1, <1>2, <1>3, <1>4, <1>5, <1>6, ControlFrame DEF ControlInv, PlaceInv
<1> QED
  BY <1>1, <1>2, <1>3, <1>6, <1>7, ControlFrame DEF ControlInv, KindInv

\* A reply to the request at the head of stdin.
LEMMA ControlAnswered ==
  ASSUME TypeOK, ControlInv, ParentFrame, stdin # <<>>, stdin' = Tail(stdin),
         NEW lines, lines \in Seq(Lines), Emit(lines),
         \A i \in 1..Len(lines) : Reply(lines[i]) => i = Len(lines) /\ Head(stdin).id = "control",
         UNCHANGED <<ack, preflight>>
  PROVE  ControlInv'
<1>1. control' = control
  BY DEF ParentFrame
<1>2. Head(stdin).id = "control" => ~InStdout /\ ack # "control" /\ preflight.id # "control"
  BY <1>1, TakesRequest DEF ControlInv, PlaceInv
<1>3. /\ InStdout' => InStdout \/ Head(stdin).id = "control"
      /\ \A i, j \in 1..Len(stdout') : Reply(stdout'[i]) /\ Reply(stdout'[j]) => i = j
  BY <1>2, EmitReplies
<1>4. PlaceInv'
  BY <1>1, <1>2, <1>3, TakesRequest, ControlFrame DEF ControlInv, PlaceInv
<1> QED
  BY <1>1, <1>4, TakesRequest, ControlFrame DEF ControlInv, KindInv

LEMMA ControlTakesAbort == ASSUME TypeOK, ControlInv, ChildTakesAbort PROVE ControlInv'
<1> DEFINE id == Head(stdin).id
<1>1. /\ ParentFrame /\ stdin # <<>> /\ stdin' = Tail(stdin) /\ UNCHANGED <<ack, preflight>>
      /\ \/ Emit(<<Assistant(None, FALSE), Event("agent_settled"), Response(id, "ok")>>)
         \/ \E r \in {"ok", "rejected"} : Emit(<<Response(id, r)>>)
  BY DEF ChildTakesAbort
<1>2. id \in Ids
  BY <1>1, TakesRequest, RequestFields DEF ParentFrame
<1>3. CASE Emit(<<Assistant(None, FALSE), Event("agent_settled"), Response(id, "ok")>>)
  <2>1. /\ Assistant(None, FALSE) \in Lines /\ ~Reply(Assistant(None, FALSE))
        /\ Event("agent_settled") \in Lines /\ ~Reply(Event("agent_settled"))
        /\ Response(id, "ok") \in Lines /\ (Reply(Response(id, "ok")) <=> id = "control")
    BY <1>2, LineTypes, Replies, Kickoff
  <2>2. ASSUME NEW a \in Lines, NEW b \in Lines, NEW c \in Lines, ~Reply(a), ~Reply(b)
        PROVE  <<a, b, c>> \in Seq(Lines) /\ \A i \in 1..Len(<<a, b, c>>) :
                  Reply(<<a, b, c>>[i]) => i = Len(<<a, b, c>>) /\ Reply(c)
    BY <2>2
  <2> DEFINE a == Assistant(None, FALSE)
             b == Event("agent_settled")
             c == Response(id, "ok")
             lines == <<a, b, c>>
  <2>3. Emit(lines)
    BY <1>3
  <2> HIDE DEF a, b, c
  <2>4. lines \in Seq(Lines) /\ \A i \in 1..Len(lines) : Reply(lines[i]) => i = Len(lines) /\ Reply(c)
    <3>1. a \in Lines /\ ~Reply(a) /\ b \in Lines /\ ~Reply(b) /\ c \in Lines
      BY <2>1 DEF a, b, c
    <3> QED
      BY <2>2, <3>1
  <2>5. Reply(c) => id = "control"
    BY <2>1 DEF c
  <2> HIDE DEF lines
  <2> QED
    BY <1>1, <2>3, <2>4, <2>5, ControlAnswered
<1>4. CASE \E r \in {"ok", "rejected"} : Emit(<<Response(id, r)>>)
  <2>1. PICK r \in {"ok", "rejected"} : Emit(<<Response(id, r)>>)
    BY <1>4
  <2>2. Response(id, r) \in Lines /\ (Reply(Response(id, r)) <=> id = "control")
    BY <1>2, LineTypes, Replies
  <2>3. ASSUME NEW a \in Lines
        PROVE  <<a>> \in Seq(Lines) /\ \A i \in 1..Len(<<a>>) :
                  Reply(<<a>>[i]) => i = Len(<<a>>) /\ Reply(a)
    BY <2>3
  <2> QED
    BY <1>1, <2>1, <2>2, <2>3, ControlAnswered
<1> QED
  BY <1>1, <1>3, <1>4

LEMMA ControlReportsState == ASSUME TypeOK, ControlInv, ChildReportsState PROVE ControlInv'
<1> DEFINE outcome == [result |-> "ok", streaming |-> Streaming, count |-> Len(childQueue)]
           line == [type |-> "response", id |-> Head(stdin).id, outcome |-> outcome]
<1>1. /\ ParentFrame /\ stdin # <<>> /\ stdin' = Tail(stdin) /\ UNCHANGED <<ack, preflight>>
      /\ Emit(<<line>>)
  BY DEF ChildReportsState
<1>2. Head(stdin).id \in Ids
  BY <1>1, TakesRequest, RequestFields DEF ParentFrame
<1>3. outcome \in Outcomes
  BY DEF Outcomes, Streaming, TypeOK, ChildTypes
<1>4. line \in Lines /\ (Reply(line) <=> Head(stdin).id = "control")
  BY <1>2, <1>3 DEF Lines, Reply
<1> HIDE DEF line
<1>5. ASSUME NEW a \in Lines
      PROVE  <<a>> \in Seq(Lines) /\ \A i \in 1..Len(<<a>>) :
                Reply(<<a>>[i]) => i = Len(<<a>>) /\ Reply(a)
  BY <1>5
<1> QED
  BY <1>1, <1>4, <1>5, ControlAnswered

\* A reply to a request the child has taken before.
LEMMA ControlReplies ==
  ASSUME TypeOK, ControlInv, ChildAnswersPrompt \/ ChildAcknowledges
  PROVE  ControlInv'
<1> DEFINE id == IF preflight' = preflight THEN ack ELSE preflight.id
<1>1. PICK r \in {"ok", "rejected"} : Emit(<<Response(id, r)>>)
  BY DEF ChildAnswersPrompt, ChildAcknowledges, NoPreflight
<1>2. /\ ParentFrame /\ stdin' = stdin
      /\ \/ id = ack /\ ack \in Ids /\ ack' = "none" /\ preflight' = preflight
         \/ id = preflight.id /\ preflight.id \in Ids /\ preflight' = NoPreflight /\ ack' = ack
  BY DEF ChildAnswersPrompt, ChildAcknowledges, TypeOK, ChildTypes
<1> HIDE DEF id
<1>3. Response(id, r) \in Lines /\ (Reply(Response(id, r)) <=> id = "control")
  BY <1>2, LineTypes, Replies
<1>4. ASSUME NEW a \in Lines
      PROVE  <<a>> \in Seq(Lines) /\ Len(<<a>>) = 1 /\ \A i \in 1..Len(<<a>>) :
                Reply(<<a>>[i]) => i = Len(<<a>>) /\ Reply(a)
  BY <1>4
<1>5. id = "control" => ~InStdout /\ ~InStdin /\ pending["control"]
  BY <1>2 DEF ControlInv, PlaceInv
<1>6. /\ InStdout' => InStdout \/ id = "control"
      /\ \A i, j \in 1..Len(stdout') : Reply(stdout'[i]) /\ Reply(stdout'[j]) => i = j
  <2>1. PICK lines \in Seq(Lines) : /\ lines = <<Response(id, r)>>
                                    /\ Len(lines) = 1
                                    /\ \A i \in 1..Len(lines) : Reply(lines[i]) =>
                                          i = Len(lines) /\ id = "control"
    BY <1>3, <1>4
  <2>2. Emit(lines)
    BY <1>1, <2>1
  <2> QED
    BY <1>5, <2>1, <2>2, EmitReplies
<1>7. NoPreflight.id # "control"
  BY DEF NoPreflight
<1>8. PlaceInv'
  BY <1>2, <1>5, <1>6, <1>7, ControlFrame DEF ControlInv, PlaceInv, InStdin
<1> QED
  BY <1>2, <1>7, <1>8, ControlFrame DEF ControlInv, KindInv

LEMMA ControlOtherChildSteps ==
  ASSUME TypeOK, ControlInv,
         \/ ChildAnnouncesRun \/ ChildEndsMessage \/ ChildDequeues \/ ChildSettles \/ ChildRetries
         \/ ChildExits
  PROVE  ControlInv'
<1>1. ParentFrame /\ UNCHANGED <<stdin, ack, preflight>>
  BY DEF ChildAnnouncesRun, ChildEndsMessage, ChildDequeues, ChildSettles, ChildRetries, ChildExits
<1>2. ASSUME NEW a \in Lines, ~Reply(a)
      PROVE  <<a>> \in Seq(Lines) /\ \A i \in 1..Len(<<a>>) : ~Reply(<<a>>[i])
  BY <1>2
<1>3. ASSUME NEW a \in Lines, NEW b \in Lines, ~Reply(a), ~Reply(b)
      PROVE  <<a, b>> \in Seq(Lines) /\ \A i \in 1..Len(<<a, b>>) : ~Reply(<<a, b>>[i])
  BY <1>3
<1>4. CASE ChildAnnouncesRun
  <2>1. [msg |-> serving, text |-> serving] \in Entries
    BY <1>4, BoundsAssumption DEF ChildAnnouncesRun, Streaming, None, Numbers, Entries, Messages,
       Texts, TypeOK, ChildTypes
  <2> QED
    BY <1>1, <1>3, <1>4, <2>1, LineTypes, Replies, ControlSpeaks DEF ChildAnnouncesRun
<1>5. CASE ChildEndsMessage
  <2>1. PICK a \in Numbers, error \in BOOLEAN : Emit(<<Assistant(a, error)>>)
    BY <1>5, Kickoff DEF ChildEndsMessage, TypeOK, ChildTypes
  <2> QED
    BY <1>1, <1>2, <2>1, LineTypes, Replies, ControlSpeaks
<1>6. CASE ChildDequeues
  <2>1. Head(childQueue) \in Entries /\ Tail(childQueue) \in Seq(Entries)
    BY <1>6 DEF ChildDequeues, TypeOK, ChildTypes
  <2> QED
    BY <1>1, <1>3, <1>6, <2>1, LineTypes, Replies, ControlSpeaks DEF ChildDequeues
<1>7. CASE ChildSettles \/ ChildRetries
  BY <1>1, <1>2, <1>7, LineTypes, Replies, ControlSpeaks DEF ChildSettles, ChildRetries
<1>8. CASE ChildExits
  <2>1. stdout' = stdout
    BY <1>8 DEF ChildExits
  <2>2. PlaceInv'
    BY <1>1, <2>1, ControlFrame DEF ControlInv, PlaceInv, InStdin, InStdout
  <2> QED
    BY <1>1, <2>2, ControlFrame DEF ControlInv, KindInv
<1> QED
  BY <1>4, <1>5, <1>6, <1>7, <1>8

LEMMA ControlProcess ==
  ASSUME TypeOK, ControlInv,
         Stop \/ Close \/ RejectOversizedOutput \/ ProcessError \/ FinishTermination
  PROVE  ControlInv'
<1>1. CASE Stop \/ Close
  BY <1>1, ControlRejected DEF Stop, Close
<1>2. CASE RejectOversizedOutput \/ ProcessError \/ FinishTermination
  <2>1. UNCHANGED <<stdin, ack, preflight, pending, settled, control>>
        /\ (stdout' = stdout \/ stdout' = <<>>)
    BY <1>2 DEF RejectOversizedOutput, ProcessError, FinishTermination
  <2>2. /\ InStdout' => InStdout
        /\ \A i, j \in 1..Len(stdout') : Reply(stdout'[i]) /\ Reply(stdout'[j]) => i = j
    <3>1. CASE stdout' = stdout
      BY <3>1 DEF InStdout, ControlInv, PlaceInv
    <3>2. CASE stdout' = <<>>
      BY <3>2 DEF InStdout
    <3> QED
      BY <2>1, <3>1, <3>2
  <2>3. PlaceInv'
    BY <2>1, <2>2 DEF ControlInv, PlaceInv, InStdin
  <2>4. KindInv'
    BY <2>1 DEF ControlInv, KindInv, InSettled
  <2> QED
    BY <2>3, <2>4 DEF ControlInv
<1> QED
  BY <1>1, <1>2

LEMMA ControlInit == Init => ControlInv
<1> SUFFICES ASSUME Init PROVE ControlInv
  OBVIOUS
<1>1. stdin = <<[id |-> "start", command |-> "prompt", msg |-> 1]>> /\ stdout = <<>> /\ settled = <<>>
      /\ ack = "none" /\ preflight = NoPreflight /\ ~pending["control"]
  BY DEF Init, Slots
<1>2. ~InStdin /\ ~InStdout /\ ~InSettled /\ preflight.id # "control"
  BY <1>1 DEF InStdin, InStdout, InSettled, NoPreflight
<1> QED
  BY <1>1, <1>2 DEF ControlInv, PlaceInv, KindInv, InStdin

LEMMA ControlStep == TypeOK /\ ControlInv /\ [Next]_vars => ControlInv'
<1> SUFFICES ASSUME TypeOK, ControlInv, [Next]_vars PROVE ControlInv'
  OBVIOUS
<1>1. CASE CallerNext
  BY <1>1, ControlBegins, ControlProcess DEF CallerNext
<1>2. CASE Continuations
  BY <1>2, ControlResumes, ControlResumesGetState DEF Continuations
<1>3. CASE HandleLine
  BY <1>3, ControlHears
<1>4. CASE ProcessEvents
  BY <1>4, ControlProcess DEF ProcessEvents
<1>5. CASE \E slot \in Slots : RequestFails(slot)
  BY <1>5, ControlFails
<1>6. CASE ChildNext
  BY <1>6, ControlTakesPrompt, ControlReplies, ControlTakesQueueRequest, ControlTakesAbort,
     ControlReportsState, ControlOtherChildSteps DEF ChildNext
<1>7. CASE UNCHANGED vars
  BY <1>7 DEF vars, ControlInv, PlaceInv, KindInv, InStdin, InStdout, InSettled
<1> QED
  BY <1>1, <1>2, <1>3, <1>4, <1>5, <1>6, <1>7 DEF Next

-----------------------------------------------------------------------------
(* The process, its run, and the attempt to interrupt it.                   *)

\* A run is announced before it answers; a prompt is checked while none runs.
RunInv ==
    /\ announced => serving # None
    /\ answered => announced
    /\ preflight # NoPreflight => serving = None

\* A process that could not be spawned says nothing, and a parent that no
\* longer listens has nothing left to read.
ProcessInv ==
    /\ ~hasPid => ~alive /\ stdout = <<>> /\ final = None /\ abortAttempt.final = None
    /\ deaf => stdout = <<>>

\* An attempt to interrupt is live while its operation awaits the abort, and
\* the answer and the claims of the operation are then kept in the attempt.
AttemptInv ==
    /\ abortAttempt.live <=> control.kind = "interrupt"
    /\ ~abortAttempt.live => abortAttempt = NoAttempt
    /\ abortAttempt.live =>
          interruptedOperation /\ queuedAfterInterrupt = NoClaims /\ final = None
    /\ control.kind = "interrupt" => control.previous # "idle"
    /\ control.kind # "interrupt" => control.spared = {}

HandleInv == RunInv /\ ProcessInv /\ AttemptInv

LEMMA RunStep == TypeOK /\ RunInv /\ [Next]_vars => RunInv'
<1> SUFFICES ASSUME TypeOK, RunInv, [Next]_vars PROVE RunInv'
  OBVIOUS
<1>1. ASSUME UNCHANGED <<announced, serving, answered>>,
             preflight' = NoPreflight <=> preflight = NoPreflight
      PROVE  RunInv'
  BY <1>1 DEF RunInv
<1>2. CASE CallerNext
  <2>1. CASE Stop
    <3>1. Awaited \in SUBSET Slots /\ Forget(Awaited)
      BY <2>1 DEF Awaited, Stop, RejectPending
    <3> QED
      BY <1>1, <2>1, <3>1, Forgotten DEF Stop, TypeOK
  <2> QED
    BY <1>1, <1>2, <2>1 DEF CallerNext, BeginQueueMessage, BeginPrompt, BeginInterrupt, BeginRefresh
<1>3. CASE Continuations
  BY <1>1, <1>3 DEF Continuations, ResumeStart, ResumePrompt, ResumeQueueMessage, ResumeInterrupt,
     ResumeGetState, ResumeGetStats
<1>4. CASE HandleLine
  BY <1>1, <1>4 DEF HandleLine, HandleResponse, HandleAgentStart, HandleAgentSettled, EventFrame,
     HandleQueueUpdate, HandleUserMessageStart, HandleAssistantMessageEnd
<1>5. CASE ProcessEvents
  <2>1. CASE Close
    <3>1. Awaited \in SUBSET Slots /\ Forget(Awaited)
      BY <2>1 DEF Awaited, Close, RejectPending
    <3> QED
      BY <1>1, <2>1, <3>1, Forgotten DEF Close, TypeOK
  <2> QED
    BY <1>1, <1>5, <2>1 DEF ProcessEvents, RejectOversizedOutput, ProcessError, FinishTermination
<1>6. CASE \E slot \in Slots : RequestFails(slot)
  <2>1. PICK slot \in Slots : RequestFails(slot)
    BY <1>6
  <2>2. {slot} \in SUBSET Slots /\ Forget({slot})
    BY <2>1 DEF RequestFails
  <2> QED
    BY <1>1, <2>1, <2>2, Forgotten DEF RequestFails, TypeOK
<1>7. CASE ChildNext
  <2>1. CASE ChildDequeues
    <3>1. Head(childQueue) = childQueue[1] /\ childQueue[1] \in Entries
      BY <2>1 DEF ChildDequeues, TypeOK, ChildTypes
    <3>2. serving' # None
      BY <2>1, <3>1, Kickoff DEF ChildDequeues, Entries
    <3> QED
      BY <2>1, <3>2 DEF RunInv, ChildDequeues
  <2>2. CASE ChildTakesPrompt
    BY <2>2 DEF RunInv, ChildTakesPrompt, Streaming
  <2>3. CASE ChildAnswersPrompt
    BY <2>3 DEF RunInv, ChildAnswersPrompt
  <2> QED
    BY <1>7, <2>1, <2>2, <2>3 DEF ChildNext, RunInv, ChildAnnouncesRun, ChildTakesQueueRequest,
       ChildAcknowledges, ChildTakesAbort, ChildReportsState, ChildEndsMessage, ChildSettles,
       ChildRetries, ChildExits, Streaming
<1>8. CASE UNCHANGED vars
  BY <1>1, <1>8 DEF vars
<1> QED
  BY <1>2, <1>3, <1>4, <1>5, <1>6, <1>7, <1>8 DEF Next

LEMMA ProcessStep == TypeOK /\ ProcessInv /\ AttemptInv /\ [Next]_vars => ProcessInv'
<1> SUFFICES ASSUME TypeOK, ProcessInv, AttemptInv, [Next]_vars PROVE ProcessInv'
  OBVIOUS
<1>1. CASE CallerNext
  <2>1. CASE Stop
    <3>1. Awaited \in SUBSET Slots /\ Forget(Awaited)
      BY <2>1 DEF Awaited, Stop, RejectPending
    <3>2. stdout = <<>> => stdout' = <<>>
      BY <3>1 DEF Forget
    <3> QED
      BY <2>1, <3>2 DEF Stop, ProcessInv, TerminateProcess
  <2> QED
    BY <1>1, <2>1 DEF CallerNext, ProcessInv, BeginQueueMessage, BeginPrompt, BeginInterrupt,
       BeginRefresh
<1>2. CASE Continuations
  BY <1>2 DEF Continuations, ProcessInv, ResumeStart, ResumePrompt, ResumeQueueMessage, NoAttempt,
     ResumeInterrupt, ResumeGetState, ResumeGetStats
<1>3. CASE HandleLine
  BY <1>3 DEF HandleLine, HandleResponse, HandleAgentStart, HandleAgentSettled, EventFrame,
     HandleQueueUpdate, HandleUserMessageStart, HandleAssistantMessageEnd, Line, ProcessInv,
     TerminateProcess
<1>4. CASE ProcessEvents
  <2>1. CASE Close
    <3>1. Awaited \in SUBSET Slots /\ Forget(Awaited)
      BY <2>1 DEF Awaited, Close, RejectPending
    <3>2. stdout = <<>> => stdout' = <<>>
      BY <3>1 DEF Forget
    <3> QED
      BY <2>1, <3>2 DEF Close, ProcessInv, TerminateProcess
  <2> QED
    BY <1>4, <2>1 DEF ProcessEvents, RejectOversizedOutput, ProcessError, FinishTermination,
       ProcessInv, TerminateProcess
<1>5. CASE \E slot \in Slots : RequestFails(slot)
  <2>1. PICK slot \in Slots : RequestFails(slot)
    BY <1>5
  <2>2. stdout = <<>> => stdout' = <<>>
    BY <2>1 DEF RequestFails, Forget
  <2> QED
    BY <2>1, <2>2 DEF RequestFails, ProcessInv
<1>6. CASE ChildNext
  BY <1>6 DEF ChildNext, ProcessInv, ParentFrame, Emit, ChildTakesPrompt, ChildAnswersPrompt,
     ChildAnnouncesRun, ChildTakesQueueRequest, ChildAcknowledges, ChildTakesAbort, ChildReportsState,
     ChildEndsMessage, ChildDequeues, ChildSettles, ChildRetries, ChildExits
<1>7. CASE UNCHANGED vars
  BY <1>7 DEF vars, ProcessInv
<1> QED
  BY <1>1, <1>2, <1>3, <1>4, <1>5, <1>6, <1>7 DEF Next

LEMMA AttemptStep == TypeOK /\ AttemptInv /\ [Next]_vars => AttemptInv'
<1> SUFFICES ASSUME TypeOK, AttemptInv, [Next]_vars PROVE AttemptInv'
  OBVIOUS
<1>1. ASSUME UNCHANGED <<abortAttempt, control, recovery, final>>
      PROVE  AttemptInv'
  BY <1>1 DEF AttemptInv
<1>3. CASE CallerNext
  <2>1. CASE BeginInterrupt
    <3>1. control' = [kind |-> "interrupt", msg |-> None, claimed |-> FALSE,
                      previous |-> state, spared |-> interrupted, atRest |-> FALSE]
      BY <2>1 DEF BeginInterrupt, Control, NoControl
    <3>2. control'.kind = "interrupt" /\ control'.previous = state
      BY <3>1
    <3>3. abortAttempt'.live /\ interruptedOperation' /\ queuedAfterInterrupt' = NoClaims
          /\ final' = None /\ state # "idle"
      BY <2>1 DEF BeginInterrupt
    <3> QED
      BY <3>2, <3>3 DEF AttemptInv
  <2>2. CASE BeginQueueMessage
    <3>1. control' = [kind |-> "queue", msg |-> sent', claimed |-> interruptedOperation,
                      previous |-> "none", spared |-> {}, atRest |-> FALSE]
      BY <2>2 DEF BeginQueueMessage, Control, NoControl
    <3>2. control'.kind = "queue" /\ control'.spared = {}
      BY <3>1
    <3>3. ~abortAttempt.live /\ abortAttempt' = abortAttempt
      BY <2>2 DEF BeginQueueMessage, AttemptInv, MayBegin, NoControl
    <3> QED
      BY <3>2, <3>3 DEF AttemptInv
  <2>3. CASE BeginPrompt
    BY <2>3 DEF BeginPrompt, AttemptInv, Control, NoControl, MayBegin
  <2>4. CASE BeginRefresh
    BY <2>4 DEF BeginRefresh, AttemptInv, Control, NoControl, MayBegin
  <2>5. CASE Stop
    BY <1>1, <2>5 DEF Stop
  <2> QED
    BY <1>3, <2>1, <2>2, <2>3, <2>4, <2>5 DEF CallerNext
<1>4. CASE Continuations
  <2>1. CASE ResumeStart
    BY <1>1, <2>1 DEF ResumeStart
  <2>2. CASE ResumePrompt \/ ResumeGetStats
    BY <2>2 DEF ResumePrompt, ResumeGetStats, AttemptInv, NoControl
  <2>3. CASE ResumeQueueMessage
    BY <2>3 DEF ResumeQueueMessage, AttemptInv, NoControl
  <2>4. CASE ResumeInterrupt
    BY <2>4 DEF ResumeInterrupt, AttemptInv, NoControl, NoAttempt
  <2>5. CASE ResumeGetState
    BY <2>5 DEF ResumeGetState, AttemptInv, Control, NoControl
  <2> QED
    BY <1>4, <2>1, <2>2, <2>3, <2>4, <2>5 DEF Continuations
<1>5. CASE HandleLine
  <2>1. CASE HandleResponse \/ HandleAgentSettled
    BY <1>1, <2>1 DEF HandleResponse, HandleAgentSettled, EventFrame
  <2>2. abortAttempt \in Attempts
    BY DEF TypeOK, HandleTypes
  <2>3. CASE HandleAgentStart
    BY <2>2, <2>3 DEF HandleAgentStart, EventFrame, AttemptInv, Attempts
  <2>4. CASE HandleUserMessageStart
    BY <2>2, <2>4 DEF HandleUserMessageStart, EventFrame, AttemptInv, Attempts, Queued, NoClaims
  <2>5. CASE HandleAssistantMessageEnd
    BY <2>2, <2>5 DEF HandleAssistantMessageEnd, EventFrame, AttemptInv, Attempts, Answer
  <2>6. CASE HandleQueueUpdate
    BY <2>2, <2>6 DEF HandleQueueUpdate, AttemptInv, Attempts
  <2> QED
    BY <1>5, <2>1, <2>3, <2>4, <2>5, <2>6 DEF HandleLine
<1>6. CASE ProcessEvents \/ \E slot \in Slots : RequestFails(slot)
  BY <1>1, <1>6 DEF ProcessEvents, RejectOversizedOutput, ProcessError, FinishTermination, Close,
     RequestFails
<1>7. CASE ChildNext
  BY <1>1, <1>7 DEF ChildNext, ParentFrame, ChildTakesPrompt, ChildAnswersPrompt,
     ChildAnnouncesRun, ChildTakesQueueRequest, ChildAcknowledges, ChildTakesAbort, ChildReportsState,
     ChildEndsMessage, ChildDequeues, ChildSettles, ChildRetries, ChildExits
<1>8. CASE UNCHANGED vars
  BY <1>1, <1>8 DEF vars
<1> QED
  BY <1>3, <1>4, <1>5, <1>6, <1>7, <1>8 DEF Next

LEMMA HandleInit == Init => HandleInv
  BY DEF Init, HandleInv, RunInv, ProcessInv, AttemptInv, NoAttempt, NoControl

LEMMA HandleStep == TypeOK /\ HandleInv /\ [Next]_vars => HandleInv'
  BY RunStep, ProcessStep, AttemptStep DEF HandleInv

-----------------------------------------------------------------------------
(* What the parent has sent, and what the child speaks of.                  *)

\* Whatever is under way has been sent; interrupts cover what was sent before
\* them, and never the message that is being sent.
SentInv ==
    /\ interrupted \subseteq 1..sent /\ control.spared \subseteq 1..sent
    /\ serving <= sent /\ preflight.msg <= sent
    /\ \A i \in 1..Len(stdin) : stdin[i].msg <= sent
    /\ \A i \in 1..Len(childQueue) : childQueue[i].msg <= sent
    /\ \A i \in 1..Len(childQueue) : childQueue[i].msg = Of(childQueue[i].text)
    /\ control.kind = "queue" => control.msg \in Messages \ interrupted

LEMMA Names ==
  ASSUME NEW m \in Messages
  PROVE  Of(m) = m /\ Of(Expanded(m)) = m
  BY BoundsAssumption DEF Messages, Of, Expanded

LEMMA SentFrame ==
  ASSUME SentInv, UNCHANGED <<interrupted, control, serving, childQueue, sent>>,
         preflight'.msg = preflight.msg, Len(stdin') = Len(stdin),
         \A i \in 1..Len(stdin) : stdin'[i].msg = stdin[i].msg
  PROVE  SentInv'
  BY DEF SentInv

LEMMA SentRequests ==
  ASSUME TypeOK, SentInv, NEW c, NEW m, [id |-> "control", command |-> c, msg |-> m] \in Requests,
         Request("control", c, m), sent' \in Messages, sent <= sent', m <= sent'
  PROVE  \A i \in 1..Len(stdin') : stdin'[i].msg <= sent'
<1> DEFINE r == [id |-> "control", command |-> c, msg |-> m]
<1>1. r.msg = m /\ r \in Requests
  OBVIOUS
<1>2. stdin' = stdin \/ stdin' = Append(stdin, r)
  BY DEF Request
<1>3. \A i \in 1..Len(stdin) : stdin[i].msg \in Numbers
  <2>1. ASSUME NEW i \in 1..Len(stdin) PROVE stdin[i].msg \in Numbers
    <3>1. stdin[i] \in Requests
      BY DEF TypeOK, PipeTypes
    <3> QED
      BY <3>1, RequestFields, Kickoff
  <2> QED
    BY <2>1
<1>4. sent \in Nat /\ sent' \in Nat /\ \A n \in Numbers : n \in Nat
  BY BoundsAssumption DEF TypeOK, HistoryTypes, Messages, Numbers
<1> HIDE DEF r
<1>5. CASE stdin' = stdin
  BY <1>3, <1>4, <1>5 DEF SentInv
<1>6. CASE stdin' = Append(stdin, r)
  <2>1. /\ Len(stdin) \in Nat /\ Len(stdin') = Len(stdin) + 1
        /\ \A i \in 1..Len(stdin') : stdin'[i] = IF i = Len(stdin) + 1 THEN r ELSE stdin[i]
    BY <1>1, <1>6 DEF TypeOK, PipeTypes
  <2> QED
    BY <1>1, <1>3, <1>4, <2>1 DEF SentInv
<1> QED
  BY <1>2, <1>5, <1>6

LEMMA SentBegins ==
  ASSUME TypeOK, SentInv, BeginQueueMessage \/ BeginPrompt \/ BeginInterrupt \/ BeginRefresh
  PROVE  SentInv'
<1>1. sent \in Messages /\ sent' \in Messages /\ sent <= sent'
  BY TypesBegin, BoundsAssumption DEF TypeOK, HistoryTypes, Messages, BeginQueueMessage, BeginPrompt,
     BeginInterrupt, BeginRefresh
<1>2. serving \in Nat /\ preflight.msg \in Nat /\ \A i \in 1..Len(childQueue) : childQueue[i].msg \in Nat
  <2>1. preflight.msg \in Nat
    <3>1. CASE preflight = NoPreflight
      BY <3>1 DEF NoPreflight, None
    <3>2. CASE preflight \in [id : Ids, msg : Messages]
      BY <3>2, BoundsAssumption DEF Messages
    <3> QED
      BY <3>1, <3>2 DEF TypeOK, ChildTypes
  <2>2. ASSUME NEW i \in 1..Len(childQueue) PROVE childQueue[i].msg \in Nat
    <3>1. childQueue[i] \in Entries
      BY DEF TypeOK, ChildTypes
    <3> QED
      BY <3>1, BoundsAssumption DEF Entries, Messages
  <2> QED
    BY <2>1, <2>2, BoundsAssumption DEF TypeOK, ChildTypes, Numbers
<1>3. UNCHANGED <<serving, preflight, childQueue>>
  BY DEF BeginQueueMessage, BeginPrompt, BeginInterrupt, BeginRefresh
<1>4. \A i \in 1..Len(stdin') : stdin'[i].msg <= sent'
  <2>1. CASE BeginQueueMessage
    <3>1. Request("control", "queue", sent')
      BY <2>1 DEF BeginQueueMessage
    <3>2. [id |-> "control", command |-> "queue", msg |-> sent'] \in Requests
      BY <1>1 DEF Requests, Ids, Slots
    <3>3. sent' <= sent'
      BY <1>1, BoundsAssumption DEF Messages
    <3> QED
      BY <1>1, <3>1, <3>2, <3>3, SentRequests
  <2>2. CASE BeginPrompt
    <3>1. Request("control", "prompt", sent')
      BY <2>2 DEF BeginPrompt
    <3>2. [id |-> "control", command |-> "prompt", msg |-> sent'] \in Requests
      BY <1>1 DEF Requests, Ids, Slots
    <3>3. sent' <= sent'
      BY <1>1, BoundsAssumption DEF Messages
    <3> QED
      BY <1>1, <3>1, <3>2, <3>3, SentRequests
  <2>3. CASE BeginInterrupt \/ BeginRefresh
    <3>1. PICK c \in {"abort", "get_state"} : Request("control", c, None)
      BY <2>3 DEF BeginInterrupt, BeginRefresh
    <3>2. [id |-> "control", command |-> c, msg |-> None] \in Requests
      BY DEF Requests, Ids, Slots
    <3>3. None <= sent'
      BY <1>1, BoundsAssumption DEF Messages, None
    <3> QED
      BY <1>1, <3>1, <3>2, <3>3, SentRequests
  <2> QED
    BY <2>1, <2>2, <2>3
<1>5. /\ serving' <= sent' /\ preflight'.msg <= sent'
      /\ \A i \in 1..Len(childQueue') : childQueue'[i].msg <= sent'
      /\ \A i \in 1..Len(childQueue') : childQueue'[i].msg = Of(childQueue'[i].text)
  BY <1>1, <1>2, <1>3, BoundsAssumption DEF SentInv, Messages
<1>6. /\ interrupted' \subseteq 1..sent' /\ control'.spared \subseteq 1..sent'
      /\ control'.kind = "queue" => control'.msg \in Messages \ interrupted'
  <2>1. CASE BeginQueueMessage
    <3>1. control'.kind = "queue" /\ control'.msg = sent' /\ control'.spared = {}
      BY <2>1 DEF BeginQueueMessage, Control, NoControl
    <3>2. interrupted' = interrupted /\ sent' = sent + 1
      BY <2>1 DEF BeginQueueMessage
    <3> QED
      BY <1>1, <3>1, <3>2, BoundsAssumption DEF SentInv, Messages
  <2>2. CASE BeginPrompt
    BY <2>2 DEF BeginPrompt, Control, NoControl
  <2>3. CASE BeginInterrupt
    <3>1. control'.kind = "interrupt" /\ control'.spared = interrupted
      BY <2>3 DEF BeginInterrupt, Control, NoControl
    <3>2. interrupted' = interrupted \cup 1..sent /\ sent' = sent
      BY <2>3 DEF BeginInterrupt
    <3> QED
      BY <3>1, <3>2 DEF SentInv
  <2>4. CASE BeginRefresh
    BY <2>4 DEF BeginRefresh, Control, NoControl, SentInv
  <2> QED
    BY <2>1, <2>2, <2>3, <2>4
<1> QED
  BY <1>4, <1>5, <1>6 DEF SentInv

LEMMA SentForgets ==
  ASSUME TypeOK, SentInv, Stop \/ Close \/ \E slot \in Slots : RequestFails(slot)
  PROVE  SentInv'
<1>1. CASE Stop \/ Close
  <2>1. Awaited \in SUBSET Slots /\ Forget(Awaited)
    BY <1>1 DEF Awaited, Stop, Close, RejectPending
  <2>2. UNCHANGED <<interrupted, control, serving, childQueue, sent>>
    BY <1>1 DEF Stop, Close
  <2> QED
    BY <2>1, <2>2, Forgotten, SentFrame DEF TypeOK
<1>2. ASSUME NEW slot \in Slots, RequestFails(slot) PROVE SentInv'
  <2>1. {slot} \in SUBSET Slots /\ Forget({slot})
    BY <1>2 DEF RequestFails
  <2>2. UNCHANGED <<interrupted, control, serving, childQueue, sent>>
    BY <1>2 DEF RequestFails
  <2> QED
    BY <2>1, <2>2, Forgotten, SentFrame DEF TypeOK
<1> QED
  BY <1>1, <1>2

LEMMA SentResumes == ASSUME TypeOK, SentInv, Continuations PROVE SentInv'
<1>1. UNCHANGED <<serving, preflight, childQueue, sent>>
  BY DEF Continuations, ResumeStart, ResumePrompt, ResumeQueueMessage, ResumeInterrupt,
     ResumeGetState, ResumeGetStats
<1>2. \A i \in 1..Len(stdin') : stdin'[i].msg <= sent
  <2>1. CASE stdin' = stdin
    BY <2>1 DEF SentInv
  <2>2. CASE stdin' # stdin
    <3> DEFINE r == [id |-> "control", command |-> "get_session_stats", msg |-> None]
    <3>1. stdin' = Append(stdin, r)
      BY <2>2 DEF Continuations, ResumeStart, ResumePrompt, ResumeQueueMessage, ResumeInterrupt,
         ResumeGetState, ResumeGetStats
    <3>2. r \in Requests /\ r.msg = None
      BY DEF Requests, Ids, Slots
    <3> HIDE DEF r
    <3>3. /\ Len(stdin) \in Nat /\ Len(stdin') = Len(stdin) + 1
          /\ \A i \in 1..Len(stdin') : stdin'[i] = IF i = Len(stdin) + 1 THEN r ELSE stdin[i]
      BY <3>1, <3>2 DEF TypeOK, PipeTypes
    <3>4. None <= sent
      BY BoundsAssumption DEF TypeOK, HistoryTypes, Messages, None
    <3> QED
      BY <3>2, <3>3, <3>4 DEF SentInv
  <2> QED
    BY <2>1, <2>2
<1>3. CASE ResumeStart
  BY <1>1, <1>2, <1>3 DEF ResumeStart, SentInv
<1>4. CASE ResumeInterrupt
  <2>1. control'.kind = "none" /\ control'.spared = {}
    BY <1>4 DEF ResumeInterrupt, NoControl
  <2>2. interrupted' \in {interrupted, control.spared}
    BY <1>4 DEF ResumeInterrupt
  <2> QED
    BY <1>1, <1>2, <2>1, <2>2 DEF SentInv
<1>5. CASE ~ResumeStart /\ ~ResumeInterrupt
  <2>1. control'.kind # "queue" /\ control'.spared = {} /\ interrupted' = interrupted
    <3>1. CASE ResumeGetState
      <4>1. control.atRest \in BOOLEAN /\ interrupted' = interrupted
            /\ control' = [Control("get_session_stats") EXCEPT !.atRest = control.atRest]
        BY <3>1 DEF ResumeGetState, history, TypeOK, HandleTypes, Controls
      <4> QED
        BY <4>1, NeutralTypes DEF Kinds
    <3> QED
      BY <1>5, <3>1 DEF Continuations, ResumePrompt, ResumeQueueMessage, ResumeGetStats, NoControl
  <2> QED
    BY <1>1, <1>2, <2>1 DEF SentInv
<1> QED
  BY <1>3, <1>4, <1>5

LEMMA SentChild == ASSUME TypeOK, SentInv, ChildNext PROVE SentInv'
<1>1. UNCHANGED <<interrupted, control, sent>>
  BY DEF ParentFrame, ChildNext, ChildTakesPrompt, ChildAnswersPrompt,
     ChildAnnouncesRun, ChildTakesQueueRequest, ChildAcknowledges, ChildTakesAbort, ChildReportsState,
     ChildEndsMessage, ChildDequeues, ChildSettles, ChildRetries, ChildExits
<1>2. \A i \in 1..Len(stdin') : stdin'[i].msg <= sent
  <2>1. CASE stdin' = stdin
    BY <2>1 DEF SentInv
  <2>2. CASE stdin # <<>> /\ stdin' = Tail(stdin)
    <3>1. Len(stdin) \in Nat \ {0} /\ Len(stdin') = Len(stdin) - 1
          /\ \A i \in 1..Len(stdin') : stdin'[i] = stdin[i + 1]
      BY <2>2 DEF TypeOK, PipeTypes
    <3> QED
      BY <3>1 DEF SentInv
  <2> QED
    BY <2>1, <2>2 DEF ChildNext, ChildTakesPrompt, ChildAnswersPrompt,
       ChildAnnouncesRun, ChildTakesQueueRequest, ChildAcknowledges, ChildTakesAbort,
       ChildReportsState, ChildEndsMessage, ChildDequeues, ChildSettles, ChildRetries, ChildExits
<1>3. None <= sent
  BY BoundsAssumption DEF TypeOK, HistoryTypes, Messages, None
<1>4. stdin # <<>> => Head(stdin) = stdin[1] /\ stdin[1] \in Requests /\ stdin[1].msg <= sent
  BY DEF TypeOK, PipeTypes, SentInv
<1>5. preflight'.msg <= sent
  <2>1. CASE ChildTakesPrompt
    BY <1>4, <2>1 DEF ChildTakesPrompt, SentInv
  <2>2. CASE ChildAnswersPrompt
    BY <1>3, <2>2 DEF ChildAnswersPrompt, NoPreflight
  <2>3. CASE ~ChildTakesPrompt /\ ~ChildAnswersPrompt
    <3>1. preflight' = preflight
      BY <2>3 DEF ChildNext, ChildAnnouncesRun, ChildTakesQueueRequest, ChildAcknowledges,
         ChildTakesAbort, ChildReportsState, ChildEndsMessage, ChildDequeues, ChildSettles,
         ChildRetries, ChildExits
    <3> QED
      BY <3>1 DEF SentInv
  <2> QED
    BY <2>1, <2>2, <2>3
<1>6. /\ \A i \in 1..Len(childQueue') : childQueue'[i].msg <= sent
      /\ \A i \in 1..Len(childQueue') : childQueue'[i].msg = Of(childQueue'[i].text)
  <2>1. CASE childQueue' = childQueue
    BY <2>1 DEF SentInv
  <2>2. CASE childQueue # <<>> /\ childQueue' = Tail(childQueue)
    <3>1. Len(childQueue) \in Nat \ {0} /\ Len(childQueue') = Len(childQueue) - 1
          /\ \A i \in 1..Len(childQueue') : childQueue'[i] = childQueue[i + 1]
      BY <2>2 DEF TypeOK, ChildTypes
    <3> QED
      BY <3>1 DEF SentInv
  <2>3. CASE ChildTakesQueueRequest /\ childQueue' # childQueue
    <3>1. PICK text \in {Head(stdin).msg, Expanded(Head(stdin).msg)} :
             childQueue' = Append(childQueue, [msg |-> Head(stdin).msg, text |-> text])
      BY <2>3 DEF ChildTakesQueueRequest
    <3>2. Head(stdin).msg \in Messages /\ Head(stdin).msg <= sent
      BY <1>4, <2>3, RequestFields DEF ChildTakesQueueRequest
    <3> DEFINE e == [msg |-> Head(stdin).msg, text |-> text]
    <3>3. e.msg <= sent /\ e.msg = Of(e.text)
      BY <3>2, Names
    <3>4. e \in Entries
      BY <3>2, BoundsAssumption DEF Entries, Expanded, Messages, Texts
    <3>5. childQueue' = Append(childQueue, e)
      BY <3>1
    <3> HIDE DEF e
    <3>6. Len(childQueue) \in Nat /\ Len(childQueue') = Len(childQueue) + 1
          /\ \A i \in 1..Len(childQueue') :
                childQueue'[i] = IF i = Len(childQueue) + 1 THEN e ELSE childQueue[i]
      BY <3>4, <3>5 DEF TypeOK, ChildTypes
    <3> QED
      BY <3>3, <3>6 DEF SentInv
  <2> QED
    BY <2>1, <2>2, <2>3 DEF ChildNext, ChildTakesPrompt, ChildAnswersPrompt,
       ChildAnnouncesRun, ChildAcknowledges, ChildTakesAbort, ChildDequeues,
       ChildReportsState, ChildEndsMessage, ChildSettles, ChildRetries, ChildExits
<1>7. serving' <= sent
  <2>1. CASE ChildDequeues
    <3>1. Head(childQueue) = childQueue[1] /\ 1 \in 1..Len(childQueue)
      BY <2>1 DEF ChildDequeues, TypeOK, ChildTypes
    <3> QED
      BY <2>1, <3>1 DEF ChildDequeues, SentInv
  <2>2. CASE ChildAnswersPrompt
    BY <2>2 DEF ChildAnswersPrompt, SentInv
  <2>3. CASE ~ChildDequeues /\ ~ChildAnswersPrompt
    <3>1. serving' = serving \/ serving' = None
      BY <2>3 DEF ChildNext, ChildTakesPrompt, ChildAnnouncesRun, ChildTakesQueueRequest,
         ChildAcknowledges, ChildTakesAbort, ChildReportsState, ChildEndsMessage, ChildSettles,
         ChildRetries, ChildExits
    <3> QED
      BY <1>3, <3>1 DEF SentInv
  <2> QED
    BY <2>1, <2>2, <2>3
<1> QED
  BY <1>1, <1>2, <1>5, <1>6, <1>7 DEF SentInv

LEMMA SentInit == Init => SentInv
<1> SUFFICES ASSUME Init PROVE SentInv
  OBVIOUS
<1>1. stdin = <<[id |-> "start", command |-> "prompt", msg |-> 1]>> /\ childQueue = <<>>
      /\ interrupted = {} /\ control = NoControl /\ serving = None /\ preflight = NoPreflight
      /\ sent = 1
  BY DEF Init
<1>2. Len(stdin) = 1 /\ stdin[1].msg = 1
  BY <1>1
<1> QED
  BY <1>1, <1>2 DEF SentInv, NoControl, NoPreflight, None

LEMMA SentStep == TypeOK /\ SentInv /\ [Next]_vars => SentInv'
<1> SUFFICES ASSUME TypeOK, SentInv, [Next]_vars PROVE SentInv'
  OBVIOUS
<1>1. CASE BeginQueueMessage \/ BeginPrompt \/ BeginInterrupt \/ BeginRefresh
  BY <1>1, SentBegins
<1>2. CASE Continuations
  BY <1>2, SentResumes
<1>3. CASE Stop \/ Close \/ \E slot \in Slots : RequestFails(slot)
  BY <1>3, SentForgets
<1>4. CASE HandleLine
  BY <1>4, SentFrame DEF HandleLine, HandleResponse, HandleAgentStart, HandleAgentSettled, EventFrame,
     HandleQueueUpdate, HandleUserMessageStart, HandleAssistantMessageEnd
<1>5. CASE RejectOversizedOutput \/ ProcessError \/ FinishTermination
  BY <1>5, SentFrame DEF RejectOversizedOutput, ProcessError, FinishTermination
<1>6. CASE ChildNext
  BY <1>6, SentChild
<1>7. CASE UNCHANGED vars
  BY <1>7, SentFrame DEF vars
<1> QED
  BY <1>1, <1>2, <1>3, <1>4, <1>5, <1>6, <1>7 DEF Next, CallerNext, ProcessEvents

\* What the parent takes for the message being answered, line by line: a user
\* line names it, and an answer is an answer to it.
Hears(n) ==
    {t \in (0..n) \X Lines \X (0..n) :
        /\ t[2].type = "user" => t[3] = t[2].msg /\ t[2].msg = Of(t[2].text)
        /\ t[2].type # "user" => t[3] = t[1]
        /\ t[2].type = "assistant" => t[2].answer \in {None, t[1]}}

Speech(q, u) == Run(0..sent, Hears(sent), q, lastUser, u)
Spoken(u) == Speech(stdout, u)

\* Once it has read all of stdout, it knows which message a run serves.
SpeechInv == \E u \in 0..sent : Spoken(u) /\ (announced /\ ~deaf => u = serving)

LEMMA HearsLine ==
  ASSUME NEW n, NEW r, NEW l, NEW s
  PROVE  <<r, l, s>> \in Hears(n) <=>
            /\ r \in 0..n /\ l \in Lines /\ s \in 0..n
            /\ l.type = "user" => s = l.msg /\ l.msg = Of(l.text)
            /\ l.type # "user" => s = r
            /\ l.type = "assistant" => l.answer \in {None, r}
  BY DEF Hears

LEMMA SpokenEnds ==
  ASSUME TypeOK, NEW u, Spoken(u)
  PROVE  lastUser \in 0..sent /\ u \in 0..sent
  BY RunEnds DEF Spoken, Speech, TypeOK, PipeTypes

LEMMA SentMessages ==
  ASSUME TypeOK
  PROVE  sent \in Messages /\ sent \in Nat /\ 0 \in 0..sent
  BY BoundsAssumption DEF TypeOK, HistoryTypes, Messages

\* Nothing is read or written, but a request may be forgotten.
LEMMA SpeechSame ==
  ASSUME TypeOK, NEW u, Spoken(u), lastUser' = lastUser, sent' \in Nat, sent <= sent',
         Len(stdout') = Len(stdout), stdout' \in Seq(Lines),
         \A i \in 1..Len(stdout) :
            /\ stdout'[i].type = stdout[i].type
            /\ stdout[i].type # "response" => stdout'[i] = stdout[i]
  PROVE  Spoken(u)' /\ u \in 0..sent'
<1>1. sent \in Nat /\ Len(stdout) \in Nat
  BY SentMessages DEF TypeOK, PipeTypes
<1>2. 0..sent \subseteq 0..sent'
  BY <1>1
<1>3. ASSUME NEW i \in 1..Len(stdout), NEW x \in 0..sent, NEW y \in 0..sent,
             <<x, stdout[i], y>> \in Hears(sent)
      PROVE  <<x, stdout'[i], y>> \in Hears(sent')
  <2>1. stdout'[i] \in Lines
    OBVIOUS
  <2>2. CASE stdout[i].type = "response"
    BY <1>2, <1>3, <2>1, <2>2, HearsLine
  <2>3. CASE stdout[i].type # "response"
    BY <1>2, <1>3, <2>1, <2>3, HearsLine
  <2> QED
    BY <2>2, <2>3
<1>4. lastUser \in 0..sent /\ u \in 0..sent
  BY SpokenEnds
<1>5. Run(0..sent', Hears(sent'), stdout', lastUser, u)
  <2> DEFINE T == Hears(sent)
             T2 == Hears(sent')
             R == 0..sent
             R2 == 0..sent'
             p == stdout'
  <2>1. \A i \in 1..Len(stdout) : \A x, y \in R :
           <<x, stdout[i], y>> \in T => <<x, p[i], y>> \in T2
    BY <1>3
  <2>2. R \subseteq R2 /\ Len(p) = Len(stdout) /\ lastUser \in R /\ u \in R
        /\ Run(R, T, stdout, lastUser, u)
    BY <1>2, <1>4 DEF Spoken, Speech
  <2> HIDE DEF T, T2, R, R2, p
  <2>3. Run(R2, T2, p, lastUser, u)
    BY <1>1, <2>1, <2>2, RunWiden
  <2> QED
    BY <2>3 DEF R2, T2, p
<1> QED
  BY <1>2, <1>4, <1>5 DEF Spoken, Speech

LEMMA SpeechFrame ==
  ASSUME TypeOK, SpeechInv, lastUser' = lastUser, sent' \in Nat, sent <= sent',
         Len(stdout') = Len(stdout), stdout' \in Seq(Lines),
         \A i \in 1..Len(stdout) :
            /\ stdout'[i].type = stdout[i].type
            /\ stdout[i].type # "response" => stdout'[i] = stdout[i],
         announced' /\ ~deaf' => announced /\ ~deaf /\ serving' = serving
  PROVE  SpeechInv'
<1>1. PICK u \in 0..sent : Spoken(u) /\ (announced /\ ~deaf => u = serving)
  BY DEF SpeechInv
<1>2. Spoken(u)' /\ u \in 0..sent'
  BY <1>1, SpeechSame
<1> QED
  BY <1>1, <1>2 DEF SpeechInv

\* A line is written.
LEMMA SpeechSays ==
  ASSUME NEW q \in Seq(Lines), NEW u, NEW l, NEW v, Speech(q, u), <<u, l, v>> \in Hears(sent)
  PROVE  Append(q, l) \in Seq(Lines) /\ Speech(Append(q, l), v) /\ v \in 0..sent
<1>1. l \in Lines /\ v \in 0..sent
  BY HearsLine
<1> DEFINE T == Hears(sent)
           R == 0..sent
<1>2. Run(R, T, q, lastUser, u) /\ <<u, l, v>> \in T /\ v \in R
  BY <1>1 DEF Speech
<1> HIDE DEF T, R
<1>3. Run(R, T, Append(q, l), lastUser, v)
  BY <1>1, <1>2, RunAppend
<1> QED
  BY <1>1, <1>3 DEF R, T, Speech

\* The head of stdout is read.
LEMMA SpeechHeard ==
  ASSUME TypeOK, NEW u, Spoken(u), stdout # <<>>
  PROVE  \E v \in 0..sent :
            /\ <<lastUser, stdout[1], v>> \in Hears(sent)
            /\ Run(0..sent, Hears(sent), Tail(stdout), v, u)
<1> DEFINE T == Hears(sent)
           R == 0..sent
<1>1. Run(R, T, stdout, lastUser, u) /\ stdout \in Seq(Lines)
  BY DEF Spoken, Speech, TypeOK, PipeTypes
<1> HIDE DEF T, R
<1>2. \E v \in R : <<lastUser, stdout[1], v>> \in T /\ Run(R, T, Tail(stdout), v, u)
  BY <1>1, RunTail
<1> QED
  BY <1>2 DEF R, T

\* Lines are written, and nothing else happens to what the parent is told.
LEMMA SpeechWrites ==
  ASSUME TypeOK, ParentFrame, NEW v, Speech(stdout', v), v \in 0..sent,
         announced' /\ ~deaf => v = serving'
  PROVE  SpeechInv'
<1>1. lastUser' = lastUser /\ sent' = sent /\ deaf' = deaf
  BY DEF ParentFrame
<1>2. Spoken(v)'
  BY <1>1 DEF Spoken, Speech
<1> QED
  BY <1>1, <1>2 DEF SpeechInv

LEMMA SpeechOneLine ==
  ASSUME TypeOK, SpeechInv, ParentFrame, NEW l, l \in Lines, Emit(<<l>>), l.type # "user",
         l.type = "assistant" => l.answer = None \/ (announced /\ l.answer = serving),
         announced' => announced /\ serving' = serving
  PROVE  SpeechInv'
<1>1. PICK u \in 0..sent : Spoken(u) /\ (announced /\ ~deaf => u = serving)
  BY DEF SpeechInv
<1>2. CASE deaf
  BY <1>1, <1>2, EmitOne, SpeechWrites DEF TypeOK, Spoken
<1>3. CASE ~deaf
  <2>1. stdout' = Append(stdout, l)
    BY <1>3, EmitOne DEF TypeOK
  <2>2. <<u, l, u>> \in Hears(sent)
    BY <1>1, <1>3, HearsLine
  <2>3. Speech(stdout', u)
    BY <1>1, <2>1, <2>2, SpeechSays DEF TypeOK, PipeTypes, Spoken
  <2> QED
    BY <1>1, <1>3, <2>3, SpeechWrites
<1> QED
  BY <1>2, <1>3

\* A line that starts a message is written behind another.
LEMMA SpeechStartsMessage ==
  ASSUME TypeOK, SpeechInv, ParentFrame, NEW l, l \in Lines, NEW m, m \in Lines, Emit(<<l, m>>),
         l.type \notin {"user", "assistant"}, m.type = "user", m.msg = serving',
         m.msg = Of(m.text), m.msg \in 0..sent
  PROVE  SpeechInv'
<1>1. PICK u \in 0..sent : Spoken(u)
  BY DEF SpeechInv
<1>2. CASE deaf
  BY <1>1, <1>2, EmitTwo, SpeechWrites DEF TypeOK, Spoken
<1>3. CASE ~deaf
  <2>1. stdout' = Append(Append(stdout, l), m) /\ stdout \in Seq(Lines)
    BY <1>3, EmitTwo DEF TypeOK, PipeTypes
  <2>2. <<u, l, u>> \in Hears(sent) /\ <<u, m, serving'>> \in Hears(sent)
    BY <1>1, HearsLine
  <2>3. Append(stdout, l) \in Seq(Lines) /\ Speech(Append(stdout, l), u)
    BY <1>1, <2>1, <2>2, SpeechSays DEF Spoken
  <2>4. Speech(Append(Append(stdout, l), m), serving') /\ serving' \in 0..sent
    <3> DEFINE q == Append(stdout, l)
               v == serving'
    <3>1. q \in Seq(Lines) /\ Speech(q, u) /\ <<u, m, v>> \in Hears(sent)
      BY <2>2, <2>3
    <3> HIDE DEF q, v
    <3>2. Speech(Append(q, m), v) /\ v \in 0..sent
      BY <3>1, SpeechSays
    <3> QED
      BY <3>2 DEF q, v
  <2>5. \E v \in 0..sent : Speech(stdout', v) /\ v = serving'
    BY <2>1, <2>4
  <2> QED
    BY <2>5, SpeechWrites
<1> QED
  BY <1>2, <1>3

LEMMA SpeechChild == ASSUME TypeOK, HandleInv, SentInv, SpeechInv, ChildNext PROVE SpeechInv'
<1>1. ParentFrame
  BY DEF ChildNext, ChildTakesPrompt, ChildAnswersPrompt, ChildAnnouncesRun, ChildTakesQueueRequest,
     ChildAcknowledges, ChildTakesAbort, ChildReportsState, ChildEndsMessage, ChildDequeues,
     ChildSettles, ChildRetries, ChildExits
<1>2. sent \in Nat /\ sent' = sent /\ lastUser' = lastUser /\ deaf' = deaf /\ stdout \in Seq(Lines)
  BY <1>1, SentMessages DEF ParentFrame, TypeOK, PipeTypes
<1>3. ASSUME stdout' = stdout, announced' => announced /\ serving' = serving
      PROVE  SpeechInv'
  BY <1>2, <1>3, SpeechFrame
<1>4. \A id, r : Response(id, r).type = "response"
  BY DEF Response
<1>5. CASE ChildTakesPrompt
  <2>1. CASE stdout' = stdout
    BY <1>3, <1>5, <2>1 DEF ChildTakesPrompt
  <2>2. CASE stdout' # stdout
    <3>1. Emit(<<Response(Head(stdin).id, "rejected")>>) /\ UNCHANGED <<announced, serving>>
          /\ stdin # <<>>
      BY <1>5, <2>2 DEF ChildTakesPrompt
    <3>2. Head(stdin) = stdin[1] /\ stdin[1] \in Requests
      BY <3>1 DEF TypeOK, PipeTypes
    <3>3. Response(Head(stdin).id, "rejected") \in Lines
      BY <3>2, RequestFields, LineTypes
    <3> QED
      BY <1>1, <1>4, <3>1, <3>3, SpeechOneLine
  <2> QED
    BY <2>1, <2>2
<1>6. CASE ChildAnswersPrompt
  <2>1. ~announced /\ announced' = announced
    BY <1>6 DEF ChildAnswersPrompt, HandleInv, RunInv
  <2>2. PICK r \in {"ok", "rejected"} : Emit(<<Response(preflight.id, r)>>)
    BY <1>6 DEF ChildAnswersPrompt
  <2>3. Response(preflight.id, r) \in Lines
    BY <1>6, LineTypes DEF ChildAnswersPrompt, TypeOK, ChildTypes
  <2> QED
    BY <1>1, <1>4, <2>1, <2>2, <2>3, SpeechOneLine
<1>7. CASE ChildAnnouncesRun
  <2>1. serving \in Messages /\ serving' = serving /\ serving \in 0..sent
    BY <1>2, <1>7, BoundsAssumption DEF ChildAnnouncesRun, Streaming, None, Numbers, Messages, TypeOK,
       ChildTypes, SentInv
  <2> DEFINE m == UserMessage([msg |-> serving, text |-> serving])
  <2>2. m.type = "user" /\ m.msg = serving /\ m.text = serving
    BY DEF UserMessage
  <2>3. [msg |-> serving, text |-> serving] \in Entries
    BY <2>1, BoundsAssumption DEF Entries, Messages, Texts
  <2>4. m \in Lines /\ Event("agent_start") \in Lines /\ Event("agent_start").type = "agent_start"
    BY <2>3, LineTypes DEF Event
  <2>5. Emit(<<Event("agent_start"), m>>)
    BY <1>7 DEF ChildAnnouncesRun
  <2> HIDE DEF m
  <2>6. m.msg = serving' /\ m.msg = Of(m.text) /\ m.msg \in 0..sent
    BY <2>1, <2>2, Names
  <2> QED
    BY <1>1, <2>2, <2>4, <2>5, <2>6, SpeechStartsMessage
<1>8. CASE ChildTakesQueueRequest
  <2>1. stdin # <<>> /\ UNCHANGED <<announced, serving>>
    BY <1>8 DEF ChildTakesQueueRequest
  <2>2. Head(stdin) = stdin[1] /\ stdin[1] \in Requests
    BY <2>1 DEF TypeOK, PipeTypes
  <2>3. ASSUME NEW r \in {"ok", "handled", "rejected"}
        PROVE  Response(Head(stdin).id, r) \in Lines
    BY <2>2, RequestFields, LineTypes
  <2>4. QueueUpdate(childQueue') \in Lines /\ QueueUpdate(childQueue').type = "queue_update"
    BY <1>8, TypesChild, LineTypes DEF TypeOK, ChildTypes, ChildNext, QueueUpdate
  <2>5. CASE Emit(<<QueueUpdate(childQueue')>>)
    BY <1>1, <2>1, <2>4, <2>5, SpeechOneLine
  <2>6. CASE Emit(<<Response(Head(stdin).id, "ok"), QueueUpdate(childQueue')>>)
    <3> DEFINE a == Response(Head(stdin).id, "ok")
               b == QueueUpdate(childQueue')
    <3>1. a \in Lines /\ b \in Lines /\ a.type = "response" /\ b.type = "queue_update"
          /\ Emit(<<a, b>>)
      BY <1>4, <2>3, <2>4, <2>6
    <3>2. PICK u \in 0..sent : Spoken(u) /\ (announced /\ ~deaf => u = serving)
      BY DEF SpeechInv
    <3>3. <<u, a, u>> \in Hears(sent) /\ <<u, b, u>> \in Hears(sent)
      BY <3>1, <3>2, HearsLine
    <3> HIDE DEF a, b
    <3>4. Append(stdout, a) \in Seq(Lines) /\ Speech(Append(stdout, a), u)
      BY <1>2, <3>2, <3>3, SpeechSays DEF Spoken
    <3>5. Speech(Append(Append(stdout, a), b), u)
      <4> DEFINE q == Append(stdout, a)
      <4>1. q \in Seq(Lines) /\ Speech(q, u)
        BY <3>4
      <4> HIDE DEF q
      <4>2. Speech(Append(q, b), u)
        BY <4>1, <3>3, SpeechSays
      <4> QED
        BY <4>2 DEF q
    <3>6. Speech(stdout', u)
      BY <3>1, <3>2, <3>5, EmitTwo DEF TypeOK, Spoken
    <3> QED
      BY <1>1, <2>1, <3>2, <3>6, SpeechWrites
  <2>7. CASE \E r \in {"handled", "rejected"} : Emit(<<Response(Head(stdin).id, r)>>)
    BY <1>1, <1>4, <2>1, <2>3, <2>7, SpeechOneLine
  <2> QED
    BY <1>8, <2>5, <2>6, <2>7 DEF ChildTakesQueueRequest
<1>9. CASE ChildAcknowledges
  <2>1. Response(ack, "ok") \in Lines
    BY <1>9, LineTypes DEF ChildAcknowledges, TypeOK, ChildTypes
  <2> QED
    BY <1>1, <1>4, <1>9, <2>1, SpeechOneLine DEF ChildAcknowledges
<1>10. CASE ChildTakesAbort
  <2>1. stdin # <<>>
    BY <1>10 DEF ChildTakesAbort
  <2>2. Head(stdin) = stdin[1] /\ stdin[1] \in Requests
    BY <2>1 DEF TypeOK, PipeTypes
  <2>3. ASSUME NEW r \in {"ok", "handled", "rejected"}
        PROVE  Response(Head(stdin).id, r) \in Lines
    BY <2>2, RequestFields, LineTypes
  <2>4. CASE announced' = FALSE
              /\ Emit(<<Assistant(None, FALSE), Event("agent_settled"), Response(Head(stdin).id, "ok")>>)
    <3> DEFINE a == Assistant(None, FALSE)
               b == Event("agent_settled")
               c == Response(Head(stdin).id, "ok")
    <3>1. a \in Lines /\ b \in Lines /\ c \in Lines /\ Emit(<<a, b, c>>)
      BY <2>3, <2>4, LineTypes, Kickoff
    <3>2. a.type = "assistant" /\ a.answer = None /\ b.type = "agent_settled" /\ c.type = "response"
      BY DEF Assistant, Event, Response
    <3>3. PICK u \in 0..sent : Spoken(u)
      BY DEF SpeechInv
    <3> HIDE DEF a, b, c
    <3>4. /\ <<u, a, u>> \in Hears(sent) /\ <<u, b, u>> \in Hears(sent)
          /\ <<u, c, u>> \in Hears(sent)
      BY <3>1, <3>2, <3>3, HearsLine
    <3> DEFINE p == Append(stdout, a)
               q == Append(p, b)
    <3>5. p \in Seq(Lines) /\ Speech(p, u)
      BY <1>2, <3>3, <3>4, SpeechSays DEF Spoken
    <3> HIDE DEF p
    <3>6. q \in Seq(Lines) /\ Speech(q, u)
      BY <3>4, <3>5, SpeechSays
    <3> HIDE DEF q
    <3>7. Speech(Append(q, c), u)
      BY <3>4, <3>6, SpeechSays
    <3>8. Speech(stdout', u)
      BY <3>1, <3>3, <3>7, EmitThree DEF TypeOK, Spoken, p, q
    <3> QED
      BY <1>1, <2>4, <3>3, <3>8, SpeechWrites
  <2>5. CASE /\ UNCHANGED <<announced, serving>>
             /\ \E r \in {"ok", "rejected"} : Emit(<<Response(Head(stdin).id, r)>>)
    BY <1>1, <1>4, <2>3, <2>5, SpeechOneLine
  <2> QED
    BY <1>10, <2>4, <2>5 DEF ChildTakesAbort
<1>11. CASE ChildReportsState
  <2> DEFINE outcome == [result |-> "ok", streaming |-> Streaming, count |-> Len(childQueue)]
             line == [type |-> "response", id |-> Head(stdin).id, outcome |-> outcome]
  <2>1. stdin # <<>> /\ UNCHANGED <<announced, serving>> /\ Emit(<<line>>)
    BY <1>11 DEF ChildReportsState
  <2>2. Head(stdin) = stdin[1] /\ stdin[1] \in Requests
    BY <2>1 DEF TypeOK, PipeTypes
  <2>3. outcome \in Outcomes
    BY DEF Outcomes, Streaming, TypeOK, ChildTypes
  <2>4. line \in Lines /\ line.type = "response"
    BY <2>2, <2>3, RequestFields DEF Lines
  <2> HIDE DEF line
  <2> QED
    BY <1>1, <2>1, <2>4, SpeechOneLine
<1>12. CASE ChildEndsMessage
  <2>1. PICK a \in Numbers, error \in BOOLEAN :
           Emit(<<Assistant(a, error)>>) /\ a \in {None, serving}
    BY <1>12, Kickoff DEF ChildEndsMessage, TypeOK, ChildTypes
  <2>2. /\ Assistant(a, error) \in Lines /\ Assistant(a, error).type = "assistant"
        /\ Assistant(a, error).answer = a
    BY LineTypes DEF Assistant
  <2>3. announced /\ UNCHANGED <<announced, serving>>
    BY <1>12 DEF ChildEndsMessage
  <2> QED
    BY <1>1, <2>1, <2>2, <2>3, SpeechOneLine
<1>13. CASE ChildDequeues
  <2> DEFINE e == Head(childQueue)
             l == QueueUpdate(Tail(childQueue))
             m == UserMessage(e)
  <2>1. e = childQueue[1] /\ e \in Entries /\ Tail(childQueue) \in Seq(Entries)
        /\ 1 \in 1..Len(childQueue)
    BY <1>13 DEF ChildDequeues, TypeOK, ChildTypes
  <2>2. m.type = "user" /\ m.msg = e.msg /\ m.text = e.text /\ l.type = "queue_update"
    BY DEF UserMessage, QueueUpdate
  <2>3. l \in Lines /\ m \in Lines
    BY <2>1, LineTypes
  <2>4. e.msg \in 0..sent /\ e.msg = Of(e.text)
    <3>1. e.msg <= sent /\ e.msg = Of(e.text)
      BY <2>1 DEF SentInv
    <3>2. e.msg \in Messages
      BY <2>1 DEF Entries
    <3> QED
      BY <1>2, <3>1, <3>2, BoundsAssumption DEF Messages
  <2>5. Emit(<<l, m>>) /\ serving' = e.msg
    BY <1>13 DEF ChildDequeues
  <2> HIDE DEF l, m, e
  <2> QED
    BY <1>1, <2>2, <2>3, <2>4, <2>5, SpeechStartsMessage
<1>14. CASE ChildSettles \/ ChildRetries
  <2>1. PICK t \in {"agent_settled", "agent_start"} : Emit(<<Event(t)>>)
    BY <1>14 DEF ChildSettles, ChildRetries
  <2>2. Event(t) \in Lines /\ Event(t).type = t
    BY LineTypes DEF Event
  <2>3. announced' => announced /\ serving' = serving
    BY <1>14 DEF ChildSettles, ChildRetries
  <2> QED
    BY <1>1, <2>1, <2>2, <2>3, SpeechOneLine
<1>15. CASE ChildExits
  BY <1>3, <1>15 DEF ChildExits
<1> QED
  BY <1>5, <1>6, <1>7, <1>8, <1>9, <1>10, <1>11, <1>12, <1>13, <1>14, <1>15 DEF ChildNext

LEMMA SpeechHears == ASSUME TypeOK, SpeechInv, HandleLine PROVE SpeechInv'
<1>1. /\ stdout # <<>> /\ stdout' = Tail(stdout) /\ Head(stdout) = stdout[1]
      /\ UNCHANGED <<sent, announced, deaf, serving>>
      /\ lastUser' = IF stdout[1].type = "user" THEN stdout[1].msg ELSE lastUser
  BY LineHeard DEF TypeOK, PipeTypes, HandleLine, HandleResponse, HandleAgentStart, HandleAgentSettled,
     HandleQueueUpdate, HandleUserMessageStart, HandleAssistantMessageEnd, Line, Consume, EventFrame
<1>2. PICK u \in 0..sent : Spoken(u) /\ (announced /\ ~deaf => u = serving)
  BY DEF SpeechInv
<1>3. PICK v \in 0..sent : /\ <<lastUser, stdout[1], v>> \in Hears(sent)
                           /\ Run(0..sent, Hears(sent), Tail(stdout), v, u)
  BY <1>1, <1>2, SpeechHeard
<1>4. v = lastUser'
  BY <1>1, <1>3, HearsLine
<1>5. Spoken(u)'
  BY <1>1, <1>3, <1>4 DEF Spoken, Speech
<1> QED
  BY <1>1, <1>2, <1>5 DEF SpeechInv

LEMMA SpeechForgets ==
  ASSUME TypeOK, SpeechInv, Stop \/ Close \/ \E slot \in Slots : RequestFails(slot)
  PROVE  SpeechInv'
<1>1. \E slots \in SUBSET Slots : Forget(slots)
  <2>1. CASE Stop \/ Close
    BY <2>1 DEF Stop, Close, RejectPending, Awaited
  <2>2. ASSUME NEW slot \in Slots, RequestFails(slot) PROVE \E slots \in SUBSET Slots : Forget(slots)
    BY <2>2 DEF RequestFails
  <2> QED
    BY <2>1, <2>2
<1>2. PICK slots \in SUBSET Slots : Forget(slots)
  BY <1>1
<1>3. UNCHANGED <<lastUser, sent, announced, deaf, serving>>
  BY DEF Stop, Close, RequestFails
<1>4. Len(stdout') = Len(stdout) /\ stdout' \in Seq(Lines)
  BY <1>2, ForgetTypes DEF TypeOK, PipeTypes
<1>5. \A i \in 1..Len(stdout) :
            /\ stdout'[i].type = stdout[i].type
            /\ stdout[i].type # "response" => stdout'[i] = stdout[i]
  BY <1>2, Forgotten DEF TypeOK
<1> QED
  BY <1>3, <1>4, <1>5, SpeechFrame, SentMessages

LEMMA SpeechInit == Init => SpeechInv
<1> SUFFICES ASSUME Init PROVE SpeechInv
  OBVIOUS
<1>1. stdout = <<>> /\ lastUser = 0 /\ ~announced /\ 0 \in 0..sent
  BY DEF Init, None
<1> DEFINE T == Hears(sent)
           R == 0..sent
<1>2. 0 \in R
  BY <1>1
<1> HIDE DEF T, R
<1>3. Run(R, T, <<>>, 0, 0)
  BY <1>2, RunNil
<1>4. Spoken(0)
  BY <1>1, <1>3 DEF R, T, Spoken, Speech
<1> QED
  BY <1>1, <1>4 DEF SpeechInv

LEMMA SpeechStep == TypeOK /\ HandleInv /\ SentInv /\ SpeechInv /\ [Next]_vars => SpeechInv'
<1> SUFFICES ASSUME TypeOK, HandleInv, SentInv, SpeechInv, [Next]_vars PROVE SpeechInv'
  OBVIOUS
<1>1. sent \in Nat /\ stdout \in Seq(Lines)
  BY SentMessages DEF TypeOK, PipeTypes
<1>2. ASSUME UNCHANGED <<stdout, lastUser, announced, serving>>, deaf' = deaf \/ deaf',
             sent' \in Nat, sent <= sent'
      PROVE  SpeechInv'
  <2>1. CASE ~deaf' => ~deaf
    BY <1>1, <1>2, <2>1, SpeechFrame
  <2> QED
    BY <1>2, <2>1
<1>3. CASE BeginQueueMessage \/ BeginPrompt \/ BeginInterrupt \/ BeginRefresh
  <2>1. sent' \in Nat /\ sent <= sent' /\ UNCHANGED <<stdout, lastUser, announced, serving, deaf>>
    BY <1>1, <1>3 DEF BeginQueueMessage, BeginPrompt, BeginInterrupt, BeginRefresh
  <2> QED
    BY <1>2, <2>1
<1>4. CASE Continuations
  <2>1. UNCHANGED <<stdout, lastUser, announced, serving, deaf, sent>>
    BY <1>4 DEF Continuations, ResumeStart, ResumePrompt, ResumeQueueMessage, ResumeInterrupt,
       ResumeGetState, ResumeGetStats
  <2> QED
    BY <1>1, <1>2, <2>1
<1>5. CASE HandleLine
  BY <1>5, SpeechHears
<1>6. CASE Stop \/ Close \/ \E slot \in Slots : RequestFails(slot)
  BY <1>6, SpeechForgets
<1>7. CASE ProcessError \/ FinishTermination
  BY <1>1, <1>2, <1>7 DEF ProcessError, FinishTermination
<1>8. CASE RejectOversizedOutput
  <2>1. stdout' = <<>> /\ deaf' = TRUE /\ sent' = sent /\ lastUser' = lastUser
    BY <1>8 DEF RejectOversizedOutput
  <2>2. lastUser \in 0..sent
    BY SpokenEnds DEF SpeechInv
  <2> DEFINE T == Hears(sent)
             R == 0..sent
  <2>3. lastUser \in R
    BY <2>2
  <2> HIDE DEF T, R
  <2>4. Run(R, T, <<>>, lastUser, lastUser)
    BY <2>3, RunNil
  <2>5. \E u \in 0..sent' : Spoken(u)'
    BY <2>1, <2>2, <2>4 DEF T, R, Spoken, Speech
  <2> QED
    BY <2>1, <2>5 DEF SpeechInv
<1>9. CASE ChildNext
  BY <1>9, SpeechChild
<1>10. CASE UNCHANGED vars
  BY <1>1, <1>2, <1>10 DEF vars
<1> QED
  BY <1>3, <1>4, <1>5, <1>6, <1>7, <1>8, <1>9, <1>10 DEF Next, CallerNext, ProcessEvents

\* An answer at the head of stdout is an answer to the message started last.
LEMMA AnswerHeard ==
  ASSUME TypeOK, SpeechInv, stdout # <<>>
  PROVE  /\ stdout[1].type = "assistant" => stdout[1].answer \in {None, lastUser}
         /\ stdout[1].type = "user" => stdout[1].msg = Of(stdout[1].text)
<1>1. PICK u \in 0..sent : Spoken(u)
  BY DEF SpeechInv
<1>2. PICK v \in 0..sent : <<lastUser, stdout[1], v>> \in Hears(sent)
  BY <1>1, SpeechHeard
<1> QED
  BY <1>2, HearsLine

-----------------------------------------------------------------------------
(* Unless a run began behind a report of rest, the parent takes a working   *)
(* child for working, and an idle one shows no answer but to its last       *)
(* message.                                                                 *)

Moods == [awake : BOOLEAN, fresh : BOOLEAN]

\* A reply that settles the child: a report of rest, or that of an abort.
Reports(l, kind) ==
    kind = "get_state" /\ Reply(l) /\ l.outcome.result = "ok" /\ ~l.outcome.streaming
Idling(l, kind) ==
    Reports(l, kind) \/ (kind = "interrupt" /\ Reply(l) /\ l.outcome.result = "ok")

\* awake: the child is not taken for idle; fresh: no answer to an earlier
\* message is kept.  A message starts only while it is awake, and it settles
\* or reports rest only while it is fresh.
Feels(kind) ==
    {t \in Moods \X Lines \X Moods :
        /\ t[3].awake => \/ t[2].type = "agent_start"
                         \/ t[1].awake /\ t[2].type # "agent_settled" /\ ~Idling(t[2], kind)
        /\ t[3].fresh => \/ t[2].type \in {"agent_start", "assistant"}
                         \/ t[1].fresh /\ t[2].type # "user"
        /\ t[2].type = "user" => t[1].awake
        /\ t[2].type = "agent_settled" \/ Reports(t[2], kind) => t[1].fresh}

Aborting == control.kind = "interrupt"
AboutToIdle ==
    \/ RestReported
    \/ /\ Aborting /\ state = "interrupting"
       /\ \E i \in 1..Len(settled) : settled[i].slot = "control" /\ settled[i].outcome.result = "ok"
Current == final \in {None, lastUser} /\ abortAttempt.final \in {None, lastUser}
Rested == answered \/ ~announced

Mood(q, a, e) == Run(Moods, Feels(control.kind), q, a, e)
Starts(a) == /\ a.fresh => Current
             /\ a.awake => overtaken \/ (state # "idle" /\ ~AboutToIdle)
Ends(e) == ~deaf => (announced => e.awake) /\ (Rested => e.fresh)

MoodInv ==
    /\ ~overtaken /\ (state = "idle" \/ RestReported) => Current
    /\ \E a, e \in Moods : Mood(stdout, a, e) /\ Starts(a) /\ Ends(e)

LEMMA FeelsLine ==
  ASSUME NEW kind, NEW r, NEW l, NEW s
  PROVE  <<r, l, s>> \in Feels(kind) <=>
            /\ r \in Moods /\ l \in Lines /\ s \in Moods
            /\ s.awake => \/ l.type = "agent_start"
                          \/ r.awake /\ l.type # "agent_settled" /\ ~Idling(l, kind)
            /\ s.fresh => \/ l.type \in {"agent_start", "assistant"}
                          \/ r.fresh /\ l.type # "user"
            /\ l.type = "user" => r.awake
            /\ l.type = "agent_settled" \/ Reports(l, kind) => r.fresh
  BY DEF Feels

LEMMA MoodSays ==
  ASSUME NEW q \in Seq(Lines), NEW a, NEW e, NEW l, NEW f,
         Mood(q, a, e), <<e, l, f>> \in Feels(control.kind)
  PROVE  Append(q, l) \in Seq(Lines) /\ Mood(Append(q, l), a, f) /\ f \in Moods
<1>1. l \in Lines /\ f \in Moods
  BY FeelsLine
<1> DEFINE T == Feels(control.kind)
           R == Moods
<1>2. Run(R, T, q, a, e) /\ <<e, l, f>> \in T /\ f \in R
  BY <1>1 DEF Mood
<1> HIDE DEF T, R
<1>3. Run(R, T, Append(q, l), a, f)
  BY <1>1, <1>2, RunAppend
<1> QED
  BY <1>1, <1>3 DEF R, T, Mood

LEMMA MoodHeard ==
  ASSUME TypeOK, NEW a, NEW e, Mood(stdout, a, e), stdout # <<>>
  PROVE  \E b \in Moods : <<a, stdout[1], b>> \in Feels(control.kind) /\ Mood(Tail(stdout), b, e)
<1> DEFINE T == Feels(control.kind)
           R == Moods
<1>1. Run(R, T, stdout, a, e) /\ stdout \in Seq(Lines)
  BY DEF Mood, TypeOK, PipeTypes
<1> HIDE DEF T, R
<1>2. \E b \in R : <<a, stdout[1], b>> \in T /\ Run(R, T, Tail(stdout), b, e)
  BY <1>1, RunTail
<1> QED
  BY <1>2 DEF R, T, Mood

\* Nothing is read or written, and no reply becomes one that settles.
LEMMA MoodSame ==
  ASSUME TypeOK, NEW a, NEW e, Mood(stdout, a, e), Len(stdout') = Len(stdout), stdout' \in Seq(Lines),
         \A i \in 1..Len(stdout) :
            /\ stdout'[i].type = stdout[i].type
            /\ Reply(stdout'[i]) =>
                  /\ Reply(stdout[i]) /\ stdout'[i].outcome = stdout[i].outcome
                  /\ control' = control
  PROVE  Mood(stdout, a, e)'
<1> DEFINE T == Feels(control.kind)
           T2 == Feels(control'.kind)
           R == Moods
           p == stdout'
<1>1. Len(stdout) \in Nat
  BY DEF TypeOK, PipeTypes
<1>2. ASSUME NEW i \in 1..Len(stdout), NEW x \in R, NEW y \in R, <<x, stdout[i], y>> \in T
      PROVE  <<x, p[i], y>> \in T2
  <2>1. p[i] \in Lines /\ p[i].type = stdout[i].type
    OBVIOUS
  <2>2. /\ Idling(p[i], control'.kind) => Idling(stdout[i], control.kind)
        /\ Reports(p[i], control'.kind) => Reports(stdout[i], control.kind)
    BY DEF Idling, Reports
  <2> HIDE DEF p
  <2> QED
    BY <1>2, <2>1, <2>2, FeelsLine
<1>3. Run(R, T, stdout, a, e) /\ R \subseteq R /\ Len(p) = Len(stdout)
  BY DEF Mood
<1> HIDE DEF T, T2, R, p
<1>4. a \in R /\ e \in R
  <2>1. stdout \in Seq(Lines)
    BY DEF TypeOK, PipeTypes
  <2> QED
    BY <1>3, <2>1, RunEnds
<1>5. Run(R, T2, p, a, e)
  BY <1>1, <1>2, <1>3, <1>4, RunWiden
<1> QED
  BY <1>5 DEF R, T2, p, Mood

\* The child writes: what it wrote leads to its next situation.
LEMMA MoodWrites ==
  ASSUME TypeOK, MoodInv, ParentFrame, 
         ~deaf => \A a, e \in Moods : Mood(stdout, a, e) /\ Ends(e) =>
            \E f \in Moods : /\ Mood(stdout', a, f)
                             /\ announced' => f.awake
                             /\ Rested' => f.fresh,
         deaf => stdout' = stdout
  PROVE  MoodInv'
<1>1. UNCHANGED <<state, final, lastUser, overtaken, abortAttempt, control, settled, deaf>>
  BY DEF ParentFrame, history
<1>2. /\ ~overtaken /\ (state = "idle" \/ RestReported) => Current
      /\ \E a, e \in Moods : Mood(stdout, a, e) /\ Starts(a) /\ Ends(e)
  BY DEF MoodInv
<1>3. (Current' <=> Current) /\ (AboutToIdle' <=> AboutToIdle) /\ (RestReported' <=> RestReported)
  BY <1>1 DEF Current, AboutToIdle, RestReported, Aborting
<1>4. PICK a \in Moods, e \in Moods : Mood(stdout, a, e) /\ Starts(a) /\ Ends(e)
  BY <1>2
<1>5. PICK f \in Moods : Mood(stdout', a, f) /\ (~deaf => (announced' => f.awake) /\ (Rested' => f.fresh))
  BY <1>4
<1>6. Mood(stdout, a, f)' /\ Starts(a)' /\ Ends(f)'
  BY <1>1, <1>3, <1>4, <1>5 DEF Mood, Starts, Ends
<1> QED
  BY <1>1, <1>2, <1>3, <1>6 DEF MoodInv

\* The best mood after a line.
Felt(e, l) ==
    [awake |-> l.type = "agent_start" \/ (e.awake /\ l.type # "agent_settled" /\ ~Idling(l, control.kind)),
     fresh |-> l.type \in {"agent_start", "assistant"} \/ (e.fresh /\ l.type # "user")]

LEMMA FeltLine ==
  ASSUME NEW e \in Moods, NEW l \in Lines, l.type = "user" => e.awake,
         l.type = "agent_settled" \/ Reports(l, control.kind) => e.fresh
  PROVE  <<e, l, Felt(e, l)>> \in Feels(control.kind) /\ Felt(e, l) \in Moods
<1>1. e.awake \in BOOLEAN /\ e.fresh \in BOOLEAN
  BY DEF Moods
<1>2. Felt(e, l) \in Moods
  BY DEF Felt, Moods
<1>3. /\ Felt(e, l).awake => l.type = "agent_start" \/ (e.awake /\ l.type # "agent_settled" /\ ~Idling(l, control.kind))
      /\ Felt(e, l).fresh => l.type \in {"agent_start", "assistant"} \/ (e.fresh /\ l.type # "user")
  BY DEF Felt
<1> QED
  BY <1>2, <1>3, FeelsLine

LEMMA MoodOneLine ==
  ASSUME TypeOK, MoodInv, ParentFrame, NEW l, l \in Lines, Emit(<<l>>),
         \A e \in Moods : (announced => e.awake) /\ (Rested => e.fresh) =>
            /\ l.type = "user" => e.awake
            /\ l.type = "agent_settled" \/ Reports(l, control.kind) => e.fresh
            /\ announced' => Felt(e, l).awake
            /\ Rested' => Felt(e, l).fresh
  PROVE  MoodInv'
<1>1. stdout' = IF deaf THEN stdout ELSE Append(stdout, l)
  BY EmitOne DEF TypeOK
<1>2. ASSUME ~deaf, NEW a \in Moods, NEW e \in Moods, Mood(stdout, a, e), Ends(e)
      PROVE  \E f \in Moods : Mood(stdout', a, f) /\ (announced' => f.awake) /\ (Rested' => f.fresh)
  <2>1. <<e, l, Felt(e, l)>> \in Feels(control.kind) /\ Felt(e, l) \in Moods
        /\ (announced' => Felt(e, l).awake) /\ (Rested' => Felt(e, l).fresh)
    BY <1>2, FeltLine DEF Ends
  <2>2. Mood(Append(stdout, l), a, Felt(e, l))
    BY <1>2, <2>1, MoodSays DEF TypeOK, PipeTypes
  <2> QED
    BY <1>1, <1>2, <2>1, <2>2
<1> QED
  BY <1>1, <1>2, MoodWrites

LEMMA MoodTwoLines ==
  ASSUME TypeOK, MoodInv, ParentFrame, NEW l, l \in Lines, NEW m, m \in Lines, Emit(<<l, m>>),
         \A e \in Moods : (announced => e.awake) /\ (Rested => e.fresh) =>
            /\ l.type = "user" => e.awake
            /\ l.type = "agent_settled" \/ Reports(l, control.kind) => e.fresh
            /\ m.type = "user" => Felt(e, l).awake
            /\ m.type = "agent_settled" \/ Reports(m, control.kind) => Felt(e, l).fresh
            /\ announced' => Felt(Felt(e, l), m).awake
            /\ Rested' => Felt(Felt(e, l), m).fresh
  PROVE  MoodInv'
<1>1. stdout' = IF deaf THEN stdout ELSE Append(Append(stdout, l), m)
  BY EmitTwo DEF TypeOK
<1>2. ASSUME ~deaf, NEW a \in Moods, NEW e \in Moods, Mood(stdout, a, e), Ends(e)
      PROVE  \E f \in Moods : Mood(stdout', a, f) /\ (announced' => f.awake) /\ (Rested' => f.fresh)
  <2> DEFINE d == Felt(e, l)
             q == Append(stdout, l)
  <2>1. <<e, l, d>> \in Feels(control.kind) /\ d \in Moods
    BY <1>2, FeltLine DEF Ends
  <2>2. Mood(q, a, d) /\ q \in Seq(Lines)
    BY <1>2, <2>1, MoodSays DEF TypeOK, PipeTypes
  <2>3. /\ m.type = "user" => d.awake
        /\ m.type = "agent_settled" \/ Reports(m, control.kind) => d.fresh
        /\ announced' => Felt(d, m).awake
        /\ Rested' => Felt(d, m).fresh
    BY <1>2 DEF Ends
  <2> HIDE DEF d, q
  <2>4. <<d, m, Felt(d, m)>> \in Feels(control.kind) /\ Felt(d, m) \in Moods
    BY <2>1, <2>3, FeltLine
  <2>5. Mood(Append(q, m), a, Felt(d, m))
    BY <2>2, <2>4, MoodSays
  <2> QED
    BY <1>1, <1>2, <2>3, <2>4, <2>5 DEF q
<1> QED
  BY <1>1, <1>2, MoodWrites

LEMMA MoodChild == ASSUME TypeOK, ControlInv, HandleInv, MoodInv, ChildNext PROVE MoodInv'
<1>1. ParentFrame
  BY DEF ChildNext, ChildTakesPrompt, ChildAnswersPrompt, ChildAnnouncesRun, ChildTakesQueueRequest,
     ChildAcknowledges, ChildTakesAbort, ChildReportsState, ChildEndsMessage, ChildDequeues,
     ChildSettles, ChildRetries, ChildExits
<1>2. stdout \in Seq(Lines) /\ announced \in BOOLEAN /\ answered \in BOOLEAN
  BY DEF TypeOK, PipeTypes, ChildTypes
<1>3. ASSUME stdout' = stdout, announced' = announced, answered' = answered
      PROVE  MoodInv'
  BY <1>1, <1>3, MoodWrites DEF Ends, Rested
<1>4. ASSUME NEW id, NEW r
      PROVE  /\ Response(id, r).type = "response"
             /\ Idling(Response(id, r), control.kind) =>
                   control.kind \in {"interrupt", "get_state"} /\ id = "control" /\ r = "ok"
  BY DEF Response, Result, Idling, Reports, Reply
<1>5. ASSUME NEW l, l.type \in {"response", "queue_update"}, NEW e \in Moods
      PROVE  /\ ~Idling(l, control.kind) => (e.awake => Felt(e, l).awake)
             /\ e.fresh => Felt(e, l).fresh
             /\ Reports(l, control.kind) => Idling(l, control.kind)
  BY <1>5 DEF Felt, Moods, Idling
<1>19. ASSUME NEW l, l.type # "response"
       PROVE  ~Idling(l, control.kind) /\ ~Reports(l, control.kind)
  BY <1>19 DEF Idling, Reports, Reply
<1>20. UNCHANGED <<announced, answered>> => (Rested' <=> Rested)
  BY DEF Rested
<1>6. stdin # <<>> => Head(stdin) = stdin[1] /\ stdin[1] \in Requests /\ 1 \in 1..Len(stdin)
  BY DEF TypeOK, PipeTypes
<1>7. CASE ChildTakesPrompt
  <2>1. UNCHANGED <<announced, answered>> /\ stdin # <<>>
    BY <1>7 DEF ChildTakesPrompt
  <2>2. CASE stdout' = stdout
    BY <1>3, <2>1, <2>2
  <2>3. CASE stdout' # stdout
    <3> DEFINE l == Response(Head(stdin).id, "rejected")
    <3>1. Emit(<<l>>) /\ l \in Lines /\ l.type = "response" /\ ~Idling(l, control.kind)
      BY <1>4, <1>6, <1>7, <2>1, <2>3, RequestFields, LineTypes DEF ChildTakesPrompt
    <3> HIDE DEF l
    <3> QED
      BY <1>1, <1>5, <1>20, <2>1, <3>1, MoodOneLine
  <2> QED
    BY <2>2, <2>3
<1>8. CASE ChildAnswersPrompt
  <2>1. ~announced' /\ Rested
    BY <1>8 DEF ChildAnswersPrompt, HandleInv, RunInv, Rested
  <2>2. PICK r \in {"ok", "rejected"} : Emit(<<Response(preflight.id, r)>>)
    BY <1>8 DEF ChildAnswersPrompt
  <2>3. Response(preflight.id, r) \in Lines /\ Response(preflight.id, r).type = "response"
    BY <1>4, <1>8, LineTypes DEF ChildAnswersPrompt, TypeOK, ChildTypes
  <2> QED
    BY <1>1, <1>5, <2>1, <2>2, <2>3, MoodOneLine
<1>9. CASE ChildAnnouncesRun
  <2> DEFINE l == Event("agent_start")
             m == UserMessage([msg |-> serving, text |-> serving])
  <2>1. ~Rested' /\ Emit(<<l, m>>)
    BY <1>9 DEF ChildAnnouncesRun, HandleInv, RunInv, Rested
  <2>2. serving \in Messages
    BY <1>9, BoundsAssumption DEF ChildAnnouncesRun, Streaming, None, Numbers, Messages, TypeOK, ChildTypes
  <2>3. [msg |-> serving, text |-> serving] \in Entries
    BY <2>2, BoundsAssumption DEF Entries, Messages, Texts
  <2>4. l \in Lines /\ m \in Lines /\ l.type = "agent_start" /\ m.type = "user"
    BY <2>3, LineTypes DEF Event, UserMessage
  <2> HIDE DEF l, m
  <2>5. \A e : Felt(e, l).awake
    BY <2>4 DEF Felt
  <2>6. \A d : d.awake => Felt(d, m).awake
    BY <1>19, <2>4 DEF Felt
  <2> QED
    BY <1>1, <1>19, <2>1, <2>4, <2>5, <2>6, MoodTwoLines
<1>10. CASE ChildTakesQueueRequest
  <2>1. stdin # <<>> /\ UNCHANGED <<announced, answered>> /\ Head(stdin).command = "queue"
    BY <1>10 DEF ChildTakesQueueRequest
  <2>2. Head(stdin).id = "control" => control.kind = "queue"
    BY <1>6, <2>1 DEF ControlInv, KindInv
  <2>3. ASSUME NEW r \in {"ok", "handled", "rejected"}
        PROVE  /\ Response(Head(stdin).id, r) \in Lines
               /\ ~Idling(Response(Head(stdin).id, r), control.kind)
    BY <1>4, <1>6, <2>1, <2>2, RequestFields, LineTypes
  <2>4. QueueUpdate(childQueue') \in Lines /\ QueueUpdate(childQueue').type = "queue_update"
        /\ ~Idling(QueueUpdate(childQueue'), control.kind)
    BY <1>10, <1>19, TypesChild, LineTypes DEF TypeOK, ChildTypes, ChildNext, QueueUpdate
  <2>5. CASE Emit(<<QueueUpdate(childQueue')>>)
    <3> DEFINE l == QueueUpdate(childQueue')
    <3>1. l \in Lines /\ l.type = "queue_update" /\ ~Idling(l, control.kind) /\ Emit(<<l>>)
      BY <2>4, <2>5
    <3> HIDE DEF l
    <3> QED
      BY <1>1, <1>5, <1>20, <2>1, <3>1, MoodOneLine
  <2>6. CASE Emit(<<Response(Head(stdin).id, "ok"), QueueUpdate(childQueue')>>)
    <3> DEFINE l == Response(Head(stdin).id, "ok")
               m == QueueUpdate(childQueue')
    <3>1. /\ l \in Lines /\ l.type = "response" /\ ~Idling(l, control.kind)
          /\ m \in Lines /\ m.type = "queue_update" /\ ~Idling(m, control.kind) /\ Emit(<<l, m>>)
      BY <1>4, <2>3, <2>4, <2>6
    <3> HIDE DEF l, m
    <3>2. ~Reports(l, control.kind) /\ ~Reports(m, control.kind)
      BY <3>1 DEF Idling
    <3>3. \A e \in Moods : Felt(e, l) \in Moods
      BY <3>1, <3>2, FeltLine
    <3> QED
      BY <1>1, <1>5, <1>20, <2>1, <3>1, <3>2, <3>3, MoodTwoLines
  <2>7. CASE \E r \in {"handled", "rejected"} : Emit(<<Response(Head(stdin).id, r)>>)
    <3>1. PICK r \in {"handled", "rejected"} : Emit(<<Response(Head(stdin).id, r)>>)
      BY <2>7
    <3> DEFINE l == Response(Head(stdin).id, r)
    <3>2. l \in Lines /\ l.type = "response" /\ ~Idling(l, control.kind) /\ Emit(<<l>>)
      BY <1>4, <2>3, <3>1
    <3> HIDE DEF l
    <3> QED
      BY <1>1, <1>5, <1>20, <2>1, <3>2, MoodOneLine
  <2> QED
    BY <1>10, <2>5, <2>6, <2>7 DEF ChildTakesQueueRequest
<1>11. CASE ChildAcknowledges
  <2> DEFINE l == Response(ack, "ok")
  <2>1. l \in Lines /\ l.type = "response" /\ Emit(<<l>>) /\ UNCHANGED <<announced, answered>>
    BY <1>4, <1>11, LineTypes DEF ChildAcknowledges, TypeOK, ChildTypes
  <2>2. ~Idling(l, control.kind)
    BY <1>4 DEF ControlInv, KindInv
  <2> HIDE DEF l
  <2> QED
    BY <1>1, <1>5, <1>20, <2>1, <2>2, MoodOneLine
<1>12. CASE ChildTakesAbort
  <2>1. stdin # <<>>
    BY <1>12 DEF ChildTakesAbort
  <2>2. ASSUME NEW r \in {"ok", "handled", "rejected"}
        PROVE  Response(Head(stdin).id, r) \in Lines
    BY <1>6, <2>1, RequestFields, LineTypes
  <2>3. CASE /\ ~announced' /\ ~answered'
             /\ Emit(<<Assistant(None, FALSE), Event("agent_settled"), Response(Head(stdin).id, "ok")>>)
    <3> DEFINE l == Assistant(None, FALSE)
               m == Event("agent_settled")
               n == Response(Head(stdin).id, "ok")
    <3>1. l \in Lines /\ m \in Lines /\ n \in Lines /\ Emit(<<l, m, n>>)
      BY <2>2, <2>3, LineTypes, Kickoff
    <3>2. l.type = "assistant" /\ m.type = "agent_settled" /\ n.type = "response"
      BY DEF Assistant, Event, Response
    <3> HIDE DEF l, m, n
    <3>3. stdout' = IF deaf THEN stdout ELSE Append(Append(Append(stdout, l), m), n)
      BY <3>1, EmitThree DEF TypeOK
    <3>4. ASSUME ~deaf, NEW a \in Moods, NEW e \in Moods, Mood(stdout, a, e)
          PROVE  \E f \in Moods : Mood(stdout', a, f) /\ f.fresh
      <4> DEFINE d == Felt(e, l)
                 c == Felt(d, m)
                 f == Felt(c, n)
                 p == Append(stdout, l)
                 q == Append(p, m)
      <4>1. <<e, l, d>> \in Feels(control.kind) /\ d \in Moods
        BY <1>19, <3>1, <3>2, FeltLine
      <4>2. d.fresh
        BY <3>2 DEF Felt
      <4>3. p \in Seq(Lines) /\ Mood(p, a, d)
        BY <1>2, <3>4, <4>1, MoodSays
      <4> HIDE DEF d, p
      <4>4. <<d, m, c>> \in Feels(control.kind) /\ c \in Moods /\ c.fresh
        BY <3>1, <3>2, <4>1, <4>2, FeltLine DEF Felt
      <4>5. q \in Seq(Lines) /\ Mood(q, a, c)
        BY <4>3, <4>4, MoodSays
      <4> HIDE DEF c, q
      <4>6. <<c, n, f>> \in Feels(control.kind) /\ f \in Moods /\ f.fresh
        BY <3>1, <3>2, <4>4, FeltLine DEF Felt
      <4>7. Mood(Append(q, n), a, f)
        BY <4>5, <4>6, MoodSays
      <4> QED
        BY <3>3, <3>4, <4>6, <4>7 DEF p, q
    <3> QED
      BY <1>1, <2>3, <3>3, <3>4, MoodWrites
  <2>4. CASE /\ UNCHANGED <<announced, answered>>
             /\ Emit(<<Response(Head(stdin).id, "rejected")>>)
    <3> DEFINE l == Response(Head(stdin).id, "rejected")
    <3>1. l \in Lines /\ l.type = "response" /\ ~Idling(l, control.kind) /\ Emit(<<l>>)
      BY <1>4, <2>2, <2>4
    <3> HIDE DEF l
    <3> QED
      BY <1>1, <1>5, <1>20, <2>4, <3>1, MoodOneLine
  <2>5. CASE /\ UNCHANGED <<announced, answered>> /\ ~announced
             /\ Emit(<<Response(Head(stdin).id, "ok")>>)
    <3> DEFINE l == Response(Head(stdin).id, "ok")
    <3>1. l \in Lines /\ l.type = "response" /\ Emit(<<l>>) /\ ~announced' /\ Rested
      BY <1>4, <2>2, <2>5 DEF Rested
    <3> HIDE DEF l
    <3> QED
      BY <1>1, <1>5, <3>1, MoodOneLine
  <2> QED
    BY <1>12, <2>3, <2>4, <2>5 DEF ChildTakesAbort
<1>13. CASE ChildReportsState
  <2> DEFINE outcome == [result |-> "ok", streaming |-> Streaming, count |-> Len(childQueue)]
             line == [type |-> "response", id |-> Head(stdin).id, outcome |-> outcome]
  <2>1. stdin # <<>> /\ UNCHANGED <<announced, answered>> /\ Emit(<<line>>)
        /\ Head(stdin).command \in {"get_state", "get_session_stats"}
    BY <1>13 DEF ChildReportsState
  <2>2. outcome \in Outcomes
    BY DEF Outcomes, Streaming, TypeOK, ChildTypes
  <2>3. line \in Lines /\ line.type = "response"
    BY <1>6, <2>1, <2>2, RequestFields DEF Lines
  <2>4. Idling(line, control.kind) => ~Streaming
    BY <1>6, <2>1 DEF Idling, Reports, Reply, ControlInv, KindInv
  <2>5. ~Streaming => ~announced /\ Rested
    BY DEF Streaming, HandleInv, RunInv, Rested
  <2> HIDE DEF line
  <2> QED
    BY <1>1, <1>5, <1>20, <2>1, <2>3, <2>4, <2>5, MoodOneLine
<1>14. CASE ChildEndsMessage
  <2>1. PICK x \in Numbers, error \in BOOLEAN : Emit(<<Assistant(x, error)>>)
    BY <1>14, Kickoff DEF ChildEndsMessage, TypeOK, ChildTypes
  <2>2. announced /\ announced' = announced
    BY <1>14 DEF ChildEndsMessage
  <2> DEFINE l == Assistant(x, error)
  <2>3. l \in Lines /\ l.type = "assistant" /\ Emit(<<l>>)
    BY <2>1, LineTypes DEF Assistant
  <2> HIDE DEF l
  <2>4. \A e : (e.awake => Felt(e, l).awake) /\ Felt(e, l).fresh
    BY <1>19, <2>3 DEF Felt
  <2> QED
    BY <1>1, <1>19, <2>2, <2>3, <2>4, MoodOneLine
<1>15. CASE ChildDequeues
  <2> DEFINE l == QueueUpdate(Tail(childQueue))
             m == UserMessage(Head(childQueue))
  <2>1. announced /\ announced' = announced /\ ~Rested' /\ Emit(<<l, m>>)
    BY <1>15 DEF ChildDequeues, Rested
  <2>2. Head(childQueue) \in Entries /\ Tail(childQueue) \in Seq(Entries)
    BY <1>15 DEF ChildDequeues, TypeOK, ChildTypes
  <2>3. l \in Lines /\ m \in Lines /\ l.type = "queue_update" /\ m.type = "user"
    BY <2>2, LineTypes DEF QueueUpdate, UserMessage
  <2> HIDE DEF l, m
  <2>4. \A e : (e.awake => Felt(e, l).awake) /\ (e.awake => Felt(e, m).awake)
    BY <1>19, <2>3 DEF Felt
  <2> QED
    BY <1>1, <1>19, <2>1, <2>3, <2>4, MoodTwoLines
<1>16. CASE ChildSettles
  <2> DEFINE l == Event("agent_settled")
  <2>1. Rested /\ ~announced' /\ Emit(<<l>>)
    BY <1>16 DEF ChildSettles, Rested
  <2>2. l \in Lines /\ l.type = "agent_settled"
    BY LineTypes DEF Event
  <2> HIDE DEF l
  <2>3. \A e : e.fresh => Felt(e, l).fresh
    BY <2>2 DEF Felt
  <2> QED
    BY <1>1, <1>19, <2>1, <2>2, <2>3, MoodOneLine
<1>17. CASE ChildRetries
  <2> DEFINE l == Event("agent_start")
  <2>1. ~Rested' /\ Emit(<<l>>)
    BY <1>17 DEF ChildRetries, HandleInv, RunInv, Rested
  <2>2. l \in Lines /\ l.type = "agent_start"
    BY LineTypes DEF Event
  <2> HIDE DEF l
  <2>3. \A e : Felt(e, l).awake
    BY <2>2 DEF Felt
  <2> QED
    BY <1>1, <1>19, <2>1, <2>2, <2>3, MoodOneLine
<1>18. CASE ChildExits
  BY <1>3, <1>18 DEF ChildExits
<1> QED
  BY <1>7, <1>8, <1>9, <1>10, <1>11, <1>12, <1>13, <1>14, <1>15, <1>16, <1>17, <1>18 DEF ChildNext

\* A step that reads and writes no line: what it must keep.
LEMMA MoodFrame ==
  ASSUME TypeOK, MoodInv, overtaken' = overtaken,
         Len(stdout') = Len(stdout), stdout' \in Seq(Lines),
         \A i \in 1..Len(stdout) :
            /\ stdout'[i].type = stdout[i].type
            /\ Reply(stdout'[i]) =>
                  /\ Reply(stdout[i]) /\ stdout'[i].outcome = stdout[i].outcome
                  /\ control' = control,
         deaf => deaf', announced' = announced, answered' = answered,
         state' = "idle" \/ AboutToIdle' => state = "idle" \/ AboutToIdle,
         Current => Current',
         state' = "idle" \/ RestReported' => state = "idle" \/ RestReported \/ overtaken \/ Current'
  PROVE  MoodInv'
<1>1. PICK a \in Moods, e \in Moods : Mood(stdout, a, e) /\ Starts(a) /\ Ends(e)
  BY DEF MoodInv
<1>2. Mood(stdout, a, e)'
  BY <1>1, MoodSame
<1>3. Starts(a)' /\ Ends(e)'
  BY <1>1 DEF Starts, Ends, Rested
<1>4. ~overtaken' /\ (state' = "idle" \/ RestReported') => Current'
  BY DEF MoodInv
<1> QED
  BY <1>2, <1>3, <1>4 DEF MoodInv

LEMMA MoodQuiet ==
  ASSUME TypeOK, MoodInv, UNCHANGED <<stdout, announced, answered, overtaken>>,
         deaf => deaf',
         InStdout => control' = control,
         state' = "idle" \/ AboutToIdle' => state = "idle" \/ AboutToIdle,
         Current => Current',
         state' = "idle" \/ RestReported' => state = "idle" \/ RestReported \/ overtaken \/ Current'
  PROVE  MoodInv'
<1>1. stdout' \in Seq(Lines) /\ Len(stdout') = Len(stdout)
  BY DEF TypeOK, PipeTypes
<1>2. \A i \in 1..Len(stdout) :
            /\ stdout'[i].type = stdout[i].type
            /\ Reply(stdout'[i]) =>
                  /\ Reply(stdout[i]) /\ stdout'[i].outcome = stdout[i].outcome
                  /\ control' = control
  BY DEF InStdout
<1> QED
  BY <1>1, <1>2, MoodFrame

\* Requests that fail settle nothing.
LEMMA FailureSettles ==
  ASSUME TypeOK, control' = control, state' # "interrupting" \/ state' = state,
         settled' \in Seq(Settlements),
         \A i \in 1..Len(settled') : settled'[i].outcome = Failure \/ (i <= Len(settled) /\ settled'[i] = settled[i])
  PROVE  (AboutToIdle' => AboutToIdle) /\ (RestReported' => RestReported)
<1>1. Failure.result # "ok"
  BY DEF Failure, Result
<1>2. Len(settled) \in Nat /\ DOMAIN settled = 1..Len(settled) /\ DOMAIN settled' = 1..Len(settled')
      /\ Len(settled') \in Nat
  BY DEF TypeOK, RpcTypes
<1> HIDE DEF Failure
<1>3. RestReported' => RestReported
  <2> SUFFICES ASSUME RestReported' PROVE RestReported
    OBVIOUS
  <2>1. PICK i \in 1..Len(settled') : /\ settled'[i].slot = "control" /\ settled'[i].outcome.result = "ok"
                                      /\ ~settled'[i].outcome.streaming
    BY <1>2 DEF RestReported
  <2>2. i \in DOMAIN settled /\ settled'[i] = settled[i]
    BY <1>1, <1>2, <2>1
  <2> QED
    BY <2>1, <2>2 DEF RestReported
<1>4. ASSUME Aborting', state' = "interrupting",
             NEW i \in 1..Len(settled'), settled'[i].slot = "control", settled'[i].outcome.result = "ok"
      PROVE  AboutToIdle
  <2>1. i \in 1..Len(settled) /\ settled'[i] = settled[i]
    BY <1>1, <1>2, <1>4
  <2> QED
    BY <1>4, <2>1 DEF AboutToIdle, Aborting
<1> QED
  BY <1>3, <1>4 DEF AboutToIdle

LEMMA RejectedFails ==
  ASSUME RejectPending, settled \in Seq(Settlements)
  PROVE  \A i \in 1..Len(settled') :
            settled'[i].outcome = Failure \/ (i <= Len(settled) /\ settled'[i] = settled[i])
<1>1. ASSUME NEW slot \in Slots
      PROVE  /\ Rejected(slot) \in Seq(Settlements)
             /\ \A i \in 1..Len(Rejected(slot)) : Rejected(slot)[i].outcome = Failure
  <2> DEFINE r == [slot |-> slot, outcome |-> Failure]
  <2>1. r \in Settlements /\ r.outcome = Failure
    BY NeutralTypes DEF Settlements
  <2>2. Rejected(slot) = IF pending[slot] THEN <<r>> ELSE <<>>
    BY DEF Rejected
  <2> HIDE DEF r
  <2>3. <<>> \in Seq(Settlements) /\ <<r>> \in Seq(Settlements)
    BY <2>1
  <2> QED
    BY <2>1, <2>2, <2>3
<1>2. ASSUME NEW s \in Seq(Settlements), NEW x \in Seq(Settlements), NEW y \in Seq(Settlements),
             \A i \in 1..Len(x) : x[i].outcome = Failure, \A i \in 1..Len(y) : y[i].outcome = Failure,
             NEW i \in 1..Len((s \o x) \o y)
      PROVE  \/ ((s \o x) \o y)[i].outcome = Failure
             \/ i <= Len(s) /\ ((s \o x) \o y)[i] = s[i]
  <2>1. /\ s \o x \in Seq(Settlements) /\ Len(s \o x) = Len(s) + Len(x)
        /\ Len(s) \in Nat /\ Len(x) \in Nat /\ Len(y) \in Nat
    OBVIOUS
  <2>2. CASE i <= Len(s)
    BY <2>1, <2>2
  <2>3. CASE Len(s) < i /\ i <= Len(s) + Len(x)
    <3>1. ((s \o x) \o y)[i] = x[i - Len(s)] /\ i - Len(s) \in 1..Len(x)
      BY <2>1, <2>3
    <3> QED
      BY <1>2, <3>1
  <2>4. CASE Len(s) + Len(x) < i
    <3>1. ((s \o x) \o y)[i] = y[i - (Len(s) + Len(x))] /\ i - (Len(s) + Len(x)) \in 1..Len(y)
      BY <2>1, <2>4
    <3> QED
      BY <1>2, <3>1
  <2> QED
    BY <2>1, <2>2, <2>3, <2>4
<1>3. settled' = (settled \o Rejected("start")) \o Rejected("control")
  BY DEF RejectPending
<1> QED
  BY <1>1, <1>2, <1>3 DEF Slots

LEMMA MoodBegins ==
  ASSUME TypeOK, ControlInv, MoodInv,
         BeginQueueMessage \/ BeginPrompt \/ BeginInterrupt \/ BeginRefresh
  PROVE  MoodInv'
<1>2. settled = <<>> /\ control = NoControl
  BY DEF BeginQueueMessage, BeginPrompt, BeginInterrupt, BeginRefresh, MayBegin, NoContinuation
<1>3. ~InStdout
  BY <1>2, ControlRests DEF ControlInv, PlaceInv
<1>4. ASSUME settled' = <<>> \/ settled' = <<[slot |-> "control", outcome |-> Failure]>>
      PROVE  ~RestReported' /\ ~(\E i \in 1..Len(settled') : settled'[i].outcome.result = "ok")
  <2>1. Failure.result # "ok"
    BY DEF Failure, Result
  <2> HIDE DEF Failure
  <2> QED
    BY <1>4, <2>1 DEF RestReported
<1>7. CASE BeginRefresh
  <2>1. settled' = <<>> \/ settled' = <<[slot |-> "control", outcome |-> Failure]>>
    BY <1>2, <1>7 DEF BeginRefresh, Request, Settle
  <2>2. UNCHANGED <<stdout, announced, answered, deaf, overtaken, state, final, lastUser, abortAttempt>>
    BY <1>7 DEF BeginRefresh, history, process, child
  <2>3. ~RestReported' /\ ~AboutToIdle'
    BY <1>4, <2>1 DEF AboutToIdle
  <2> QED
    BY <1>3, <2>2, <2>3, MoodQuiet DEF Current
<1>5. CASE BeginQueueMessage \/ BeginPrompt
  <2>1. control'.kind \in {"queue", "prompt"}
    BY <1>5 DEF BeginQueueMessage, BeginPrompt, Control, NoControl
  <2>2. UNCHANGED <<stdout, announced, answered, deaf, overtaken, state, lastUser, abortAttempt>>
        /\ final' \in {final, None}
    BY <1>5 DEF BeginQueueMessage, BeginPrompt, history, process, child
  <2>3. ~AboutToIdle' /\ ~RestReported'
    BY <2>1 DEF AboutToIdle, RestReported, Aborting
  <2> QED
    BY <1>3, <2>2, <2>3, MoodQuiet DEF Current
<1>6. CASE BeginInterrupt
  <2>1. UNCHANGED <<stdout, announced, answered, deaf, overtaken, lastUser>>
        /\ state' = "interrupting" /\ final' = None /\ abortAttempt'.final = final
    BY <1>6 DEF BeginInterrupt, process, child
  <2>2. Current => Current'
    BY <2>1 DEF Current
  <2>3. ~AboutToIdle' /\ ~RestReported'
    <3>1. settled' = <<>> \/ settled' = <<[slot |-> "control", outcome |-> Failure]>>
      BY <1>2, <1>6 DEF BeginInterrupt, Request, Settle
    <3> QED
      BY <1>4, <3>1 DEF AboutToIdle
  <2> QED
    BY <1>3, <2>1, <2>2, <2>3, MoodQuiet
<1> QED
  BY <1>5, <1>6, <1>7

LEMMA MoodResumes == ASSUME TypeOK, ControlInv, HandleInv, MoodInv, Continuations PROVE MoodInv'
<1>1. settled \in Seq(Settlements) /\ settled # <<>> /\ Head(settled) = settled[1] /\ settled[1] \in Settlements
  BY DEF TypeOK, RpcTypes, Continuations, ResumeStart, ResumePrompt, ResumeQueueMessage, ResumeInterrupt,
     ResumeGetState, ResumeGetStats, Resuming
<1>2. /\ Len(settled) \in Nat \ {0} /\ DOMAIN settled = 1..Len(settled)
      /\ Len(Tail(settled)) = Len(settled) - 1 /\ DOMAIN Tail(settled) = 1..Len(settled) - 1
      /\ \A i \in 1..Len(settled) - 1 : Tail(settled)[i] = settled[i + 1]
  BY <1>1
<1>3. ASSUME settled[1].slot = "control" PROVE ~InStdout
  <2>1. InSettled
    BY <1>2, <1>3 DEF InSettled
  <2> QED
    BY <2>1 DEF ControlInv, PlaceInv, KindInv
<1>4. UNCHANGED <<stdout, announced, answered, deaf, overtaken, lastUser>>
  BY DEF Continuations, ResumeStart, ResumePrompt, ResumeQueueMessage, ResumeInterrupt,
     ResumeGetState, ResumeGetStats, history, process, child
<1>5. ASSUME settled' = Tail(settled), control' = control PROVE RestReported' => RestReported
  <2> SUFFICES ASSUME RestReported' PROVE RestReported
    OBVIOUS
  <2>1. PICK i \in 1..Len(settled) - 1 : /\ settled[i + 1].slot = "control"
                                          /\ settled[i + 1].outcome.result = "ok"
                                          /\ ~settled[i + 1].outcome.streaming
    BY <1>2, <1>5 DEF RestReported
  <2>2. i + 1 \in DOMAIN settled
    BY <1>2
  <2> QED
    BY <1>5, <2>1, <2>2 DEF RestReported
<1>6. CASE ResumeStart
  <2>1. UNCHANGED <<final, abortAttempt, control>> /\ state' \in {state, "running"} /\ settled' = Tail(settled)
    BY <1>6 DEF ResumeStart
  <2>2. ASSUME Aborting', state' = "interrupting", NEW i \in 1..Len(settled'),
               settled'[i].slot = "control", settled'[i].outcome.result = "ok"
        PROVE  AboutToIdle
    <3>1. i + 1 \in 1..Len(settled) /\ settled'[i] = settled[i + 1]
      BY <1>2, <2>1, <2>2
    <3> QED
      BY <2>1, <2>2, <3>1 DEF AboutToIdle, Aborting
  <2>3. (RestReported' => RestReported) /\ (AboutToIdle' => AboutToIdle)
    BY <1>5, <2>1, <2>2 DEF AboutToIdle
  <2>4. Current => Current'
    BY <1>4, <2>1 DEF Current
  <2> QED
    BY <1>4, <2>1, <2>3, <2>4, MoodQuiet
<1>7. CASE ResumePrompt \/ ResumeQueueMessage \/ ResumeGetStats
  <2>1. /\ UNCHANGED <<final, abortAttempt>> /\ state' \in {state, "running"}
        /\ control'.kind = "none" /\ settled[1].slot = "control"
    BY <1>1, <1>7 DEF ResumePrompt, ResumeQueueMessage, ResumeGetStats, Resuming, NoControl
  <2>2. ~AboutToIdle' /\ ~RestReported'
    BY <2>1 DEF AboutToIdle, RestReported, Aborting
  <2>3. Current => Current'
    BY <1>4, <2>1 DEF Current
  <2> QED
    BY <1>3, <1>4, <2>1, <2>2, <2>3, MoodQuiet
<1>8. CASE ResumeInterrupt
  <2> DEFINE result == settled[1].outcome.result
  <2>1. Aborting /\ settled[1].slot = "control" /\ control'.kind = "none"
        /\ state' = StateAfterAbort(result) /\ abortAttempt' = NoAttempt
        /\ final' \in {final, abortAttempt.final}
        /\ (result = "ok" => final' = final)
    BY <1>1, <1>8 DEF ResumeInterrupt, NoControl, Aborting, Resuming, Outcome
  <2>2. control.previous # "idle" /\ final = None
    BY <2>1 DEF HandleInv, AttemptInv, Aborting
  <2>3. Current => Current'
    BY <1>4, <2>1 DEF Current, NoAttempt
  <2>4. state' = "idle" => state = "idle" \/ (AboutToIdle /\ result = "ok")
    BY <1>2, <2>1, <2>2 DEF StateAfterAbort, AboutToIdle
  <2>5. result = "ok" => Current'
    BY <2>1, <2>2 DEF Current, NoAttempt
  <2>6. ~AboutToIdle' /\ ~RestReported'
    BY <2>1 DEF AboutToIdle, RestReported, Aborting
  <2> HIDE DEF result
  <2> QED
    BY <1>3, <1>4, <2>1, <2>3, <2>4, <2>5, <2>6, MoodQuiet
<1>9. CASE ResumeGetState
  <2>1. /\ control.kind = "get_state" /\ settled[1].slot = "control"
        /\ control'.kind = "get_session_stats" /\ UNCHANGED <<final, abortAttempt>>
    BY <1>1, <1>9 DEF ResumeGetState, Resuming, Control, NoControl
  <2>2. state' = "idle" => state = "idle" \/ RestReported
    BY <1>1, <1>2, <1>9, <2>1 DEF ResumeGetState, Outcome, RestReported
  <2>3. ~AboutToIdle' /\ ~RestReported'
    BY <2>1 DEF AboutToIdle, RestReported, Aborting
  <2>4. Current => Current'
    BY <1>4, <2>1 DEF Current
  <2>5. state' = "idle" => state = "idle" \/ AboutToIdle
    BY <2>2 DEF AboutToIdle
  <2> QED
    BY <1>3, <1>4, <2>1, <2>2, <2>3, <2>4, <2>5, MoodQuiet
<1> QED
  BY <1>6, <1>7, <1>8, <1>9 DEF Continuations

\* The parent hears a line.
LEMMA MoodHears == ASSUME TypeOK, HandleInv, SpeechInv, MoodInv, HandleLine PROVE MoodInv'
<1>1. /\ stdout # <<>> /\ stdout' = Tail(stdout) /\ Head(stdout) = stdout[1] /\ stdout[1] \in Lines
      /\ UNCHANGED <<announced, answered, deaf, control>>
  BY LineHeard DEF TypeOK, PipeTypes, HandleLine, HandleResponse, HandleAgentStart, HandleAgentSettled,
     HandleQueueUpdate, HandleUserMessageStart, HandleAssistantMessageEnd, Line, Consume, EventFrame, process, child
<1> DEFINE l == stdout[1]
<1>2. PICK a \in Moods, e \in Moods : Mood(stdout, a, e) /\ Starts(a) /\ Ends(e)
  BY DEF MoodInv
<1>3. PICK b \in Moods : <<a, l, b>> \in Feels(control.kind) /\ Mood(Tail(stdout), b, e)
  BY <1>1, <1>2, MoodHeard
<1> HIDE DEF l
<1>4. Mood(stdout, b, e)' /\ Ends(e)' /\ (Aborting' <=> Aborting)
  BY <1>1, <1>2, <1>3 DEF Mood, Ends, Rested, Aborting
<1>5. /\ b.awake => l.type = "agent_start" \/ (a.awake /\ l.type # "agent_settled" /\ ~Idling(l, control.kind))
      /\ b.fresh => l.type \in {"agent_start", "assistant"} \/ (a.fresh /\ l.type # "user")
      /\ l.type = "user" => a.awake
      /\ l.type = "agent_settled" \/ Reports(l, control.kind) => a.fresh
  BY <1>3, FeelsLine
<1>6. ~overtaken /\ (state = "idle" \/ RestReported) => Current
  BY DEF MoodInv
<1>7. SUFFICES Starts(b)' /\ (~overtaken' /\ (state' = "idle" \/ RestReported') => Current')
  BY <1>4, <1>7 DEF MoodInv
<1>8. abortAttempt \in Attempts /\ (~abortAttempt.live => abortAttempt.final = None)
  BY DEF TypeOK, HandleTypes, HandleInv, AttemptInv, NoAttempt
<1>9. CASE HandleResponse
  <2>1. l.type = "response" /\ UNCHANGED <<state, final, abortAttempt, lastUser, overtaken>>
    BY <1>1, <1>9 DEF HandleResponse, Line, l, history
  <2>2. /\ AboutToIdle' => AboutToIdle \/ Idling(l, control.kind)
        /\ RestReported' => RestReported \/ Reports(l, control.kind)
    <3>1. CASE l.id = "dropped"
      BY <1>1, <1>4, <1>9, <2>1, <3>1 DEF HandleResponse, AboutToIdle, RestReported, l, rpc
    <3>2. CASE l.id # "dropped"
      <4> DEFINE r == [slot |-> l.id, outcome |-> l.outcome]
      <4>1. settled' = Append(settled, r)
        BY <1>1, <1>9, <3>2 DEF HandleResponse, Settle, l
      <4>2. r.slot = l.id /\ r.outcome = l.outcome
        OBVIOUS
      <4> HIDE DEF r
      <4>3. /\ Len(settled) \in Nat /\ Len(settled') = Len(settled) + 1
            /\ DOMAIN settled = 1..Len(settled) /\ DOMAIN settled' = 1..Len(settled) + 1
            /\ \A i \in 1..Len(settled') : settled'[i] = IF i = Len(settled) + 1 THEN r ELSE settled[i]
        BY <4>1 DEF TypeOK, RpcTypes
      <4>4. RestReported' => RestReported \/ Reports(l, control.kind)
        BY <1>1, <2>1, <4>2, <4>3 DEF RestReported, Reports, Reply
      <4> QED
        BY <1>1, <1>4, <2>1, <4>2, <4>3, <4>4 DEF AboutToIdle, Idling, Reply, Aborting
    <3> QED
      BY <3>1, <3>2
  <2>3. Current' <=> Current
    BY <2>1 DEF Current
  <2> QED
    BY <1>2, <1>5, <1>6, <2>1, <2>2, <2>3 DEF Starts
<1>10. CASE HandleAgentStart
  <2>1. state' = "running" /\ final' = None /\ abortAttempt'.final = None
    BY <1>8, <1>10 DEF HandleAgentStart, Attempts
  <2>2. Current' /\ (AboutToIdle' => RestReported) /\ overtaken' = RestReported
    BY <1>1, <1>10, <2>1 DEF HandleAgentStart, EventFrame, rpc, Current, AboutToIdle, RestReported
  <2> QED
    BY <2>1, <2>2 DEF Starts
<1>11. CASE HandleAgentSettled
  <2>1. l.type = "agent_settled" /\ UNCHANGED <<final, abortAttempt, lastUser>>
    BY <1>1, <1>11 DEF HandleAgentSettled, Line, l
  <2>2. Current'
    BY <1>2, <1>5, <2>1 DEF Starts, Current
  <2> QED
    BY <1>5, <2>1, <2>2 DEF Starts
<1>12. ASSUME UNCHANGED <<settled, control, overtaken>>, state' \in {state, "failed"},
              l.type \in {"queue_update", "user", "assistant"},
              l.type # "user" =>
                (b.fresh \/ (~overtaken /\ (state = "idle" \/ RestReported)) => Current')
       PROVE  Starts(b)' /\ (~overtaken' /\ (state' = "idle" \/ RestReported') => Current')
  <2>1. (AboutToIdle' => AboutToIdle) /\ (RestReported' <=> RestReported)
    BY <1>4, <1>12 DEF AboutToIdle, RestReported
  <2>2. RestReported => AboutToIdle
    BY DEF AboutToIdle
  <2> QED
    BY <1>2, <1>5, <1>12, <2>1, <2>2 DEF Starts
<1>13. CASE HandleQueueUpdate
  <2>1. l.type = "queue_update" /\ UNCHANGED <<state, final, lastUser, settled, control, overtaken>>
    BY <1>1, <1>13 DEF HandleQueueUpdate, Line, l, rpc
  <2>2. abortAttempt'.final = abortAttempt.final
    BY <1>8, <1>13 DEF HandleQueueUpdate, Attempts
  <2>3. Current' <=> Current
    BY <2>1, <2>2 DEF Current
  <2> QED
    BY <1>2, <1>5, <1>6, <1>12, <2>1, <2>3 DEF Starts
<1>14. CASE HandleUserMessageStart
  <2>1. l.type = "user" /\ UNCHANGED <<state, settled, control, overtaken>>
    BY <1>1, <1>14 DEF HandleUserMessageStart, Line, l, EventFrame, rpc
  <2> QED
    BY <1>12, <2>1
<1>15. CASE HandleAssistantMessageEnd
  <2>1. l.type = "assistant" /\ UNCHANGED <<lastUser, settled, control, overtaken>> /\ state' \in {state, "failed"}
    BY <1>1, <1>15 DEF HandleAssistantMessageEnd, Line, l, EventFrame, Fail, rpc
  <2>2. l.answer \in {None, lastUser}
    BY <1>1, <2>1, AnswerHeard DEF l
  <2>3. final' \in {None, l.answer}
    BY <1>1, <1>15 DEF HandleAssistantMessageEnd, Answer, l
  <2>4. abortAttempt'.final \in {None, l.answer}
    BY <1>1, <1>8, <1>15 DEF HandleAssistantMessageEnd, Attempts, l
  <2>5. Current'
    BY <2>1, <2>2, <2>3, <2>4 DEF Current
  <2> QED
    BY <1>12, <2>1, <2>5
<1> QED
  BY <1>9, <1>10, <1>11, <1>13, <1>14, <1>15 DEF HandleLine

LEMMA MoodInit == Init => MoodInv
<1> SUFFICES ASSUME Init PROVE MoodInv
  OBVIOUS
<1> DEFINE a == [awake |-> TRUE, fresh |-> TRUE]
           T == Feels(control.kind)
           R == Moods
<1>1. a \in R
  BY DEF Moods
<1>2. Current
  BY DEF Init, Current, NoAttempt
<1>3. Starts(a) /\ Ends(a)
  BY <1>2 DEF Init, Starts, Ends, AboutToIdle, RestReported, Aborting, NoControl
<1> HIDE DEF a, T, R
<1>4. Run(R, T, <<>>, a, a)
  BY <1>1, RunNil
<1>5. Mood(stdout, a, a) /\ a \in Moods
  BY <1>1, <1>4 DEF R, T, Mood, Init
<1> QED
  BY <1>2, <1>3, <1>5 DEF MoodInv

LEMMA MoodStep ==
  TypeOK /\ ControlInv /\ HandleInv /\ SpeechInv /\ MoodInv /\ [Next]_vars => MoodInv'
<1> SUFFICES ASSUME TypeOK, ControlInv, HandleInv, SpeechInv, MoodInv, [Next]_vars PROVE MoodInv'
  OBVIOUS
<1>1. CASE BeginQueueMessage \/ BeginPrompt \/ BeginInterrupt \/ BeginRefresh
  BY <1>1, MoodBegins
<1>2. CASE Continuations
  BY <1>2, MoodResumes
<1>3. CASE HandleLine
  BY <1>3, MoodHears
<1>4. CASE Stop \/ Close
  <2>1. PICK slots \in SUBSET Slots : Forget(slots)
    BY <1>4 DEF Stop, Close, RejectPending, Awaited
  <2>2. /\ UNCHANGED <<lastUser, announced, answered, deaf, overtaken, control, final, abortAttempt>>
        /\ state' \in {"stopped", "failed"}
    BY <1>4 DEF Stop, Close, Fail, history
  <2>3. Len(stdout') = Len(stdout) /\ stdout' \in Seq(Lines)
    BY <2>1, ForgetTypes DEF TypeOK, PipeTypes
  <2>4. \A i \in 1..Len(stdout) :
            /\ stdout'[i].type = stdout[i].type
            /\ Reply(stdout'[i]) => Reply(stdout[i])
            /\ stdout[i].type = "response" => stdout'[i].outcome = stdout[i].outcome
    BY <2>1, Forgotten DEF TypeOK
  <2>5. \A i \in 1..Len(stdout) :
            /\ stdout'[i].type = stdout[i].type
            /\ Reply(stdout'[i]) =>
                  /\ Reply(stdout[i]) /\ stdout'[i].outcome = stdout[i].outcome
                  /\ control' = control
    BY <2>2, <2>4 DEF Aborting, Reply
  <2>6. Current => Current'
    BY <2>2 DEF Current
  <2>7. settled' \in Seq(Settlements)
    BY TypesStep DEF TypeOK, RpcTypes
  <2>8. \A i \in 1..Len(settled') :
           settled'[i].outcome = Failure \/ (i <= Len(settled) /\ settled'[i] = settled[i])
    BY <1>4, RejectedFails DEF Stop, Close, TypeOK, RpcTypes
  <2>9. (AboutToIdle' => AboutToIdle) /\ (RestReported' => RestReported)
    BY <2>2, <2>7, <2>8, FailureSettles
  <2> QED
    BY <2>2, <2>3, <2>5, <2>6, <2>9, MoodFrame
<1>5. ASSUME NEW slot \in Slots, RequestFails(slot) PROVE MoodInv'
  <2>1. {slot} \in SUBSET Slots /\ Forget({slot}) /\ Settle(slot, Failure)
    BY <1>5 DEF RequestFails
  <2>2. UNCHANGED <<state, lastUser, announced, answered, deaf, overtaken, control, final, abortAttempt>>
    BY <1>5 DEF RequestFails, process, history
  <2>3. Len(stdout') = Len(stdout) /\ stdout' \in Seq(Lines)
    BY <2>1, ForgetTypes DEF TypeOK, PipeTypes
  <2>4. \A i \in 1..Len(stdout) :
            /\ stdout'[i].type = stdout[i].type
            /\ Reply(stdout'[i]) => Reply(stdout[i])
            /\ stdout[i].type = "response" => stdout'[i].outcome = stdout[i].outcome
    BY <2>1, Forgotten DEF TypeOK
  <2>5. \A i \in 1..Len(stdout) :
            /\ stdout'[i].type = stdout[i].type
            /\ Reply(stdout'[i]) =>
                  /\ Reply(stdout[i]) /\ stdout'[i].outcome = stdout[i].outcome
                  /\ control' = control
    BY <2>2, <2>4 DEF Aborting, Reply
  <2>6. Current' <=> Current
    BY <2>2 DEF Current
  <2>7. (AboutToIdle' => AboutToIdle) /\ (RestReported' => RestReported)
    <3>1. settled' \in Seq(Settlements)
      BY TypesStep DEF TypeOK, RpcTypes
    <3> DEFINE r == [slot |-> slot, outcome |-> Failure]
    <3>2. settled' = Append(settled, r) /\ r.outcome = Failure
      BY <2>1 DEF Settle
    <3> HIDE DEF r
    <3>3. \A i \in 1..Len(settled') :
             settled'[i].outcome = Failure \/ (i <= Len(settled) /\ settled'[i] = settled[i])
      BY <3>2 DEF TypeOK, RpcTypes
    <3> QED
      BY <2>2, <3>1, <3>3, FailureSettles
  <2> QED
    BY <2>2, <2>3, <2>5, <2>6, <2>7, MoodFrame
<1>6. CASE ProcessError
  <2>1. UNCHANGED <<stdout, lastUser, announced, answered, overtaken, control, settled, final, abortAttempt>>
        /\ state' = "failed" /\ deaf'
    BY <1>6 DEF ProcessError, Fail, history, child, rpc
  <2>2. (AboutToIdle' => AboutToIdle) /\ (RestReported' => RestReported) /\ (Current => Current')
    BY <2>1 DEF AboutToIdle, RestReported, Aborting, Current
  <2> QED
    BY <2>1, <2>2, MoodQuiet
<1>7. CASE FinishTermination \/ UNCHANGED vars
  <2>1. UNCHANGED <<stdout, lastUser, announced, answered, overtaken, control, final, abortAttempt,
                    state, deaf, settled>>
    BY <1>7 DEF FinishTermination, vars, rpc, child, process, counters, history
  <2>2. (AboutToIdle' => AboutToIdle) /\ (RestReported' => RestReported) /\ (Current => Current')
    BY <2>1 DEF AboutToIdle, RestReported, Aborting, Current
  <2> QED
    BY <2>1, <2>2, MoodQuiet
<1>8. CASE RejectOversizedOutput
  <2>1. UNCHANGED <<lastUser, overtaken, control, settled, final, abortAttempt>>
        /\ state' = "failed" /\ deaf' /\ stdout' = <<>>
    BY <1>8 DEF RejectOversizedOutput, Fail, history, rpc
  <2> DEFINE a == [awake |-> FALSE, fresh |-> FALSE]
             T == Feels(control.kind)
             R == Moods
  <2>2. a \in R /\ Starts(a)'
    BY DEF Moods, Starts
  <2>3. Ends(a)'
    BY <2>1 DEF Ends
  <2> HIDE DEF a, T, R
  <2>4. Run(R, T, <<>>, a, a)
    BY <2>2, RunNil
  <2>5. Mood(stdout, a, a)' /\ a \in Moods
    BY <2>1, <2>2, <2>4 DEF R, T, Mood, Aborting
  <2>6. (RestReported' <=> RestReported) /\ (Current' <=> Current)
    BY <2>1 DEF RestReported, Current
  <2> QED
    BY <2>1, <2>2, <2>3, <2>5, <2>6 DEF MoodInv
<1>9. CASE ChildNext
  BY <1>9, MoodChild
<1> QED
  BY <1>1, <1>2, <1>3, <1>4, <1>5, <1>6, <1>7, <1>8, <1>9 DEF Next, CallerNext, ProcessEvents

-----------------------------------------------------------------------------
(* Messages sent before an interrupt start before those sent after it: once *)
(* the parent has heard of a message of the later kind, none of the earlier *)
(* kind follows.                                                            *)

\* A parent that no longer listens never does again.
LEMMA DeafForGood == ASSUME [Next]_vars, ~deaf' PROVE ~deaf
<1>1. CASE CallerNext \/ Continuations
  BY <1>1 DEF CallerNext, BeginQueueMessage, BeginPrompt, BeginInterrupt, BeginRefresh, Stop, Continuations,
     ResumeStart, ResumePrompt, ResumeQueueMessage, ResumeInterrupt, ResumeGetState, ResumeGetStats, process
<1>2. CASE HandleLine
  BY <1>2 DEF HandleLine, HandleResponse, HandleAgentStart, HandleAgentSettled, EventFrame,
     HandleQueueUpdate, HandleUserMessageStart, HandleAssistantMessageEnd, process
<1>3. CASE ProcessEvents
  BY <1>3 DEF ProcessEvents, RejectOversizedOutput, ProcessError, Close, FinishTermination
<1>4. CASE \E slot \in Slots : RequestFails(slot)
  BY <1>4 DEF RequestFails, process
<1>5. CASE ChildNext
  BY <1>5 DEF ChildNext, ParentFrame, process, ChildTakesPrompt, ChildAnswersPrompt,
     ChildAnnouncesRun, ChildTakesQueueRequest, ChildAcknowledges, ChildTakesAbort, ChildReportsState,
     ChildEndsMessage, ChildDequeues, ChildSettles, ChildRetries, ChildExits
<1>6. CASE UNCHANGED vars
  BY <1>6 DEF vars, process
<1> QED
  BY <1>1, <1>2, <1>3, <1>4, <1>5, <1>6 DEF Next

\* A message of S starts only before the first message that is none of S.
Turns(S) ==
    {t \in Numbers \X Lines \X Numbers :
        /\ t[2].type = "user" => t[3] = t[2].msg /\ (t[1] \in S \cup {None} \/ t[2].msg \notin S)
        /\ t[2].type # "user" => t[3] = t[1]}

\* What the child has not announced yet comes in the same order.
Ordered(S) ==
    /\ \A i, j \in 1..Len(childQueue) :
          i < j /\ childQueue[i].msg \notin S => childQueue[j].msg \notin S
    /\ \A i \in 1..Len(childQueue) : \A j \in 1..Len(stdin) :
          childQueue[i].msg \notin S => stdin[j].msg \notin S
    /\ \A i, j \in 1..Len(stdin) :
          i < j /\ stdin[i].msg \notin S \cup {None} => stdin[j].msg \notin S
    /\ \A i \in 1..Len(stdin) : stdin[i].command = "prompt" => stdin[i].msg \in S
    /\ preflight.msg \in S \cup {None}
    /\ ~announced => serving \in S \cup {None}

\* No message of S is still to be announced.
After(S) ==
    /\ \A i \in 1..Len(childQueue) : childQueue[i].msg \notin S
    /\ \A i \in 1..Len(stdin) : stdin[i].msg \notin S
    /\ preflight.msg = None
    /\ ~announced => serving = None

Turned(S, q, e) == Run(Numbers, Turns(S), q, lastUser, e)
Flow(S) == S # {} => Ordered(S) /\ \E e \in Numbers : Turned(S, stdout, e) /\ (e \in S \cup {None} \/ After(S))
FlowInv == ~deaf => \A S \in {interrupted, control.spared} : Flow(S)

LEMMA TurnsLine ==
  ASSUME NEW S, NEW r, NEW l, NEW s
  PROVE  <<r, l, s>> \in Turns(S) <=>
            /\ r \in Numbers /\ l \in Lines /\ s \in Numbers
            /\ l.type = "user" => s = l.msg /\ (r \in S \cup {None} \/ l.msg \notin S)
            /\ l.type # "user" => s = r
  BY DEF Turns

LEMMA TurnsSays ==
  ASSUME NEW S, NEW q \in Seq(Lines), NEW e, NEW l, NEW f, Turned(S, q, e), <<e, l, f>> \in Turns(S)
  PROVE  Append(q, l) \in Seq(Lines) /\ Turned(S, Append(q, l), f) /\ f \in Numbers
<1>1. l \in Lines /\ f \in Numbers
  BY TurnsLine
<1> DEFINE T == Turns(S)
           R == Numbers
<1>2. Run(R, T, q, lastUser, e) /\ <<e, l, f>> \in T /\ f \in R
  BY <1>1 DEF Turned
<1> HIDE DEF T, R
<1>3. Run(R, T, Append(q, l), lastUser, f)
  BY <1>1, <1>2, RunAppend
<1> QED
  BY <1>1, <1>3 DEF R, T, Turned

LEMMA TurnsHeard ==
  ASSUME TypeOK, NEW S, NEW e, Turned(S, stdout, e), stdout # <<>>
  PROVE  \E v \in Numbers :
            <<lastUser, stdout[1], v>> \in Turns(S) /\ Run(Numbers, Turns(S), Tail(stdout), v, e)
<1> DEFINE T == Turns(S)
           R == Numbers
<1>1. Run(R, T, stdout, lastUser, e) /\ stdout \in Seq(Lines)
  BY DEF Turned, TypeOK, PipeTypes
<1> HIDE DEF T, R
<1>2. \E v \in R : <<lastUser, stdout[1], v>> \in T /\ Run(R, T, Tail(stdout), v, e)
  BY <1>1, RunTail
<1> QED
  BY <1>2 DEF R, T

\* Nothing is read or written, but a request may be forgotten.
LEMMA TurnsSame ==
  ASSUME TypeOK, NEW S, NEW e, Turned(S, stdout, e), lastUser' = lastUser,
         Len(stdout') = Len(stdout), stdout' \in Seq(Lines),
         \A i \in 1..Len(stdout) :
            /\ stdout'[i].type = stdout[i].type
            /\ stdout[i].type # "response" => stdout'[i] = stdout[i]
  PROVE  Turned(S, stdout, e)'
<1> DEFINE T == Turns(S)
           R == Numbers
           p == stdout'
<1>1. Len(stdout) \in Nat
  BY DEF TypeOK, PipeTypes
<1>2. ASSUME NEW i \in 1..Len(stdout), NEW x \in R, NEW y \in R, <<x, stdout[i], y>> \in T
      PROVE  <<x, p[i], y>> \in T
  <2>1. p[i] \in Lines
    OBVIOUS
  <2>2. CASE stdout[i].type = "response"
    BY <1>2, <2>1, <2>2, TurnsLine
  <2>3. CASE stdout[i].type # "response"
    BY <1>2, <2>1, <2>3, TurnsLine
  <2> QED
    BY <2>2, <2>3
<1>3. Run(R, T, stdout, lastUser, e) /\ Len(p) = Len(stdout) /\ R \subseteq R
  BY DEF Turned
<1> HIDE DEF T, R, p
<1>4. lastUser \in R /\ e \in R
  <2>1. stdout \in Seq(Lines)
    BY DEF TypeOK, PipeTypes
  <2> QED
    BY <1>3, <2>1, RunEnds
<1>5. Run(R, T, p, lastUser, e)
  BY <1>1, <1>2, <1>3, <1>4, RunWiden
<1> QED
  BY <1>5 DEF R, T, p, Turned

\* The next request may be taken, and a checked prompt answered: the order holds.
LEMMA OrderKept ==
  ASSUME TypeOK, NEW S, NEW k \in {0, 1}, childQueue' = childQueue, Ordered(S),
         Len(stdin') = Len(stdin) - k,
         \A i \in 1..Len(stdin') :
            stdin'[i].msg = stdin[i + k].msg /\ stdin'[i].command = stdin[i + k].command,
         \/ preflight'.msg \in {None, preflight.msg}
         \/ \E i \in 1..Len(stdin) : stdin[i].command = "prompt" /\ preflight'.msg = stdin[i].msg,
         ~announced' => serving' = None \/ (~announced /\ serving' \in {serving, preflight.msg})
  PROVE  Ordered(S)' /\ (After(S) => After(S)')
<1>1. Len(stdin) \in Nat /\ Len(childQueue) \in Nat
  BY DEF TypeOK, PipeTypes, ChildTypes
<1>2. ASSUME NEW i \in 1..Len(stdin') PROVE i + k \in 1..Len(stdin)
  BY <1>1
<1>3. Ordered(S)'
  <2>1. ASSUME NEW i \in 1..Len(stdin'), NEW j \in 1..Len(stdin'), i < j,
               stdin'[i].msg \notin S \cup {None}
        PROVE  stdin'[j].msg \notin S
    <3>1. i + k < j + k /\ i + k \in 1..Len(stdin) /\ j + k \in 1..Len(stdin)
      BY <1>1, <2>1
    <3> QED
      BY <2>1, <3>1 DEF Ordered
  <2>2. /\ \A i, j \in 1..Len(childQueue') :
              i < j /\ childQueue'[i].msg \notin S => childQueue'[j].msg \notin S
        /\ \A i \in 1..Len(childQueue') : \A j \in 1..Len(stdin') :
              childQueue'[i].msg \notin S => stdin'[j].msg \notin S
        /\ \A i \in 1..Len(stdin') : stdin'[i].command = "prompt" => stdin'[i].msg \in S
    BY <1>2 DEF Ordered
  <2>3. preflight'.msg \in S \cup {None} /\ (~announced' => serving' \in S \cup {None})
    BY DEF Ordered
  <2> QED
    BY <2>1, <2>2, <2>3 DEF Ordered
<1>4. ASSUME After(S) PROVE After(S)'
  <2>1. preflight'.msg = None
    BY <1>4 DEF After, Ordered
  <2> QED
    BY <1>2, <1>4, <2>1 DEF After
<1> QED
  BY <1>3, <1>4

\* Nothing is heard and no message announced.
LEMMA FlowFrame ==
  ASSUME TypeOK, NEW S, Flow(S), lastUser' = lastUser,
         Len(stdout') = Len(stdout), stdout' \in Seq(Lines),
         \A i \in 1..Len(stdout) :
            /\ stdout'[i].type = stdout[i].type
            /\ stdout[i].type # "response" => stdout'[i] = stdout[i],
         S # {} /\ Ordered(S) => Ordered(S)' /\ (After(S) => After(S)')
  PROVE  Flow(S)'
<1> SUFFICES ASSUME S # {} PROVE Ordered(S)' /\ (\E e \in Numbers : Turned(S, stdout, e) /\ (e \in S \cup {None} \/ After(S)))'
  BY DEF Flow
<1>1. PICK e \in Numbers : Turned(S, stdout, e) /\ (e \in S \cup {None} \/ After(S))
  BY DEF Flow
<1>2. Ordered(S)' /\ (After(S) => After(S)')
  BY DEF Flow
<1>3. Turned(S, stdout, e)'
  BY <1>1, TurnsSame
<1> QED
  BY <1>1, <1>2, <1>3

LEMMA FlowWrites ==
  ASSUME TypeOK, NEW S, Flow(S), lastUser' = lastUser, S # {} /\ Ordered(S) => Ordered(S)',
         \A e \in Numbers : Turned(S, stdout, e) /\ (e \in S \cup {None} \/ After(S)) /\ Ordered(S) =>
            \E f \in Numbers : Turned(S, stdout', f) /\ (f \in S \cup {None} \/ After(S)')
  PROVE  Flow(S)'
<1> SUFFICES ASSUME S # {} PROVE Ordered(S)' /\ (\E e \in Numbers : Turned(S, stdout, e) /\ (e \in S \cup {None} \/ After(S)))'
  BY DEF Flow
<1>1. PICK e \in Numbers : Turned(S, stdout, e) /\ (e \in S \cup {None} \/ After(S))
  BY DEF Flow
<1>2. Ordered(S) /\ Ordered(S)'
  BY DEF Flow
<1>3. PICK f \in Numbers : Turned(S, stdout', f) /\ (f \in S \cup {None} \/ After(S)')
  BY <1>1, <1>2
<1>4. Turned(S, stdout, f)'
  BY <1>3 DEF Turned
<1> QED
  BY <1>2, <1>3, <1>4

\* Lines that start no message are written.
LEMMA FlowPlain ==
  ASSUME TypeOK, NEW S, Flow(S), lastUser' = lastUser, NEW l, l \in Lines, l.type # "user",
         stdout' = Append(stdout, l),
         S # {} /\ Ordered(S) => Ordered(S)' /\ (After(S) => After(S)')
  PROVE  Flow(S)'
<1>1. ASSUME NEW e \in Numbers, Turned(S, stdout, e) PROVE Turned(S, Append(stdout, l), e)
  <2>1. <<e, l, e>> \in Turns(S)
    BY TurnsLine
  <2> QED
    BY <1>1, <2>1, TurnsSays DEF TypeOK, PipeTypes
<1>2. S # {} /\ Ordered(S) => Ordered(S)'
  OBVIOUS
<1>3. CASE S # {}
  <2>1. ASSUME NEW e \in Numbers, Turned(S, stdout, e), e \in S \cup {None} \/ After(S), Ordered(S)
        PROVE  \E f \in Numbers : Turned(S, stdout', f) /\ (f \in S \cup {None} \/ After(S)')
    BY <1>1, <1>3, <2>1
  <2> QED
    BY <1>2, <2>1, FlowWrites
<1>4. CASE S = {}
  BY <1>4 DEF Flow
<1> QED
  BY <1>3, <1>4

LEMMA FlowAborted ==
  ASSUME TypeOK, NEW S, Flow(S), lastUser' = lastUser,
         NEW l, l \in Lines, l.type # "user", NEW m, m \in Lines, m.type # "user",
         NEW n, n \in Lines, n.type # "user",
         stdout' = Append(Append(Append(stdout, l), m), n),
         S # {} /\ Ordered(S) => Ordered(S)' /\ (After(S) => After(S)')
  PROVE  Flow(S)'
<1>1. ASSUME NEW e \in Numbers, Turned(S, stdout, e)
      PROVE  Turned(S, Append(Append(Append(stdout, l), m), n), e)
  <2>1. <<e, l, e>> \in Turns(S) /\ <<e, m, e>> \in Turns(S) /\ <<e, n, e>> \in Turns(S)
    BY TurnsLine
  <2> DEFINE q == Append(stdout, l)
             r == Append(q, m)
  <2>2. q \in Seq(Lines) /\ Turned(S, q, e)
    BY <1>1, <2>1, TurnsSays DEF TypeOK, PipeTypes
  <2> HIDE DEF q
  <2>3. r \in Seq(Lines) /\ Turned(S, r, e)
    BY <2>1, <2>2, TurnsSays
  <2> HIDE DEF r
  <2>4. Turned(S, Append(r, n), e)
    BY <2>1, <2>3, TurnsSays
  <2> QED
    BY <2>4 DEF q, r
<1>2. S # {} /\ Ordered(S) => Ordered(S)'
  OBVIOUS
<1>3. CASE S # {}
  <2>1. ASSUME NEW e \in Numbers, Turned(S, stdout, e), e \in S \cup {None} \/ After(S), Ordered(S)
        PROVE  \E f \in Numbers : Turned(S, stdout', f) /\ (f \in S \cup {None} \/ After(S)')
    BY <1>1, <1>3, <2>1
  <2> QED
    BY <1>2, <2>1, FlowWrites
<1>4. CASE S = {}
  BY <1>4 DEF Flow
<1> QED
  BY <1>3, <1>4

\* A message starts.
LEMMA FlowStartsMessage ==
  ASSUME TypeOK, NEW S, Flow(S), lastUser' = lastUser,
         NEW l, l \in Lines, l.type # "user", NEW m, m \in Lines, m.type = "user",
         stdout' = Append(Append(stdout, l), m),
         S # {} /\ Ordered(S) => /\ Ordered(S)'
                                 /\ After(S) => m.msg \notin S
                                 /\ m.msg \in S \/ After(S)'
  PROVE  Flow(S)'
<1>1. m.msg \in Numbers
  BY LineFields, Kickoff
<1>2. ASSUME NEW e \in Numbers, Turned(S, stdout, e), e \in S \cup {None} \/ m.msg \notin S
      PROVE  Turned(S, Append(Append(stdout, l), m), m.msg)
  <2>1. <<e, l, e>> \in Turns(S) /\ <<e, m, m.msg>> \in Turns(S)
    BY <1>1, <1>2, TurnsLine
  <2> DEFINE q == Append(stdout, l)
  <2>2. q \in Seq(Lines) /\ Turned(S, q, e)
    BY <1>2, <2>1, TurnsSays DEF TypeOK, PipeTypes
  <2> HIDE DEF q
  <2>3. Turned(S, Append(q, m), m.msg)
    BY <2>1, <2>2, TurnsSays
  <2> QED
    BY <2>3 DEF q
<1>3. S # {} /\ Ordered(S) => Ordered(S)'
  OBVIOUS
<1>4. CASE S # {}
  <2>1. ASSUME NEW e \in Numbers, Turned(S, stdout, e), e \in S \cup {None} \/ After(S), Ordered(S)
        PROVE  \E f \in Numbers : Turned(S, stdout', f) /\ (f \in S \cup {None} \/ After(S)')
    BY <1>1, <1>2, <1>4, <2>1
  <2> QED
    BY <1>3, <2>1, FlowWrites
<1>5. CASE S = {}
  BY <1>5 DEF Flow
<1> QED
  BY <1>4, <1>5

\* A line is heard.
LEMMA FlowHears ==
  ASSUME TypeOK, NEW S, Flow(S), HandleLine
  PROVE  Flow(S)'
<1>1. /\ stdout # <<>> /\ stdout' = Tail(stdout) /\ Head(stdout) = stdout[1]
      /\ UNCHANGED <<stdin, childQueue, preflight, announced, serving>>
      /\ lastUser' = IF stdout[1].type = "user" THEN stdout[1].msg ELSE lastUser
  BY LineHeard DEF TypeOK, PipeTypes, HandleLine, HandleResponse, HandleAgentStart, HandleAgentSettled,
     HandleQueueUpdate, HandleUserMessageStart, HandleAssistantMessageEnd, Line, Consume, EventFrame
<1> SUFFICES ASSUME S # {} PROVE Ordered(S)' /\ (\E e \in Numbers : Turned(S, stdout, e) /\ (e \in S \cup {None} \/ After(S)))'
  BY DEF Flow
<1>2. PICK e \in Numbers : Turned(S, stdout, e) /\ (e \in S \cup {None} \/ After(S))
  BY DEF Flow
<1>3. PICK v \in Numbers : /\ <<lastUser, stdout[1], v>> \in Turns(S)
                           /\ Run(Numbers, Turns(S), Tail(stdout), v, e)
  BY <1>1, <1>2, TurnsHeard
<1>4. v = lastUser'
  BY <1>1, <1>3, TurnsLine
<1>5. Turned(S, stdout, e)'
  BY <1>1, <1>3, <1>4 DEF Turned
<1>6. Ordered(S)' /\ (After(S) => After(S)')
  BY <1>1 DEF Flow, Ordered, After
<1> QED
  BY <1>2, <1>5, <1>6

LEMMA FlowChild ==
  ASSUME TypeOK, HandleInv, NEW S, S \subseteq Messages, Flow(S), ~deaf, ChildNext
  PROVE  Flow(S)'
<1>1. ParentFrame
  BY DEF ChildNext, ChildTakesPrompt, ChildAnswersPrompt, ChildAnnouncesRun, ChildTakesQueueRequest,
     ChildAcknowledges, ChildTakesAbort, ChildReportsState, ChildEndsMessage, ChildDequeues,
     ChildSettles, ChildRetries, ChildExits
<1>2. lastUser' = lastUser /\ stdout \in Seq(Lines) /\ Len(stdin) \in Nat /\ PipeTypes
  BY <1>1 DEF ParentFrame, TypeOK, PipeTypes
<1>3. ASSUME stdin # <<>>, stdin' = Tail(stdin)
      PROVE  /\ Head(stdin) = stdin[1] /\ stdin[1] \in Requests /\ Head(stdin).id \in Ids
             /\ 1 \in 1..Len(stdin) /\ Len(stdin') = Len(stdin) - 1
             /\ \A i \in 1..Len(stdin') : stdin'[i] = stdin[i + 1]
  <2>1. stdin \in Seq(Requests)
    BY <1>2 DEF PipeTypes
  <2>2. /\ Head(stdin) = stdin[1] /\ stdin[1] \in Requests
        /\ 1 \in 1..Len(stdin) /\ Len(stdin') = Len(stdin) - 1
        /\ \A i \in 1..Len(stdin') : stdin'[i] = stdin[i + 1]
    BY <1>3, <2>1
  <2> QED
    BY <2>2, RequestFields
<1>4. ASSUME stdin' = Tail(stdin), stdin # <<>>, childQueue' = childQueue,
             UNCHANGED <<preflight, announced, serving>>
      PROVE  Ordered(S) => Ordered(S)' /\ (After(S) => After(S)')
  <2> SUFFICES ASSUME Ordered(S) PROVE Ordered(S)' /\ (After(S) => After(S)')
    OBVIOUS
  <2> QED
    BY <1>3, <1>4, OrderKept
<1>5. ASSUME stdin' = stdin, childQueue' = childQueue, preflight'.msg \in {None, preflight.msg},
             ~announced' => serving' = None \/ (~announced /\ serving' \in {serving, preflight.msg})
      PROVE  Ordered(S) => Ordered(S)' /\ (After(S) => After(S)')
  <2> SUFFICES ASSUME Ordered(S) PROVE Ordered(S)' /\ (After(S) => After(S)')
    OBVIOUS
  <2>1. Len(stdin') = Len(stdin) - 0 /\ \A i \in 1..Len(stdin') : i + 0 = i /\ stdin'[i] = stdin[i + 0]
    BY <1>2, <1>5
  <2> QED
    BY <1>5, <2>1, OrderKept
<1>6. ASSUME NEW l, l \in Lines, l.type # "user", Emit(<<l>>),
             Ordered(S) => Ordered(S)' /\ (After(S) => After(S)')
      PROVE  Flow(S)'
  <2>1. stdout' = Append(stdout, l)
    BY <1>2, <1>6, EmitOne
  <2> QED
    BY <1>2, <1>6, <2>1, FlowPlain
<1>7. ASSUME stdout' = stdout, Ordered(S) => Ordered(S)' /\ (After(S) => After(S)')
      PROVE  Flow(S)'
  BY <1>2, <1>7, FlowFrame
<1>8. ASSUME NEW id \in Ids, NEW r \in {"ok", "handled", "rejected"}
      PROVE  Response(id, r) \in Lines /\ Response(id, r).type # "user"
  BY LineTypes DEF Response
<1>9. CASE ChildTakesPrompt
  <2>1. stdin' = Tail(stdin) /\ stdin # <<>> /\ Head(stdin).command = "prompt"
        /\ UNCHANGED <<childQueue, announced, serving>>
    BY <1>9 DEF ChildTakesPrompt
  <2>2. CASE preflight' = [id |-> Head(stdin).id, msg |-> Head(stdin).msg] /\ UNCHANGED stdout
    <3>1. preflight'.msg = stdin[1].msg /\ stdin[1].command = "prompt" /\ 1 \in 1..Len(stdin)
      BY <1>3, <2>1, <2>2
    <3>2. ASSUME Ordered(S) PROVE Ordered(S)' /\ (After(S) => After(S)')
      BY <1>3, <2>1, <3>1, <3>2, OrderKept
    <3> QED
      BY <1>7, <2>2, <3>2
  <2>3. CASE Emit(<<Response(Head(stdin).id, "rejected")>>) /\ UNCHANGED preflight
    BY <1>3, <1>4, <1>6, <1>8, <2>1, <2>3
  <2> QED
    BY <1>9, <2>2, <2>3 DEF ChildTakesPrompt
<1>10. CASE ChildAnswersPrompt
  <2>1. preflight.id \in Ids
    BY <1>10 DEF ChildAnswersPrompt, TypeOK, ChildTypes
  <2>2. PICK r \in {"ok", "rejected"} : Emit(<<Response(preflight.id, r)>>)
    BY <1>10 DEF ChildAnswersPrompt
  <2>3. stdin' = stdin /\ childQueue' = childQueue /\ preflight'.msg = None /\ announced' = announced
        /\ serving' \in {serving, preflight.msg}
    BY <1>10 DEF ChildAnswersPrompt, NoPreflight
  <2> QED
    BY <1>5, <1>6, <1>8, <2>1, <2>2, <2>3
<1>11. CASE ChildAnnouncesRun
  <2>1. serving \in Messages
    BY <1>11 DEF ChildAnnouncesRun, Streaming, TypeOK, ChildTypes, Numbers, Messages, None
  <2> DEFINE entry == [msg |-> serving, text |-> serving]
             l == Event("agent_start")
             m == UserMessage(entry)
  <2>2. entry \in Entries
    BY <2>1, BoundsAssumption DEF Entries, Texts, Messages
  <2>3. l \in Lines /\ l.type = "agent_start" /\ m \in Lines /\ m.type = "user" /\ m.msg = serving
    BY <2>2, LineTypes DEF Event, UserMessage
  <2>4. stdout' = Append(Append(stdout, l), m)
    BY <1>2, <1>11, <2>3, EmitTwo DEF ChildAnnouncesRun
  <2>5. Ordered(S) => Ordered(S)' /\ (After(S) => After(S)')
    BY <1>5, <1>11 DEF ChildAnnouncesRun
  <2>6. Ordered(S) => serving \in S
    BY <1>11, <2>1, Kickoff DEF Ordered, ChildAnnouncesRun
  <2>7. ~After(S)
    BY <1>11, <2>1, Kickoff DEF After, ChildAnnouncesRun
  <2> HIDE DEF l, m, entry
  <2> QED
    BY <1>2, <2>3, <2>4, <2>5, <2>6, <2>7, FlowStartsMessage
<1>12. CASE ChildTakesQueueRequest
  <2>1. stdin' = Tail(stdin) /\ stdin # <<>> /\ UNCHANGED <<preflight, announced, serving>>
        /\ Head(stdin).command = "queue"
    BY <1>12 DEF ChildTakesQueueRequest
  <2>2. ASSUME NEW r \in {"handled", "rejected"}, Emit(<<Response(Head(stdin).id, r)>>),
               UNCHANGED childQueue
        PROVE  Flow(S)'
    BY <1>3, <1>4, <1>6, <1>8, <2>1, <2>2
  <2>3. ASSUME NEW text \in {Head(stdin).msg, Expanded(Head(stdin).msg)},
               childQueue' = Append(childQueue, [msg |-> Head(stdin).msg, text |-> text]),
               \/ Emit(<<QueueUpdate(childQueue')>>)
               \/ Emit(<<Response(Head(stdin).id, "ok"), QueueUpdate(childQueue')>>)
        PROVE  Flow(S)'
    <3> DEFINE entry == [msg |-> Head(stdin).msg, text |-> text]
               l == QueueUpdate(childQueue')
               r == Response(Head(stdin).id, "ok")
    <3>1. childQueue' \in Seq(Entries)
      BY TypesChild DEF TypeOK, ChildTypes
    <3>2. l \in Lines /\ l.type # "user"
      BY <3>1, LineTypes DEF QueueUpdate
    <3>3. r \in Lines /\ r.type # "user"
      BY <1>3, <1>8, <2>1
    <3>4. entry.msg = stdin[1].msg /\ stdin[1].msg # None
      BY <1>3, <2>1, RequestFields, Kickoff
    <3>5. childQueue' = Append(childQueue, entry)
      BY <2>3
    <3> HIDE DEF entry, l, r
    <3>6. /\ Len(childQueue) \in Nat /\ Len(childQueue') = Len(childQueue) + 1
          /\ \A i \in 1..Len(childQueue') :
                childQueue'[i] = IF i = Len(childQueue) + 1 THEN entry ELSE childQueue[i]
      BY <3>5 DEF TypeOK, ChildTypes
    <3>7. ASSUME Ordered(S) PROVE Ordered(S)' /\ (After(S) => After(S)')
      <4>1. \A i \in 1..Len(stdin') : stdin'[i] = stdin[i + 1] /\ i + 1 \in 1..Len(stdin)
        BY <1>2, <1>3, <2>1
      <4>2. 1 \in 1..Len(stdin) /\ Len(stdin') \in Nat
        BY <1>2, <1>3, <2>1
      <4>3. ASSUME NEW i \in 1..Len(childQueue'), NEW j \in 1..Len(childQueue'), i < j,
                   childQueue'[i].msg \notin S
            PROVE  childQueue'[j].msg \notin S
        <5>1. i \in 1..Len(childQueue) /\ childQueue'[i] = childQueue[i]
          BY <3>6, <4>3
        <5>2. CASE j = Len(childQueue) + 1
          BY <3>4, <3>6, <3>7, <4>2, <4>3, <5>1, <5>2 DEF Ordered
        <5>3. CASE j # Len(childQueue) + 1
          BY <3>6, <3>7, <4>3, <5>1, <5>3 DEF Ordered
        <5> QED
          BY <5>2, <5>3
      <4>4. ASSUME NEW i \in 1..Len(childQueue'), NEW j \in 1..Len(stdin'), childQueue'[i].msg \notin S
            PROVE  stdin'[j].msg \notin S
        <5>1. CASE i = Len(childQueue) + 1
          <6>1. stdin[1].msg \notin S \cup {None} /\ 1 < j + 1
            BY <3>4, <3>6, <4>4, <5>1
          <6> QED
            BY <3>7, <4>1, <4>2, <6>1 DEF Ordered
        <5>2. CASE i # Len(childQueue) + 1
          <6>1. i \in 1..Len(childQueue) /\ childQueue[i].msg \notin S
            BY <3>6, <4>4, <5>2
          <6> QED
            BY <3>7, <4>1, <6>1 DEF Ordered
        <5> QED
          BY <5>1, <5>2
      <4>5. ASSUME NEW i \in 1..Len(stdin'), NEW j \in 1..Len(stdin'), i < j,
                   stdin'[i].msg \notin S \cup {None}
            PROVE  stdin'[j].msg \notin S
        <5>1. i + 1 < j + 1
          BY <4>2, <4>5
        <5> QED
          BY <3>7, <4>1, <4>5, <5>1 DEF Ordered
      <4>6. Ordered(S)'
        BY <2>1, <3>7, <4>1, <4>3, <4>4, <4>5 DEF Ordered
      <4>7. After(S) => After(S)'
        BY <2>1, <3>4, <3>6, <4>1, <4>2 DEF After
      <4> QED
        BY <4>6, <4>7
    <3>8. CASE Emit(<<QueueUpdate(childQueue')>>)
      BY <1>6, <3>2, <3>7, <3>8 DEF l
    <3>9. CASE Emit(<<Response(Head(stdin).id, "ok"), QueueUpdate(childQueue')>>)
      <4>1. Emit(<<r, l>>)
        BY <3>9 DEF r, l
      <4>2. stdout' = Append(Append(stdout, r), l)
        BY <1>2, <3>2, <3>3, <4>1, EmitTwo
      <4>3. ASSUME NEW e \in Numbers, Turned(S, stdout, e), e \in S \cup {None} \/ After(S), Ordered(S)
            PROVE  \E f \in Numbers : Turned(S, stdout', f) /\ (f \in S \cup {None} \/ After(S)')
        <5>1. <<e, r, e>> \in Turns(S) /\ <<e, l, e>> \in Turns(S)
          BY <3>2, <3>3, TurnsLine
        <5> DEFINE q == Append(stdout, r)
        <5>2. q \in Seq(Lines) /\ Turned(S, q, e)
          BY <1>2, <4>3, <5>1, TurnsSays
        <5> HIDE DEF q
        <5>3. Turned(S, Append(q, l), e)
          BY <5>1, <5>2, TurnsSays
        <5> QED
          BY <3>7, <4>2, <4>3, <5>3 DEF q
      <4> QED
        BY <1>2, <3>7, <4>3, FlowWrites
    <3> QED
      BY <2>3, <3>8, <3>9
  <2> QED
    BY <1>12, <2>2, <2>3 DEF ChildTakesQueueRequest
<1>13. CASE ChildAcknowledges
  <2>1. ack \in Ids
    BY <1>13 DEF ChildAcknowledges, TypeOK, ChildTypes
  <2> QED
    BY <1>5, <1>6, <1>8, <1>13, <2>1 DEF ChildAcknowledges
<1>14. CASE ChildTakesAbort
  <2>1. stdin' = Tail(stdin) /\ stdin # <<>> /\ UNCHANGED <<childQueue, preflight>>
        /\ Head(stdin).id \in Ids
    BY <1>3, <1>14 DEF ChildTakesAbort
  <2>2. ASSUME Ordered(S), serving' = None \/ UNCHANGED <<announced, serving>>
        PROVE  Ordered(S)' /\ (After(S) => After(S)')
    BY <1>3, <2>1, <2>2, OrderKept
  <2>3. CASE \E r \in {"ok", "rejected"} : Emit(<<Response(Head(stdin).id, r)>>) /\ UNCHANGED <<announced, serving>>
    BY <1>6, <1>8, <2>1, <2>2, <2>3
  <2>4. CASE Emit(<<Assistant(None, FALSE), Event("agent_settled"), Response(Head(stdin).id, "ok")>>)
             /\ serving' = None
    <3> DEFINE l == Assistant(None, FALSE)
               m == Event("agent_settled")
               n == Response(Head(stdin).id, "ok")
    <3>1. l \in Lines /\ l.type # "user"
      BY LineTypes, Kickoff DEF Assistant
    <3>2. m \in Lines /\ m.type # "user"
      BY LineTypes DEF Event
    <3>3. n \in Lines /\ n.type # "user"
      BY <1>8, <2>1
    <3>4. Emit(<<l, m, n>>)
      BY <2>4
    <3> HIDE DEF l, m, n
    <3>5. stdout' = Append(Append(Append(stdout, l), m), n)
      BY <1>2, <3>1, <3>2, <3>3, <3>4, EmitThree
    <3> QED
      BY <1>2, <2>2, <2>4, <3>1, <3>2, <3>3, <3>5, FlowAborted
  <2> QED
    BY <1>14, <2>3, <2>4 DEF ChildTakesAbort
<1>15. CASE ChildReportsState
  <2> DEFINE l == [type |-> "response", id |-> Head(stdin).id,
                   outcome |-> [result |-> "ok", streaming |-> Streaming, count |-> Len(childQueue)]]
  <2>1. stdin' = Tail(stdin) /\ stdin # <<>> /\ UNCHANGED <<childQueue, preflight, announced, serving>>
        /\ Head(stdin).id \in Ids /\ Emit(<<l>>)
    BY <1>3, <1>15 DEF ChildReportsState
  <2>2. l \in Lines /\ l.type # "user"
    <3>1. Len(childQueue) \in Nat /\ Streaming \in BOOLEAN
      BY DEF TypeOK, ChildTypes, Streaming
    <3> QED
      BY <2>1, <3>1 DEF Lines, Outcomes
  <2> HIDE DEF l
  <2> QED
    BY <1>4, <1>6, <2>1, <2>2
<1>16. CASE ChildEndsMessage
  <2>1. PICK a \in Numbers, error \in BOOLEAN : Emit(<<Assistant(a, error)>>)
    BY <1>16, Kickoff DEF ChildEndsMessage, TypeOK, ChildTypes
  <2>2. Assistant(a, error) \in Lines /\ Assistant(a, error).type # "user"
    BY LineTypes DEF Assistant
  <2>3. Ordered(S) => Ordered(S)' /\ (After(S) => After(S)')
    BY <1>5, <1>16 DEF ChildEndsMessage
  <2> QED
    BY <1>6, <2>1, <2>2, <2>3
<1>17. CASE ChildDequeues
  <2> DEFINE head == Head(childQueue)
             rest == Tail(childQueue)
             l == QueueUpdate(rest)
             m == UserMessage(head)
  <2>1. childQueue' = rest /\ serving' = head.msg /\ announced /\ announced' /\ childQueue # <<>>
        /\ stdin' = stdin /\ preflight' = preflight /\ Emit(<<l, m>>)
    BY <1>17 DEF ChildDequeues
  <2>2. /\ childQueue \in Seq(Entries) /\ Len(childQueue) \in Nat \ {0}
        /\ head = childQueue[1] /\ head \in Entries /\ rest \in Seq(Entries)
        /\ Len(rest) = Len(childQueue) - 1 /\ \A i \in 1..Len(rest) : rest[i] = childQueue[i + 1]
    <3>1. childQueue \in Seq(Entries) /\ childQueue # <<>>
      BY <2>1 DEF TypeOK, ChildTypes
    <3>2. childQueue[1] \in Entries /\ Head(childQueue) = childQueue[1]
      BY <3>1
    <3> QED
      BY <3>1, <3>2
  <2>3. l \in Lines /\ l.type # "user" /\ m \in Lines /\ m.type = "user" /\ m.msg = head.msg
    BY <2>2, LineTypes DEF QueueUpdate, UserMessage
  <2> HIDE DEF l, m, head, rest
  <2>4. stdout' = Append(Append(stdout, l), m)
    BY <1>2, <2>1, <2>3, EmitTwo
  <2>5. ASSUME Ordered(S) PROVE Ordered(S)'
    <3>1. ASSUME NEW i \in 1..Len(rest), NEW j \in 1..Len(rest), i < j, rest[i].msg \notin S
          PROVE  rest[j].msg \notin S
      <4>1. i + 1 < j + 1 /\ i + 1 \in 1..Len(childQueue) /\ j + 1 \in 1..Len(childQueue)
        BY <2>2, <3>1
      <4> QED
        BY <2>2, <2>5, <3>1, <4>1 DEF Ordered
    <3>2. ASSUME NEW i \in 1..Len(rest), NEW j \in 1..Len(stdin), rest[i].msg \notin S
          PROVE  stdin[j].msg \notin S
      <4>1. i + 1 \in 1..Len(childQueue)
        BY <2>2
      <4> QED
        BY <2>2, <2>5, <3>2, <4>1 DEF Ordered
    <3> QED
      BY <2>1, <2>5, <3>1, <3>2 DEF Ordered
  <2>6. After(S) => m.msg \notin S
    BY <2>2, <2>3 DEF After
  <2>7. ASSUME Ordered(S), m.msg \notin S PROVE After(S)'
    <3>1. preflight.msg = None
      <4>1. serving # None /\ preflight = NoPreflight
        BY <2>1 DEF HandleInv, RunInv
      <4> QED
        BY <4>1 DEF NoPreflight
    <3>2. 1 \in 1..Len(childQueue) /\ childQueue[1].msg \notin S
      BY <2>2, <2>3, <2>7
    <3>3. ASSUME NEW i \in 1..Len(rest) PROVE rest[i].msg \notin S
      <4>1. 1 < i + 1 /\ i + 1 \in 1..Len(childQueue) /\ rest[i] = childQueue[i + 1]
        BY <2>2
      <4> QED
        BY <2>7, <3>2, <4>1 DEF Ordered
    <3>4. \A i \in 1..Len(stdin) : stdin[i].msg \notin S
      BY <2>7, <3>2 DEF Ordered
    <3> QED
      BY <2>1, <3>1, <3>3, <3>4 DEF After
  <2> QED
    BY <1>2, <2>3, <2>4, <2>5, <2>6, <2>7, FlowStartsMessage
<1>18. CASE ChildSettles \/ ChildRetries
  <2>1. PICK t \in {"agent_settled", "agent_start"} : Emit(<<Event(t)>>)
    BY <1>18 DEF ChildSettles, ChildRetries
  <2>2. Event(t) \in Lines /\ Event(t).type # "user"
    BY LineTypes DEF Event
  <2>3. Ordered(S) => Ordered(S)' /\ (After(S) => After(S)')
    BY <1>5, <1>18 DEF ChildSettles, ChildRetries
  <2> QED
    BY <1>6, <2>1, <2>2, <2>3
<1>19. CASE ChildExits
  BY <1>5, <1>7, <1>19 DEF ChildExits
<1> QED
  BY <1>9, <1>10, <1>11, <1>12, <1>13, <1>14, <1>15, <1>16, <1>17, <1>18, <1>19 DEF ChildNext

\* A request that carries no message of S is sent.
LEMMA FlowRequests ==
  ASSUME TypeOK, NEW S, Flow(S), NEW r, r \in Requests, r.msg \notin S, r.command # "prompt",
         stdin' = stdin \/ stdin' = Append(stdin, r),
         UNCHANGED <<stdout, lastUser, childQueue, preflight, announced, serving>>
  PROVE  Flow(S)'
<1>1. stdout' \in Seq(Lines) /\ Len(stdout') = Len(stdout)
  BY DEF TypeOK, PipeTypes
<1>2. ASSUME Ordered(S) PROVE Ordered(S)' /\ (After(S) => After(S)')
  <2>1. CASE stdin' = stdin
    BY <1>2, <2>1 DEF Ordered, After
  <2>2. CASE stdin' = Append(stdin, r)
    <3>1. /\ Len(stdin) \in Nat /\ Len(stdin') = Len(stdin) + 1
          /\ \A i \in 1..Len(stdin') : stdin'[i] = IF i = Len(stdin) + 1 THEN r ELSE stdin[i]
      BY <2>2 DEF TypeOK, PipeTypes
    <3>2. ASSUME NEW i \in 1..Len(stdin'), NEW j \in 1..Len(stdin'), i < j,
                 stdin'[i].msg \notin S \cup {None}
          PROVE  stdin'[j].msg \notin S
      <4>1. i \in 1..Len(stdin) /\ stdin'[i] = stdin[i]
        BY <3>1, <3>2
      <4> QED
        BY <1>2, <3>1, <3>2, <4>1 DEF Ordered
    <3>3. Ordered(S)'
      BY <1>2, <3>1, <3>2 DEF Ordered
    <3>4. After(S) => After(S)'
      BY <3>1 DEF After
    <3> QED
      BY <3>3, <3>4
  <2> QED
    BY <2>1, <2>2
<1> QED
  BY <1>1, <1>2, FlowFrame

\* An interrupt covers all that was sent.
LEMMA FlowInterrupts ==
  ASSUME TypeOK, SentInv, SpeechInv, NEW S, S = 1..sent, stdin' = stdin \/ stdin' = Append(stdin, [id |-> "control", command |-> "abort", msg |-> None]),
         UNCHANGED <<stdout, lastUser, childQueue, preflight, announced, serving>>
  PROVE  Flow(S)'
<1>1. PICK u \in 0..sent : Spoken(u)
  BY DEF SpeechInv
<1>2. sent \in Messages /\ sent \in Nat /\ 0..sent \subseteq Numbers /\ S \cup {None} = 0..sent
  BY SentMessages, BoundsAssumption DEF Messages, Numbers, None
<1>3. u \in Numbers /\ u \in S \cup {None}
  BY <1>2
<1>4. Turned(S, stdout, u)
  <2> DEFINE T == Hears(sent)
             T2 == Turns(S)
             R == 0..sent
             R2 == Numbers
  <2>1. ASSUME NEW i \in 1..Len(stdout), NEW x \in R, NEW y \in R, <<x, stdout[i], y>> \in T
        PROVE  <<x, stdout[i], y>> \in T2
    BY <1>2, <2>1, HearsLine, TurnsLine
  <2>2. Run(R, T, stdout, lastUser, u) /\ R \subseteq R2 /\ Len(stdout) \in Nat
        /\ lastUser \in R /\ u \in R
    BY <1>1, <1>2, SpokenEnds DEF Spoken, Speech, TypeOK, PipeTypes
  <2> HIDE DEF T, T2, R, R2
  <2>3. Run(R2, T2, stdout, lastUser, u)
    BY <2>1, <2>2, RunWiden
  <2> QED
    BY <2>3 DEF T2, R2, Turned
<1>5. Ordered(S)'
  <2>1. /\ serving \in Numbers /\ announced \in BOOLEAN
        /\ preflight.msg \in Numbers
        /\ \A i \in 1..Len(childQueue) : childQueue[i].msg \in Messages
        /\ \A i \in 1..Len(stdin) : stdin[i].msg \in Numbers /\ (stdin[i].command = "prompt" => stdin[i].msg \in Messages)
    <3>1. serving \in Numbers /\ announced \in BOOLEAN
      BY DEF TypeOK, ChildTypes
    <3>2. preflight.msg \in Numbers
      BY Kickoff DEF TypeOK, ChildTypes, NoPreflight
    <3>3. ASSUME NEW i \in 1..Len(childQueue) PROVE childQueue[i].msg \in Messages
      <4>1. childQueue[i] \in Entries
        BY DEF TypeOK, ChildTypes
      <4> QED
        BY <4>1 DEF Entries
    <3>4. ASSUME NEW i \in 1..Len(stdin)
          PROVE  stdin[i].msg \in Numbers /\ (stdin[i].command = "prompt" => stdin[i].msg \in Messages)
      <4>1. stdin[i] \in Requests
        BY DEF TypeOK, PipeTypes
      <4> QED
        BY <4>1, RequestFields, Kickoff
    <3> QED
      BY <3>1, <3>2, <3>3, <3>4
  <2>2. \A n \in Numbers : n <= sent => n \in S \cup {None}
    BY <1>2, BoundsAssumption DEF Numbers
  <2>3. \A n \in Messages : n <= sent => n \in S
    BY <1>2, BoundsAssumption DEF Messages
  <2>4. serving \in S \cup {None} /\ preflight.msg \in S \cup {None}
    BY <2>1, <2>2 DEF SentInv
  <2>5. \A i \in 1..Len(childQueue) : childQueue[i].msg \in S
    BY <2>1, <2>3 DEF SentInv
  <2>6. \A i \in 1..Len(stdin) : stdin[i].msg \in S \cup {None} /\ (stdin[i].command = "prompt" => stdin[i].msg \in S)
    BY <2>1, <2>2, <2>3 DEF SentInv
  <2>7. \A i \in 1..Len(stdin') : stdin'[i].msg \in S \cup {None} /\ (stdin'[i].command = "prompt" => stdin'[i].msg \in S)
    <3>1. CASE stdin' = stdin
      BY <2>6, <3>1
    <3>2. CASE stdin' = Append(stdin, [id |-> "control", command |-> "abort", msg |-> None])
      <4> DEFINE r == [id |-> "control", command |-> "abort", msg |-> None]
      <4>1. r.msg = None /\ r.command # "prompt" /\ stdin' = Append(stdin, r)
        BY <3>2
      <4> HIDE DEF r
      <4>2. /\ Len(stdin) \in Nat /\ Len(stdin') = Len(stdin) + 1
            /\ \A i \in 1..Len(stdin') : stdin'[i] = IF i = Len(stdin) + 1 THEN r ELSE stdin[i]
        BY <4>1 DEF TypeOK, PipeTypes
      <4> QED
        BY <2>6, <4>1, <4>2
    <3> QED
      BY <3>1, <3>2
  <2> QED
    BY <2>4, <2>5, <2>7 DEF Ordered
<1>6. Turned(S, stdout, u)'
  BY <1>4 DEF Turned
<1> QED
  BY <1>3, <1>5, <1>6 DEF Flow

LEMMA FlowForgets ==
  ASSUME TypeOK, NEW S, Flow(S), NEW slots \in SUBSET Slots, Forget(slots),
         UNCHANGED <<lastUser, childQueue, announced, serving>>
  PROVE  Flow(S)'
<1>1. Len(stdout') = Len(stdout) /\ stdout' \in Seq(Lines)
  BY ForgetTypes DEF TypeOK, PipeTypes
<1>2. \A i \in 1..Len(stdout) :
            /\ stdout'[i].type = stdout[i].type
            /\ stdout[i].type # "response" => stdout'[i] = stdout[i]
  BY Forgotten DEF TypeOK
<1>3. /\ Len(stdin') = Len(stdin) - 0 /\ preflight'.msg = preflight.msg
      /\ \A i \in 1..Len(stdin') : /\ i + 0 = i
                                   /\ stdin'[i].msg = stdin[i + 0].msg
                                   /\ stdin'[i].command = stdin[i + 0].command
  <2>1. Len(stdin) \in Nat
    BY DEF TypeOK, PipeTypes
  <2>2. /\ Len(stdin') = Len(stdin) /\ preflight'.msg = preflight.msg
        /\ \A i \in 1..Len(stdin) : stdin'[i].command = stdin[i].command /\ stdin'[i].msg = stdin[i].msg
    BY Forgotten DEF TypeOK
  <2> QED
    BY <2>1, <2>2
<1>4. ASSUME Ordered(S) PROVE Ordered(S)' /\ (After(S) => After(S)')
  BY <1>3, <1>4, OrderKept
<1> QED
  BY <1>1, <1>2, <1>4, FlowFrame

LEMMA FlowInit == Init => FlowInv
  BY DEF Init, FlowInv, Flow, NoControl

LEMMA FlowStep == TypeOK /\ HandleInv /\ SentInv /\ SpeechInv /\ FlowInv /\ [Next]_vars => FlowInv'
<1> SUFFICES ASSUME TypeOK, HandleInv, SentInv, SpeechInv, FlowInv, [Next]_vars, ~deaf',
                    NEW S, S \in {interrupted', control'.spared}
             PROVE  Flow(S)'
  BY DEF FlowInv
<1>1. ~deaf
  BY DeafForGood
<1>2. Flow(interrupted) /\ Flow(control.spared) /\ \A T \in {interrupted, control.spared} : Flow(T) /\ T \subseteq Messages
  BY <1>1 DEF FlowInv, TypeOK, HandleTypes, HistoryTypes, Controls
<1>3. CASE S = {}
  BY <1>3 DEF Flow
<1>4. ASSUME S \in {interrupted, control.spared} PROVE Flow(S) /\ S \subseteq Messages
  BY <1>2, <1>4
<1>5. None \notin Messages
  BY Kickoff
<1>6. ASSUME S \in {interrupted, control.spared}, NEW c \in {"abort", "get_state", "get_session_stats"},
             \/ stdin' = stdin
             \/ stdin' = Append(stdin, [id |-> "control", command |-> c, msg |-> None]),
             UNCHANGED <<stdout, lastUser, childQueue, preflight, announced, serving>>
      PROVE  Flow(S)'
  <2> DEFINE r == [id |-> "control", command |-> c, msg |-> None]
  <2>1. r \in Requests /\ r.msg = None /\ r.command # "prompt"
    BY DEF Requests, Ids, Slots
  <2>2. stdin' = stdin \/ stdin' = Append(stdin, r)
    BY <1>6
  <2> HIDE DEF r
  <2>3. r.msg \notin S
    BY <1>4, <1>5, <1>6, <2>1
  <2> QED
    BY <1>4, <1>6, <2>1, <2>2, <2>3, FlowRequests
<1>7. CASE BeginQueueMessage
  <2>1. control'.spared = {} /\ interrupted' = interrupted
    BY <1>7 DEF BeginQueueMessage, Control, NoControl
  <2>2. UNCHANGED <<stdout, lastUser, childQueue, preflight, announced, serving>>
    BY <1>7 DEF BeginQueueMessage
  <2> DEFINE r == [id |-> "control", command |-> "queue", msg |-> sent']
  <2>3. sent' \in Messages /\ sent' = sent + 1
    BY <1>7, TypesBegin DEF TypeOK, HistoryTypes, BeginQueueMessage
  <2>4. r \in Requests /\ r.msg = sent' /\ r.command # "prompt"
    BY <2>3 DEF Requests, Ids, Slots
  <2>5. stdin' = stdin \/ stdin' = Append(stdin, r)
    BY <1>7 DEF BeginQueueMessage, Request
  <2> HIDE DEF r
  <2>6. sent' \notin interrupted
    BY <2>3, SentMessages DEF SentInv
  <2>7. CASE S = interrupted
    BY <1>4, <2>2, <2>4, <2>5, <2>6, <2>7, FlowRequests
  <2> QED
    BY <1>3, <2>1, <2>7
<1>8. CASE BeginPrompt
  BY <1>3, <1>8 DEF BeginPrompt, Control, NoControl
<1>9. CASE BeginInterrupt
  <2>1. control' = [kind |-> "interrupt", msg |-> None, claimed |-> FALSE,
                    previous |-> state, spared |-> interrupted, atRest |-> FALSE]
    BY <1>9 DEF BeginInterrupt, Control, NoControl
  <2>2. control'.spared = interrupted
    BY <2>1
  <2>3. interrupted' = 1..sent
    BY <1>9 DEF BeginInterrupt, SentInv
  <2>4. UNCHANGED <<stdout, lastUser, childQueue, preflight, announced, serving>>
    BY <1>9 DEF BeginInterrupt
  <2>5. stdin' = stdin \/ stdin' = Append(stdin, [id |-> "control", command |-> "abort", msg |-> None])
    BY <1>9 DEF BeginInterrupt, Request
  <2>6. CASE S = interrupted
    BY <1>6, <2>4, <2>5, <2>6
  <2>7. CASE S = 1..sent
    BY <2>4, <2>5, <2>7, FlowInterrupts
  <2> QED
    BY <2>2, <2>3, <2>6, <2>7
<1>10. CASE BeginRefresh
  <2>1. control'.spared = {} /\ interrupted' = interrupted
        /\ UNCHANGED <<stdout, lastUser, childQueue, preflight, announced, serving>>
    BY <1>10 DEF BeginRefresh, Control, NoControl
  <2>2. stdin' = stdin \/ stdin' = Append(stdin, [id |-> "control", command |-> "get_state", msg |-> None])
    BY <1>10 DEF BeginRefresh, Request
  <2>3. CASE S = interrupted
    BY <1>6, <2>1, <2>2, <2>3
  <2> QED
    BY <1>3, <2>1, <2>3
<1>11. CASE Continuations
  <2>1. UNCHANGED <<stdout, lastUser, childQueue, preflight, announced, serving>>
    BY <1>11 DEF Continuations, ResumeStart, ResumePrompt, ResumeQueueMessage, ResumeInterrupt,
       ResumeGetState, ResumeGetStats
  <2>2. \/ stdin' = stdin
        \/ stdin' = Append(stdin, [id |-> "control", command |-> "get_session_stats", msg |-> None])
    BY <1>11 DEF Continuations, ResumeStart, ResumePrompt, ResumeQueueMessage, ResumeInterrupt,
       ResumeGetState, ResumeGetStats
  <2>3. interrupted' \in {interrupted, control.spared} /\ control'.spared \in {control.spared, {}}
    <3>1. CASE ResumeGetState
      <4>1. interrupted' = interrupted
            /\ control' = [Control("get_session_stats") EXCEPT !.atRest = control.atRest]
        BY <3>1 DEF ResumeGetState, history
      <4>2. control.atRest \in BOOLEAN
        BY DEF TypeOK, HandleTypes, Controls
      <4> QED
        BY <4>1, <4>2, NeutralTypes DEF Kinds
    <3> QED
      BY <1>11, <3>1 DEF Continuations, ResumeStart, ResumePrompt, ResumeQueueMessage, ResumeInterrupt,
         ResumeGetStats, NoControl, history
  <2> QED
    BY <1>3, <1>6, <2>1, <2>2, <2>3
<1>12. CASE HandleLine
  <2>1. interrupted' = interrupted /\ control' = control
    BY <1>12 DEF HandleLine, HandleResponse, HandleAgentStart, HandleAgentSettled, EventFrame,
       HandleQueueUpdate, HandleUserMessageStart, HandleAssistantMessageEnd
  <2> QED
    BY <1>4, <1>12, <2>1, FlowHears
<1>13. ASSUME NEW slot \in Slots, RequestFails(slot) PROVE Flow(S)'
  <2>1. /\ interrupted' = interrupted /\ control' = control /\ Forget({slot}) /\ {slot} \in SUBSET Slots
        /\ UNCHANGED <<lastUser, childQueue, announced, serving>>
    BY <1>13 DEF RequestFails
  <2> QED
    BY <1>4, <2>1, FlowForgets
<1>14. CASE ChildNext
  <2>1. interrupted' = interrupted /\ control' = control
    BY <1>14 DEF ChildNext, ParentFrame, ChildTakesPrompt, ChildAnswersPrompt,
       ChildAnnouncesRun, ChildTakesQueueRequest, ChildAcknowledges, ChildTakesAbort, ChildReportsState,
       ChildEndsMessage, ChildDequeues, ChildSettles, ChildRetries, ChildExits
  <2> QED
    BY <1>1, <1>4, <1>14, <2>1, FlowChild
<1>15. CASE UNCHANGED vars
  <2>1. /\ interrupted' = interrupted /\ control' = control /\ stdin' = stdin
        /\ UNCHANGED <<stdout, lastUser, childQueue, preflight, announced, serving>>
    BY <1>15 DEF vars
  <2> QED
    BY <1>6, <2>1
<1>16. CASE Stop \/ Close
  <2>1. PICK slots \in SUBSET Slots : Forget(slots)
    BY <1>16 DEF Stop, Close, RejectPending, Awaited
  <2>2. interrupted' = interrupted /\ control' = control
        /\ UNCHANGED <<lastUser, childQueue, announced, serving>>
    BY <1>16 DEF Stop, Close, history
  <2> QED
    BY <1>4, <2>1, <2>2, FlowForgets
<1>17. CASE FinishTermination
  <2>1. /\ interrupted' = interrupted /\ control' = control /\ stdin' = stdin
        /\ UNCHANGED <<stdout, lastUser, childQueue, preflight, announced, serving>>
    BY <1>17 DEF FinishTermination, history, child
  <2> QED
    BY <1>6, <2>1
<1>18. ~RejectOversizedOutput /\ ~ProcessError
  BY DEF RejectOversizedOutput, ProcessError
<1> QED
  BY <1>7, <1>8, <1>9, <1>10, <1>11, <1>12, <1>13, <1>14, <1>15, <1>16, <1>17, <1>18
     DEF Next, CallerNext, ProcessEvents

-----------------------------------------------------------------------------
(* The guard an interrupt leaves: an answer counts again only when the      *)
(* message being answered is none of those it covers.                       *)

\* The texts claimed for messages sent after an interrupt are those of messages
\* it does not cover.
Outside(map, S) == \A m \in Messages : map[m] # None => Of(map[m]) \notin S

\* The answer kept, and the message being answered, are none of S.
Beyond(answer, S) == answer \notin S /\ (S # {} => lastUser \notin S \cup {None})

GuardInv ==
    ~misclaimed =>
        /\ final \notin interrupted
        /\ ~interruptedOperation => Beyond(final, interrupted)
        /\ Outside(queuedAfterInterrupt, interrupted)
        /\ abortAttempt.live =>
              /\ AnswerEligible => Beyond(abortAttempt.final, control.spared)
              /\ Outside(abortAttempt.queuedAfterInterrupt, control.spared)

LEMMA GuardTypes ==
  ASSUME TypeOK
  PROVE  /\ interrupted \subseteq Messages /\ control.spared \subseteq Messages
         /\ None \notin interrupted /\ None \notin control.spared /\ None \notin Messages
         /\ abortAttempt \in Attempts
  BY Kickoff DEF TypeOK, HandleTypes, HistoryTypes, Controls

LEMMA NothingClaimed ==
  ASSUME NEW S
  PROVE  Outside(NoClaims, S)
  BY DEF Outside, NoClaims

LEMMA GuardFrame ==
  ASSUME TypeOK, GuardInv,
         UNCHANGED <<final, recovery, abortAttempt, control, interrupted, lastUser, misclaimed>>
  PROVE  GuardInv'
  BY DEF GuardInv, Beyond, Outside, AnswerEligible, recovery

LEMMA GuardBegins ==
  ASSUME TypeOK, HandleInv, SentInv, GuardInv, misclaimed' = misclaimed,
         BeginQueueMessage \/ BeginInterrupt \/ BeginRefresh
  PROVE  GuardInv'
<1> SUFFICES ASSUME ~misclaimed PROVE GuardInv'
  BY DEF GuardInv
<1>1. CASE BeginQueueMessage
  <2>1. /\ UNCHANGED <<final, interruptedOperation, abortAttempt, interrupted, lastUser>>
        /\ control = NoControl /\ sent' = sent + 1
    BY <1>1 DEF BeginQueueMessage, MayBegin, history
  <2>2. ~abortAttempt'.live
    BY <2>1 DEF HandleInv, AttemptInv, NoControl
  <2>3. sent' \in Messages /\ Of(sent') = sent'
    BY <1>1, TypesBegin, Names DEF TypeOK, HistoryTypes, BeginQueueMessage
  <2>4. Of(sent') \notin interrupted
    BY <2>1, <2>3, SentMessages DEF SentInv
  <2>5. \/ queuedAfterInterrupt' = queuedAfterInterrupt
        \/ queuedAfterInterrupt' = [queuedAfterInterrupt EXCEPT ![sent'] = sent']
    BY <1>1 DEF BeginQueueMessage
  <2>6. queuedAfterInterrupt \in [Messages -> Texts \cup {None}]
    BY DEF TypeOK, HandleTypes, ClaimMaps
  <2>7. Outside(queuedAfterInterrupt, interrupted)'
    BY <2>1, <2>3, <2>4, <2>5, <2>6 DEF Outside, GuardInv
  <2> QED
    BY <2>1, <2>2, <2>7 DEF GuardInv, Beyond
<1>2. CASE BeginInterrupt
  <2>1. control' = [kind |-> "interrupt", msg |-> None, claimed |-> FALSE,
                    previous |-> state, spared |-> interrupted, atRest |-> FALSE]
    BY <1>2 DEF BeginInterrupt, Control, NoControl
  <2>2. control'.spared = interrupted
    BY <2>1
  <2>3. /\ final' = None /\ queuedAfterInterrupt' = NoClaims /\ interruptedOperation' = TRUE
        /\ lastUser' = lastUser
        /\ abortAttempt'.queuedAfterInterrupt = queuedAfterInterrupt
        /\ abortAttempt'.final = final
        /\ abortAttempt'.wasInterrupted = interruptedOperation
        /\ abortAttempt'.queuedWorkStarted = FALSE
    BY <1>2 DEF BeginInterrupt
  <2>4. None \notin interrupted'
    BY TypesBegin, <1>2, Kickoff DEF TypeOK, HistoryTypes
  <2>5. AnswerEligible' => Beyond(abortAttempt.final, control.spared)'
    BY <2>2, <2>3 DEF AnswerEligible, GuardInv, Beyond
  <2>6. Outside(abortAttempt.queuedAfterInterrupt, control.spared)'
    BY <2>2, <2>3 DEF Outside, GuardInv
  <2>7. Outside(queuedAfterInterrupt, interrupted)'
    BY <2>3, NothingClaimed DEF Outside
  <2> QED
    BY <2>3, <2>4, <2>5, <2>6, <2>7 DEF GuardInv
<1>3. CASE BeginRefresh
  <2>1. /\ UNCHANGED <<final, interruptedOperation, queuedAfterInterrupt, abortAttempt, interrupted, lastUser>>
        /\ ~abortAttempt.live
    BY <1>3 DEF BeginRefresh, history, MayBegin, NoControl, HandleInv, AttemptInv, recovery
  <2> QED
    BY <2>1 DEF GuardInv, Beyond, Outside
<1> QED
  BY <1>1, <1>2, <1>3

\* A new prompt starts over.
LEMMA GuardPrompts == ASSUME HandleInv, BeginPrompt PROVE GuardInv'
<1>1. /\ interrupted' = {} /\ final' = None /\ queuedAfterInterrupt' = NoClaims
      /\ ~abortAttempt.live /\ abortAttempt' = abortAttempt
  BY DEF BeginPrompt, MayBegin, NoControl, HandleInv, AttemptInv
<1> QED
  BY <1>1, NothingClaimed DEF GuardInv, Beyond

LEMMA GuardResumesInterrupt ==
  ASSUME TypeOK, HandleInv, GuardInv, ResumeInterrupt
  PROVE  GuardInv'
<1> SUFFICES ASSUME ~misclaimed PROVE GuardInv'
  BY DEF GuardInv, ResumeInterrupt
<1> DEFINE rejected == Outcome.result = "rejected" /\ termination = "none"
<1>1. /\ abortAttempt.live /\ interruptedOperation /\ queuedAfterInterrupt = NoClaims /\ final = None
      /\ ~abortAttempt'.live /\ lastUser' = lastUser
  BY DEF ResumeInterrupt, HandleInv, AttemptInv, NoAttempt
<1>2. CASE rejected /\ AnswerEligible
  <2>1. /\ interrupted' = control.spared /\ final' = abortAttempt.final
        /\ queuedAfterInterrupt' = NoClaims
    BY <1>1, <1>2 DEF ResumeInterrupt
  <2>2. Beyond(final, interrupted)'
    BY <1>1, <1>2, <2>1 DEF Beyond, GuardInv
  <2>3. Outside(queuedAfterInterrupt, interrupted)'
    BY <2>1, NothingClaimed DEF Outside
  <2> QED
    BY <1>1, <2>2, <2>3 DEF GuardInv, Beyond
<1>3. CASE rejected /\ ~AnswerEligible
  <2>1. /\ interrupted' = control.spared /\ final' = None /\ interruptedOperation' = TRUE
        /\ queuedAfterInterrupt' = abortAttempt.queuedAfterInterrupt
    BY <1>1, <1>3 DEF ResumeInterrupt
  <2>2. Outside(queuedAfterInterrupt, interrupted)' /\ None \notin interrupted'
    BY <1>1, <2>1, GuardTypes DEF GuardInv, Outside
  <2> QED
    BY <1>1, <2>1, <2>2 DEF GuardInv
<1>4. CASE ~rejected
  <2>1. /\ interrupted' = interrupted /\ final' = None /\ interruptedOperation' = TRUE
        /\ queuedAfterInterrupt' = queuedAfterInterrupt
    BY <1>1, <1>4 DEF ResumeInterrupt
  <2>2. Outside(queuedAfterInterrupt, interrupted)' /\ None \notin interrupted'
    BY <1>1, <2>1, GuardTypes DEF GuardInv, Outside
  <2> QED
    BY <1>1, <2>1, <2>2 DEF GuardInv
<1> QED
  BY <1>2, <1>3, <1>4

LEMMA GuardResumes ==
  ASSUME TypeOK, HandleInv, GuardInv, Continuations
  PROVE  GuardInv'
<1>1. CASE ResumeInterrupt
  BY <1>1, GuardResumesInterrupt
<1>2. CASE ResumeStart
  BY <1>2, GuardFrame DEF ResumeStart, history
<1>3. ASSUME UNCHANGED <<final, interruptedOperation, abortAttempt, interrupted, lastUser, misclaimed>>,
             ~abortAttempt.live, ~misclaimed => Outside(queuedAfterInterrupt, interrupted)'
      PROVE  GuardInv'
  BY <1>3 DEF GuardInv, Beyond
<1>4. CASE ResumePrompt \/ ResumeGetState \/ ResumeGetStats
  <2>1. /\ UNCHANGED <<final, interruptedOperation, queuedAfterInterrupt, abortAttempt, interrupted, lastUser, misclaimed>>
        /\ ~abortAttempt.live
    BY <1>4 DEF ResumePrompt, ResumeGetState, ResumeGetStats, HandleInv, AttemptInv, recovery, history
  <2>2. ~misclaimed => Outside(queuedAfterInterrupt, interrupted)'
    BY <2>1 DEF GuardInv, Outside
  <2> QED
    BY <1>3, <2>1, <2>2
<1>5. CASE ResumeQueueMessage
  <2>1. /\ UNCHANGED <<final, interruptedOperation, abortAttempt, interrupted, lastUser, misclaimed>>
        /\ ~abortAttempt.live
        /\ \/ queuedAfterInterrupt' = queuedAfterInterrupt
           \/ queuedAfterInterrupt' = [queuedAfterInterrupt EXCEPT ![control.msg] = None]
    BY <1>5 DEF ResumeQueueMessage, HandleInv, AttemptInv, history
  <2>2. queuedAfterInterrupt \in [Messages -> Texts \cup {None}]
    BY DEF TypeOK, HandleTypes, ClaimMaps
  <2>3. \A m \in Messages : queuedAfterInterrupt'[m] \in {queuedAfterInterrupt[m], None}
    BY <2>1, <2>2
  <2>4. ~misclaimed => Outside(queuedAfterInterrupt, interrupted)'
    BY <2>1, <2>3 DEF GuardInv, Outside
  <2> QED
    BY <1>3, <2>1, <2>4
<1> QED
  BY <1>1, <1>2, <1>4, <1>5 DEF Continuations


\* What an update attributes, it gives to claims it leaves no others.
LEMMA Attributed ==
  ASSUME NEW claims, NEW map, NEW texts \in Seq(Texts), NEW m \in Messages
  PROVE  LET given == Attribute(claims, NoClaims, texts).map
         IN Attribute(claims, map, texts).map[m] = IF given[m] # None THEN given[m] ELSE map[m]
<1> DEFINE new == {i \in DOMAIN texts : texts[i] \notin ToSet(queuedTexts)}
           Taken(n) == {i \in new : Rank(new, i) = Rank(claims, n)}
           taking == {n \in claims : Taken(n) # {}}
           text == texts[CHOOSE i \in Taken(m) : TRUE]
<1>1. ASSUME NEW old
      PROVE  Attribute(claims, old, texts).map[m] = IF m \in taking THEN text ELSE old[m]
  BY DEF Attribute
<1>2. ASSUME m \in taking PROVE text # None
  <2>1. (CHOOSE i \in Taken(m) : TRUE) \in DOMAIN texts
    BY <1>2
  <2>2. text \in Texts
    BY <2>1
  <2> QED
    BY <2>2, BoundsAssumption DEF Texts, None
<1>3. NoClaims[m] = None
  BY DEF NoClaims
<1> HIDE DEF taking, text
<1> QED
  BY <1>1, <1>2, <1>3

LEMMA GuardHearsQueueUpdate ==
  ASSUME TypeOK, HandleInv, GuardInv, HandleQueueUpdate
  PROVE  GuardInv'
<1> DEFINE texts == stdout[1].texts
<1>1. stdout # <<>> /\ Head(stdout) = stdout[1] /\ stdout[1].type = "queue_update" /\ stdout[1] \in Lines
  BY LineHeard DEF HandleQueueUpdate, Line
<1>2. texts \in Seq(Texts)
  BY <1>1, LineFields
<1>3. UNCHANGED <<final, interruptedOperation, control, interrupted, lastUser>>
  BY DEF HandleQueueUpdate, history
<1> SUFFICES ASSUME ~misclaimed, ~Misclaims(texts) PROVE GuardInv'
  BY <1>1 DEF HandleQueueUpdate, GuardInv
<1>4. abortAttempt \in Attempts
  BY DEF TypeOK, HandleTypes
<1>5. ASSUME NEW map, Outside(map, Covered)
      PROVE  Outside(Attribute(HeldClaims, map, texts).map, Covered)
  BY <1>2, <1>5, Attributed DEF Misclaims, Outside
<1> HIDE DEF texts
<1>6. CASE abortAttempt.live
  <2> DEFINE a == Attribute(abortAttempt.queueClaims, abortAttempt.queuedAfterInterrupt, texts)
  <2>1. /\ abortAttempt' = [abortAttempt EXCEPT !.queueClaims = a.claims,
                                                !.queuedAfterInterrupt = a.map]
        /\ queuedAfterInterrupt' = queuedAfterInterrupt
    BY <1>1, <1>6 DEF HandleQueueUpdate, texts
  <2>2. Outside(a.map, control.spared)
    BY <1>5, <1>6 DEF GuardInv, HeldClaims, Covered
  <2> HIDE DEF a
  <2>3. /\ abortAttempt'.queuedAfterInterrupt = a.map
        /\ abortAttempt'.final = abortAttempt.final
        /\ abortAttempt'.wasInterrupted = abortAttempt.wasInterrupted
        /\ abortAttempt'.queuedWorkStarted = abortAttempt.queuedWorkStarted
    BY <1>4, <2>1 DEF Attempts
  <2>4. AnswerEligible' = AnswerEligible
    BY <2>3 DEF AnswerEligible
  <2>5. Outside(abortAttempt.queuedAfterInterrupt, control.spared)'
    BY <1>3, <2>2, <2>3 DEF Outside
  <2>6. Outside(queuedAfterInterrupt, interrupted)'
    BY <1>3, <2>1 DEF Outside, GuardInv
  <2> QED
    BY <1>3, <1>6, <2>3, <2>4, <2>5, <2>6 DEF GuardInv, Beyond
<1>7. CASE ~abortAttempt.live
  <2> DEFINE a == Attribute(queueClaims, queuedAfterInterrupt, texts)
  <2>1. queuedAfterInterrupt' = a.map /\ abortAttempt' = abortAttempt
    BY <1>1, <1>7 DEF HandleQueueUpdate, texts
  <2>2. Outside(a.map, interrupted)
    BY <1>5, <1>7 DEF GuardInv, HeldClaims, Covered
  <2> HIDE DEF a
  <2>3. Outside(queuedAfterInterrupt, interrupted)'
    BY <1>3, <2>1, <2>2 DEF Outside
  <2> QED
    BY <1>3, <1>7, <2>1, <2>3 DEF GuardInv, Beyond
<1> QED
  BY <1>6, <1>7

\* Once the message being answered is none of S, so is the next one.
LEMMA StaysBeyond ==
  ASSUME TypeOK, NEW S, Flow(S), stdout # <<>>, stdout[1].type = "user",
         S # {} => lastUser \notin S \cup {None}
  PROVE  stdout[1].msg \in Messages /\ (S # {} => stdout[1].msg \notin S \cup {None})
<1>1. stdout[1].msg \in Messages
  BY LineHeard, LineFields
<1>2. ASSUME S # {} PROVE stdout[1].msg \notin S
  <2>1. PICK e \in Numbers : Turned(S, stdout, e)
    BY <1>2 DEF Flow
  <2>2. PICK v \in Numbers : <<lastUser, stdout[1], v>> \in Turns(S)
    BY <2>1, TurnsHeard
  <2> QED
    BY <1>2, <2>2, TurnsLine
<1> QED
  BY <1>1, <1>2, Kickoff

LEMMA GuardHearsUser ==
  ASSUME TypeOK, HandleInv, SpeechInv, FlowInv, GuardInv, HandleUserMessageStart
  PROVE  GuardInv'
<1> SUFFICES ASSUME ~misclaimed PROVE GuardInv'
  BY DEF GuardInv, HandleUserMessageStart, EventFrame
<1> DEFINE text == stdout[1].text
           msg == stdout[1].msg
<1>1. stdout # <<>> /\ Head(stdout) = stdout[1] /\ stdout[1].type = "user"
  BY LineHeard DEF HandleUserMessageStart, Line
<1>2. msg = Of(text) /\ lastUser' = msg /\ UNCHANGED <<control, interrupted>>
  BY <1>1, AnswerHeard DEF HandleUserMessageStart, EventFrame
<1>3. Flow(interrupted) /\ Flow(control.spared)
  BY <1>1 DEF FlowInv, HandleInv, ProcessInv
<1>4. /\ interrupted \subseteq Messages /\ control.spared \subseteq Messages
      /\ None \notin interrupted /\ None \notin control.spared /\ None \notin Messages
      /\ abortAttempt \in Attempts
  BY GuardTypes
<1>5. msg \in Messages
  BY <1>1, LineHeard, LineFields
<1>6. ASSUME NEW map, NEW S, Outside(map, S), text \in Queued(map) PROVE msg \notin S
  BY <1>2, <1>6 DEF Outside, Queued
<1>7. ASSUME NEW S \in {interrupted, control.spared}, S # {} => lastUser \notin S \cup {None}
      PROVE  S # {} => msg \notin S \cup {None}
  BY <1>1, <1>3, <1>7, StaysBeyond
<1> HIDE DEF text, msg
<1>8. CASE abortAttempt.live
  <2>1. /\ interruptedOperation /\ queuedAfterInterrupt = NoClaims /\ final = None
    BY <1>8 DEF HandleInv, AttemptInv
  <2>2. text \notin Queued(queuedAfterInterrupt)
    BY <2>1 DEF Queued, NoClaims
  <2>3. final' = None /\ interruptedOperation' /\ queuedAfterInterrupt' = NoClaims
    BY <1>1, <2>1, <2>2 DEF HandleUserMessageStart, recovery, text
  <2>4. Outside(queuedAfterInterrupt, interrupted)'
    BY <2>3, NothingClaimed DEF Outside
  <2>5. CASE text \in Queued(abortAttempt.queuedAfterInterrupt)
    <3>1. abortAttempt' = [abortAttempt EXCEPT !.queuedWorkStarted = TRUE, !.final = None]
      BY <1>1, <1>8, <2>5 DEF HandleUserMessageStart, text
    <3>2. abortAttempt'.final = None /\ abortAttempt'.queuedAfterInterrupt = abortAttempt.queuedAfterInterrupt
      BY <1>4, <3>1 DEF Attempts
    <3>3. Outside(abortAttempt.queuedAfterInterrupt, control.spared)
      BY <1>8 DEF GuardInv
    <3>4. msg \notin control.spared
      BY <1>6, <2>5, <3>3
    <3>5. Beyond(abortAttempt.final, control.spared)'
      BY <1>2, <1>4, <1>5, <3>2, <3>4 DEF Beyond
    <3>6. Outside(abortAttempt.queuedAfterInterrupt, control.spared)'
      BY <1>2, <3>2, <3>3 DEF Outside
    <3> QED
      BY <1>2, <1>4, <2>3, <2>4, <3>5, <3>6 DEF GuardInv
  <2>6. CASE text \notin Queued(abortAttempt.queuedAfterInterrupt)
    <3>1. abortAttempt' = abortAttempt
      BY <1>1, <2>6 DEF HandleUserMessageStart, text
    <3>2. AnswerEligible' => Beyond(abortAttempt.final, control.spared)'
      BY <1>2, <1>7, <1>8, <3>1 DEF GuardInv, Beyond, AnswerEligible
    <3>3. Outside(abortAttempt.queuedAfterInterrupt, control.spared)'
      BY <1>2, <1>8, <3>1 DEF GuardInv, Outside
    <3> QED
      BY <1>2, <1>4, <2>3, <2>4, <3>2, <3>3 DEF GuardInv
  <2> QED
    BY <2>5, <2>6
<1>9. CASE ~abortAttempt.live
  <2>1. abortAttempt' = abortAttempt
    BY <1>9 DEF HandleUserMessageStart
  <2>2. CASE text \in Queued(queuedAfterInterrupt)
    <3>1. final' = None /\ queuedAfterInterrupt' = NoClaims
      BY <1>1, <1>9, <2>2 DEF HandleUserMessageStart, text
    <3>2. Outside(queuedAfterInterrupt, interrupted)
      BY DEF GuardInv
    <3>3. msg \notin interrupted
      BY <1>6, <2>2, <3>2
    <3>4. Outside(queuedAfterInterrupt, interrupted)'
      BY <3>1, NothingClaimed DEF Outside
    <3> QED
      BY <1>2, <1>4, <1>5, <1>9, <2>1, <3>1, <3>3, <3>4 DEF GuardInv, Beyond
  <2>3. CASE text \notin Queued(queuedAfterInterrupt)
    <3>1. UNCHANGED <<final, interruptedOperation, queuedAfterInterrupt>>
      BY <1>1, <1>9, <2>3 DEF HandleUserMessageStart, recovery, text
    <3>2. Outside(queuedAfterInterrupt, interrupted)'
      BY <1>2, <3>1 DEF GuardInv, Outside
    <3> QED
      BY <1>2, <1>7, <1>9, <2>1, <3>1, <3>2 DEF GuardInv, Beyond
  <2> QED
    BY <2>2, <2>3
<1> QED
  BY <1>8, <1>9


LEMMA GuardHearsAssistant ==
  ASSUME TypeOK, SpeechInv, GuardInv, HandleAssistantMessageEnd
  PROVE  GuardInv'
<1> SUFFICES ASSUME ~misclaimed PROVE GuardInv'
  BY DEF GuardInv, HandleAssistantMessageEnd, EventFrame
<1> DEFINE answer == stdout[1].answer
<1>1. stdout # <<>> /\ Head(stdout) = stdout[1] /\ stdout[1].type = "assistant"
  BY LineHeard DEF HandleAssistantMessageEnd, Line
<1>2. answer \in {None, lastUser}
  BY <1>1, AnswerHeard
<1>3. /\ UNCHANGED <<interruptedOperation, queuedAfterInterrupt, control, interrupted, lastUser>>
      /\ final' = IF interruptedOperation THEN None ELSE answer
      /\ abortAttempt' = IF abortAttempt.live THEN [abortAttempt EXCEPT !.final = answer]
                         ELSE abortAttempt
  BY <1>1 DEF HandleAssistantMessageEnd, EventFrame, Answer, recovery
<1> HIDE DEF answer
<1>4. /\ None \notin interrupted /\ None \notin control.spared
      /\ abortAttempt \in Attempts
  BY GuardTypes
<1>5. ASSUME NEW S, None \notin S, S # {} => lastUser \notin S \cup {None}
      PROVE  answer \notin S
  BY <1>2, <1>5
<1>6. final' \notin interrupted /\ (~interruptedOperation => Beyond(final, interrupted)')
  BY <1>3, <1>4, <1>5 DEF GuardInv, Beyond
<1>7. Outside(queuedAfterInterrupt, interrupted)'
  BY <1>3 DEF GuardInv, Outside
<1>8. CASE abortAttempt.live
  <2>1. /\ abortAttempt'.final = answer
        /\ abortAttempt'.queuedAfterInterrupt = abortAttempt.queuedAfterInterrupt
        /\ abortAttempt'.wasInterrupted = abortAttempt.wasInterrupted
        /\ abortAttempt'.queuedWorkStarted = abortAttempt.queuedWorkStarted
    BY <1>3, <1>4, <1>8 DEF Attempts
  <2>2. AnswerEligible' => Beyond(abortAttempt.final, control.spared)'
    BY <1>3, <1>4, <1>5, <1>8, <2>1 DEF GuardInv, Beyond, AnswerEligible
  <2>3. Outside(abortAttempt.queuedAfterInterrupt, control.spared)'
    BY <1>3, <1>8, <2>1 DEF GuardInv, Outside
  <2> QED
    BY <1>3, <1>6, <1>7, <2>2, <2>3 DEF GuardInv
<1>9. CASE ~abortAttempt.live
  BY <1>3, <1>6, <1>7, <1>9 DEF GuardInv
<1> QED
  BY <1>8, <1>9

LEMMA GuardHearsAgentStart ==
  ASSUME TypeOK, GuardInv, HandleAgentStart
  PROVE  GuardInv'
<1> SUFFICES ASSUME ~misclaimed PROVE GuardInv'
  BY DEF GuardInv, HandleAgentStart, EventFrame
<1>1. /\ UNCHANGED <<interruptedOperation, queuedAfterInterrupt, control, interrupted, lastUser>>
      /\ final' = None
      /\ abortAttempt' = IF abortAttempt.live THEN [abortAttempt EXCEPT !.final = None]
                         ELSE abortAttempt
  BY DEF HandleAgentStart, EventFrame, recovery
<1>2. None \notin interrupted /\ None \notin control.spared /\ abortAttempt \in Attempts
  BY GuardTypes
<1>3. final' \notin interrupted' /\ (~interruptedOperation' => Beyond(final, interrupted)')
  BY <1>1, <1>2 DEF GuardInv, Beyond
<1>4. Outside(queuedAfterInterrupt, interrupted)'
  BY <1>1 DEF GuardInv, Outside
<1>5. CASE abortAttempt.live
  <2>1. /\ abortAttempt'.final = None
        /\ abortAttempt'.queuedAfterInterrupt = abortAttempt.queuedAfterInterrupt
        /\ abortAttempt'.wasInterrupted = abortAttempt.wasInterrupted
        /\ abortAttempt'.queuedWorkStarted = abortAttempt.queuedWorkStarted
    BY <1>1, <1>2, <1>5 DEF Attempts
  <2>2. AnswerEligible' => Beyond(abortAttempt.final, control.spared)'
    BY <1>1, <1>2, <1>5, <2>1 DEF GuardInv, Beyond, AnswerEligible
  <2>3. Outside(abortAttempt.queuedAfterInterrupt, control.spared)'
    BY <1>1, <1>5, <2>1 DEF GuardInv, Outside
  <2> QED
    BY <1>3, <1>4, <2>2, <2>3 DEF GuardInv
<1>6. CASE ~abortAttempt.live
  BY <1>1, <1>3, <1>4, <1>6 DEF GuardInv
<1> QED
  BY <1>5, <1>6

LEMMA GuardInit == Init => GuardInv
  BY NothingClaimed, Kickoff DEF Init, GuardInv, Beyond, Outside, NoAttempt

LEMMA GuardStep ==
  TypeOK /\ HandleInv /\ SentInv /\ SpeechInv /\ FlowInv /\ GuardInv /\ [Next]_vars => GuardInv'
<1> SUFFICES ASSUME TypeOK, HandleInv, SentInv, SpeechInv, FlowInv, GuardInv, [Next]_vars
             PROVE  GuardInv'
  OBVIOUS
<1>1. CASE BeginQueueMessage \/ BeginInterrupt \/ BeginRefresh
  <2>1. misclaimed' = misclaimed
    BY <1>1 DEF BeginQueueMessage, BeginInterrupt, BeginRefresh, history
  <2> QED
    BY <1>1, <2>1, GuardBegins
<1>2. CASE BeginPrompt
  BY <1>2, GuardPrompts
<1>3. CASE Continuations
  BY <1>3, GuardResumes
<1>4. CASE HandleLine
  <2>1. CASE HandleResponse \/ HandleAgentSettled
    BY <2>1, GuardFrame DEF HandleResponse, HandleAgentSettled, EventFrame, history
  <2> QED
    BY <1>4, <2>1, GuardHearsQueueUpdate, GuardHearsUser, GuardHearsAssistant,
       GuardHearsAgentStart DEF HandleLine
<1>5. CASE Stop \/ Close \/ ProcessError \/ FinishTermination \/ RejectOversizedOutput
  BY <1>5, GuardFrame DEF Stop, Close, ProcessError, FinishTermination, RejectOversizedOutput, history
<1>6. ASSUME NEW slot \in Slots, RequestFails(slot) PROVE GuardInv'
  BY <1>6, GuardFrame DEF RequestFails, history
<1>7. CASE ChildNext
  <2>1. UNCHANGED <<final, recovery, abortAttempt, control, interrupted, lastUser, misclaimed>>
    BY <1>7 DEF ChildNext, ParentFrame, history, ChildTakesPrompt, ChildAnswersPrompt,
       ChildAnnouncesRun, ChildTakesQueueRequest, ChildAcknowledges, ChildTakesAbort, ChildReportsState,
       ChildEndsMessage, ChildDequeues, ChildSettles, ChildRetries, ChildExits
  <2> QED
    BY <2>1, GuardFrame
<1>8. CASE UNCHANGED vars
  BY <1>8, GuardFrame DEF vars, history
<1> QED
  BY <1>1, <1>2, <1>3, <1>4, <1>5, <1>6, <1>7, <1>8 DEF Next, CallerNext, ProcessEvents

-----------------------------------------------------------------------------
IInv == TypeOK /\ ControlInv /\ HandleInv /\ SentInv /\ SpeechInv /\ MoodInv

LEMMA Inductive == Spec => []IInv
<1>1. Init => IInv
  BY TypesInit, ControlInit, HandleInit, SentInit, SpeechInit, MoodInit DEF IInv
<1>2. IInv /\ [Next]_vars => IInv'
  BY TypesStep, ControlStep, HandleStep, SentStep, SpeechStep, MoodStep DEF IInv
<1> QED
  BY <1>1, <1>2, PTL DEF Spec

\* Unless a refresh has written a report of rest over the start of the run under
\* way, the answer a settled wait returns (waitSnapshot() of index.ts) is to the last
\* message the child started, never to an earlier operation, however many refreshes
\* were made before.
THEOREM AnswerIsCurrent == Spec => []CurrentUnlessOvertaken
<1>1. IInv => CurrentUnlessOvertaken
  BY DEF IInv, MoodInv, Current, CurrentUnlessOvertaken, ExposedAnswerIsCurrent, Exposed, Settled
<1> QED
  BY <1>1, Inductive, PTL

\* Nor does waitForIdle() find a child settled that is in the middle of a run, once
\* all it wrote was handled.
THEOREM WorkIsNotIdle == Spec => []WorkingChildNotIdle
<1>1. ASSUME IInv, ~overtaken, announced, stdout = <<>>, ~deaf PROVE state # "idle"
  <2>1. PICK a \in Moods, e \in Moods : Mood(stdout, a, e) /\ Starts(a) /\ Ends(e)
    BY <1>1 DEF IInv, MoodInv
  <2> DEFINE T == Feels(control.kind)
             R == Moods
  <2>2. Run(R, T, stdout, a, e) /\ stdout \in Seq(Lines)
    BY <1>1, <2>1 DEF Mood, IInv, TypeOK, PipeTypes
  <2> HIDE DEF T, R
  <2>3. a = e
    BY <1>1, <2>2, RunEnds
  <2> QED
    BY <1>1, <2>1, <2>3 DEF Starts, Ends
<1>2. IInv => WorkingChildNotIdle
  BY <1>1 DEF WorkingChildNotIdle
<1> QED
  BY <1>2, Inductive, PTL

\* What keeps the answer of an interrupted operation hidden.
HiddenInv == IInv /\ FlowInv /\ GuardInv

\* Unless recordQueueUpdate() gave the queue entry of interrupted work to the claim
\* of a later request, no answer to a message an interrupt covers is ever kept as
\* the final one (interrupt() and handleEvent() of rpc.ts), whatever interrupts
\* fail, are rejected or go unanswered, and whenever the process is stopped or dies.
THEOREM AnswerStaysHidden == Spec => []HiddenUnlessMisclaimed
<1>1. Init => HiddenInv
  BY TypesInit, ControlInit, HandleInit, SentInit, SpeechInit, MoodInit, FlowInit, GuardInit
     DEF IInv, HiddenInv
<1>2. HiddenInv /\ [Next]_vars => HiddenInv'
  BY TypesStep, ControlStep, HandleStep, SentStep, SpeechStep, MoodStep, FlowStep, GuardStep
     DEF IInv, HiddenInv
<1>3. HiddenInv => HiddenUnlessMisclaimed
  BY DEF HiddenInv, GuardInv, HiddenUnlessMisclaimed, InterruptedAnswerHidden
<1> QED
  BY <1>1, <1>2, <1>3, PTL DEF Spec

=============================================================================
