----------------------------- MODULE OrcRemote -----------------------------
(***************************************************************************)
(* A JIT and its executor process: SimpleRemoteEPC and                     *)
(* SimpleRemoteEPCServer, each over a transport on a pair of pipes         *)
(* (FDSimpleRemoteEPCTransport).  Each side makes requests of the other:   *)
(* the JIT calls wrapper functions, the functions dispatch back to the     *)
(* JIT, and the handlers may call the executor again.                      *)
(*                                                                         *)
(* A section that holds a mutex is one action, with the call of a handler  *)
(* it has taken out of a table, which no other thread can reach; so is the *)
(* transmission of a message, which the transport serializes.              *)
(***************************************************************************)
EXTENDS Integers, Sequences, FiniteSets, SequencesExt

CONSTANTS
  Req,      \* the requests
  Setup,    \* the one whose answer is the setup message
  Maker,    \* the side that makes each request
  Parent,   \* the request whose work makes it, or the request itself
  InPlace   \* requests whose answer is handled by the thread that has it

Side == {"jit", "exec"}
Other(s) == IF s = "jit" THEN "exec" ELSE "jit"

\* The error a request is answered with; otherwise the answer is its result.
Error == "disconnecting"

ASSUME RemoteAssumption ==
  /\ Setup \in Req /\ Error \notin Req
  /\ Maker \in [Req -> Side] /\ Maker[Setup] = "jit"
  /\ Parent \in [Req -> Req]
  /\ \A r \in Req : Parent[r] = Setup <=> r = Setup
  /\ \A r \in Req : Parent[r] # r => Maker[r] = Other(Maker[Parent[r]])
  /\ InPlace \subseteq Req /\ Setup \in InPlace
  /\ \A r \in Req : Parent[r] # r \/ Maker[r] = "exec" => r \in InPlace

VARIABLES
  down,       \* Disconnected, of the transport of each side
  input,      \* the messages on their way to each side
  pending,    \* PendingCallWrapperResults, PendingJITDispatchResults
  nextSeqNo,  \* NextSeqNo
  listener,   \* where the listener thread of each side is
  failing,    \* TmpPending: what handleDisconnect is about to fail
  pc,         \* where the request's maker is
  answers,    \* the results the request's handler was called with
  work,       \* what the other side does for the request, under what number
  task,       \* the task that handles an answer
  closing,    \* where the call of SimpleRemoteEPC::disconnect is
  dead        \* the executor process has died

wires      == <<down, input>>
tables     == <<pending, nextSeqNo, failing>>
remoteVars == <<wires, tables, listener, pc, answers, work, task, closing, dead>>

RemTypeOK ==
  /\ down \in [Side -> BOOLEAN]
  /\ input \in [Side -> Seq([op : {"call", "result"}, seqNo : Nat, of : Req])]
  /\ pending \in [Side -> SUBSET (Nat \X Req)]
  /\ \A s \in Side : \A p, q \in pending[s] : p[1] = q[1] => p = q
  /\ failing \in [Side -> SUBSET Req]
  /\ nextSeqNo \in [Side -> Nat]
  /\ listener \in [Side -> {"reading", "ended", "answering", "done"}]
  /\ pc \in [Req -> {"idle", "refused", "sending", "unsent", "sent"}]
  /\ answers \in [Req -> Seq(Req \cup {Error})]
  /\ work \in [Req -> [phase : {"none", "running", "over"}, seqNo : Nat]]
  /\ task \in [Req -> {"none", "running", "over"}]
  /\ closing \in {"no", "closed", "waiting", "returned"}
  /\ dead \in BOOLEAN

\* The transports have started; the handler of the setup message is number 0, and
\* the executor is about to send that message.
RemInit ==
  /\ down = [s \in Side |-> FALSE]
  /\ input = [s \in Side |-> <<>>]
  /\ pending = [s \in Side |-> IF s = "jit" THEN {<<0, Setup>>} ELSE {}]
  /\ nextSeqNo = [s \in Side |-> 0]
  /\ listener = [s \in Side |-> "reading"]
  /\ failing = [s \in Side |-> {}]
  /\ pc = [r \in Req |-> IF r = Setup THEN "sent" ELSE "idle"]
  /\ answers = [r \in Req |-> <<>>]
  /\ work = [r \in Req |-> [phase |-> IF r = Setup THEN "running" ELSE "none", seqNo |-> 0]]
  /\ task = [r \in Req |-> "none"]
  /\ closing = "no"
  /\ dead = FALSE

\* The threads of a side run.
Runs(s) == s = "exec" => ~ dead

\* A message arrives if neither end is closed.
Connected == \A s \in Side : ~ down[s]
Transmit(to, m) == input' = [input EXCEPT ![to] = Append(@, m)]

-----------------------------------------------------------------------------
\* The handlers of the requests in R are called with v: the answer is there, or a
\* task is dispatched that handles it.
Answer(R, v) ==
  /\ answers' = [r \in Req |-> IF r \in R THEN Append(answers[r], v) ELSE answers[r]]
  /\ task' = [r \in Req |-> IF r \in R \ InPlace THEN "running" ELSE task[r]]

\* The requests that are pending under a number.
Under(s, n) == {r \in Req : <<n, r>> \in pending[s]}

\* Faulty variant: the entry stays in the table.
NotReleased(s, n) == pending[s]

\* The table without the entry of a number.
Released(s, n) == {p \in pending[s] : p[1] # n}

\* Faulty variant: getNextSeqNo does not count.
SameSeqNo(s) == nextSeqNo[s]

\* NextSeqNo after getNextSeqNo.
SeqNoAfter(s) == nextSeqNo[s] + 1

\* A request is made by a client of the JIT that is set up, or by the work for
\* another request.
MayMake(r) ==
  /\ pc[r] = "idle"
  /\ IF Parent[r] = r
     THEN answers[Setup] = <<Setup>> /\ closing # "returned"
     ELSE work[Parent[r]].phase = "running"

\* Faulty variant: doJITDispatch does not ask whether the server runs.
AcceptsAlways(s) == TRUE

\* "jit_dispatch not available (EPC server shut down)": RunState, which the JIT's
\* side does not have.
Accepts(s) == s = "exec" => listener[s] \in {"reading", "ended"}

\* callWrapperAsync, doJITDispatch: the request gets a number.
Make(r) ==
  LET s == Maker[r] IN
  /\ MayMake(r) /\ Runs(s) /\ Accepts(s)
  /\ pending' = [pending EXCEPT ![s] = Released(s, nextSeqNo[s]) \cup {<<nextSeqNo[s], r>>}]
  /\ nextSeqNo' = [nextSeqNo EXCEPT ![s] = SeqNoAfter(s)]
  /\ pc' = [pc EXCEPT ![r] = "sending"]
  /\ work' = [work EXCEPT ![r].seqNo = nextSeqNo[s]]
  /\ UNCHANGED <<wires, failing, listener, answers, task, closing, dead>>

\* doJITDispatch after the server has started to shut down.
Refuse(r) ==
  /\ MayMake(r) /\ Runs(Maker[r]) /\ ~ Accepts(Maker[r])
  /\ pc' = [pc EXCEPT ![r] = "refused"]
  /\ Answer({r}, Error)
  /\ UNCHANGED <<wires, tables, listener, work, closing, dead>>

\* sendMessage succeeds, or not: the executor reports an error and waits on.
Send(r) ==
  LET s == Maker[r] IN
  /\ pc[r] = "sending" /\ Runs(s)
  /\ IF Connected
     THEN /\ Transmit(Other(s), [op |-> "call", seqNo |-> work[r].seqNo, of |-> r])
          /\ pc' = [pc EXCEPT ![r] = "sent"]
     ELSE /\ pc' = [pc EXCEPT ![r] = IF s = "jit" THEN "unsent" ELSE "sent"]
          /\ UNCHANGED input
  /\ UNCHANGED <<down, tables, listener, answers, work, task, closing, dead>>

\* Faulty variant: the handler is called without asking who has it.
OwnHandler(r) == {r}

\* The handler, unless handleDisconnect "gets there first".
StillPending(r) == Under("jit", work[r].seqNo) \cap {r}

\* callWrapperAsync after a message that could not be sent.
TakeBack(r) ==
  /\ pc[r] = "unsent"
  /\ pc' = [pc EXCEPT ![r] = "sent"]
  /\ pending' = [pending EXCEPT !["jit"] = @ \ {<<work[r].seqNo, r>>}]
  /\ Answer(StillPending(r), Error)
  /\ UNCHANGED <<wires, nextSeqNo, failing, listener, work, closing, dead>>

-----------------------------------------------------------------------------
\* handleMessage, for a request: a task or a thread works for it.
HandleCall(s, m) ==
  /\ m.op = "call"
  /\ work' = [work EXCEPT ![m.of].phase = "running"]
  /\ UNCHANGED <<down, pending, listener, answers, task>>

\* handleMessage, for a result: "No call for sequence number" ends the session.
HandleResult(s, m) ==
  /\ m.op = "result"
  /\ pending' = [pending EXCEPT ![s] = Released(s, m.seqNo)]
  /\ Answer(Under(s, m.seqNo), m.of)
  /\ IF Under(s, m.seqNo) = {}
     THEN listener' = [listener EXCEPT ![s] = "ended"] /\ down' = [down EXCEPT ![s] = TRUE]
     ELSE UNCHANGED <<listener, down>>
  /\ UNCHANGED work

\* listenLoop reads a message.
Receive(s) ==
  /\ listener[s] = "reading" /\ Runs(s) /\ input[s] # <<>>
  /\ input' = [input EXCEPT ![s] = Tail(@)]
  /\ HandleCall(s, Head(input[s])) \/ HandleResult(s, Head(input[s]))
  /\ UNCHANGED <<nextSeqNo, failing, pc, closing, dead>>

\* listenLoop ends and closes the transport: the other side has closed its own ...
EndOfInput(s) ==
  /\ listener[s] = "reading" /\ Runs(s) /\ input[s] = <<>> /\ down[Other(s)]
  /\ listener' = [listener EXCEPT ![s] = "ended"]
  /\ down' = [down EXCEPT ![s] = TRUE]
  /\ UNCHANGED <<input, tables, pc, answers, work, task, closing, dead>>

\* ... or it reads from a pipe that this side has closed.
ReadFails(s) ==
  /\ listener[s] = "reading" /\ down[s] /\ Runs(s)
  /\ listener' = [listener EXCEPT ![s] = "ended"]
  /\ UNCHANGED <<wires, tables, pc, answers, work, task, closing, dead>>

\* handleDisconnect takes the table; the server shuts down from here on.
TakePending(s) ==
  /\ listener[s] = "ended" /\ Runs(s)
  /\ listener' = [listener EXCEPT ![s] = "answering"]
  /\ failing' = [failing EXCEPT ![s] = {p[2] : p \in pending[s]}]
  /\ pending' = [pending EXCEPT ![s] = {}]
  /\ UNCHANGED <<wires, nextSeqNo, pc, answers, work, task, closing, dead>>

\* handleDisconnect calls one of the handlers.
FailOne(s, r) ==
  /\ listener[s] = "answering" /\ Runs(s) /\ r \in failing[s]
  /\ failing' = [failing EXCEPT ![s] = @ \ {r}]
  /\ Answer({r}, Error)
  /\ UNCHANGED <<wires, pending, nextSeqNo, listener, pc, work, closing, dead>>

\* The tasks and threads a dispatcher has not seen the end of.
Outstanding(s) ==
  {r \in Req \ {Setup} : Maker[r] = Other(s) /\ work[r].phase = "running"}
    \cup {r \in Req : s = "jit" /\ task[r] = "running"}

\* handleDisconnect ends; the server's waits for its threads first.
Disconnected(s) ==
  /\ listener[s] = "answering" /\ Runs(s) /\ failing[s] = {}
  /\ s = "exec" => Outstanding(s) = {}
  /\ listener' = [listener EXCEPT ![s] = "done"]
  /\ UNCHANGED <<wires, tables, pc, answers, work, task, closing, dead>>

-----------------------------------------------------------------------------
\* The requests the work for r has made and waits for.
Awaited(r) == {q \in Req : Parent[q] = r /\ q # r /\ pc[q] # "idle" /\ answers[q] = <<>>}

\* The work for r ends, and its result is sent.
FinishWork(r) ==
  LET s == Other(Maker[r]) IN
  /\ work[r].phase = "running" /\ Runs(s) /\ Awaited(r) = {}
  /\ work' = [work EXCEPT ![r].phase = "over"]
  /\ IF Connected
     THEN Transmit(Maker[r], [op |-> "result", seqNo |-> work[r].seqNo, of |-> r])
     ELSE UNCHANGED input
  /\ UNCHANGED <<down, tables, listener, pc, answers, task, closing, dead>>

FinishTask(r) ==
  /\ task[r] = "running"
  /\ task' = [task EXCEPT ![r] = "over"]
  /\ UNCHANGED <<wires, tables, listener, pc, answers, work, closing, dead>>

\* SimpleRemoteEPC::disconnect: close the transport,
Disconnect ==
  /\ closing = "no" /\ answers[Setup] # <<>>
  /\ closing' = "closed"
  /\ down' = [down EXCEPT !["jit"] = TRUE]
  /\ UNCHANGED <<input, tables, listener, pc, answers, work, task, dead>>

\* wait for the dispatcher's tasks,
ShutDownDispatcher ==
  /\ closing = "closed" /\ Outstanding("jit") = {}
  /\ closing' = "waiting"
  /\ UNCHANGED <<wires, tables, listener, pc, answers, work, task, dead>>

\* and for handleDisconnect.
DisconnectReturns ==
  /\ closing = "waiting" /\ listener["jit"] = "done"
  /\ closing' = "returned"
  /\ UNCHANGED <<wires, tables, listener, pc, answers, work, task, dead>>

\* The executor process dies.
Die ==
  /\ ~ dead
  /\ dead' = TRUE
  /\ down' = [down EXCEPT !["exec"] = TRUE]
  /\ UNCHANGED <<input, tables, listener, pc, answers, work, task, closing>>

-----------------------------------------------------------------------------
Listen(s) ==
  \/ Receive(s) \/ EndOfInput(s) \/ TakePending(s)
  \/ (\E r \in Req : FailOne(s, r)) \/ Disconnected(s)

RemNext ==
  \/ \E r \in Req : \/ Make(r) \/ Refuse(r) \/ Send(r) \/ TakeBack(r)
                    \/ FinishWork(r) \/ FinishTask(r)
  \/ \E s \in Side : Listen(s) \/ ReadFails(s)
  \/ Disconnect \/ ShutDownDispatcher \/ DisconnectReturns \/ Die

\* The threads run, and what runs for a request or an answer comes to its end.  A
\* read that waits need not notice that its own side has closed the pipe.
RemFairness ==
  /\ \A r \in Req : WF_remoteVars(Send(r)) /\ WF_remoteVars(TakeBack(r))
                    /\ WF_remoteVars(FinishWork(r)) /\ WF_remoteVars(FinishTask(r))
  /\ \A s \in Side : WF_remoteVars(Listen(s))
  /\ WF_remoteVars(ShutDownDispatcher) /\ WF_remoteVars(DisconnectReturns)

RemSpec == RemInit /\ [][RemNext]_remoteVars /\ RemFairness

-----------------------------------------------------------------------------
\* What became of a request.
StatusOf(r) ==
  IF Error \in ToSet(answers[r]) THEN "error"
  ELSE IF answers[r] # <<>> THEN "value"
  ELSE IF work[r].phase = "over" THEN "run"
  ELSE IF pc[r] # "idle" THEN "made" ELSE "idle"

Calls == INSTANCE OrcRemoteCall WITH
  status <- [r \in Req |-> StatusOf(r)],
  lost   <- \E s \in Side : down[s]

\* The connection implements calls: a request is answered by the result of what it
\* ran, or by an error once a side has closed, whatever the threads of both sides
\* and the messages between them do.
RequestsAreCalls == Calls!Spec

\* The handler of a request is called at most once, and with the result of that
\* request: callWrapperAsync and handleDisconnect never both fail it, and numbers
\* are not mixed up ("SeqNo already in use").
AnsweredOnce ==
  \A r \in Req : Len(answers[r]) <= 1 /\ ToSet(answers[r]) \subseteq {r, Error}

\* A result is never a surprise: the request it answers is pending as long as the
\* listener reads, so that "No call for sequence number" does not end a session.
ResultsExpected ==
  \A s \in Side : \A i \in DOMAIN input[s] :
    listener[s] = "reading" /\ input[s][i].op = "result" =>
      <<input[s][i].seqNo, input[s][i].of>> \in pending[s]

\* A request that is made is answered, though its message may be lost, the other
\* side close, or the executor die, unless the maker died with it.
EveryRequestAnswered ==
  \A r \in Req : pc[r] # "idle" ~> answers[r] # <<>> \/ (dead /\ Maker[r] = "exec")

\* SimpleRemoteEPC::disconnect returns, and the server shuts down, although tasks
\* and threads they wait for wait for answers themselves.
BothSidesClose ==
  /\ closing = "closed" ~> closing = "returned"
  /\ down["jit"] ~> listener["exec"] = "done" \/ dead

\* "Called by ExecutionSession.  Waits until all tasks have completed."
\* (TaskDispatcher::shutdown, which SimpleRemoteEPC::disconnect calls.)
NoTaskOutlivesDisconnect == closing = "returned" => Outstanding("jit") = {}
=============================================================================
