-------------------------- MODULE OrcRemoteProofs --------------------------
(***************************************************************************)
(* Theorems about the connection between the JIT and its executor, for any *)
(* set of requests, nested in any way.                                     *)
(***************************************************************************)
EXTENDS OrcRemote, TLAPS

\* The request has a number: it was made, and not refused.
Numbered(r) == pc[r] \notin {"idle", "refused"}

\* The numbers that were given out are below the next one, and differ; the setup
\* message's number is given out again.
NumbersApart ==
  /\ work[Setup].seqNo = 0 /\ pc[Setup] = "sent"
  /\ \A r \in Req \ {Setup} :
       Numbered(r) => work[r].seqNo < nextSeqNo[Maker[r]]
  /\ \A q, r \in Req \ {Setup} :
       Numbered(q) /\ Numbered(r) /\ Maker[q] = Maker[r]
         /\ work[q].seqNo = work[r].seqNo => q = r

\* No other request is made before the setup message has arrived.
SetupFirst == \A r \in Req \ {Setup} : pc[r] # "idle" => answers[Setup] = <<Setup>>

\* A pending request has no answer yet; neither has one that is about to fail, which
\* is pending no more.
PendingUnanswered ==
  \A s \in Side : \A p \in pending[s] :
    /\ Maker[p[2]] = s /\ p[1] = work[p[2]].seqNo
    /\ Numbered(p[2]) /\ answers[p[2]] = <<>>

FailingUnanswered ==
  \A s \in Side : \A r \in failing[s] :
    /\ Maker[r] = s /\ Numbered(r) /\ answers[r] = <<>>
    /\ <<work[r].seqNo, r>> \notin pending[s]

\* A request that was not made has no answer; what works for one was sent for, and
\* has ended when its result is the answer.
WorkSent ==
  \A r \in Req : /\ pc[r] = "idle" => answers[r] = <<>>
                 /\ work[r].phase # "none" => pc[r] = "sent"
                 /\ answers[r] = <<r>> => work[r].phase = "over"

\* A message belongs to a request that was sent; nothing works yet for a call, and
\* nothing any more for one whose result is on its way, which was not yet received.
Travels(s, m) ==
  /\ pc[m.of] = "sent" /\ m.seqNo = work[m.of].seqNo
  /\ m.op = "call" => s = Other(Maker[m.of]) /\ work[m.of].phase = "none"
  /\ m.op = "result" => /\ s = Maker[m.of] /\ work[m.of].phase = "over"
                        /\ answers[m.of] \in {<<>>, <<Error>>}

MessagesTravel ==
  \A s \in Side : \A i \in DOMAIN input[s] :
    /\ Travels(s, input[s][i])
    /\ \A j \in DOMAIN input[s] : input[s][i].of = input[s][j].of => i = j

\* A request whose result may still come is pending as long as its side listens.
Outstands(r) ==
  \/ pc[r] = "sending" \/ work[r].phase = "running"
  \/ \E s \in Side : \E i \in DOMAIN input[s] : input[s][i].of = r

OutstandingPending ==
  \A r \in Req : listener[Maker[r]] = "reading" /\ Outstands(r) =>
    <<work[r].seqNo, r>> \in pending[Maker[r]]

AnsweredAtMostOnce == \A r \in Req : answers[r] \in {<<>>, <<r>>, <<Error>>}

\* Once a listener has ended, or a message could not be sent, a side has closed.
ClosedWhenOver ==
  /\ \A s \in Side : listener[s] # "reading" => down[s]
  /\ \A s \in Side : listener[s] \in {"reading", "ended"} => failing[s] = {}
  /\ \A r \in Req : pc[r] = "unsent" => \E s \in Side : down[s]

RemInv ==
  /\ RemTypeOK
  /\ NumbersApart /\ SetupFirst
  /\ PendingUnanswered /\ FailingUnanswered /\ WorkSent
  /\ MessagesTravel /\ OutstandingPending /\ AnsweredAtMostOnce /\ ClosedWhenOver
-----------------------------------------------------------------------------
(***************************************************************************)
(* Lemmas                                                                  *)
(***************************************************************************)

Messages == [op : {"call", "result"}, seqNo : Nat, of : Req]

LEMMA Appended ==
  ASSUME NEW q \in Seq(Messages), NEW m \in Messages
  PROVE  /\ Append(q, m) \in Seq(Messages)
         /\ DOMAIN Append(q, m) = DOMAIN q \cup {Len(q) + 1}
         /\ Append(q, m)[Len(q) + 1] = m
         /\ \A i \in DOMAIN q : Append(q, m)[i] = q[i] /\ i # Len(q) + 1
  OBVIOUS

LEMMA Received ==
  ASSUME NEW q \in Seq(Messages), q # <<>>
  PROVE  /\ Head(q) \in Messages /\ Head(q) = q[1] /\ 1 \in DOMAIN q
         /\ Tail(q) \in Seq(Messages)
         /\ \A i \in DOMAIN Tail(q) :
              i + 1 \in DOMAIN q /\ Tail(q)[i] = q[i + 1] /\ i + 1 # 1
  OBVIOUS

\* The handlers that are called have not been called before.
LEMMA Answered ==
  ASSUME RemTypeOK, NEW R \in SUBSET Req, NEW v \in Req \cup {Error},
         \A r \in R : answers[r] = <<>>, Answer(R, v)
  PROVE  /\ answers' \in [Req -> Seq(Req \cup {Error})]
         /\ task' \in [Req -> {"none", "running", "over"}]
         /\ \A r \in R : answers'[r] = <<v>>
         /\ \A r \in Req \ R : answers'[r] = answers[r]
<1>1. Append(<<>>, v) = <<v>> /\ <<v>> \in Seq(Req \cup {Error})
  OBVIOUS
<1>2. answers' = [r \in Req |-> IF r \in R THEN <<v>> ELSE answers[r]]
  BY <1>1 DEF Answer
<1>3. answers \in [Req -> Seq(Req \cup {Error})]
  BY DEF RemTypeOK
<1>4. task' \in [Req -> {"none", "running", "over"}]
  BY DEF Answer, RemTypeOK
<1>5. \A r \in Req : answers'[r] = IF r \in R THEN <<v>> ELSE answers[r]
  BY <1>2
<1>6. answers' \in [Req -> Seq(Req \cup {Error})]
  <2>1. \A r \in Req : (IF r \in R THEN <<v>> ELSE answers[r]) \in Seq(Req \cup {Error})
    BY <1>1, <1>3
  <2> QED
    BY <2>1, <1>2
<1> QED
  BY <1>4, <1>5, <1>6

LEMMA Entries ==
  ASSUME RemTypeOK, NEW s \in Side, NEW p \in pending[s]
  PROVE  p[1] \in Nat /\ p[2] \in Req /\ p = <<p[1], p[2]>>
  BY DEF RemTypeOK

LEMMA InTransit ==
  ASSUME RemTypeOK, NEW s \in Side, NEW i \in DOMAIN input[s]
  PROVE  /\ input[s][i] \in Messages /\ input[s][i].of \in Req
         /\ input[s][i].op \in {"call", "result"}
<1>1. input[s] \in Seq(Messages)
  BY DEF RemTypeOK, Messages
<1>2. input[s][i] \in Messages
  BY <1>1
<1> QED
  BY <1>2 DEF Messages

LEMMA FailingRequests ==
  ASSUME RemTypeOK, NEW s \in Side, NEW r \in failing[s]
  PROVE  r \in Req
<1>1. failing \in [Side -> SUBSET Req]
  BY DEF RemTypeOK
<1> QED
  BY <1>1

LEMMA Sides == Side = {"jit", "exec"} /\ \A s \in Side : Other(s) \in Side /\ Other(s) # s
  BY DEF Side, Other

LEMMA InitInv == RemInit => RemInv
<1> SUFFICES ASSUME RemInit PROVE RemInv
  OBVIOUS
<1> USE DEF RemInit
<1>1. RemTypeOK
  <2>1. input \in [Side -> Seq(Messages)] /\ answers \in [Req -> Seq(Req \cup {Error})]
    BY DEF Messages
  <2>2. pending \in [Side -> SUBSET (Nat \X Req)]
    BY RemoteAssumption DEF Side
  <2>3. work \in [Req -> [phase : {"none", "running", "over"}, seqNo : Nat]]
    OBVIOUS
  <2> QED
    BY <2>1, <2>2, <2>3, RemoteAssumption DEF RemTypeOK, Messages, Side
<1>2. NumbersApart /\ SetupFirst
  BY RemoteAssumption DEF NumbersApart, SetupFirst, Numbered
<1>3. PendingUnanswered /\ FailingUnanswered /\ WorkSent
  BY RemoteAssumption DEF PendingUnanswered, FailingUnanswered, WorkSent, Numbered, Side
<1>4. MessagesTravel /\ OutstandingPending /\ AnsweredAtMostOnce /\ ClosedWhenOver
  BY RemoteAssumption DEF MessagesTravel, OutstandingPending, Outstands,
     AnsweredAtMostOnce, ClosedWhenOver, Side
<1> QED
  BY <1>1, <1>2, <1>3, <1>4 DEF RemInv

-----------------------------------------------------------------------------
(***************************************************************************)
(* Every step keeps the invariant                                          *)
(***************************************************************************)

\* What the steps of closing leave alone.
tableState == <<input, pending, failing, nextSeqNo, pc, answers, work>>

LEMMA TablesKept ==
  ASSUME RemInv, UNCHANGED tableState,
         down' \in [Side -> BOOLEAN], \A s \in Side : down[s] => down'[s],
         listener' \in [Side -> {"reading", "ended", "answering", "done"}],
         \A s \in Side : listener'[s] \in {"reading", "ended"} => listener[s] \in {"reading", "ended"},
         \A s \in Side : listener'[s] = "reading" => listener[s] = "reading",
         \A s \in Side : listener'[s] # "reading" => down'[s],
         task' \in [Req -> {"none", "running", "over"}],
         closing' \in {"no", "closed", "waiting", "returned"}, dead' \in BOOLEAN
  PROVE  RemInv'
<1> USE DEF RemInv, tableState
<1>1. RemTypeOK'
  BY DEF RemTypeOK
<1>2. NumbersApart' /\ SetupFirst' /\ WorkSent' /\ AnsweredAtMostOnce'
  BY DEF NumbersApart, SetupFirst, WorkSent, AnsweredAtMostOnce, Numbered
<1>3. PendingUnanswered' /\ FailingUnanswered'
  BY DEF PendingUnanswered, FailingUnanswered, Numbered
<1>4. MessagesTravel'
  BY DEF MessagesTravel, Travels
<1>5. OutstandingPending'
  BY RemoteAssumption DEF OutstandingPending, Outstands
<1>6. ClosedWhenOver'
  BY DEF ClosedWhenOver
<1> QED
  BY <1>1, <1>2, <1>3, <1>4, <1>5, <1>6

LEMMA ClosingInv ==
  ASSUME RemInv,
         \/ \E r \in Req : FinishTask(r)
         \/ \E s \in Side : EndOfInput(s) \/ ReadFails(s) \/ Disconnected(s)
         \/ Disconnect \/ ShutDownDispatcher \/ DisconnectReturns \/ Die
         \/ UNCHANGED remoteVars
  PROVE  RemInv'
<1> USE TablesKept DEF tableState, wires, tables
<1>0. RemTypeOK /\ ClosedWhenOver
  BY DEF RemInv
<1> USE <1>0 DEF RemTypeOK, ClosedWhenOver, Side
<1>1. ASSUME NEW r \in Req, FinishTask(r) PROVE RemInv'
  BY <1>1 DEF FinishTask
<1>2. ASSUME NEW s \in Side, EndOfInput(s) PROVE RemInv'
  BY <1>2 DEF EndOfInput
<1>3. ASSUME NEW s \in Side, ReadFails(s) PROVE RemInv'
  BY <1>3 DEF ReadFails
<1>4. ASSUME NEW s \in Side, Disconnected(s) PROVE RemInv'
  BY <1>4 DEF Disconnected
<1>5. CASE Disconnect
  BY <1>5 DEF Disconnect
<1>6. CASE ShutDownDispatcher
  BY <1>6 DEF ShutDownDispatcher
<1>7. CASE DisconnectReturns
  BY <1>7 DEF DisconnectReturns
<1>8. CASE Die
  BY <1>8 DEF Die
<1>9. CASE UNCHANGED remoteVars
  BY <1>9 DEF remoteVars
<1> QED
  BY <1>1, <1>2, <1>3, <1>4, <1>5, <1>6, <1>7, <1>8, <1>9

LEMMA TakePendingInv ==
  ASSUME RemInv, NEW s \in Side, TakePending(s)
  PROVE  RemInv'
<1> USE DEF RemInv, TakePending, wires
<1>0. {p[2] : p \in pending[s]} \subseteq Req
  BY Entries
<1>1. RemTypeOK'
  BY <1>0 DEF RemTypeOK
<1>2. NumbersApart' /\ SetupFirst' /\ WorkSent' /\ AnsweredAtMostOnce'
  BY DEF NumbersApart, SetupFirst, WorkSent, AnsweredAtMostOnce, Numbered
<1>3. PendingUnanswered'
  BY DEF PendingUnanswered, Numbered, RemTypeOK
<1>4. FailingUnanswered'
  BY DEF FailingUnanswered, PendingUnanswered, Numbered, RemTypeOK
<1>5. MessagesTravel'
  BY DEF MessagesTravel, Travels
<1>6. OutstandingPending'
  BY RemoteAssumption DEF OutstandingPending, Outstands, RemTypeOK
<1>7. ClosedWhenOver'
  BY DEF ClosedWhenOver, RemTypeOK
<1> QED
  BY <1>1, <1>2, <1>3, <1>4, <1>5, <1>6, <1>7

\* Handlers are called with the error.
LEMMA FailingAnswers ==
  ASSUME RemInv, NEW R \in SUBSET Req, \A r \in R : answers[r] = <<>>,
         Answer(R, Error), Setup \in R => answers[Setup] = <<>>
  PROVE  /\ AnsweredAtMostOnce'
         /\ answers' \in [Req -> Seq(Req \cup {Error})]
         /\ task' \in [Req -> {"none", "running", "over"}]
         /\ \A r \in R : answers'[r] = <<Error>>
         /\ \A r \in Req \ R : answers'[r] = answers[r]
         /\ answers[Setup] = <<Setup>> => answers'[Setup] = <<Setup>>
         /\ \A r \in Req : answers'[r] = <<r>> => answers[r] = <<r>>
         /\ \A r \in Req : answers[r] \in {<<>>, <<Error>>} => answers'[r] \in {<<>>, <<Error>>}
<1>0. RemTypeOK /\ AnsweredAtMostOnce
  BY DEF RemInv
<1>1. /\ answers' \in [Req -> Seq(Req \cup {Error})]
      /\ task' \in [Req -> {"none", "running", "over"}]
      /\ \A r \in R : answers'[r] = <<Error>>
      /\ \A r \in Req \ R : answers'[r] = answers[r]
  BY <1>0, Answered
<1>2. \A r \in Req : <<r>> # <<Error>> /\ <<r>> # <<>>
  BY RemoteAssumption
<1> QED
  BY <1>0, <1>1, <1>2, RemoteAssumption DEF AnsweredAtMostOnce

LEMMA FailOneInv ==
  ASSUME RemInv, NEW s \in Side, NEW r \in Req, FailOne(s, r)
  PROVE  RemInv'
<1> USE DEF RemInv, FailOne, wires
<1>0. Maker[r] = s /\ Numbered(r) /\ answers[r] = <<>> /\ <<work[r].seqNo, r>> \notin pending[s]
  BY DEF FailingUnanswered
<1>1. /\ AnsweredAtMostOnce'
      /\ answers' \in [Req -> Seq(Req \cup {Error})]
      /\ task' \in [Req -> {"none", "running", "over"}]
      /\ answers'[r] = <<Error>>
      /\ \A q \in Req \ {r} : answers'[q] = answers[q]
      /\ answers[Setup] = <<Setup>> => answers'[Setup] = <<Setup>>
      /\ \A q \in Req : answers'[q] = <<q>> => answers[q] = <<q>>
      /\ \A q \in Req : answers[q] \in {<<>>, <<Error>>} => answers'[q] \in {<<>>, <<Error>>}
  BY <1>0, FailingAnswers
<1>2. RemTypeOK'
  BY <1>1 DEF RemTypeOK
<1>3. NumbersApart' /\ SetupFirst'
  BY <1>1 DEF NumbersApart, SetupFirst, Numbered
<1>4. WorkSent'
  BY <1>0, <1>1 DEF WorkSent, Numbered
<1>5. PendingUnanswered'
  <2>1. \A t \in Side : \A p \in pending[t] : p[2] \in Req \ {r}
    BY <1>0, Entries DEF PendingUnanswered
  <2> QED
    BY <2>1, <1>1 DEF PendingUnanswered, Numbered
<1>6. FailingUnanswered'
  <2>1. failing \in [Side -> SUBSET Req]
    BY DEF RemTypeOK
  <2>2. \A t \in Side : \A q \in failing'[t] : q \in failing[t] /\ q \in Req \ {r}
    BY <1>0, <2>1 DEF FailingUnanswered
  <2> QED
    BY <2>2, <1>1 DEF FailingUnanswered, Numbered
<1>7. MessagesTravel'
  <2>1. \A t \in Side : \A i \in DOMAIN input[t] : input[t][i].of \in Req
    BY InTransit
  <2> QED
    BY <2>1, <1>1 DEF MessagesTravel, Travels
<1>8. OutstandingPending' /\ ClosedWhenOver'
  BY DEF OutstandingPending, Outstands, ClosedWhenOver, RemTypeOK
<1> QED
  BY <1>1, <1>2, <1>3, <1>4, <1>5, <1>6, <1>7, <1>8

LEMMA TakeBackInv ==
  ASSUME RemInv, NEW r \in Req, TakeBack(r)
  PROVE  RemInv'
<1> USE DEF RemInv, TakeBack, wires
<1>0. \A q \in StillPending(r) : q = r /\ <<work[r].seqNo, r>> \in pending["jit"]
                                  /\ answers[q] = <<>> /\ Maker[r] = "jit"
  BY DEF StillPending, Under, PendingUnanswered, Side
<1>1. /\ AnsweredAtMostOnce'
      /\ answers' \in [Req -> Seq(Req \cup {Error})]
      /\ task' \in [Req -> {"none", "running", "over"}]
      /\ \A q \in Req \ StillPending(r) : answers'[q] = answers[q]
      /\ answers[Setup] = <<Setup>> => answers'[Setup] = <<Setup>>
      /\ \A q \in Req : answers'[q] = <<q>> => answers[q] = <<q>>
      /\ \A q \in Req : answers[q] \in {<<>>, <<Error>>} => answers'[q] \in {<<>>, <<Error>>}
  <2>1. StillPending(r) \subseteq Req
    BY <1>0
  <2> QED
    BY <2>1, <1>0, FailingAnswers
<1>2. RemTypeOK'
  BY <1>1 DEF RemTypeOK
<1>3. NumbersApart' /\ SetupFirst'
  BY <1>1 DEF NumbersApart, SetupFirst, Numbered, RemTypeOK
<1>4. WorkSent'
  BY <1>0, <1>1 DEF WorkSent, RemTypeOK
<1>5. PendingUnanswered'
  BY <1>0, <1>1 DEF PendingUnanswered, Numbered, RemTypeOK, Side
<1>6. FailingUnanswered'
  BY <1>0, <1>1 DEF FailingUnanswered, Numbered, RemTypeOK, Side
<1>7. MessagesTravel'
  <2>1. \A t \in Side : \A i \in DOMAIN input[t] : input[t][i].of \in Req
    BY InTransit
  <2>2. \A q \in Req : pc[q] = "sent" => pc'[q] = "sent"
    BY DEF RemTypeOK
  <2>3. \A t \in Side : \A i \in DOMAIN input[t] : Travels(t, input[t][i])'
    BY <2>1, <2>2, <1>1 DEF MessagesTravel, Travels
  <2> QED
    BY <2>3 DEF MessagesTravel
<1>8. OutstandingPending'
  <2>1. ~ Outstands(r)
    BY DEF Outstands, WorkSent, MessagesTravel, Travels
  <2>2. pc' = [pc EXCEPT ![r] = "sent"] /\ pc \in [Req -> {"idle", "refused", "sending", "unsent", "sent"}]
    BY DEF RemTypeOK
  <2>3. \A q \in Req : Outstands(q)' => Outstands(q) /\ q # r
    BY <2>1, <2>2 DEF Outstands
  <2>4. \A t \in Side, p \in Nat \X Req :
          p \in pending[t] /\ p[2] # r => p \in pending'[t]
    BY DEF RemTypeOK
  <2> QED
    BY <2>3, <2>4, RemoteAssumption DEF OutstandingPending, RemTypeOK
<1>9. ClosedWhenOver'
  BY DEF ClosedWhenOver, RemTypeOK
<1> QED
  BY <1>1, <1>2, <1>3, <1>4, <1>5, <1>6, <1>7, <1>8, <1>9

\* A request whose result may still come has a number, and no result.
LEMMA OutstandingNumbered ==
  ASSUME RemInv, NEW r \in Req, Outstands(r)
  PROVE  Numbered(r) /\ answers[r] # <<r>>
<1> USE DEF RemInv
<1>0. <<r>> # <<Error>> /\ <<r>> # <<>>
  BY RemoteAssumption
<1>1. CASE pc[r] = "sending"
  BY <1>1 DEF Numbered, WorkSent
<1>2. CASE work[r].phase = "running"
  BY <1>2 DEF Numbered, WorkSent
<1>3. CASE \E s \in Side : \E i \in DOMAIN input[s] : input[s][i].of = r
  BY <1>0, <1>3, InTransit DEF Numbered, WorkSent, MessagesTravel, Travels
<1> QED
  BY <1>1, <1>2, <1>3 DEF Outstands

\* Whoever makes a request after the setup message.
LEMMA MakerSetUp ==
  ASSUME RemInv, NEW r \in Req, MayMake(r)
  PROVE  /\ r # Setup /\ answers[Setup] = <<Setup>>
         /\ answers[r] = <<>> /\ work[r].phase = "none" /\ pc[r] = "idle"
<1> USE RemoteAssumption DEF RemInv, MayMake
<1>1. r # Setup /\ answers[r] = <<>> /\ work[r].phase = "none" /\ pc[r] = "idle"
  BY DEF NumbersApart, WorkSent
<1>2. CASE Parent[r] = r
  BY <1>1, <1>2
<1>3. CASE Parent[r] # r
  BY <1>1, <1>3 DEF WorkSent, SetupFirst
<1> QED
  BY <1>1, <1>2, <1>3

LEMMA RefuseInv ==
  ASSUME RemInv, NEW r \in Req, Refuse(r)
  PROVE  RemInv'
<1> USE DEF RemInv, Refuse, wires, tables
<1>0. /\ r # Setup /\ answers[Setup] = <<Setup>>
      /\ answers[r] = <<>> /\ work[r].phase = "none" /\ pc[r] = "idle"
  BY MakerSetUp
<1>1. /\ AnsweredAtMostOnce'
      /\ answers' \in [Req -> Seq(Req \cup {Error})]
      /\ task' \in [Req -> {"none", "running", "over"}]
      /\ \A q \in Req \ {r} : answers'[q] = answers[q]
      /\ answers[Setup] = <<Setup>> => answers'[Setup] = <<Setup>>
      /\ \A q \in Req : answers'[q] = <<q>> => answers[q] = <<q>>
      /\ \A q \in Req : answers[q] \in {<<>>, <<Error>>} => answers'[q] \in {<<>>, <<Error>>}
  BY <1>0, FailingAnswers
<1>2. RemTypeOK'
  BY <1>1 DEF RemTypeOK
<1>3. /\ pc'[r] = "refused" /\ \A q \in Req \ {r} : pc'[q] = pc[q]
      /\ \A q \in Req : Numbered(q)' <=> Numbered(q)
  BY <1>0 DEF Numbered, RemTypeOK
<1>4. NumbersApart' /\ SetupFirst'
  BY <1>0, <1>1, <1>3 DEF NumbersApart, SetupFirst
<1>5. WorkSent'
  BY <1>0, <1>1, <1>3 DEF WorkSent
<1>6. \A t \in Side : \A p \in pending[t] : p[2] \in Req \ {r}
  BY <1>0, Entries DEF PendingUnanswered, Numbered
<1>7. PendingUnanswered'
  BY <1>1, <1>3, <1>6 DEF PendingUnanswered
<1>8. FailingUnanswered'
  <2>1. \A t \in Side : \A q \in failing[t] : q \in Req \ {r}
    BY <1>0, FailingRequests DEF FailingUnanswered, Numbered
  <2> QED
    BY <2>1, <1>1, <1>3 DEF FailingUnanswered
<1>9. MessagesTravel'
  <2>1. \A t \in Side : \A i \in DOMAIN input[t] : input[t][i].of \in Req \ {r}
    BY <1>0, InTransit DEF MessagesTravel, Travels
  <2>2. \A t \in Side : \A i \in DOMAIN input[t] : Travels(t, input[t][i])'
    BY <2>1, <1>1, <1>3 DEF MessagesTravel, Travels
  <2> QED
    BY <2>2 DEF MessagesTravel
<1>10. OutstandingPending'
  <2>1. \A q \in Req : Outstands(q)' => Outstands(q)
    BY <1>3 DEF Outstands
  <2> QED
    BY <2>1 DEF OutstandingPending
<1>11. ClosedWhenOver'
  BY <1>3 DEF ClosedWhenOver
<1> QED
  BY <1>1, <1>2, <1>4, <1>5, <1>7, <1>8, <1>9, <1>10, <1>11

LEMMA MakeInv ==
  ASSUME RemInv, NEW r \in Req, Make(r)
  PROVE  RemInv'
<1> DEFINE s == Maker[r]
           n == nextSeqNo[s]
<1>0. /\ r # Setup /\ answers[Setup] = <<Setup>>
      /\ answers[r] = <<>> /\ work[r].phase = "none" /\ pc[r] = "idle"
  BY MakerSetUp DEF Make
<1>1. s \in Side /\ n \in Nat
  BY RemoteAssumption DEF RemInv, RemTypeOK
<1> USE DEF RemInv
<1>2. /\ pc'[r] = "sending" /\ \A q \in Req \ {r} : pc'[q] = pc[q]
      /\ work'[r] = [phase |-> "none", seqNo |-> n]
      /\ \A q \in Req \ {r} : work'[q] = work[q]
      /\ nextSeqNo'[s] = n + 1 /\ \A t \in Side \ {s} : nextSeqNo'[t] = nextSeqNo[t]
      /\ \A t \in Side \ {s} : pending'[t] = pending[t]
      /\ pending'[s] = {p \in pending[s] : p[1] # n} \cup {<<n, r>>}
      /\ UNCHANGED <<wires, failing, listener, answers, task, closing, dead>>
  BY <1>0, <1>1 DEF Make, RemTypeOK, Released, SeqNoAfter
<1>3. RemTypeOK'
  <2>0. /\ pending \in [Side -> SUBSET (Nat \X Req)]
        /\ \A t \in Side : \A p, q \in pending[t] : p[1] = q[1] => p = q
    BY DEF RemTypeOK
  <2>1. pending' \in [Side -> SUBSET (Nat \X Req)]
    BY <1>1, <2>0 DEF Make, Released
  <2>2. \A t \in Side : \A p, q \in pending'[t] : p[1] = q[1] => p = q
    <3> SUFFICES ASSUME NEW t \in Side, NEW p \in pending'[t], NEW q \in pending'[t], p[1] = q[1]
                 PROVE  p = q
      OBVIOUS
    <3>1. CASE t # s
      BY <3>1, <1>2, <2>0
    <3>2. CASE t = s
      BY <3>2, <1>2, <2>0
    <3> QED
      BY <3>1, <3>2
  <2>3. /\ nextSeqNo' \in [Side -> Nat] /\ pc' \in [Req -> {"idle", "refused", "sending", "unsent", "sent"}]
        /\ work' \in [Req -> [phase : {"none", "running", "over"}, seqNo : Nat]]
    <3>1. /\ nextSeqNo \in [Side -> Nat] /\ pc \in [Req -> {"idle", "refused", "sending", "unsent", "sent"}]
          /\ work \in [Req -> [phase : {"none", "running", "over"}, seqNo : Nat]]
      BY DEF RemTypeOK
    <3>2. [work[r] EXCEPT !.seqNo = n] \in [phase : {"none", "running", "over"}, seqNo : Nat]
      BY <1>1, <3>1
    <3> QED
      BY <1>1, <3>1, <3>2 DEF Make, SeqNoAfter
  <2> QED
    BY <1>2, <2>1, <2>2, <2>3 DEF RemTypeOK, wires
<1>4. \A q \in Req \ {r} : Numbered(q)' <=> Numbered(q)
  BY <1>2 DEF Numbered
<1>5. NumbersApart'
  <2>1. work'[Setup].seqNo = 0 /\ pc'[Setup] = "sent"
    BY <1>0, <1>2, RemoteAssumption DEF NumbersApart
  <2>2. \A q \in Req \ {Setup, r} : Numbered(q) =>
          work[q].seqNo < nextSeqNo[Maker[q]] /\ work[q].seqNo < nextSeqNo'[Maker[q]]
            /\ work[q].seqNo \in Nat
    <3>1. \A q \in Req : work[q].seqNo \in Nat /\ nextSeqNo[Maker[q]] \in Nat /\ Maker[q] \in Side
      BY RemoteAssumption DEF RemTypeOK
    <3>2. \A t \in Side : nextSeqNo'[t] \in {nextSeqNo[t], nextSeqNo[t] + 1}
      BY <1>2
    <3> QED
      BY <3>1, <3>2 DEF NumbersApart
  <2>3. \A q \in Req \ {Setup, r} : Numbered(q) /\ Maker[q] = s => work[q].seqNo # n
    BY <2>2, <1>1
  <2> QED
    BY <2>1, <2>2, <2>3, <1>1, <1>2, <1>4 DEF NumbersApart
<1>6. SetupFirst' /\ WorkSent' /\ AnsweredAtMostOnce'
  BY <1>0, <1>2, RemoteAssumption DEF SetupFirst, WorkSent, AnsweredAtMostOnce
<1>7. PendingUnanswered'
  <2>1. \A t \in Side : \A p \in pending[t] : p[2] \in Req \ {r}
    BY <1>0, Entries DEF PendingUnanswered, Numbered
  <2>2. \A t \in Side : \A p \in pending'[t] : p \in pending[t] \/ (t = s /\ p = <<n, r>>)
    BY <1>2
  <2> QED
    BY <2>1, <2>2, <1>0, <1>2, <1>4 DEF PendingUnanswered, Numbered
<1>8. FailingUnanswered'
  <2>1. \A t \in Side : \A q \in failing[t] : q \in Req \ {r}
    BY <1>0, FailingRequests DEF FailingUnanswered, Numbered
  <2> QED
    BY <2>1, <1>2, <1>4 DEF FailingUnanswered
<1>9. \A t \in Side : \A i \in DOMAIN input[t] : input[t][i].of \in Req \ {r}
  BY <1>0, InTransit DEF MessagesTravel, Travels
<1>10. MessagesTravel'
  <2>1. \A t \in Side : \A i \in DOMAIN input[t] : Travels(t, input[t][i])'
    BY <1>2, <1>9 DEF MessagesTravel, Travels, wires
  <2> QED
    BY <2>1, <1>2 DEF MessagesTravel, wires
<1>11. OutstandingPending'
  <2>1. \A q \in Req \ {r} : Outstands(q)' <=> Outstands(q)
    BY <1>2 DEF Outstands, wires
  <2>2. \A q \in Req : Outstands(q) => q # Setup
    BY <1>0, OutstandingNumbered
  <2>3. \A q \in Req \ {Setup, r} : Outstands(q) /\ Maker[q] = s => work[q].seqNo # n
    <3>1. \A q \in Req : work[q].seqNo \in Nat
      BY DEF RemTypeOK
    <3> QED
      BY <1>1, <3>1, OutstandingNumbered DEF NumbersApart
  <2>4. \A q \in Req \ {r} : Outstands(q)' /\ listener'[Maker[q]] = "reading" =>
          <<work'[q].seqNo, q>> \in pending'[Maker[q]]
    BY <2>1, <2>2, <2>3, <1>2, RemoteAssumption DEF OutstandingPending
  <2> QED
    BY <2>4, <1>2 DEF OutstandingPending
<1>12. ClosedWhenOver'
  BY <1>2 DEF ClosedWhenOver, wires
<1> QED
  BY <1>3, <1>5, <1>6, <1>7, <1>8, <1>10, <1>11, <1>12

\* A message joins those that travel to a side.
LEMMA Transmitted ==
  ASSUME RemTypeOK, NEW to \in Side, NEW m \in Messages, Transmit(to, m)
  PROVE  /\ input' \in [Side -> Seq(Messages)]
         /\ \A t \in Side \ {to} : input'[t] = input[t]
         /\ DOMAIN input'[to] = DOMAIN input[to] \cup {Len(input[to]) + 1}
         /\ input'[to][Len(input[to]) + 1] = m
         /\ \A i \in DOMAIN input[to] :
              input'[to][i] = input[to][i] /\ i # Len(input[to]) + 1
<1>1. input \in [Side -> Seq(Messages)]
  BY DEF RemTypeOK, Messages
<1>2. input' = [input EXCEPT ![to] = Append(input[to], m)]
  BY DEF Transmit
<1> QED
  BY <1>1, <1>2, Appended

LEMMA TravelOn ==
  ASSUME RemTypeOK, MessagesTravel,
         NEW to \in Side, NEW m \in Messages, Transmit(to, m), Travels(to, m)',
         \A t \in Side, x \in Messages :
           (\E i \in DOMAIN input[t] : x = input[t][i]) => Travels(t, x)',
         \A i \in DOMAIN input[to] : input[to][i].of # m.of
  PROVE  MessagesTravel'
<1>1. \A t \in Side : \A i \in DOMAIN input[t] : input[t][i] \in Messages
  BY InTransit
<1>2. ASSUME NEW t \in Side, NEW i \in DOMAIN input'[t]
      PROVE  \E x \in Messages : x = input'[t][i] /\ Travels(t, x)'
  <2>1. CASE i \in DOMAIN input[t] /\ input'[t][i] = input[t][i]
    BY <1>1, <2>1
  <2>2. CASE t = to /\ input'[t][i] = m
    BY <2>2
  <2> QED
    BY <1>2, <2>1, <2>2, Transmitted
<1>3. ASSUME NEW t \in Side, NEW i \in DOMAIN input'[t]
      PROVE  Travels(t, input[t][i])'
  <2>1. PICK x \in Messages : x = input'[t][i] /\ Travels(t, x)'
    BY <1>2, <1>3
  <2> QED
    BY <2>1 DEF Travels
<1>4. ASSUME NEW t \in Side, NEW i \in DOMAIN input'[t], NEW j \in DOMAIN input'[t],
             input'[t][i].of = input'[t][j].of
      PROVE  i = j
  <2>1. CASE t # to
    BY <1>4, <2>1, Transmitted DEF MessagesTravel
  <2>2. CASE t = to
    BY <1>4, <2>2, Transmitted DEF MessagesTravel
  <2> QED
    BY <2>1, <2>2
<1> QED
  BY <1>3, <1>4 DEF MessagesTravel

LEMMA SendInv ==
  ASSUME RemInv, NEW r \in Req, Send(r)
  PROVE  RemInv'
<1> USE DEF RemInv
<1>m. PICK m \in Messages : m = [op |-> "call", seqNo |-> work[r].seqNo, of |-> r]
  BY DEF RemTypeOK, Messages
<1>0. Maker[r] \in Side /\ Other(Maker[r]) \in Side
  BY RemoteAssumption, Sides
<1>1. /\ pc[r] = "sending" /\ work[r].phase = "none" /\ r # Setup
      /\ pc'[r] \in {"sent", "unsent"} /\ \A q \in Req \ {r} : pc'[q] = pc[q]
      /\ UNCHANGED <<down, pending, failing, nextSeqNo, listener, answers, work, task, closing, dead>>
      /\ \/ Transmit(Other(Maker[r]), m) /\ pc'[r] = "sent"
         \/ UNCHANGED input /\ ~ Connected
  BY <1>m DEF Send, RemTypeOK, WorkSent, NumbersApart, tables
<1>2. \A q \in Req : Numbered(q)' <=> Numbered(q)
  BY <1>1 DEF Numbered
<1>3. RemTypeOK'
  <2>1. input' \in [Side -> Seq(Messages)]
    BY <1>0, <1>1, Transmitted DEF RemTypeOK, Messages
  <2>2. pc' \in [Req -> {"idle", "refused", "sending", "unsent", "sent"}]
    BY DEF Send, RemTypeOK
  <2> QED
    BY <1>1, <2>1, <2>2 DEF RemTypeOK, Messages
<1>4. NumbersApart' /\ SetupFirst' /\ WorkSent' /\ AnsweredAtMostOnce'
  <2>1. NumbersApart'
    BY <1>1, <1>2, RemoteAssumption DEF NumbersApart
  <2>2. SetupFirst' /\ AnsweredAtMostOnce'
    BY <1>1 DEF SetupFirst, AnsweredAtMostOnce
  <2>3. WorkSent'
    BY <1>1 DEF WorkSent
  <2> QED
    BY <2>1, <2>2, <2>3
<1>5. PendingUnanswered'
  BY <1>1, <1>2, Entries DEF PendingUnanswered
<1>6. FailingUnanswered'
  BY <1>1, <1>2, FailingRequests DEF FailingUnanswered
<1>7. \A t \in Side : \A i \in DOMAIN input[t] : input[t][i].of \in Req \ {r}
  BY <1>1, InTransit DEF MessagesTravel, Travels
<1>8. \A t \in Side, x \in Messages :
        (\E i \in DOMAIN input[t] : x = input[t][i]) => Travels(t, x)'
  BY <1>1, <1>7 DEF MessagesTravel, Travels
<1>9. MessagesTravel'
  <2>1. CASE UNCHANGED input
    <3>1. \A t \in Side : \A i \in DOMAIN input[t] : Travels(t, input[t][i])'
      BY <1>1, <1>7, <2>1 DEF MessagesTravel, Travels
    <3> QED
      BY <2>1, <3>1 DEF MessagesTravel
  <2>2. CASE Transmit(Other(Maker[r]), m) /\ pc'[r] = "sent"
    <3>1. Travels(Other(Maker[r]), m)'
      BY <1>m, <1>1, <2>2 DEF Travels
    <3> QED
      BY <1>m, <1>0, <1>7, <1>8, <2>2, <3>1, TravelOn
  <2> QED
    BY <1>1, <2>1, <2>2
<1>10. OutstandingPending'
  <2>0. \A t \in Side : \A i \in DOMAIN input'[t] :
          \/ input'[t][i].of = r
          \/ i \in DOMAIN input[t] /\ input'[t][i].of = input[t][i].of
    <3>1. CASE UNCHANGED input
      BY <3>1
    <3>2. CASE Transmit(Other(Maker[r]), m)
      <4>1. m.of = r
        BY <1>m
      <4> QED
        BY <1>0, <3>2, <4>1, Transmitted
    <3> QED
      BY <1>1, <3>1, <3>2
  <2>1. \A q \in Req \ {r} : Outstands(q)' => Outstands(q)
    BY <2>0, <1>1 DEF Outstands
  <2> QED
    BY <2>1, <1>1 DEF OutstandingPending, Outstands
<1>11. ClosedWhenOver'
  BY <1>1 DEF ClosedWhenOver, Connected
<1> QED
  BY <1>3, <1>4, <1>5, <1>6, <1>9, <1>10, <1>11

LEMMA FinishWorkInv ==
  ASSUME RemInv, NEW r \in Req, FinishWork(r)
  PROVE  RemInv'
<1> USE DEF RemInv
<1>m. PICK m \in Messages : m = [op |-> "result", seqNo |-> work[r].seqNo, of |-> r]
  BY DEF RemTypeOK, Messages
<1>0. Maker[r] \in Side
  BY RemoteAssumption
<1>1. /\ work[r].phase = "running" /\ pc[r] = "sent" /\ answers[r] # <<r>>
      /\ work'[r].phase = "over" /\ work'[r].seqNo = work[r].seqNo
      /\ \A q \in Req \ {r} : work'[q] = work[q]
      /\ UNCHANGED <<down, pending, failing, nextSeqNo, listener, pc, answers, task, closing, dead>>
      /\ Transmit(Maker[r], m) \/ UNCHANGED input
  BY <1>m DEF FinishWork, RemTypeOK, WorkSent, tables
<1>2. \A q \in Req : (Numbered(q)' <=> Numbered(q)) /\ work'[q].seqNo = work[q].seqNo
  BY <1>1 DEF Numbered
<1>3. RemTypeOK'
  <2>1. input' \in [Side -> Seq(Messages)]
    BY <1>0, <1>1, Transmitted DEF RemTypeOK, Messages
  <2>2. work' \in [Req -> [phase : {"none", "running", "over"}, seqNo : Nat]]
    <3>1. work \in [Req -> [phase : {"none", "running", "over"}, seqNo : Nat]]
      BY DEF RemTypeOK
    <3>2. [work[r] EXCEPT !.phase = "over"] \in [phase : {"none", "running", "over"}, seqNo : Nat]
      BY <3>1
    <3> QED
      BY <3>1, <3>2 DEF FinishWork
  <2> QED
    BY <1>1, <2>1, <2>2 DEF RemTypeOK, Messages
<1>4. NumbersApart' /\ SetupFirst' /\ WorkSent' /\ AnsweredAtMostOnce'
  BY <1>1, <1>2, RemoteAssumption DEF NumbersApart, SetupFirst, WorkSent, AnsweredAtMostOnce
<1>5. PendingUnanswered'
  BY <1>1, <1>2, Entries DEF PendingUnanswered
<1>6. FailingUnanswered'
  BY <1>1, <1>2, FailingRequests DEF FailingUnanswered
<1>7. \A t \in Side : \A i \in DOMAIN input[t] : input[t][i].of \in Req \ {r}
  BY <1>1, InTransit DEF MessagesTravel, Travels
<1>8. \A t \in Side, x \in Messages :
        (\E i \in DOMAIN input[t] : x = input[t][i]) => Travels(t, x)'
  BY <1>1, <1>7 DEF MessagesTravel, Travels
<1>9. MessagesTravel'
  <2>1. CASE UNCHANGED input
    <3>1. \A t \in Side : \A i \in DOMAIN input[t] : Travels(t, input[t][i])'
      BY <1>1, <1>7, <2>1 DEF MessagesTravel, Travels
    <3> QED
      BY <2>1, <3>1 DEF MessagesTravel
  <2>2. CASE Transmit(Maker[r], m)
    <3>1. Travels(Maker[r], m)'
      BY <1>m, <1>1 DEF Travels, AnsweredAtMostOnce
    <3> QED
      BY <1>m, <1>0, <1>7, <1>8, <2>2, <3>1, TravelOn
  <2> QED
    BY <1>1, <2>1, <2>2
<1>10. OutstandingPending'
  <2>0. \A t \in Side : \A i \in DOMAIN input'[t] :
          \/ input'[t][i].of = r
          \/ i \in DOMAIN input[t] /\ input'[t][i].of = input[t][i].of
    <3>1. CASE UNCHANGED input
      BY <3>1
    <3>2. CASE Transmit(Maker[r], m)
      <4>1. m.of = r
        BY <1>m
      <4> QED
        BY <1>0, <3>2, <4>1, Transmitted
    <3> QED
      BY <1>1, <3>1, <3>2
  <2>1. \A q \in Req : Outstands(q)' => Outstands(q)
    BY <2>0, <1>1 DEF Outstands
  <2> QED
    BY <2>1, <1>1, <1>2 DEF OutstandingPending
<1>11. ClosedWhenOver'
  BY <1>1 DEF ClosedWhenOver
<1> QED
  BY <1>3, <1>4, <1>5, <1>6, <1>9, <1>10, <1>11

\* The message a listener reads is the only one of its request.
LEMMA OnlyMessage ==
  ASSUME RemInv, NEW s \in Side, input[s] # <<>>, NEW m \in Messages, m = Head(input[s]),
         input' = [input EXCEPT ![s] = Tail(input[s])]
  PROVE  /\ Travels(s, m) /\ m.of \in Req /\ m.op \in {"call", "result"} /\ Outstands(m.of)
         /\ input' \in [Side -> Seq(Messages)]
         /\ \A t \in Side : \A i \in DOMAIN input'[t] : input'[t][i].of \in Req \ {m.of}
         /\ \A t \in Side : \A i \in DOMAIN input'[t] :
              \E j \in DOMAIN input[t] : input'[t][i] = input[t][j]
         /\ \A t \in Side : \A i, j \in DOMAIN input'[t] :
              input'[t][i].of = input'[t][j].of => i = j
<1> USE DEF RemInv
<1>0. input \in [Side -> Seq(Messages)] /\ input[s] \in Seq(Messages)
  BY DEF RemTypeOK, Messages
<1>1. m = input[s][1] /\ 1 \in DOMAIN input[s]
  BY <1>0, Received
<1>2. Travels(s, m) /\ m.of \in Req /\ m.op \in {"call", "result"} /\ Outstands(m.of)
  BY <1>1 DEF MessagesTravel, Messages, Outstands
<1>3. input' \in [Side -> Seq(Messages)] /\ input'[s] = Tail(input[s])
      /\ \A t \in Side \ {s} : input'[t] = input[t]
  BY <1>0, Received
<1>4. \A i \in DOMAIN input'[s] :
        i + 1 \in DOMAIN input[s] /\ input'[s][i] = input[s][i + 1] /\ i + 1 # 1 /\ i \in Nat
  BY <1>0, <1>3, Received
<1>5. \A i \in DOMAIN input'[s] : input'[s][i].of # m.of
  BY <1>1, <1>4 DEF MessagesTravel
<1>6. \A t \in Side \ {s} : \A i \in DOMAIN input'[t] : input'[t][i].of # m.of
  <2>1. \A t \in Side \ {s} : s = Other(Maker[m.of]) => t = Maker[m.of]
    BY <1>2, RemoteAssumption DEF Side, Other
  <2>2. \A t \in Side \ {s} : t = Other(Maker[m.of]) => s = Maker[m.of]
    BY <1>2, RemoteAssumption DEF Side, Other
  <2>3. \A t \in Side \ {s} : \A i \in DOMAIN input[t] :
          Travels(t, input[t][i]) /\ input[t][i].op \in {"call", "result"}
    BY InTransit DEF MessagesTravel
  <2>4. \A t \in Side \ {s} : \A i \in DOMAIN input[t] : input[t][i].of # m.of
    BY <1>2, <2>1, <2>2, <2>3, RemoteAssumption, Sides DEF Travels
  <2> QED
    BY <1>3, <2>4
<1>7. \A t \in Side : \A i \in DOMAIN input'[t] :
        \E j \in DOMAIN input[t] : input'[t][i] = input[t][j]
  BY <1>3, <1>4
<1>8. \A t \in Side : \A i, j \in DOMAIN input'[t] :
        input'[t][i].of = input'[t][j].of => i = j
  <2>1. \A i, j \in DOMAIN input'[s] : input'[s][i].of = input'[s][j].of => i = j
    <3> SUFFICES ASSUME NEW i \in DOMAIN input'[s], NEW j \in DOMAIN input'[s],
                        input'[s][i].of = input'[s][j].of
                 PROVE  i = j
      OBVIOUS
    <3>1. i + 1 = j + 1
      BY <1>4 DEF MessagesTravel
    <3> QED
      BY <1>4, <3>1
  <2> QED
    BY <1>3, <2>1 DEF MessagesTravel
<1>9. \A t \in Side : \A i \in DOMAIN input'[t] : input'[t][i].of \in Req \ {m.of}
  <2>1. \A t \in Side : \A j \in DOMAIN input[t] : input[t][j].of \in Req
    BY InTransit
  <2> QED
    BY <2>1, <1>5, <1>6, <1>7
<1> QED
  BY <1>2, <1>3, <1>7, <1>8, <1>9

LEMMA HandleCallInv ==
  ASSUME RemInv, NEW s \in Side, Receive(s), HandleCall(s, Head(input[s]))
  PROVE  RemInv'
<1> USE DEF RemInv
<1>m. PICK m \in Messages : m = Head(input[s])
  BY Received DEF RemTypeOK, Messages, Receive
<1>0. /\ Travels(s, m) /\ m.of \in Req /\ m.op = "call" /\ Outstands(m.of)
      /\ input' \in [Side -> Seq(Messages)]
      /\ \A t \in Side : \A i \in DOMAIN input'[t] : input'[t][i].of \in Req \ {m.of}
      /\ \A t \in Side : \A i \in DOMAIN input'[t] :
           \E j \in DOMAIN input[t] : input'[t][i] = input[t][j]
      /\ \A t \in Side : \A i, j \in DOMAIN input'[t] :
           input'[t][i].of = input'[t][j].of => i = j
  <2>1. input[s] # <<>> /\ input' = [input EXCEPT ![s] = Tail(input[s])] /\ m.op = "call"
    BY <1>m DEF Receive, HandleCall
  <2> HIDE DEF RemInv
  <2>2. Travels(s, m) /\ m.of \in Req /\ Outstands(m.of) /\ input' \in [Side -> Seq(Messages)]
    BY <1>m, <2>1, OnlyMessage
  <2>3. \A t \in Side : \A i, j \in DOMAIN input'[t] :
          input'[t][i].of = input'[t][j].of => i = j
    BY <1>m, <2>1, OnlyMessage
  <2>4. \A t \in Side : \A i \in DOMAIN input'[t] : input'[t][i].of \in Req \ {m.of}
    BY <1>m, <2>1, OnlyMessage
  <2>5. \A t \in Side : \A i \in DOMAIN input'[t] :
          \E j \in DOMAIN input[t] : input'[t][i] = input[t][j]
    BY <1>m, <2>1, OnlyMessage
  <2> QED
    BY <2>1, <2>2, <2>3, <2>4, <2>5
<1>1. /\ work[m.of].phase = "none" /\ pc[m.of] = "sent"
      /\ work'[m.of].phase = "running" /\ work'[m.of].seqNo = work[m.of].seqNo
      /\ \A q \in Req \ {m.of} : work'[q] = work[q]
      /\ UNCHANGED <<down, pending, failing, nextSeqNo, listener, pc, answers, task, closing, dead>>
  BY <1>m, <1>0 DEF Receive, HandleCall, Travels, RemTypeOK
<1>2. \A q \in Req : (Numbered(q)' <=> Numbered(q)) /\ work'[q].seqNo = work[q].seqNo
  BY <1>1 DEF Numbered
<1>3. RemTypeOK'
  <2>1. work' \in [Req -> [phase : {"none", "running", "over"}, seqNo : Nat]]
    <3>1. work \in [Req -> [phase : {"none", "running", "over"}, seqNo : Nat]]
      BY DEF RemTypeOK
    <3>0. m.of \in Req
      BY <1>0
    <3>2. [work[m.of] EXCEPT !.phase = "running"] \in [phase : {"none", "running", "over"}, seqNo : Nat]
      BY <3>0, <3>1
    <3> QED
      BY <1>m, <3>1, <3>2 DEF HandleCall
  <2> QED
    BY <1>0, <1>1, <2>1 DEF RemTypeOK, Messages
<1>4. NumbersApart' /\ SetupFirst' /\ WorkSent' /\ AnsweredAtMostOnce'
  <2>1. NumbersApart'
    BY <1>1, <1>2, RemoteAssumption DEF NumbersApart
  <2>2. SetupFirst' /\ AnsweredAtMostOnce'
    BY <1>1 DEF SetupFirst, AnsweredAtMostOnce
  <2>3. WorkSent'
    BY <1>1 DEF WorkSent
  <2> QED
    BY <2>1, <2>2, <2>3
<1>5. PendingUnanswered'
  BY <1>1, <1>2, Entries DEF PendingUnanswered
<1>6. FailingUnanswered'
  BY <1>1, <1>2, FailingRequests DEF FailingUnanswered
<1>7. MessagesTravel'
  <2>1. \A t \in Side : \A j \in DOMAIN input[t] : input[t][j].of \in Req
    BY InTransit
  <2>2. ASSUME NEW t \in Side, NEW i \in DOMAIN input'[t]
        PROVE  Travels(t, input[t][i])'
    <3>1. PICK j \in DOMAIN input[t] : input'[t][i] = input[t][j]
      BY <1>0, <2>2
    <3>2. Travels(t, input[t][j]) /\ input[t][j].of \in Req \ {m.of}
      BY <1>0, <2>1, <2>2, <3>1 DEF MessagesTravel
    <3> QED
      BY <1>1, <3>1, <3>2 DEF Travels
  <2> QED
    BY <1>0, <2>2 DEF MessagesTravel
<1>8. OutstandingPending'
  <2>1. \A q \in Req : Outstands(q)' => Outstands(q)
    BY <1>0, <1>1 DEF Outstands
  <2> QED
    BY <2>1, <1>1, <1>2 DEF OutstandingPending
<1>9. ClosedWhenOver'
  BY <1>1 DEF ClosedWhenOver
<1> QED
  BY <1>3, <1>4, <1>5, <1>6, <1>7, <1>8, <1>9

\* A result is for the one request that is pending under its number, which has no
\* answer yet.
LEMMA ResultFinds ==
  ASSUME RemInv, NEW s \in Side, listener[s] = "reading", NEW m \in Messages,
         Travels(s, m), m.op = "result", Outstands(m.of)
  PROVE  /\ Maker[m.of] = s /\ Under(s, m.seqNo) = {m.of} /\ answers[m.of] = <<>>
         /\ m.of \in Req /\ m.seqNo = work[m.of].seqNo /\ <<m.seqNo, m.of>> \in pending[s]
<1> USE DEF RemInv
<1>1. m.of \in Req /\ Maker[m.of] = s /\ m.seqNo = work[m.of].seqNo
  BY DEF Travels, Messages
<1>2. <<m.seqNo, m.of>> \in pending[s]
  BY <1>1 DEF OutstandingPending
<1>3. answers[m.of] = <<>>
  BY <1>1, <1>2 DEF PendingUnanswered
<1>4. \A q \in Req : <<m.seqNo, q>> \in pending[s] => q = m.of
  BY <1>2 DEF RemTypeOK
<1> QED
  BY <1>1, <1>2, <1>3, <1>4 DEF Under

LEMMA HandleResultInv ==
  ASSUME RemInv, NEW s \in Side, Receive(s), HandleResult(s, Head(input[s]))
  PROVE  RemInv'
<1>m. PICK m \in Messages : m = Head(input[s])
  BY Received DEF RemInv, RemTypeOK, Messages, Receive
<1>r. /\ listener[s] = "reading" /\ input[s] # <<>> /\ m.op = "result"
      /\ input' = [input EXCEPT ![s] = Tail(input[s])]
  BY <1>m DEF Receive, HandleResult
<1>0. /\ Travels(s, m) /\ m.of \in Req /\ Outstands(m.of)
      /\ input' \in [Side -> Seq(Messages)]
      /\ \A t \in Side : \A i \in DOMAIN input'[t] : input'[t][i].of \in Req \ {m.of}
      /\ \A t \in Side : \A i \in DOMAIN input'[t] :
           \E j \in DOMAIN input[t] : input'[t][i] = input[t][j]
      /\ \A t \in Side : \A i, j \in DOMAIN input'[t] :
           input'[t][i].of = input'[t][j].of => i = j
  BY <1>m, <1>r, OnlyMessage
<1>1. /\ Maker[m.of] = s /\ Under(s, m.seqNo) = {m.of} /\ answers[m.of] = <<>>
      /\ m.seqNo = work[m.of].seqNo /\ <<m.seqNo, m.of>> \in pending[s]
  <2>1. listener[s] = "reading" /\ Travels(s, m) /\ m.op = "result" /\ Outstands(m.of)
    BY <1>r, <1>0
  <2>2. Maker[m.of] = s /\ answers[m.of] = <<>> /\ m.seqNo = work[m.of].seqNo
    BY <2>1, ResultFinds
  <2>3. Under(s, m.seqNo) = {m.of} /\ <<m.seqNo, m.of>> \in pending[s]
    BY <2>1, ResultFinds
  <2> QED
    BY <2>2, <2>3
<1> USE DEF RemInv
<1>2. /\ work[m.of].phase = "over" /\ pc[m.of] = "sent"
      /\ pending' = [pending EXCEPT ![s] = {p \in pending[s] : p[1] # m.seqNo}]
      /\ Answer({m.of}, m.of)
      /\ UNCHANGED <<work, listener, down, nextSeqNo, failing, pc, closing, dead>>
  BY <1>m, <1>r, <1>0, <1>1 DEF Receive, HandleResult, Travels, Released
<1>3. /\ answers' \in [Req -> Seq(Req \cup {Error})]
      /\ task' \in [Req -> {"none", "running", "over"}]
      /\ answers'[m.of] = <<m.of>>
      /\ \A q \in Req \ {m.of} : answers'[q] = answers[q]
  <2>1. {m.of} \in SUBSET Req /\ m.of \in Req \cup {Error} /\ RemTypeOK
    BY <1>0
  <2>2. \A q \in {m.of} : answers[q] = <<>>
    BY <1>1
  <2>3. Answer({m.of}, m.of)
    BY <1>2
  <2> HIDE DEF RemInv
  <2> QED
    BY <2>1, <2>2, <2>3, Answered
<1>4. /\ \A t \in Side \ {s} : pending'[t] = pending[t]
      /\ pending'[s] = {p \in pending[s] : p[1] # m.seqNo}
      /\ \A t \in Side : pending'[t] \subseteq pending[t]
  BY <1>2 DEF RemTypeOK
<1>5. RemTypeOK'
  <2>1. pending \in [Side -> SUBSET (Nat \X Req)]
        /\ \A t \in Side : \A p, q \in pending[t] : p[1] = q[1] => p = q
    BY DEF RemTypeOK
  <2>2. pending' \in [Side -> SUBSET (Nat \X Req)]
        /\ \A t \in Side : \A p, q \in pending'[t] : p[1] = q[1] => p = q
    BY <1>2, <1>4, <2>1
  <2> QED
    BY <1>0, <1>2, <1>3, <2>2 DEF RemTypeOK, Messages
<1>6. NumbersApart' /\ SetupFirst' /\ WorkSent' /\ AnsweredAtMostOnce'
  <2>1. NumbersApart'
    BY <1>2 DEF NumbersApart, Numbered
  <2>2. SetupFirst'
    BY <1>2, <1>3, RemoteAssumption DEF SetupFirst
  <2>3. WorkSent'
    BY <1>2, <1>3 DEF WorkSent
  <2>4. AnsweredAtMostOnce'
    BY <1>3 DEF AnsweredAtMostOnce
  <2> QED
    BY <2>1, <2>2, <2>3, <2>4
<1>7. PendingUnanswered'
  <2>1. \A t \in Side : \A p \in pending'[t] : p \in pending[t] /\ p[2] \in Req \ {m.of}
    BY <1>1, <1>4, Entries DEF PendingUnanswered
  <2> QED
    BY <2>1, <1>2, <1>3 DEF PendingUnanswered, Numbered
<1>8. FailingUnanswered'
  <2>1. \A t \in Side : \A q \in failing[t] : q \in Req \ {m.of}
    BY <1>1, FailingRequests DEF FailingUnanswered
  <2> QED
    BY <2>1, <1>2, <1>3, <1>4 DEF FailingUnanswered, Numbered
<1>9. MessagesTravel'
  <2>1. ASSUME NEW t \in Side, NEW i \in DOMAIN input'[t]
        PROVE  Travels(t, input[t][i])'
    <3>1. PICK j \in DOMAIN input[t] : input'[t][i] = input[t][j]
      BY <1>0, <2>1
    <3>2. Travels(t, input[t][j]) /\ input[t][j].of \in Req \ {m.of}
      BY <1>0, <2>1, <3>1 DEF MessagesTravel
    <3> QED
      BY <1>2, <1>3, <3>1, <3>2 DEF Travels
  <2> QED
    BY <1>0, <2>1 DEF MessagesTravel
<1>10. OutstandingPending'
  <2>1. ~ Outstands(m.of)'
    BY <1>0, <1>2 DEF Outstands
  <2>2. \A q \in Req : Outstands(q)' => Outstands(q)
    BY <1>0, <1>2 DEF Outstands
  <2>3. \A q \in Req \ {m.of} : <<work[q].seqNo, q>> \in pending[s] => work[q].seqNo # m.seqNo
    BY <1>0, <1>1 DEF RemTypeOK
  <2> QED
    BY <2>1, <2>2, <2>3, <1>2, <1>4, RemoteAssumption DEF OutstandingPending
<1>11. ClosedWhenOver'
  BY <1>2 DEF ClosedWhenOver
<1> QED
  BY <1>5, <1>6, <1>7, <1>8, <1>9, <1>10, <1>11

\* Every step keeps the invariant.
LEMMA NextInv == RemInv /\ [RemNext]_remoteVars => RemInv'
<1> SUFFICES ASSUME RemInv, [RemNext]_remoteVars PROVE RemInv'
  OBVIOUS
<1>1. ASSUME NEW r \in Req,
             Make(r) \/ Refuse(r) \/ Send(r) \/ TakeBack(r) \/ FinishWork(r) \/ FinishTask(r)
      PROVE  RemInv'
  BY <1>1, MakeInv, RefuseInv, SendInv, TakeBackInv, FinishWorkInv, ClosingInv
<1>2. ASSUME NEW s \in Side, Listen(s) \/ ReadFails(s) PROVE RemInv'
  <2>1. CASE Receive(s)
    BY <2>1, HandleCallInv, HandleResultInv DEF Receive
  <2>2. CASE TakePending(s)
    BY <2>2, TakePendingInv
  <2>3. CASE \E r \in Req : FailOne(s, r)
    BY <2>3, FailOneInv
  <2>4. CASE EndOfInput(s) \/ Disconnected(s) \/ ReadFails(s)
    BY <2>4, ClosingInv
  <2> QED
    BY <1>2, <2>1, <2>2, <2>3, <2>4 DEF Listen
<1>3. CASE Disconnect \/ ShutDownDispatcher \/ DisconnectReturns \/ Die \/ UNCHANGED remoteVars
  BY <1>3, ClosingInv
<1> QED
  BY <1>1, <1>2, <1>3 DEF RemNext

\* In every reachable state.
LEMMA Invariant == RemSpec => []RemInv
<1> QED
  BY InitInv, NextInv, PTL DEF RemSpec

-----------------------------------------------------------------------------
(***************************************************************************)
(* The theorems                                                            *)
(***************************************************************************)

\* The tables, the messages and the numbers stay what they are meant to be; a number
\* is pending for one request ("SeqNo already in use").
THEOREM RemTypeCorrect == RemSpec => []RemTypeOK
<1>1. RemInv => RemTypeOK
  BY DEF RemInv
<1> QED
  BY <1>1, Invariant, PTL

\* callWrapperAsync, handleResult and handleDisconnect between them call the handler
\* of a request at most once, with the result of that request or an error, for any
\* requests that the two sides make of each other, and however their threads run.
THEOREM RemAnsweredOnce == RemSpec => []AnsweredOnce
<1>1. RemInv => AnsweredOnce
  <2>1. \A v : Len(<<>>) <= 1 /\ ToSet(<<>>) = {} /\ Len(<<v>>) <= 1 /\ ToSet(<<v>>) = {v}
    BY DEF ToSet
  <2> QED
    BY <2>1 DEF RemInv, AnsweredAtMostOnce, AnsweredOnce
<1> QED
  BY <1>1, Invariant, PTL

\* handleResult finds the request of every result that comes while the listener reads,
\* so that "No call for sequence number" does not end a session.
THEOREM RemResultsExpected == RemSpec => []ResultsExpected
<1>1. RemInv => ResultsExpected
  BY InTransit DEF RemInv, MessagesTravel, Travels, Outstands, OutstandingPending, ResultsExpected
<1> QED
  BY <1>1, Invariant, PTL

-----------------------------------------------------------------------------
(***************************************************************************)
(* The connection implements calls                                         *)
(***************************************************************************)

isLost == \E s \in Side : down[s]

\* What became of a request, when it is answered at most once.
View(r) ==
  IF answers[r] = <<Error>> THEN "error"
  ELSE IF answers[r] = <<r>> THEN "value"
  ELSE IF work[r].phase = "over" THEN "run"
  ELSE IF pc[r] # "idle" THEN "made" ELSE "idle"

LEMMA Viewed ==
  ASSUME RemInv, NEW r \in Req
  PROVE  StatusOf(r) = View(r)
<1>1. ToSet(<<>>) = {} /\ ToSet(<<r>>) = {r} /\ ToSet(<<Error>>) = {Error}
  BY DEF ToSet
<1>2. r # Error /\ <<r>> # <<>> /\ <<Error>> # <<>> /\ <<r>> # <<Error>>
  BY RemoteAssumption
<1>3. answers[r] \in {<<>>, <<r>>, <<Error>>}
  BY DEF RemInv, AnsweredAtMostOnce
<1> QED
  BY <1>1, <1>2, <1>3 DEF StatusOf, View

LEMMA ViewedNext ==
  ASSUME RemInv', NEW r \in Req
  PROVE  StatusOf(r)' = View(r)'
<1>1. ToSet(<<>>) = {} /\ ToSet(<<r>>) = {r} /\ ToSet(<<Error>>) = {Error}
  BY DEF ToSet
<1>2. r # Error /\ <<r>> # <<>> /\ <<Error>> # <<>> /\ <<r>> # <<Error>>
  BY RemoteAssumption
<1>3. answers'[r] \in {<<>>, <<r>>, <<Error>>}
  BY DEF RemInv, AnsweredAtMostOnce
<1> QED
  BY <1>1, <1>2, <1>3 DEF StatusOf, View

\* A step of one request.
LEMMA OneStep ==
  ASSUME RemInv, RemInv', NEW r \in Req, \A q \in Req \ {r} : View(q)' = View(q),
         NEW from, NEW to, View(r) \in from, View(r)' = to
  PROVE  Calls!Step(r, from, to)
<1>1. \A q \in Req : StatusOf(q) = View(q) /\ StatusOf(q)' = View(q)'
  BY Viewed, ViewedNext
<1> QED
  BY <1>1 DEF Calls!Step

\* A step of no request, which may lose the connection.
LEMMA NoStep ==
  ASSUME RemInv, RemInv', \A q \in Req : View(q)' = View(q), (isLost' = isLost) \/ isLost'
  PROVE  [Calls!Next]_(Calls!callVars)
<1>1. \A q \in Req : StatusOf(q)' = StatusOf(q)
  BY Viewed, ViewedNext
<1>2. UNCHANGED [r \in Req |-> StatusOf(r)]
  BY <1>1
<1>3. CASE isLost' = isLost
  BY <1>2, <1>3 DEF isLost, Calls!callVars
<1>4. CASE isLost'
  BY <1>2, <1>4 DEF isLost, Calls!Next, Calls!Lose
<1> QED
  BY <1>3, <1>4

\* Nobody asks for an answer before the request is made, and the answer of one that
\* could not be sent, or that handleDisconnect fails, is an error of a lost connection.
LEMMA RequestSteps ==
  ASSUME RemInv, RemInv', NEW r \in Req,
         Make(r) \/ Refuse(r) \/ Send(r) \/ TakeBack(r) \/ FinishWork(r) \/ FinishTask(r)
  PROVE  [Calls!Next]_(Calls!callVars)
<1>v. answers[r] \in {<<>>, <<r>>, <<Error>>} /\ <<r>> # <<>> /\ <<Error>> # <<>> /\ <<r>> # <<Error>>
  BY RemoteAssumption DEF RemInv, AnsweredAtMostOnce
<1>t. /\ pc \in [Req -> {"idle", "refused", "sending", "unsent", "sent"}]
      /\ work \in [Req -> [phase : {"none", "running", "over"}, seqNo : Nat]]
      /\ answers \in [Req -> Seq(Req \cup {Error})]
  BY DEF RemInv, RemTypeOK
<1>1. CASE Make(r)
  <2>1. answers[r] = <<>> /\ work[r].phase = "none" /\ pc[r] = "idle"
    BY <1>1, MakerSetUp DEF Make
  <2>2. /\ answers' = answers /\ down' = down
        /\ pc' = [pc EXCEPT ![r] = "sending"]
        /\ \A q \in Req : work'[q].phase = work[q].phase
    BY <1>1, <1>t DEF Make, wires
  <2>3. View(r) = "idle" /\ View(r)' = "made" /\ \A q \in Req \ {r} : View(q)' = View(q)
    BY <2>1, <2>2, <1>t, <1>v DEF View
  <2>4. Calls!Step(r, {"idle"}, "made")
    BY <2>3, OneStep
  <2> QED
    BY <2>2, <2>4 DEF Calls!Next, Calls!Make
<1>2. CASE Refuse(r)
  <2>1. answers[r] = <<>> /\ work[r].phase = "none" /\ pc[r] = "idle"
    BY <1>2, MakerSetUp DEF Refuse
  <2>2. /\ answers'[r] = <<Error>> /\ \A q \in Req \ {r} : answers'[q] = answers[q]
        /\ down' = down /\ work' = work /\ \A q \in Req \ {r} : pc'[q] = pc[q]
    <3>1. Append(<<>>, Error) = <<Error>>
      OBVIOUS
    <3> QED
      BY <3>1, <2>1, <1>2, <1>t DEF Refuse, Answer, wires
  <2>3. isLost
    BY <1>2, Sides DEF Refuse, Accepts, RemInv, ClosedWhenOver, isLost
  <2>4. View(r) = "idle" /\ View(r)' = "error" /\ \A q \in Req \ {r} : View(q)' = View(q)
    BY <2>1, <2>2, <1>v DEF View
  <2>5. Calls!Step(r, {"idle", "made", "run"}, "error")
    BY <2>4, OneStep
  <2> QED
    BY <2>2, <2>3, <2>5 DEF Calls!Next, Calls!Fail, isLost
<1>3. CASE Send(r)
  <2>1. /\ answers' = answers /\ work' = work /\ down' = down
        /\ pc[r] # "idle" /\ pc'[r] # "idle" /\ \A q \in Req \ {r} : pc'[q] = pc[q]
    BY <1>3, <1>t DEF Send
  <2>2. \A q \in Req : View(q)' = View(q)
    BY <2>1 DEF View
  <2> QED
    BY <2>1, <2>2, NoStep DEF isLost
<1>4. CASE TakeBack(r)
  <2>0. pc[r] = "unsent" /\ work[r].phase = "none" /\ StillPending(r) \subseteq {r}
    BY <1>4 DEF TakeBack, RemInv, WorkSent, StillPending
  <2>1. /\ work' = work /\ down' = down /\ pc' = [pc EXCEPT ![r] = "sent"]
        /\ \A q \in Req \ {r} : answers'[q] = answers[q]
    BY <2>0, <1>4, <1>t DEF TakeBack, Answer, wires
  <2>2. \A q \in Req \ {r} : View(q)' = View(q)
    BY <2>1, <1>t DEF View
  <2>3. CASE r \notin StillPending(r)
    <3>1. answers'[r] = answers[r]
      BY <2>3, <1>4, <1>t DEF TakeBack, Answer
    <3>2. View(r)' = View(r)
      BY <3>1, <2>0, <2>1, <1>t DEF View
    <3> QED
      BY <2>1, <2>2, <3>2, NoStep DEF isLost
  <2>4. CASE r \in StillPending(r)
    <3>1. answers[r] = <<>>
      BY <2>4 DEF StillPending, Under, RemInv, PendingUnanswered, Side
    <3>2. answers'[r] = <<Error>>
      <4>1. Append(<<>>, Error) = <<Error>>
        OBVIOUS
      <4> QED
        BY <4>1, <3>1, <2>4, <1>4 DEF TakeBack, Answer
    <3>3. View(r) = "made" /\ View(r)' = "error"
      BY <3>1, <3>2, <2>0, <1>v DEF View
    <3>4. Calls!Step(r, {"idle", "made", "run"}, "error")
      BY <2>2, <3>3, OneStep
    <3>5. isLost
      BY <2>0 DEF RemInv, ClosedWhenOver, isLost
    <3> QED
      BY <2>1, <3>4, <3>5 DEF Calls!Next, Calls!Fail, isLost
  <2> QED
    BY <2>3, <2>4
<1>5. CASE FinishWork(r)
  <2>1. pc[r] = "sent" /\ work[r].phase = "running" /\ answers[r] # <<r>>
    BY <1>5 DEF FinishWork, RemInv, WorkSent
  <2>2. /\ answers' = answers /\ pc' = pc /\ down' = down
        /\ work'[r].phase = "over" /\ \A q \in Req \ {r} : work'[q] = work[q]
    BY <1>5, <1>t DEF FinishWork
  <2>3. \A q \in Req \ {r} : View(q)' = View(q)
    BY <2>2 DEF View
  <2>4. CASE answers[r] = <<>>
    <3>1. View(r) = "made" /\ View(r)' = "run"
      BY <2>1, <2>2, <2>4, <1>v DEF View
    <3>2. Calls!Step(r, {"made"}, "run")
      BY <2>3, <3>1, OneStep
    <3> QED
      BY <2>2, <3>2 DEF Calls!Next, Calls!Run
  <2>5. CASE answers[r] = <<Error>>
    <3>1. View(r)' = View(r)
      BY <2>2, <2>5 DEF View
    <3> QED
      BY <2>2, <2>3, <3>1, NoStep DEF isLost
  <2> QED
    BY <2>1, <2>4, <2>5, <1>v
<1>6. CASE FinishTask(r)
  <2>1. answers' = answers /\ pc' = pc /\ down' = down /\ work' = work
    BY <1>6 DEF FinishTask, wires
  <2> QED
    BY <2>1, NoStep DEF View, isLost
<1> QED
  BY <1>1, <1>2, <1>3, <1>4, <1>5, <1>6

LEMMA FailOneStep ==
  ASSUME RemInv, RemInv', NEW t \in Side, NEW r \in Req, FailOne(t, r)
  PROVE  [Calls!Next]_(Calls!callVars)
<1>1. answers[r] = <<>> /\ Numbered(r) /\ isLost
  BY DEF FailOne, RemInv, FailingUnanswered, ClosedWhenOver, isLost
<1>2. answers'[r] = Append(<<>>, Error) /\ (\A q \in Req \ {r} : answers'[q] = answers[q])
      /\ down' = down /\ work' = work /\ pc' = pc
  BY <1>1 DEF FailOne, Answer, wires
<1>3. answers'[r] = <<Error>> /\ <<>> # <<Error>> /\ <<>> # <<r>>
  BY <1>2
<1>4. /\ View(r) \in {"made", "run"} /\ View(r)' = "error"
      /\ \A q \in Req \ {r} : View(q)' = View(q)
  BY <1>1, <1>2, <1>3 DEF View, Numbered
<1>5. PICK from : from = {"idle", "made", "run"}
  OBVIOUS
<1>6. View(r) \in from
  BY <1>4, <1>5
<1>7. Calls!Step(r, {"idle", "made", "run"}, "error")
  BY <1>4, <1>5, <1>6, OneStep
<1> QED
  BY <1>1, <1>2, <1>7 DEF Calls!Next, Calls!Fail, isLost

\* The same for what the listeners do; a result is handled when its request has run.
LEMMA ListenerSteps ==
  ASSUME RemInv, RemInv', NEW s \in Side, Listen(s) \/ ReadFails(s)
  PROVE  [Calls!Next]_(Calls!callVars)
<1>t. /\ work \in [Req -> [phase : {"none", "running", "over"}, seqNo : Nat]]
      /\ answers \in [Req -> Seq(Req \cup {Error})]
      /\ down \in [Side -> BOOLEAN]
  BY DEF RemInv, RemTypeOK
<1>1. CASE Receive(s)
  <2>m. PICK m \in Messages : m = Head(input[s])
    BY <1>1, Received DEF RemInv, RemTypeOK, Messages, Receive
  <2>r. /\ listener[s] = "reading" /\ input[s] # <<>> /\ pc' = pc
        /\ input' = [input EXCEPT ![s] = Tail(input[s])]
    BY <1>1 DEF Receive
  <2>0. Travels(s, m) /\ m.of \in Req /\ Outstands(m.of)
    BY <2>m, <2>r, OnlyMessage
  <2>1. CASE HandleCall(s, m)
    <3>1. work[m.of].phase = "none" /\ answers' = answers /\ down' = down
      BY <2>0, <2>1 DEF HandleCall, Travels
    <3>2. /\ work'[m.of].phase = "running"
          /\ \A q \in Req \ {m.of} : work'[q] = work[q]
      BY <2>0, <2>1, <1>t DEF HandleCall
    <3>3. \A q \in Req : View(q)' = View(q)
      BY <2>r, <3>1, <3>2 DEF View
    <3> QED
      BY <3>1, <3>3, NoStep DEF isLost
  <2>2. CASE HandleResult(s, m)
    <3>1. m.op = "result"
      BY <2>2 DEF HandleResult
    <3>2. Under(s, m.seqNo) = {m.of} /\ answers[m.of] = <<>>
      BY <2>r, <2>0, <3>1, ResultFinds
    <3>3. /\ work[m.of].phase = "over" /\ down' = down /\ work' = work
          /\ answers'[m.of] = Append(<<>>, m.of)
          /\ \A q \in Req \ {m.of} : answers'[q] = answers[q]
      BY <2>2, <2>0, <3>1, <3>2 DEF HandleResult, Travels, Answer
    <3>4. answers'[m.of] = <<m.of>>
      BY <3>3
    <3>5. <<m.of>> # <<>> /\ <<m.of>> # <<Error>> /\ <<>> # <<Error>>
      BY <2>0, RemoteAssumption
    <3>6. View(m.of) = "run" /\ View(m.of)' = "value"
          /\ \A q \in Req \ {m.of} : View(q)' = View(q)
      BY <2>r, <3>2, <3>3, <3>4, <3>5 DEF View
    <3>7. Calls!Step(m.of, {"run"}, "value")
      BY <2>0, <3>6, OneStep
    <3> QED
      BY <2>0, <3>3, <3>7 DEF Calls!Next, Calls!Value
  <2> QED
    BY <2>m, <2>1, <2>2, <1>1 DEF Receive
<1>2. CASE EndOfInput(s)
  <2>1. answers' = answers /\ pc' = pc /\ work' = work /\ isLost'
    BY <1>2, <1>t DEF EndOfInput, isLost
  <2> QED
    BY <2>1, NoStep DEF View
<1>3. CASE TakePending(s) \/ Disconnected(s) \/ ReadFails(s)
  <2>1. answers' = answers /\ pc' = pc /\ work' = work /\ down' = down
    BY <1>3 DEF TakePending, Disconnected, ReadFails, wires
  <2> QED
    BY <2>1, NoStep DEF View, isLost
<1>4. ASSUME NEW r \in Req, FailOne(s, r) PROVE [Calls!Next]_(Calls!callVars)
  BY <1>4, FailOneStep
<1> QED
  BY <1>1, <1>2, <1>3, <1>4 DEF Listen

LEMMA StepsImplementCalls ==
  RemInv /\ RemInv' /\ [RemNext]_remoteVars => [Calls!Next]_(Calls!callVars)
<1> SUFFICES ASSUME RemInv, RemInv', [RemNext]_remoteVars PROVE [Calls!Next]_(Calls!callVars)
  OBVIOUS
<1>1. CASE Disconnect \/ Die
  <2>1. answers' = answers /\ pc' = pc /\ work' = work
    BY <1>1 DEF Disconnect, Die
  <2>2. isLost'
    BY <1>1, Sides DEF Disconnect, Die, isLost, RemInv, RemTypeOK
  <2> QED
    BY <2>1, <2>2, NoStep DEF View
<1>2. CASE ShutDownDispatcher \/ DisconnectReturns \/ UNCHANGED remoteVars
  <2>1. answers' = answers /\ pc' = pc /\ work' = work /\ down' = down
    BY <1>2 DEF ShutDownDispatcher, DisconnectReturns, remoteVars, wires
  <2> QED
    BY <2>1, NoStep DEF View, isLost
<1> QED
  BY <1>1, <1>2, RequestSteps, ListenerSteps DEF RemNext

LEMMA InitImplementsCalls == RemInit => Calls!Init
<1> SUFFICES ASSUME RemInit PROVE Calls!Init
  OBVIOUS
<1>1. \A r \in Req : StatusOf(r) \in {"idle", "made"}
  <2>1. \A r \in Req : View(r) \in {"idle", "made"}
    BY DEF RemInit, View
  <2> QED
    BY <2>1, InitInv, Viewed
<1>2. ~ isLost
  BY DEF RemInit, isLost
<1> QED
  BY <1>1, <1>2 DEF Calls!Init, isLost

\* The two endpoints, their tables, threads and messages implement calls: a request is
\* answered by the result of what it ran, or by an error once a side has closed.
THEOREM ConnectionImplementsCalls == RemSpec => RequestsAreCalls
<1> QED
  BY InitImplementsCalls, StepsImplementCalls, Invariant, PTL
  DEF RemSpec, RequestsAreCalls, Calls!Spec
=============================================================================
