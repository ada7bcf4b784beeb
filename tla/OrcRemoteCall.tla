--------------------------- MODULE OrcRemoteCall ---------------------------
(***************************************************************************)
(* What a connection between the JIT and an executor process promises to   *)
(* whoever makes a request over it: one answer, which is the result of     *)
(* what the request ran on the other side, or, once the connection is      *)
(* lost, an error.                                                         *)
(***************************************************************************)
CONSTANT Req

VARIABLES
  status,  \* what became of each request
  lost     \* the connection is lost

callVars == <<status, lost>>

Init == status \in [Req -> {"idle", "made"}] /\ lost = FALSE

Step(r, from, to) == status[r] \in from /\ status' = [status EXCEPT ![r] = to]

Make(r)  == Step(r, {"idle"}, "made") /\ UNCHANGED lost
Run(r)   == Step(r, {"made"}, "run") /\ UNCHANGED lost
Value(r) == Step(r, {"run"}, "value") /\ UNCHANGED lost
Fail(r)  == lost /\ Step(r, {"idle", "made", "run"}, "error") /\ UNCHANGED lost
Lose     == lost' = TRUE /\ UNCHANGED status

Next == Lose \/ \E r \in Req : Make(r) \/ Run(r) \/ Value(r) \/ Fail(r)

Spec == Init /\ [][Next]_callVars
=============================================================================
