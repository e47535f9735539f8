--------------------------- MODULE LoginFlowProofs ---------------------------
(***************************************************************************)
(* The code a login exchanges is its own, for any number of logins, any    *)
(* list of callback ports and any number of tabs and reloads.              *)
(***************************************************************************)
EXTENDS LoginFlow, TLAPS

\* How long a solver may take on one step.
USE SMTT(60)

(* The invariant follows a code from the handler to the exchange: what     *)
(* waits in a login's channel is nothing, an error or a code of that       *)
(* login, and only a running login's handlers push to it.                  *)
Stages == {"idle", "discover", "serve", "opening", "wait", "exchange", "verify", "shutdown",
           "returned"}

Responses == {Nil, Failure} \cup {Code(l) : l \in Logins}

FlowInv ==
  /\ pc \in [Logins -> Stages]
  /\ code \in [Logins -> Logins \cup {NoLogin}]
  /\ result \in [Logins -> Responses]
  /\ \A l \in Logins : result[l] \in {Nil, Failure, Code(l)}
  /\ \A h \in handlers : h.at \in Logins
  /\ CodeIsMine

(* What may wait in a channel.                                             *)
LEMMA ResponsesAre ==
    Nil \in Responses /\ Failure \in Responses /\ \A l \in Logins : Code(l) \in Responses
BY Zenon DEF Responses

(* Before any login no channel holds a code and no handler runs.           *)
LEMMA FlowInit == Init => FlowInv
BY ResponsesAre DEF Init, FlowInv, CodeIsMine, Stages

(* pushResult keeps the channels to their own codes: the first response    *)
(* stays, and a later one is dropped.                                      *)
LEMMA PushKeeps ==
    ASSUME NEW l \in Logins, NEW response \in {Nil, Failure, Code(l)}, Push(l, response),
           result \in [Logins -> Responses],
           \A k \in Logins : result[k] \in {Nil, Failure, Code(k)}
    PROVE  /\ result' \in [Logins -> Responses]
           /\ \A k \in Logins : result'[k] \in {Nil, Failure, Code(k)}
<1> HIDE DEF Nil, Failure, Code
<1>1. CASE result[l] = Nil
  <2>1. result' = [result EXCEPT ![l] = response]
    BY <1>1 DEF Push
  <2> QED
    BY <2>1, ResponsesAre
<1>2. CASE result[l] # Nil
  BY <1>2 DEF Push
<1> QED
  BY <1>1, <1>2

(* A command's step touches its own channel only to empty it, and goes on  *)
(* to the exchange only with what it took from there.                      *)
LEMMA CommandKeeps ==
    ASSUME FlowInv, NEW l \in Logins, Command(l) \/ Verify(l)
    PROVE  FlowInv'
<1> USE ResponsesAre DEF FlowInv, CodeIsMine, Goto, Leave, Stages
<1>1. CASE Receive(l)
  <2>1. CASE result[l].kind = "code"
    <3>1. result[l] = Code(l) /\ result[l].of = l
      BY <2>1 DEF Nil, Failure, Code
    <3> QED
      BY <1>1, <2>1, <3>1 DEF Receive
  <2>2. CASE result[l].kind # "code"
    BY <1>1, <2>2 DEF Receive
  <2> QED
    BY <2>1, <2>2
<1>2. CASE Return(l)
  BY <1>2 DEF Return
<1>3. CASE Bind(l)
  BY <1>3 DEF Bind
<1>4. CASE Discover(l) \/ DiscoverFails(l) \/ Open(l) \/ Opened(l) \/ OpenFails(l)
           \/ GiveUp(l) \/ Verify(l)
  <2>1. /\ \E label \in {"serve", "returned", "opening", "wait", "shutdown"} : Goto(l, label)
        /\ UNCHANGED <<result, code, handlers>>
    BY <1>4, Zenon DEF Discover, DiscoverFails, Open, Opened, OpenFails, GiveUp, Verify
  <2> QED
    BY <2>1
<1>5. CASE Exchange(l)
  BY <1>5 DEF Exchange
<1> QED
  BY <1>1, <1>2, <1>3, <1>4, <1>5 DEF Command

(* A handler pushes a code only when the state it was sent is the login's  *)
(* whose server it serves; the server's own error and a cancellation bring *)
(* no code at all.                                                         *)
LEMMA ServerKeeps ==
    ASSUME FlowInv,
           \/ \E h \in handlers : Handle(h)
           \/ \E l \in Logins : ServeFails(l) \/ Cancel(l) \/ \E t \in tabs : Visit(t, l)
    PROVE  FlowInv'
<1>1. ASSUME NEW h \in handlers, Handle(h)
      PROVE  FlowInv'
  <2>1. Answer(h) \in {Nil, Failure, Code(h.at)} /\ h.at \in Logins
    BY DEF Answer, FlowInv
  <2> QED
    BY <1>1, <2>1, PushKeeps DEF Handle, FlowInv, CodeIsMine
<1>2. ASSUME NEW l \in Logins, ServeFails(l)
      PROVE  FlowInv'
  BY <1>2, PushKeeps DEF ServeFails, FlowInv, CodeIsMine
<1>3. ASSUME NEW l \in Logins, Cancel(l)
      PROVE  FlowInv'
  BY <1>3 DEF Cancel, FlowInv, CodeIsMine
<1>4. ASSUME NEW l \in Logins, NEW t \in tabs, Visit(t, l)
      PROVE  FlowInv'
  BY <1>4 DEF Visit, FlowInv, CodeIsMine
<1> QED
  BY <1>1, <1>2, <1>3, <1>4

(* Every step of the login flow keeps each login's channel to its own code. *)
THEOREM FlowInvariance == Spec => []FlowInv
<1>1. FlowInv /\ [Next]_vars => FlowInv'
  <2> SUFFICES ASSUME FlowInv, [Next]_vars
               PROVE  FlowInv'
    OBVIOUS
  <2>1. CASE Next
    BY <2>1, CommandKeeps, ServerKeeps DEF Next
  <2>2. CASE UNCHANGED vars
    BY <2>2 DEF vars, FlowInv, CodeIsMine
  <2> QED
    BY <2>1, <2>2
<1> QED
  BY FlowInit, <1>1, PTL DEF Spec

(* The state parameter keeps logins apart: whatever tabs of earlier logins *)
(* on a reused port, reloads and concurrent logins bring, the code a login *)
(* exchanges, and whose tokens it verifies and saves, is the one its own   *)
(* tab brought back.                                                       *)
THEOREM CodeIsMineHolds == Spec => []CodeIsMine
<1>1. FlowInv => CodeIsMine
  BY DEF FlowInv
<1> QED
  BY <1>1, FlowInvariance, PTL
=============================================================================
