----------------------------- MODULE AuditedIssue -----------------------------
(***************************************************************************)
(* What the broker promises of every issue endpoint, whichever gates and   *)
(* services the request passes on the way: a credential or a tunnel comes  *)
(* into being only within the caller's budget and behind an authorized     *)
(* row, and an answer leaves one outcome row that tells it, unless the     *)
(* audit trail itself failed (lost).  BrokerPipeline implements it.        *)
(***************************************************************************)
EXTENDS Naturals, Sequences, FiniteSets

CONSTANTS
  Requests,  \* requests the broker serves
  Budgets,   \* what admissions are counted against
  Limit      \* admissions per budget

VARIABLES
  charged,   \* request -> the budget it was admitted against, or <<>>
  trail,     \* request -> its audit rows, in order
  effect,    \* request -> does its credential or tunnel exist
  answer,    \* request -> the response
  lost       \* request -> did an audit row, or the ID it needs, fail

vars == <<charged, trail, effect, answer, lost>>

Init ==
  /\ charged = [r \in Requests |-> <<>>]
  /\ trail = [r \in Requests |-> <<>>]
  /\ effect = [r \in Requests |-> FALSE]
  /\ answer = [r \in Requests |-> "none"]
  /\ lost = [r \in Requests |-> FALSE]

(* The request is admitted against budget b.                               *)
Admit(r, b) ==
  /\ answer[r] = "none" /\ charged[r] = <<>> /\ trail[r] = <<>>
  /\ Cardinality({q \in Requests : charged[q] = b}) < Limit
  /\ charged' = [charged EXCEPT ![r] = b]
  /\ UNCHANGED <<trail, effect, answer, lost>>

Authorize(r) ==
  /\ answer[r] = "none" /\ charged[r] # <<>> /\ trail[r] = <<>>
  /\ trail' = [trail EXCEPT ![r] = <<"authorized">>]
  /\ UNCHANGED <<charged, effect, answer, lost>>

(* The one irreversible step.                                              *)
Take(r) ==
  /\ answer[r] = "none" /\ trail[r] = <<"authorized">> /\ ~effect[r]
  /\ effect' = [effect EXCEPT ![r] = TRUE]
  /\ UNCHANGED <<charged, trail, answer, lost>>

(* The last row goes into the trail, or the trail fails and may have it.   *)
Close(r, row) ==
  \/ /\ trail' = [trail EXCEPT ![r] = Append(@, row)]
     /\ UNCHANGED lost
  \/ /\ UNCHANGED trail \/ trail' = [trail EXCEPT ![r] = Append(@, row)]
     /\ lost' = [lost EXCEPT ![r] = TRUE]

Grant(r) ==
  /\ answer[r] = "none" /\ trail[r] = <<"authorized">> /\ effect[r]
  /\ Close(r, "issued")
  /\ answer' = [answer EXCEPT ![r] = "granted"]
  /\ UNCHANGED <<charged, effect>>

(* A refusal, also one because the authorized row failed.                  *)
Refuse(r) ==
  /\ answer[r] = "none"
  /\ \/ Close(r, "denied")
     \/ /\ trail[r] = <<>> /\ charged[r] # <<>>
        /\ trail' = [trail EXCEPT ![r] = <<"authorized">>]
        /\ lost' = [lost EXCEPT ![r] = TRUE]
  /\ answer' = [answer EXCEPT ![r] = "refused"]
  /\ UNCHANGED <<charged, effect>>

Next ==
  \E r \in Requests :
    \/ \E b \in Budgets : Admit(r, b)
    \/ Authorize(r) \/ Take(r) \/ Grant(r) \/ Refuse(r)

Spec == Init /\ [][Next]_vars
=============================================================================
