--------------------------- MODULE BrokerInvariant ---------------------------
(***************************************************************************)
(* The inductive invariant of BrokerPipeline.                              *)
(***************************************************************************)
EXTENDS BrokerPipeline

(* Where a request is uncharged, and where it is charged but has no row.   *)
Early == {"idle", "handler", "verify", "limit"}
Middle == {"shape", "device", "policy", "tail", "authorize"}
Late == {"effect", "issued"}

(* What a request has been charged, has in the trail and has caused, as    *)
(* far as its program point tells.                                         *)
Staged(r) ==
  /\ pc[r] = "done" <=> answer[r] # "none"
  /\ pc[r] # "idle" => req[r] \in Inputs
  /\ pc[r] \in Early \cup Middle \cup Late => gate[r] = "none"
  /\ pc[r] \in Early => charged[r] = <<>>
  /\ pc[r] \in Middle \cup Late => charged[r] # <<>>
  /\ pc[r] \in Early \cup Middle => trail[r] = <<>> /\ ~effect[r]
  /\ pc[r] \in Late => trail[r] = <<"authorized">>
  /\ pc[r] = "effect" => ~effect[r]
  /\ pc[r] = "issued" => effect[r]
  /\ pc[r] = "deny" => \/ trail[r] = <<>> /\ ~effect[r]
                       \/ trail[r] = <<"authorized">>

(* What an answered request leaves behind.                                 *)
Closed(r) ==
  /\ answer[r] = "granted" =>
       /\ effect[r]
       /\ trail[r] \in {<<"authorized">>, <<"authorized", "issued">>}
  /\ answer[r] = "refused" =>
       \/ trail[r] \in {<<"authorized">>, <<"authorized", "denied">>}
       \/ trail[r] \in {<<>>, <<"denied">>} /\ ~effect[r]

(* The lifetime resolved from the request, and the one the policy was told. *)
Timed(r) ==
  /\ \/ pc[r] \in {"device", "policy", "tail", "authorize"} \cup Late
     \/ effect[r]
     \/ gate[r] = "tail"
     => life[r] = Lifetime(req[r]) /\ ~Malformed(req[r]) /\ req[r] \in Inputs
  /\ \/ pc[r] \in {"tail", "authorize"} \cup Late
     \/ effect[r]
     \/ gate[r] = "tail"
     => seen[r] = PolicyMinutes(r)

(* No more requests are charged to a counter than it counts.               *)
Counted ==
  \A k \in Modes \X Windows :
    Cardinality({r \in Requests : charged[r] = k}) <= count[k]

IInv ==
  /\ TypeOK
  /\ \A r \in Requests : Staged(r) /\ Closed(r) /\ Timed(r)
  /\ Counted

=============================================================================
