----------------------------- MODULE BrokerProofs -----------------------------
(***************************************************************************)
(* What the issue pipelines guarantee for any number of requests, any      *)
(* limit, any classes and ceilings and any lifetimes asked for, and that   *)
(* they implement AuditedIssue.                                            *)
(***************************************************************************)
EXTENDS BrokerInvariant, FiniteSetTheorems, SequenceTheorems, TLAPS

(* How long a solver may take on one step.                                *)
USE SMTT(60)
-----------------------------------------------------------------------------
(* Lifetimes.                                                              *)

(* Duration arithmetic never yields more than the product it wraps, and    *)
(* yields the product itself as long as that is a Duration.                *)
LEMMA WrapBounds ==
  ASSUME NEW n \in Nat
  PROVE  Wrap(n) \in Int /\ Wrap(n) <= n /\ (n <= MaxDuration => Wrap(n) = n)
<1> DEFINE m == 2 * MaxDuration + 2
           a == n + MaxDuration + 1
<1>1. m \in Nat \ {0} /\ a \in Nat
  BY BrokerPipelineAssumption
<1>2. a % m \in Nat /\ a % m <= a /\ (a < m => a % m = a)
  <2> HIDE DEF m, a
  <2>1. a % m \in 0..(m - 1)
    BY <1>1
  <2>2. a \div m \in Int /\ a = m * (a \div m) + (a % m)
    BY <1>1
  <2>3. a \div m >= 0
    BY <1>1
  <2>4. m * (a \div m) >= 0
    BY <1>1, <2>2, <2>3
  <2>5. a < m => a % m = a
    BY <1>1
  <2> QED BY <2>1, <2>2, <2>4, <2>5, <1>1
<1>3. n <= MaxDuration => a < m
  BY BrokerPipelineAssumption
<1> QED BY <1>1, <1>2, <1>3, BrokerPipelineAssumption DEF Wrap

(* Whole minutes, rounded down.                                            *)
LEMMA DivBounds ==
  ASSUME NEW n \in Nat
  PROVE  /\ n \div Minute \in Nat
         /\ n \in ((n \div Minute) * Minute)..((n \div Minute) * Minute + Minute - 1)
<1>0. Minute \in Nat \ {0}
  BY BrokerPipelineAssumption
<1>1. n \div Minute \in Int /\ n \div Minute >= 0
  BY <1>0
<1>2. n = Minute * (n \div Minute) + (n % Minute) /\ n % Minute \in 0..(Minute - 1)
  BY <1>0
<1>3. Minute * (n \div Minute) = (n \div Minute) * Minute
  BY <1>0, <1>1
<1> QED BY <1>0, <1>1, <1>2, <1>3

(* An operator certificate lives between one unit and its ceiling, and no  *)
(* longer than was asked for.                                              *)
LEMMA OperatorBounds ==
  ASSUME NEW in \in Inputs, in.mode = "operator", ~Malformed(in)
  PROVE  /\ Lifetime(in) \in 1..CertCeiling[in.class]
         /\ CertCeiling[in.class] \in 1..MaxDuration
         /\ in.minutes > 0 => Lifetime(in) <= in.minutes * Minute
<1>1. in.class \in Classes /\ in.minutes \in CertMinutes
  BY DEF Inputs
<1>2. in.minutes \in Nat
  <2>1. in.minutes \in Int
    BY <1>1, BrokerPipelineAssumption, ZenonT(90)
  <2>2. ~(in.minutes < 0)
    BY DEF Malformed
  <2> QED BY <2>1, <2>2
<1>3. CertCeiling[in.class] \in 1..MaxDuration
  BY <1>1, BrokerPipelineAssumption, ZenonT(90)
<1> DEFINE n == in.minutes * Minute
<1>4. n \in Nat
  BY <1>2, BrokerPipelineAssumption
<1>5. Wrap(n) \in Int /\ Wrap(n) <= n /\ (n <= MaxDuration => Wrap(n) = n)
  BY <1>4, WrapBounds, ZenonT(90)
<1>6. in.minutes > 0 => n > 0
  BY <1>2, BrokerPipelineAssumption
<1>7. Lifetime(in) = IF Wrap(n) > 0 /\ Wrap(n) < CertCeiling[in.class]
                     THEN Wrap(n) ELSE CertCeiling[in.class]
  BY DEF Lifetime, OperatorTTL
<1> HIDE DEF n
<1>8. Lifetime(in) \in 1..CertCeiling[in.class]
  BY <1>3, <1>5, <1>7
<1>9. n > 0 => Lifetime(in) <= n
  BY <1>3, <1>4, <1>5, <1>7, BrokerPipelineAssumption
<1> QED BY <1>3, <1>6, <1>8, <1>9, ZenonT(90) DEF n

(* A tunnel lives between a minute and the AWS maximum, and no longer than *)
(* was asked for.                                                          *)
LEMMA TunnelBounds ==
  ASSUME NEW in \in Inputs, in.mode = "tunnel", ~Malformed(in)
  PROVE  /\ Lifetime(in) \in 1..MaxTunnel
         /\ in.minutes > 0 => Lifetime(in) <= in.minutes
<1>1. in.minutes \in TunnelMinutes
  BY DEF Inputs
<1>2. in.minutes \in Int /\ in.minutes >= 0 /\ in.minutes <= MaxTunnel
  <2>1. in.minutes \in Int
    BY <1>1, BrokerPipelineAssumption, ZenonT(90)
  <2>2. ~(in.minutes < 0) /\ ~(in.minutes > MaxTunnel)
    BY DEF Malformed
  <2> QED BY <2>1, <2>2, BrokerPipelineAssumption
<1>3. Lifetime(in) = TunnelLifetime(in)
  BY DEF Lifetime
<1> QED BY <1>2, <1>3, BrokerPipelineAssumption DEF TunnelLifetime

(* A well-formed request resolves to a number.                             *)
LEMMA LifetimeType ==
  ASSUME NEW in \in Inputs, ~Malformed(in)
  PROVE  Lifetime(in) \in Int /\ (in.mode \in {"operator", "tunnel"} => Lifetime(in) \in Nat)
<1>1. CASE in.mode = "operator"
  BY <1>1, OperatorBounds, BrokerPipelineAssumption
<1>2. CASE in.mode = "tunnel"
  BY <1>2, TunnelBounds, BrokerPipelineAssumption
<1>3. CASE in.mode \notin {"operator", "tunnel"}
  BY <1>3 DEF Lifetime, None
<1> QED BY <1>1, <1>2, <1>3, ZenonT(90)

(* The policy is told a number of minutes.                                 *)
LEMMA PolicyMinutesType ==
  ASSUME NEW r \in Requests, req[r] \in Inputs, ~Malformed(req[r]),
         life[r] = Lifetime(req[r])
  PROVE  PolicyMinutes(r) \in Nat
<1>1. CASE req[r].mode = "operator"
  BY <1>1, LifetimeType, DivBounds, ZenonT(90) DEF PolicyMinutes
<1>2. CASE req[r].mode = "tunnel"
  BY <1>2, LifetimeType, ZenonT(90) DEF PolicyMinutes
<1>3. CASE req[r].mode \notin {"operator", "tunnel"}
  BY <1>3, ZenonT(90) DEF PolicyMinutes
<1> QED BY <1>1, <1>2, <1>3, ZenonT(90)

-----------------------------------------------------------------------------
(* Budgets and rows.                                                       *)

(* A counter is a pair: no request without a charge has it.                *)
LEMMA CounterType ==
  ASSUME TypeOK, NEW r \in Requests, req[r] \in Inputs
  PROVE  Counter(r) \in Modes \X Windows /\ Counter(r) # <<>>
<1>1. LimiterMode(req[r]) \in Modes
  BY DEF LimiterMode, Inputs, Modes
<1> QED BY <1>1, ZenonT(90) DEF Counter, TypeOK

(* Appending a row, computed.                                              *)
LEMMA AppendToNone ==
  ASSUME NEW x \in Rows
  PROVE  Append(<<>>, x) = <<x>>
BY AppendProperties, SeqEqual

(* The same for the second row.                                            *)
LEMMA AppendToOne ==
  ASSUME NEW x \in Rows, NEW y \in Rows
  PROVE  Append(<<x>>, y) = <<x, y>>
<1>1. <<x>> \in Seq(Rows) /\ <<x, y>> \in Seq(Rows) /\ Append(<<x>>, y) \in Seq(Rows)
  OBVIOUS
<1>2. Len(<<x, y>>) = 2 /\ Len(Append(<<x>>, y)) = 2
  OBVIOUS
<1>3. \A i \in 1..2 : Append(<<x>>, y)[i] = <<x, y>>[i]
  OBVIOUS
<1> QED BY <1>1, <1>2, <1>3, SeqEqual, ZenonT(90)

(* The trails the pipelines append to, and what they append.               *)
LEMMA Trails ==
  /\ Append(<<>>, "authorized") = <<"authorized">>
  /\ Append(<<>>, "denied") = <<"denied">>
  /\ Append(<<"authorized">>, "issued") = <<"authorized", "issued">>
  /\ Append(<<"authorized">>, "denied") = <<"authorized", "denied">>
<1>1. "authorized" \in Rows /\ "issued" \in Rows /\ "denied" \in Rows
  BY DEF Rows
<1> QED BY <1>1, AppendToNone, AppendToOne, ZenonT(90)

(* One more charge to k is one more in k's count and none elsewhere.       *)
LEMMA OneMoreCharge ==
  ASSUME TypeOK, NEW r \in Requests, charged[r] = <<>>,
         NEW k \in Modes \X Windows, charged' = [charged EXCEPT ![r] = k],
         NEW j \in Modes \X Windows
  PROVE  /\ Cardinality({q \in Requests : charged[q] = j}) \in Nat
         /\ j = k => Cardinality({q \in Requests : charged'[q] = j})
                       = Cardinality({q \in Requests : charged[q] = j}) + 1
         /\ j # k => {q \in Requests : charged'[q] = j} = {q \in Requests : charged[q] = j}
<1> DEFINE S == {q \in Requests : charged[q] = j}
<1>j. j # <<>>
  OBVIOUS
<1>0. \A q \in Requests : charged'[q] = IF q = r THEN k ELSE charged[q]
  BY DEF TypeOK
<1>1. IsFiniteSet(S)
  BY BrokerPipelineAssumption, FS_Subset, ZenonT(90)
<1>2. Cardinality(S) \in Nat
  BY <1>1, FS_CardinalityType, ZenonT(90)
<1>3. r \notin S
  BY <1>j, ZenonT(90)
<1>4. j = k => {q \in Requests : charged'[q] = j} = S \cup {r}
  BY <1>0, ZenonT(90)
<1>5. Cardinality(S \cup {r}) = Cardinality(S) + 1
  BY <1>1, <1>3, FS_AddElement, ZenonT(90)
<1>6. j # k => {q \in Requests : charged'[q] = j} = S
  BY <1>0
<1> QED BY <1>2, <1>4, <1>5, <1>6, ZenonT(90)
-----------------------------------------------------------------------------
(* Every step of a request preserves the parts of the invariant that speak *)
(* of one request.                                                         *)

(* What a step leaves of request q.                                        *)
Same(q) ==
  /\ pc'[q] = pc[q] /\ req'[q] = req[q] /\ gate'[q] = gate[q]
  /\ life'[q] = life[q] /\ seen'[q] = seen[q]
  /\ trail'[q] = trail[q] /\ effect'[q] = effect[q] /\ answer'[q] = answer[q]
  /\ charged'[q] = charged[q]

(* A step of one request leaves the others alone.                          *)
LEMMA Elsewhere ==
  ASSUME TypeOK, NEW r \in Requests, Serve(r), NEW q \in Requests, q # r
  PROVE  Same(q)
<1> USE DEF TypeOK
<1>1. CASE Receive(r)
  BY <1>1, ZenonT(90)
  DEF Receive, Goto, client, limiter, resolved, result, Same
<1>2. CASE HandlerDenies(r)
  BY <1>2, ZenonT(90)
  DEF HandlerDenies, Deny, Goto, client, limiter, resolved, result, Same
<1>3. CASE Dispatch(r)
  BY <1>3, ZenonT(90)
  DEF Dispatch, Pass, Goto, client, limiter, resolved, result, Same
<1>4. CASE NewIDFails(r)
  BY <1>4, ZenonT(90)
  DEF NewIDFails, Respond, Goto, client, limiter, resolved, result, Same
<1>5. CASE TokenRejected(r)
  BY <1>5, ZenonT(90)
  DEF TokenRejected, Deny, Goto, client, limiter, resolved, result, Same
<1>6. CASE TokenAccepted(r)
  BY <1>6, ZenonT(90)
  DEF TokenAccepted, Pass, Goto, client, limiter, resolved, result, Same
<1>7. CASE Allow(r)
  BY <1>7, ZenonT(90)
  DEF Allow, Pass, Increment, Goto, client, limiter, resolved, result, Same
<1>8. CASE AllowFails(r)
  BY <1>8, ZenonT(90)
  DEF AllowFails, Deny, Increment, Goto, client, limiter, resolved, result, Same
<1>9. CASE ShapeRejected(r)
  BY <1>9, ZenonT(90)
  DEF ShapeRejected, Deny, Goto, client, limiter, resolved, result, Same
<1>10. CASE ShapeAccepted(r)
  BY <1>10, ZenonT(90)
  DEF ShapeAccepted, Pass, Goto, client, limiter, resolved, result, Same
<1>11. CASE DeviceRejected(r)
  BY <1>11, ZenonT(90)
  DEF DeviceRejected, Deny, Goto, client, limiter, resolved, result, Same
<1>12. CASE DeviceResolved(r)
  BY <1>12, ZenonT(90)
  DEF DeviceResolved, Pass, Goto, client, limiter, resolved, result, Same
<1>13. CASE PolicyRejects(r)
  BY <1>13, ZenonT(90)
  DEF PolicyRejects, Deny, Goto, client, limiter, resolved, result, Same
<1>14. CASE PolicyAllows(r)
  BY <1>14, ZenonT(90)
  DEF PolicyAllows, Pass, Goto, client, limiter, resolved, result, Same
<1>15. CASE TailRejected(r)
  BY <1>15, ZenonT(90)
  DEF TailRejected, Deny, Goto, client, limiter, resolved, result, Same
<1>16. CASE TailAccepted(r)
  BY <1>16, ZenonT(90)
  DEF TailAccepted, Pass, Goto, client, limiter, resolved, result, Same
<1>17. CASE Authorized(r)
  BY <1>17, ZenonT(90)
  DEF Authorized, Recorded, Goto, client, limiter, resolved, result, Same
<1>18. CASE AuthorizedFails(r)
  BY <1>18, ZenonT(90)
  DEF AuthorizedFails, RecordFailed, Respond, Goto, client, limiter, resolved, result, Same
<1>19. CASE Issue(r)
  BY <1>19, ZenonT(90)
  DEF Issue, Goto, client, limiter, resolved, result, Same
<1>20. CASE IssueFails(r)
  BY <1>20, ZenonT(90)
  DEF IssueFails, Goto, client, limiter, resolved, result, Same
<1>21. CASE Issued(r)
  BY <1>21, ZenonT(90)
  DEF Issued, Record, Recorded, RecordFailed, Respond, Goto, client, limiter, resolved, result, Same
<1>22. CASE Denied(r)
  BY <1>22, ZenonT(90)
  DEF Denied, Record, Recorded, RecordFailed, Respond, Goto, client, limiter, resolved, result, Same
<1> QED
  BY <1>1, <1>2, <1>3, <1>4, <1>5, <1>6, <1>7, <1>8, <1>9, <1>10, <1>11, <1>12, <1>13, <1>14, <1>15, <1>16, <1>17, <1>18, <1>19, <1>20, <1>21, <1>22, ZenonT(90) DEF Serve

(* A request a step leaves alone stays as the invariant says.              *)
LEMMA SameKeeps ==
  ASSUME NEW q \in Requests, Same(q), Staged(q), Closed(q), Timed(q)
  PROVE  Staged(q)' /\ Closed(q)' /\ Timed(q)'
<1>1. Staged(q)'
  BY ZenonT(90) DEF Same, Staged
<1>2. Closed(q)'
  BY DEF Same, Closed
<1>3. PolicyMinutes(q)' = PolicyMinutes(q)
  BY Zenon DEF Same, PolicyMinutes
<1>4. Timed(q)'
  BY <1>3, ZenonT(90) DEF Same, Timed
<1> QED BY <1>1, <1>2, <1>4, ZenonT(90)

(* Type correctness.                                                       *)
LEMMA TypeStep ==
  ASSUME IInv, NEW r \in Requests, Serve(r)
  PROVE  TypeOK'
<1> USE DEF IInv, TypeOK, Labels, Gates
<1>1. CASE Receive(r)
  BY <1>1, ZenonT(90)
  DEF Receive, Goto, client, limiter, resolved, result
<1>2. CASE HandlerDenies(r)
  BY <1>2, ZenonT(90)
  DEF HandlerDenies, Deny, Goto, client, limiter, resolved, result
<1>3. CASE Dispatch(r)
  BY <1>3, ZenonT(90)
  DEF Dispatch, Pass, Goto, client, limiter, resolved, result
<1>4. CASE NewIDFails(r)
  BY <1>4, ZenonT(90)
  DEF NewIDFails, Respond, Goto, client, limiter, resolved, result
<1>5. CASE TokenRejected(r)
  BY <1>5, ZenonT(90)
  DEF TokenRejected, Deny, Goto, client, limiter, resolved, result
<1>6. CASE TokenAccepted(r)
  BY <1>6, ZenonT(90)
  DEF TokenAccepted, Pass, Goto, client, limiter, resolved, result
<1>7. CASE Allow(r)
  <2>1. Counter(r) \in Modes \X Windows
    BY <1>7, CounterType, ZenonT(90) DEF Allow, Staged
  <2>2. count' \in [Modes \X Windows -> 0..Limit]
    BY <1>7, <2>1, BrokerPipelineAssumption DEF Allow, Increment
  <2> QED
    BY <1>7, <2>1, <2>2, ZenonT(90) DEF Allow, Pass, Goto, client, resolved, result
<1>8. CASE AllowFails(r)
  <2>1. Counter(r) \in Modes \X Windows
    BY <1>8, CounterType, ZenonT(90) DEF AllowFails, Staged
  <2>2. ASSUME Increment(Counter(r)) PROVE count' \in [Modes \X Windows -> 0..Limit]
    BY <2>1, <2>2, BrokerPipelineAssumption DEF Increment
  <2> QED
    BY <1>8, <2>2, ZenonT(90) DEF AllowFails, Deny, Goto, client, resolved, result
<1>9. CASE ShapeRejected(r)
  BY <1>9, ZenonT(90)
  DEF ShapeRejected, Deny, Goto, client, limiter, resolved, result
<1>10. CASE ShapeAccepted(r)
  <2>1. Lifetime(req[r]) \in Int
    BY <1>10, LifetimeType, ZenonT(90) DEF ShapeAccepted, Staged
  <2> QED
    BY <1>10, <2>1, ZenonT(90) DEF ShapeAccepted, Pass, Goto, limiter, client, result
<1>11. CASE DeviceRejected(r)
  BY <1>11, ZenonT(90)
  DEF DeviceRejected, Deny, Goto, client, limiter, resolved, result
<1>12. CASE DeviceResolved(r)
  BY <1>12, ZenonT(90)
  DEF DeviceResolved, Pass, Goto, client, limiter, resolved, result
<1>13. CASE PolicyRejects(r)
  BY <1>13, ZenonT(90)
  DEF PolicyRejects, Deny, Goto, client, limiter, resolved, result
<1>14. CASE PolicyAllows(r)
  <2>1. PolicyMinutes(r) \in Int
    BY <1>14, PolicyMinutesType DEF PolicyAllows, Timed
  <2> QED
    BY <1>14, <2>1, ZenonT(90) DEF PolicyAllows, Pass, Goto, limiter, client, result
<1>15. CASE TailRejected(r)
  BY <1>15, ZenonT(90)
  DEF TailRejected, Deny, Goto, client, limiter, resolved, result
<1>16. CASE TailAccepted(r)
  BY <1>16, ZenonT(90)
  DEF TailAccepted, Pass, Goto, client, limiter, resolved, result
<1>17. CASE Authorized(r)
  <2>1. Append(trail[r], "authorized") \in Seq(Rows)
    BY DEF Rows
  <2>2. trail' \in [Requests -> Seq(Rows)] /\ lost' \in [Requests -> BOOLEAN]
    BY <1>17, <2>1, ZenonT(90) DEF Authorized, Recorded
  <2> QED
    BY <1>17, <2>2, ZenonT(90) DEF Authorized, Goto, client, limiter, resolved
<1>18. CASE AuthorizedFails(r)
  <2>1. Append(trail[r], "authorized") \in Seq(Rows)
    BY DEF Rows
  <2>2. trail' \in [Requests -> Seq(Rows)] /\ lost' \in [Requests -> BOOLEAN]
    BY <1>18, <2>1, ZenonT(90) DEF AuthorizedFails, RecordFailed
  <2> QED
    BY <1>18, <2>2, ZenonT(90) DEF AuthorizedFails, Respond, Goto, client, limiter, resolved
<1>19. CASE Issue(r)
  BY <1>19, ZenonT(90)
  DEF Issue, Goto, client, limiter, resolved, result
<1>20. CASE IssueFails(r)
  BY <1>20, ZenonT(90)
  DEF IssueFails, Goto, client, limiter, resolved, result
<1>21. CASE Issued(r)
  <2>1. Append(trail[r], "issued") \in Seq(Rows)
    BY DEF Rows
  <2>2. trail' \in [Requests -> Seq(Rows)] /\ lost' \in [Requests -> BOOLEAN]
    BY <1>21, <2>1, ZenonT(90) DEF Issued, Record, Recorded, RecordFailed
  <2> QED
    BY <1>21, <2>2, ZenonT(90) DEF Issued, Respond, Goto, client, limiter, resolved
<1>22. CASE Denied(r)
  <2>1. Append(trail[r], "denied") \in Seq(Rows)
    BY DEF Rows
  <2>2. trail' \in [Requests -> Seq(Rows)] /\ lost' \in [Requests -> BOOLEAN]
    BY <1>22, <2>1, ZenonT(90) DEF Denied, Record, Recorded, RecordFailed
  <2> QED
    BY <1>22, <2>2, ZenonT(90) DEF Denied, Respond, Goto, client, limiter, resolved
<1> QED
  BY <1>1, <1>2, <1>3, <1>4, <1>5, <1>6, <1>7, <1>8, <1>9, <1>10, <1>11, <1>12, <1>13, <1>14, <1>15, <1>16, <1>17, <1>18, <1>19, <1>20, <1>21, <1>22, ZenonT(90) DEF Serve

(* The request that steps: its charge, rows and effect.                    *)
LEMMA StagedStep ==
  ASSUME IInv, NEW r \in Requests, Serve(r)
  PROVE  Staged(r)' /\ Closed(r)'
<1>0. TypeOK /\ Staged(r) /\ Closed(r)
  BY DEF IInv
<1> USE DEF TypeOK, Staged, Closed, Early, Middle, Late
<1>1. CASE Receive(r)
  BY <1>1, <1>0, Trails, ZenonT(90)
  DEF Receive, Goto, client, limiter, resolved, result
<1>2. CASE HandlerDenies(r)
  BY <1>2, <1>0, Trails, ZenonT(90)
  DEF HandlerDenies, Deny, Goto, client, limiter, resolved, result
<1>3. CASE Dispatch(r)
  BY <1>3, <1>0, Trails, ZenonT(90)
  DEF Dispatch, Pass, Goto, client, limiter, resolved, result
<1>4. CASE NewIDFails(r)
  BY <1>4, <1>0, Trails, ZenonT(90)
  DEF NewIDFails, Respond, Goto, client, limiter, resolved, result
<1>5. CASE TokenRejected(r)
  BY <1>5, <1>0, Trails, ZenonT(90)
  DEF TokenRejected, Deny, Goto, client, limiter, resolved, result
<1>6. CASE TokenAccepted(r)
  BY <1>6, <1>0, Trails, ZenonT(90)
  DEF TokenAccepted, Pass, Goto, client, limiter, resolved, result
<1>7. CASE Allow(r)
  <2>1. Counter(r) # <<>>
    BY <1>7, <1>0, CounterType, ZenonT(90) DEF Allow
  <2> QED
    BY <1>7, <1>0, <2>1, ZenonT(90) DEF Allow, Pass, Goto, client, resolved, result
<1>8. CASE AllowFails(r)
  BY <1>8, <1>0, Trails, ZenonT(90)
  DEF AllowFails, Deny, Increment, Goto, client, limiter, resolved, result
<1>9. CASE ShapeRejected(r)
  BY <1>9, <1>0, Trails, ZenonT(90)
  DEF ShapeRejected, Deny, Goto, client, limiter, resolved, result
<1>10. CASE ShapeAccepted(r)
  BY <1>10, <1>0, Trails, ZenonT(90)
  DEF ShapeAccepted, Pass, Goto, client, limiter, resolved, result
<1>11. CASE DeviceRejected(r)
  BY <1>11, <1>0, Trails, ZenonT(90)
  DEF DeviceRejected, Deny, Goto, client, limiter, resolved, result
<1>12. CASE DeviceResolved(r)
  BY <1>12, <1>0, Trails, ZenonT(90)
  DEF DeviceResolved, Pass, Goto, client, limiter, resolved, result
<1>13. CASE PolicyRejects(r)
  BY <1>13, <1>0, Trails, ZenonT(90)
  DEF PolicyRejects, Deny, Goto, client, limiter, resolved, result
<1>14. CASE PolicyAllows(r)
  BY <1>14, <1>0, Trails, ZenonT(90)
  DEF PolicyAllows, Pass, Goto, client, limiter, resolved, result
<1>15. CASE TailRejected(r)
  BY <1>15, <1>0, Trails, ZenonT(90)
  DEF TailRejected, Deny, Goto, client, limiter, resolved, result
<1>16. CASE TailAccepted(r)
  BY <1>16, <1>0, Trails, ZenonT(90)
  DEF TailAccepted, Pass, Goto, client, limiter, resolved, result
<1>17. CASE Authorized(r)
  BY <1>17, <1>0, Trails, ZenonT(90)
  DEF Authorized, Recorded, Goto, client, limiter, resolved, result
<1>18. CASE AuthorizedFails(r)
  BY <1>18, <1>0, Trails, ZenonT(90)
  DEF AuthorizedFails, RecordFailed, Respond, Goto, client, limiter, resolved, result
<1>19. CASE Issue(r)
  BY <1>19, <1>0, Trails, ZenonT(90)
  DEF Issue, Goto, client, limiter, resolved, result
<1>20. CASE IssueFails(r)
  BY <1>20, <1>0, Trails, ZenonT(90)
  DEF IssueFails, Goto, client, limiter, resolved, result
<1>21. CASE Issued(r)
  <2>1. trail[r] = <<"authorized">> /\ effect[r]
    BY <1>21, <1>0, ZenonT(90) DEF Issued
  <2>2. trail'[r] \in {<<"authorized">>, <<"authorized", "issued">>}
    BY <1>21, <1>0, <2>1, Trails DEF Issued, Record, Recorded, RecordFailed
  <2>3. pc'[r] = "done" /\ answer'[r] = "granted" /\ effect'[r] /\ req'[r] = req[r]
    BY <1>21, <1>0, <2>1, ZenonT(90) DEF Issued, Respond, Goto
  <2> QED BY <1>21, <1>0, <2>2, <2>3, ZenonT(90) DEF Issued
<1>22. CASE Denied(r)
  <2>1. trail[r] = <<"authorized">> \/ (trail[r] = <<>> /\ ~effect[r])
    BY <1>22, <1>0, ZenonT(90) DEF Denied
  <2>2. trail'[r] = trail[r] \/ trail'[r] = Append(trail[r], "denied")
    BY <1>22, <1>0 DEF Denied, Record, Recorded, RecordFailed
  <2>3. \/ trail'[r] \in {<<"authorized">>, <<"authorized", "denied">>}
        \/ trail'[r] \in {<<>>, <<"denied">>} /\ ~effect[r]
    BY <2>1, <2>2, Trails, ZenonT(90)
  <2>4. pc'[r] = "done" /\ answer'[r] = "refused" /\ effect'[r] = effect[r] /\ req'[r] = req[r]
    BY <1>22, <1>0 DEF Denied, Respond, Goto
  <2> QED BY <1>22, <1>0, <2>3, <2>4, ZenonT(90) DEF Denied
<1> QED
  BY <1>1, <1>2, <1>3, <1>4, <1>5, <1>6, <1>7, <1>8, <1>9, <1>10, <1>11, <1>12, <1>13, <1>14, <1>15, <1>16, <1>17, <1>18, <1>19, <1>20, <1>21, <1>22, ZenonT(90) DEF Serve

(* The request that steps: its lifetime.                                   *)
LEMMA TimedStep ==
  ASSUME IInv, NEW r \in Requests, Serve(r)
  PROVE  Timed(r)'
<1>0. TypeOK /\ Staged(r) /\ Timed(r)
  BY DEF IInv
<1> USE DEF TypeOK, Staged, Timed, Early, Middle, Late, PolicyMinutes
<1>1. CASE Receive(r)
  BY <1>1, <1>0
  DEF Receive, Goto, client, limiter, resolved, result
<1>2. CASE HandlerDenies(r)
  BY <1>2, <1>0
  DEF HandlerDenies, Deny, Goto, client, limiter, resolved, result
<1>3. CASE Dispatch(r)
  BY <1>3, <1>0
  DEF Dispatch, Pass, Goto, client, limiter, resolved, result
<1>4. CASE NewIDFails(r)
  BY <1>4, <1>0
  DEF NewIDFails, Respond, Goto, client, limiter, resolved, result
<1>5. CASE TokenRejected(r)
  BY <1>5, <1>0
  DEF TokenRejected, Deny, Goto, client, limiter, resolved, result
<1>6. CASE TokenAccepted(r)
  BY <1>6, <1>0
  DEF TokenAccepted, Pass, Goto, client, limiter, resolved, result
<1>7. CASE Allow(r)
  BY <1>7, <1>0
  DEF Allow, Pass, Increment, Goto, client, limiter, resolved, result
<1>8. CASE AllowFails(r)
  BY <1>8, <1>0
  DEF AllowFails, Deny, Increment, Goto, client, limiter, resolved, result
<1>9. CASE ShapeRejected(r)
  BY <1>9, <1>0
  DEF ShapeRejected, Deny, Goto, client, limiter, resolved, result
<1>10. CASE ShapeAccepted(r)
  BY <1>10, <1>0
  DEF ShapeAccepted, Pass, Goto, client, limiter, resolved, result
<1>11. CASE DeviceRejected(r)
  BY <1>11, <1>0
  DEF DeviceRejected, Deny, Goto, client, limiter, resolved, result
<1>12. CASE DeviceResolved(r)
  BY <1>12, <1>0
  DEF DeviceResolved, Pass, Goto, client, limiter, resolved, result
<1>13. CASE PolicyRejects(r)
  BY <1>13, <1>0
  DEF PolicyRejects, Deny, Goto, client, limiter, resolved, result
<1>14. CASE PolicyAllows(r)
  BY <1>14, <1>0
  DEF PolicyAllows, Pass, Goto, client, limiter, resolved, result
<1>15. CASE TailRejected(r)
  BY <1>15, <1>0
  DEF TailRejected, Deny, Goto, client, limiter, resolved, result
<1>16. CASE TailAccepted(r)
  BY <1>16, <1>0
  DEF TailAccepted, Pass, Goto, client, limiter, resolved, result
<1>17. CASE Authorized(r)
  BY <1>17, <1>0
  DEF Authorized, Recorded, Goto, client, limiter, resolved, result
<1>18. CASE AuthorizedFails(r)
  BY <1>18, <1>0
  DEF AuthorizedFails, RecordFailed, Respond, Goto, client, limiter, resolved, result
<1>19. CASE Issue(r)
  BY <1>19, <1>0
  DEF Issue, Goto, client, limiter, resolved, result
<1>20. CASE IssueFails(r)
  BY <1>20, <1>0
  DEF IssueFails, Goto, client, limiter, resolved, result
<1>21. CASE Issued(r)
  BY <1>21, <1>0
  DEF Issued, Record, Recorded, RecordFailed, Respond, Goto, client, limiter, resolved, result
<1>22. CASE Denied(r)
  BY <1>22, <1>0
  DEF Denied, Record, Recorded, RecordFailed, Respond, Goto, client, limiter, resolved, result
<1> QED
  BY <1>1, <1>2, <1>3, <1>4, <1>5, <1>6, <1>7, <1>8, <1>9, <1>10, <1>11, <1>12, <1>13, <1>14, <1>15, <1>16, <1>17, <1>18, <1>19, <1>20, <1>21, <1>22, ZenonT(90) DEF Serve
-----------------------------------------------------------------------------
(* The invariant.                                                          *)

(* The counters cover the charges: only the limiter's step touches either, *)
(* and a failing one at most counts too much.                              *)
LEMMA CountedStep ==
  ASSUME IInv, NEW r \in Requests, Serve(r)
  PROVE  Counted'
<1>0. TypeOK /\ Counted /\ Staged(r)
  BY DEF IInv
<1>1. CASE Allow(r)
  <2>1. PICK k \in Modes \X Windows : k = Counter(r) /\ k # <<>>
    BY <1>0, <1>1, CounterType, ZenonT(90) DEF Allow, Staged
  <2>2. charged[r] = <<>> /\ charged' = [charged EXCEPT ![r] = k]
    BY <1>0, <1>1, <2>1, ZenonT(90) DEF Allow, Staged, Early
  <2>3. count' = [count EXCEPT ![k] = @ + 1]
    BY <1>1, <2>1, ZenonT(90) DEF Allow, Increment
  <2> SUFFICES ASSUME NEW j \in Modes \X Windows
               PROVE  Cardinality({q \in Requests : charged'[q] = j}) <= count'[j]
    BY DEF Counted
  <2>4. TypeOK /\ charged[r] = <<>>
    BY <1>0, <2>2, ZenonT(90)
  <2> DEFINE old == Cardinality({q \in Requests : charged[q] = j})
             new == Cardinality({q \in Requests : charged'[q] = j})
  <2>5. /\ old \in Nat
        /\ j = k => new = old + 1
        /\ j # k => {q \in Requests : charged'[q] = j} = {q \in Requests : charged[q] = j}
    BY <2>2, <2>4, OneMoreCharge, ZenonT(90)
  <2>6. old <= count[j] /\ count[j] \in Nat
    BY <1>0 DEF Counted, TypeOK
  <2>7. count'[j] = IF j = k THEN count[j] + 1 ELSE count[j]
    BY <1>0, <2>1, <2>3, ZenonT(90) DEF TypeOK
  <2>8. j # k => new = old
    BY <2>5, ZenonT(90)
  <2>9. j = k => new = old + 1
    BY <2>5, ZenonT(90)
  <2>10. old \in Nat
    BY <2>5, ZenonT(90)
  <2> HIDE DEF old, new
  <2>11. new <= count'[j]
    BY <2>6, <2>7, <2>8, <2>9, <2>10
  <2> QED BY <2>11, ZenonT(90) DEF new
<1>2. CASE AllowFails(r)
  <2>1. charged' = charged
    BY <1>2, ZenonT(90) DEF AllowFails
  <2>2. Counter(r) \in Modes \X Windows
    BY <1>0, <1>2, CounterType, ZenonT(90) DEF AllowFails, Staged
  <2> SUFFICES ASSUME NEW j \in Modes \X Windows
               PROVE  Cardinality({q \in Requests : charged[q] = j}) <= count'[j]
    BY <2>1, ZenonT(90) DEF Counted
  <2>3. IsFiniteSet({q \in Requests : charged[q] = j})
    BY BrokerPipelineAssumption, FS_Subset, ZenonT(90)
  <2>4. Cardinality({q \in Requests : charged[q] = j}) \in Nat
    BY <2>3, FS_CardinalityType, ZenonT(90)
  <2>5. Cardinality({q \in Requests : charged[q] = j}) <= count[j] /\ count[j] \in Nat
    BY <1>0 DEF Counted, TypeOK
  <2>6. count'[j] \in {count[j], count[j] + 1}
    BY <1>0, <1>2, <2>2, ZenonT(90) DEF AllowFails, Increment, TypeOK
  <2> QED BY <2>4, <2>5, <2>6
<1>3. CASE ~Allow(r) /\ ~AllowFails(r)
  <2>1. count' = count /\ charged' = charged
    BY <1>3, ZenonT(90) DEF Serve, Receive, HandlerDenies, Dispatch, NewIDFails, TokenRejected,
      TokenAccepted, ShapeRejected, ShapeAccepted, DeviceRejected, DeviceResolved,
      PolicyRejects, PolicyAllows, TailRejected, TailAccepted, Authorized,
      AuthorizedFails, Issue, IssueFails, Issued, Denied, limiter
  <2> QED BY <1>0, <2>1, ZenonT(90) DEF Counted
<1> QED BY <1>1, <1>2, <1>3, ZenonT(90)

(* Hanging up and the clock disturb nothing the invariant speaks of.       *)
LEMMA EnvironmentStep ==
  ASSUME IInv, (\E r \in Requests : Disconnect(r)) \/ Tick \/ Finished
  PROVE  IInv'
<1> DEFINE Kept == UNCHANGED <<pc, gate, req, life, seen, trail, effect, answer,
                               lost, count, charged>>
<1>1. Kept
  BY DEF Disconnect, Tick, Finished, vars, limiter, client, resolved, result
<1>2. TypeOK'
  <2>0. TypeOK
    BY Zenon DEF IInv
  <2>1. CASE \E r \in Requests : Disconnect(r)
    BY <1>1, <2>0, <2>1, ZenonT(90) DEF TypeOK, Disconnect, limiter
  <2>2. CASE Tick
    BY <1>1, <2>0, <2>2, BrokerPipelineAssumption DEF TypeOK, Tick, Windows, client
  <2>3. CASE Finished
    BY <1>1, <2>0, <2>3, ZenonT(90) DEF TypeOK, Finished, vars, limiter, client
  <2> QED BY <2>1, <2>2, <2>3, ZenonT(90)
<1>3. ASSUME NEW q \in Requests PROVE Staged(q)' /\ Closed(q)' /\ Timed(q)'
  <2>1. Same(q)
    BY <1>1, ZenonT(90) DEF Same
  <2> QED BY <2>1, SameKeeps, ZenonT(90) DEF IInv
<1>4. Counted'
  BY <1>1, ZenonT(90) DEF IInv, Counted
<1> QED BY <1>2, <1>3, <1>4, ZenonT(90) DEF IInv

(* Before any request.                                                     *)
LEMMA InitHolds == Init => IInv
<1> SUFFICES ASSUME Init PROVE IInv
  OBVIOUS
<1>1. TypeOK
  BY BrokerPipelineAssumption
  DEF Init, TypeOK, Windows, Labels, Gates, Rows, None
<1>2. ASSUME NEW r \in Requests PROVE Staged(r) /\ Closed(r) /\ Timed(r)
  BY ZenonT(90) DEF Init, Staged, Closed, Timed, Early, Middle, Late
<1>3. Counted
  <2> SUFFICES ASSUME NEW k \in Modes \X Windows
               PROVE  Cardinality({r \in Requests : charged[r] = k}) <= count[k]
    BY DEF Counted
  <2>1. k # <<>>
    OBVIOUS
  <2>2. {r \in Requests : charged[r] = k} = {}
    BY <2>1, ZenonT(90) DEF Init
  <2>3. Cardinality({r \in Requests : charged[r] = k}) = 0
    BY <2>2, FS_EmptySet, ZenonT(90)
  <2>4. count[k] = 0
    BY DEF Init
  <2> QED BY <2>3, <2>4
<1> QED BY <1>1, <1>2, <1>3, ZenonT(90) DEF IInv

(* Every step of the pipelines preserves the invariant.                    *)
LEMMA StepHolds == IInv /\ [Next]_vars => IInv'
<1> SUFFICES ASSUME IInv, [Next]_vars PROVE IInv'
  OBVIOUS
<1>1. ASSUME NEW r \in Requests, Serve(r) PROVE IInv'
  <2>1. TypeOK'
    BY <1>1, TypeStep, ZenonT(90)
  <2>2. Counted'
    BY <1>1, CountedStep
  <2>3. ASSUME NEW q \in Requests PROVE Staged(q)' /\ Closed(q)' /\ Timed(q)'
    <3>1. CASE q = r
      BY <1>1, <3>1, StagedStep, TimedStep, ZenonT(90)
    <3>2. CASE q # r
      <4>1. Same(q)
        BY <1>1, <3>2, Elsewhere, ZenonT(90) DEF IInv
      <4> QED BY <4>1, SameKeeps, ZenonT(90) DEF IInv
    <3> QED BY <3>1, <3>2, ZenonT(90)
  <2> QED BY <2>1, <2>2, <2>3, ZenonT(90) DEF IInv
<1>2. CASE (\E r \in Requests : Disconnect(r)) \/ Tick \/ Finished
  BY <1>2, EnvironmentStep, ZenonT(90)
<1>3. CASE UNCHANGED vars
  <2>1. UNCHANGED <<pc, gate, req, gone, life, seen, trail, effect, answer, lost,
                    window, count, charged>>
    BY <1>3, ZenonT(90) DEF vars, limiter, client, resolved, result
  <2>2. TypeOK' /\ Counted'
    BY <2>1, ZenonT(90) DEF IInv, TypeOK, Counted
  <2>3. ASSUME NEW q \in Requests PROVE Staged(q)' /\ Closed(q)' /\ Timed(q)'
    <3>1. Same(q)
      BY <2>1 DEF Same
    <3> QED BY <3>1, SameKeeps, ZenonT(90) DEF IInv
  <2> QED BY <2>2, <2>3, ZenonT(90) DEF IInv
<1> QED BY <1>1, <1>2, <1>3, ZenonT(90) DEF Next

(* The inductive invariant holds of every behaviour of the pipelines.      *)
THEOREM BrokerInvariance == Spec => []IInv
<1> QED BY InitHolds, StepHolds, PTL DEF Spec
-----------------------------------------------------------------------------
(* What follows from it.                                                   *)

(* The state keeps its shape, and no counter passes the limit.             *)
THEOREM BrokerTypeCorrect == Spec => []TypeOK
<1>1. IInv => TypeOK
  BY ZenonT(90) DEF IInv
<1> QED BY <1>1, BrokerInvariance, PTL

(* Nothing is signed and no tunnel is opened without its authorized row,   *)
(* whatever audit writes, replies and clients are lost.                    *)
THEOREM FailClosedHolds == Spec => []FailClosed
<1>1. IInv => FailClosed
  <2> SUFFICES ASSUME IInv, NEW r \in Requests
               PROVE  /\ effect[r] => trail[r] # <<>> /\ Head(trail[r]) = "authorized"
                      /\ answer[r] = "granted" => effect[r]
    BY DEF FailClosed
  <2>0. TypeOK /\ Staged(r) /\ Closed(r)
    BY DEF IInv
  <2>1. answer[r] = "granted" => effect[r]
    BY <2>0, ZenonT(90) DEF Closed
  <2>2. effect[r] => trail[r] \in {<<"authorized">>, <<"authorized", "issued">>,
                                   <<"authorized", "denied">>}
    BY <2>0, ZenonT(90) DEF Staged, Closed, TypeOK, Labels, Early, Middle, Late
  <2>3. \A t \in {<<"authorized">>, <<"authorized", "issued">>, <<"authorized", "denied">>} :
          t # <<>> /\ Head(t) = "authorized"
    OBVIOUS
  <2> QED BY <2>1, <2>2, <2>3, ZenonT(90)
<1> QED BY <1>1, BrokerInvariance, PTL

(* No more requests of a mode are let through in a window than the limit.  *)
THEOREM BudgetHolds == Spec => []BudgetHeld
<1>1. IInv => BudgetHeld
  <2> SUFFICES ASSUME IInv, NEW k \in Modes \X Windows
               PROVE  Cardinality({r \in Requests : charged[r] = k}) <= Limit
    BY ZenonT(90) DEF BudgetHeld
  <2> DEFINE n == Cardinality({r \in Requests : charged[r] = k})
  <2>1. IsFiniteSet({r \in Requests : charged[r] = k})
    BY BrokerPipelineAssumption, FS_Subset, ZenonT(90)
  <2>2. n \in Nat
    BY <2>1, FS_CardinalityType
  <2>3. n <= count[k]
    BY DEF IInv, Counted
  <2>4. count[k] \in 0..Limit
    BY DEF IInv, TypeOK
  <2> HIDE DEF n
  <2>5. n <= Limit
    BY <2>2, <2>3, <2>4, BrokerPipelineAssumption
  <2> QED BY <2>5, ZenonT(90) DEF n
<1> QED BY <1>1, BrokerInvariance, PTL

(* What is issued lives as long as the policy was told, within the ceiling *)
(* and the request, for every ceiling and every number of minutes, also    *)
(* those at which the multiplication wraps around.                         *)
THEOREM LifetimeHolds == Spec => []LifetimeAllowed
<1>1. IInv => LifetimeAllowed
  <2> SUFFICES ASSUME IInv, NEW r \in Requests, effect[r],
                      req[r].mode \in {"operator", "tunnel"}
               PROVE  LET unit == IF req[r].mode = "operator" THEN Minute ELSE 1
                          ceiling == IF req[r].mode = "operator"
                                     THEN CertCeiling[req[r].class] ELSE MaxTunnel
                      IN  /\ life[r] \in (seen[r] * unit)..(seen[r] * unit + unit - 1)
                          /\ life[r] \in 1..ceiling
                          /\ req[r].minutes > 0 => life[r] <= req[r].minutes * unit
    BY ZenonT(90) DEF LifetimeAllowed
  <2>0. /\ life[r] = Lifetime(req[r]) /\ ~Malformed(req[r]) /\ req[r] \in Inputs
        /\ seen[r] = PolicyMinutes(r)
    BY ZenonT(90) DEF IInv, Timed
  <2>1. CASE req[r].mode = "operator"
    <3>1. /\ life[r] \in 1..CertCeiling[req[r].class]
          /\ CertCeiling[req[r].class] \in 1..MaxDuration
          /\ req[r].minutes > 0 => life[r] <= req[r].minutes * Minute
      BY <2>0, <2>1, OperatorBounds, ZenonT(90)
    <3>2. seen[r] = life[r] \div Minute
      BY <2>0, <2>1, ZenonT(90) DEF PolicyMinutes
    <3>3. life[r] \in Nat
      BY <3>1, BrokerPipelineAssumption
    <3>4. life[r] \in (seen[r] * Minute)..(seen[r] * Minute + Minute - 1)
      BY <3>2, <3>3, DivBounds, ZenonT(90)
    <3> QED BY <2>1, <3>1, <3>4, ZenonT(90)
  <2>2. CASE req[r].mode = "tunnel"
    <3>1. /\ life[r] \in 1..MaxTunnel
          /\ req[r].minutes > 0 => life[r] <= req[r].minutes
      BY <2>0, <2>2, TunnelBounds, ZenonT(90)
    <3>2. seen[r] = life[r] /\ life[r] \in Int
      BY <2>0, <2>2, <3>1, BrokerPipelineAssumption DEF PolicyMinutes
    <3>3. req[r].minutes \in Int
      BY <2>0, <2>2, BrokerPipelineAssumption, ZenonT(90) DEF Inputs
    <3> QED BY <2>2, <3>1, <3>2, <3>3
  <2> QED BY <2>1, <2>2, ZenonT(90)
<1> QED BY <1>1, BrokerInvariance, PTL

(* No trail says issued of a refused request or denied of a granted one.   *)
THEOREM TrailHolds == Spec => []TrailNeverContradicts
<1>1. IInv => TrailNeverContradicts
  <2> SUFFICES ASSUME IInv, NEW r \in Requests
               PROVE  /\ "issued" \in RowsOf(r) => answer[r] = "granted" /\ effect[r]
                      /\ "denied" \in RowsOf(r) => answer[r] = "refused"
    BY DEF TrailNeverContradicts
  <2>0. TypeOK /\ Staged(r) /\ Closed(r)
    BY DEF IInv
  <2>1. CASE answer[r] = "none"
    <3>1. trail[r] \in {<<>>, <<"authorized">>}
      BY <2>0, <2>1, ZenonT(90) DEF Staged, TypeOK, Labels, Early, Middle, Late
    <3> QED BY <3>1 DEF RowsOf
  <2>2. CASE answer[r] = "granted"
    <3>1. effect[r] /\ trail[r] \in {<<"authorized">>, <<"authorized", "issued">>}
      BY <2>0, <2>2 DEF Closed
    <3> QED BY <2>2, <3>1 DEF RowsOf
  <2>3. CASE answer[r] = "refused"
    <3>1. trail[r] \in {<<>>, <<"authorized">>, <<"denied">>, <<"authorized", "denied">>}
      BY <2>0, <2>3, ZenonT(90) DEF Closed
    <3> QED BY <2>3, <3>1 DEF RowsOf
  <2> QED BY <2>0, <2>1, <2>2, <2>3, ZenonT(90) DEF TypeOK
<1> QED BY <1>1, BrokerInvariance, PTL

(* Only requests the policy allowed are refused for their key or target.   *)
THEOREM NoFeedbackHolds == Spec => []NoFeedbackBeforePolicy
<1>1. IInv => NoFeedbackBeforePolicy
  <2> SUFFICES ASSUME IInv, NEW r \in Requests, gate[r] = "tail"
               PROVE  seen[r] # None
    BY DEF NoFeedbackBeforePolicy
  <2>1. /\ life[r] = Lifetime(req[r]) /\ ~Malformed(req[r]) /\ req[r] \in Inputs
        /\ seen[r] = PolicyMinutes(r)
    BY DEF IInv, Timed
  <2>2. PolicyMinutes(r) \in Nat
    BY <2>1, PolicyMinutesType
  <2> QED BY <2>1, <2>2 DEF None
<1> QED BY <1>1, BrokerInvariance, PTL

-----------------------------------------------------------------------------
(* AuditedIssue is implemented: a step of a pipeline is one of its steps   *)
(* or leaves its variables alone.                                          *)

Silent == UNCHANGED <<charged, trail, effect, answer, lost>>

(* The instance counts as this module does.                                *)
LEMMA SameCardinality ==
  ASSUME NEW S
  PROVE  Abstract!Cardinality(S) = Cardinality(S)
BY DEF Cardinality, Abstract!Cardinality

(* The limiter's step is an admission within the budget.                   *)
LEMMA AllowAdmits ==
  ASSUME IInv, NEW r \in Requests, Allow(r)
  PROVE  \E b \in Modes \X Windows : Abstract!Admit(r, b)
<1>0. TypeOK /\ Staged(r) /\ Counted
  BY DEF IInv
<1>1. PICK k \in Modes \X Windows : k = Counter(r)
  BY <1>0, CounterType, ZenonT(90) DEF Allow, Staged
<1>2. answer[r] = "none" /\ charged[r] = <<>> /\ trail[r] = <<>>
  BY <1>0 DEF Allow, Staged, Early
<1>3. count[k] < Limit /\ count[k] \in Nat
  BY <1>0, <1>1 DEF Allow, Increment, TypeOK
<1> DEFINE n == Cardinality({q \in Requests : charged[q] = k})
<1>4. IsFiniteSet({q \in Requests : charged[q] = k})
  BY BrokerPipelineAssumption, FS_Subset
<1>5. n \in Nat
  BY <1>4, FS_CardinalityType
<1>6. n <= count[k]
  BY <1>0 DEF Counted
<1> HIDE DEF n
<1>7. n < Limit
  BY <1>3, <1>5, <1>6, BrokerPipelineAssumption
<1>8. charged' = [charged EXCEPT ![r] = k] /\ UNCHANGED <<trail, effect, answer, lost>>
  BY <1>1 DEF Allow, Pass, result
<1>9. Abstract!Cardinality({q \in Requests : charged[q] = k}) < Limit
  BY <1>7, SameCardinality DEF n
<1>10. Abstract!Admit(r, k)
  BY <1>2, <1>8, <1>9, ZenonT(90) DEF Abstract!Admit
<1> QED BY <1>10

(* What each step of a pipeline is to AuditedIssue.                        *)
LEMMA ServeImplements ==
  ASSUME IInv, NEW r \in Requests, Serve(r)
  PROVE  \/ \E b \in Modes \X Windows : Abstract!Admit(r, b)
         \/ Abstract!Authorize(r) \/ Abstract!Take(r)
         \/ Abstract!Grant(r) \/ Abstract!Refuse(r)
         \/ Silent
<1>0. Staged(r)
  BY DEF IInv
<1>1. CASE Allow(r)
  BY <1>1, AllowAdmits
<1>2. CASE Authorized(r)
  <2>1. Abstract!Authorize(r)
    BY <1>0, <1>2, Trails, ZenonT(90)
    DEF Authorized, Recorded, Staged, Middle, Abstract!Authorize, limiter
  <2> QED BY <2>1
<1>3. CASE Issue(r)
  <2>1. Abstract!Take(r)
    BY <1>0, <1>3, ZenonT(90) DEF Issue, Staged, Late, Abstract!Take, limiter
  <2> QED BY <2>1
<1>4. CASE IssueFails(r)
  <2>1. CASE UNCHANGED effect
    BY <1>4, <2>1, ZenonT(90) DEF IssueFails, limiter, Silent
  <2>2. CASE effect' = [effect EXCEPT ![r] = TRUE]
    <3>1. Abstract!Take(r)
      BY <1>0, <1>4, <2>2 DEF IssueFails, Staged, Late, Abstract!Take, limiter
    <3> QED BY <3>1
  <2> QED BY <1>4, <2>1, <2>2, ZenonT(90) DEF IssueFails
<1>5. CASE Issued(r)
  <2>1. answer[r] = "none" /\ trail[r] = <<"authorized">> /\ effect[r]
    BY <1>0, <1>5 DEF Issued, Staged, Late
  <2>2. Abstract!Close(r, "issued")
    BY <1>5 DEF Issued, Record, Recorded, RecordFailed, Abstract!Close
  <2>3. Abstract!Grant(r)
    BY <1>5, <2>1, <2>2 DEF Issued, Respond, Abstract!Grant, limiter
  <2> QED BY <2>3, ZenonT(90)
<1>6. CASE Denied(r)
  <2>1. Abstract!Close(r, "denied")
    BY <1>6, ZenonT(90) DEF Denied, Record, Recorded, RecordFailed, Abstract!Close
  <2>2. Abstract!Refuse(r)
    BY <1>0, <1>6, <2>1 DEF Denied, Respond, Staged, Abstract!Refuse, limiter
  <2> QED BY <2>2
<1>7. CASE NewIDFails(r)
  <2>1. Abstract!Close(r, "denied")
    BY <1>7, ZenonT(90) DEF NewIDFails, Abstract!Close
  <2>2. Abstract!Refuse(r)
    BY <1>0, <1>7, <2>1, ZenonT(90) DEF NewIDFails, Respond, Staged, Abstract!Refuse, limiter
  <2> QED BY <2>2
<1>8. CASE AuthorizedFails(r)
  <2>1. answer[r] = "none" /\ trail[r] = <<>> /\ charged[r] # <<>>
    BY <1>0, <1>8, ZenonT(90) DEF AuthorizedFails, Staged, Middle
  <2>2. \/ Abstract!Close(r, "denied")
        \/ /\ trail' = [trail EXCEPT ![r] = <<"authorized">>]
           /\ lost' = [lost EXCEPT ![r] = TRUE]
    BY <1>8, <2>1, Trails, ZenonT(90) DEF AuthorizedFails, RecordFailed, Abstract!Close
  <2>3. Abstract!Refuse(r)
    BY <1>8, <2>1, <2>2, ZenonT(90) DEF AuthorizedFails, Respond, Abstract!Refuse, limiter
  <2> QED BY <2>3
<1>9. CASE \/ Receive(r) \/ HandlerDenies(r) \/ Dispatch(r) \/ TokenRejected(r)
           \/ TokenAccepted(r) \/ AllowFails(r) \/ ShapeRejected(r) \/ ShapeAccepted(r)
           \/ DeviceRejected(r) \/ DeviceResolved(r) \/ PolicyRejects(r)
           \/ PolicyAllows(r) \/ TailRejected(r) \/ TailAccepted(r)
  <2>1. Silent
    BY <1>9 DEF Receive, HandlerDenies, Dispatch, TokenRejected, TokenAccepted,
      AllowFails, ShapeRejected, ShapeAccepted, DeviceRejected, DeviceResolved,
      PolicyRejects, PolicyAllows, TailRejected, TailAccepted, Deny, Pass,
      limiter, result, Silent
  <2> QED BY <2>1, ZenonT(90)
<1> QED BY <1>1, <1>2, <1>3, <1>4, <1>5, <1>6, <1>7, <1>8, <1>9, ZenonT(90) DEF Serve

(* The three endpoints implement AuditedIssue, for every number of         *)
(* requests, limit and clock.                                              *)
THEOREM Refinement == Spec => Implements
<1>1. Init => Abstract!Init
  BY DEF Init, Abstract!Init
<1>2. IInv /\ [Next]_vars => [Abstract!Next]_(Abstract!vars)
  <2> SUFFICES ASSUME IInv, [Next]_vars
               PROVE  Abstract!Next \/ Silent
    BY DEF Abstract!vars, Silent
  <2>1. ASSUME NEW r \in Requests, Serve(r) PROVE Abstract!Next \/ Silent
    BY <2>1, ServeImplements, ZenonT(90) DEF Abstract!Next
  <2>2. CASE (\E r \in Requests : Disconnect(r)) \/ Tick \/ Finished \/ UNCHANGED vars
    BY <2>2 DEF Disconnect, Tick, Finished, vars, limiter, result, Silent
  <2> QED BY <2>1, <2>2 DEF Next
<1> QED BY <1>1, <1>2, BrokerInvariance, PTL DEF Spec, Implements, Abstract!Spec
=============================================================================
