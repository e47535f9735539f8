---------------------------- MODULE BrokerPipeline ----------------------------
(***************************************************************************)
(* The broker's three issue endpoints (/ssh/cert, /ssh/time-payload and    *)
(* /ssh/tunnel), served concurrently: the HTTP handler, the engineer and   *)
(* device preambles they share, the fail-closed audit row written before   *)
(* the signature or the AWS call, and the best-effort row after it.        *)
(*                                                                         *)
(* Every call that leaves the process is a step of its own and may fail.   *)
(* Calls made under the request's context fail once the client is gone;    *)
(* audit writes are detached from it.  A reply may be lost after the       *)
(* service has acted on the call.                                          *)
(***************************************************************************)
EXTENDS Integers, Sequences, FiniteSets

CONSTANTS
  Requests,        \* requests the broker serves
  MaxWindow,       \* rate-limit windows the clock runs through are 0..MaxWindow
  Limit,           \* admissions per (engineer, mode, window)
  Classes,         \* principal classes the token verifier derives
  CertMinutes,     \* lifetimes /ssh/cert requests ask for, in minutes (int32)
  TunnelMinutes,   \* lifetimes /ssh/tunnel requests ask for, in minutes
  Minute,          \* time.Minute in the units of time.Duration
  MaxDuration,     \* largest time.Duration; arithmetic wraps beyond it
  CertCeiling,     \* class -> operator-certificate ceiling, a time.Duration
  MaxTunnel,       \* MaxTunnelLifetimeMinutes
  DefaultTunnel,   \* the issuer's defaultMaxLifetime, in minutes
  TargetFromRegistry  \* tunneling.target_from_registry

ASSUME BrokerPipelineAssumption ==
  /\ IsFiniteSet(Requests)
  /\ MaxWindow \in Nat
  /\ Limit \in Nat \ {0}
  /\ CertMinutes \subseteq Int /\ TunnelMinutes \subseteq Int
  /\ Minute \in Nat \ {0} /\ MaxDuration \in Nat /\ Minute <= MaxDuration
  /\ CertCeiling \in [Classes -> 1..MaxDuration]
  /\ MaxTunnel \in Nat \ {0} /\ DefaultTunnel \in 1..MaxTunnel
  /\ TargetFromRegistry \in BOOLEAN

VARIABLES
  window,    \* the rate limiter's current window, now.Truncate(l.window)
  count,     \* the DynamoDB counters: <<mode, window>> -> admissions
  pc,        \* request -> the step it is at
  req,       \* request -> what the client asked for
  gone,      \* request -> is its context cancelled (the client hung up)
  life,      \* request -> resolved lifetime: Duration (cert), minutes (tunnel)
  seen,      \* request -> lifetime the policy allowed, in minutes
  gate,      \* request -> the gate that refused it
  trail,     \* request -> its audit rows, in order
  effect,    \* request -> has its credential been signed or its tunnel opened
  answer,    \* request -> the HTTP response
  charged,   \* request -> the counter it was admitted against
  lost       \* request -> has an audit write, or the ID it needs, failed

limiter == <<window, count, charged>>
client == <<req, gone>>
resolved == <<life, seen>>
result == <<trail, effect, answer, lost>>
vars == <<pc, gate, limiter, client, resolved, result>>

-----------------------------------------------------------------------------
Modes == {"operator", "timefix", "tunnel"}
Windows == 0..MaxWindow
None == -1

(* The gate a request is refused at stands for its denied_reason literals. *)
Gates == {"none", "handler", "token", "rate", "shape", "device", "policy",
          "tail", "backend"}
Labels == {"idle", "handler", "verify", "limit", "shape", "device", "policy",
           "tail", "authorize", "effect", "issued", "deny", "done"}
Rows == {"authorized", "issued", "denied"}

(* A request: the endpoint, the mode that scopes Policy, the class its      *)
(* caller's token gives (it matters to operator certificates only) and the  *)
(* lifetime asked for.  "other" is a principal_type /ssh/cert does not know. *)
Inputs ==
  [endpoint : {"cert"}, mode : {"operator"}, class : Classes, minutes : CertMinutes]
    \cup [endpoint : {"cert"}, mode : {"timefix", "other"}, class : {"none"}, minutes : {0}]
    \cup [endpoint : {"payload"}, mode : {"timefix"}, class : {"none"}, minutes : {0}]
    \cup [endpoint : {"tunnel"}, mode : {"tunnel"}, class : {"none"}, minutes : TunnelMinutes]

NoInput == [endpoint |-> "none", mode |-> "none", class |-> "none", minutes |-> 0]

(* The mode verifyEngineer charges: /ssh/cert passes ModeOperator whatever *)
(* the principal type.                                                     *)
LimiterMode(in) == IF in.endpoint = "cert" THEN "operator" ELSE in.mode

(* int64 arithmetic of time.Duration.                                      *)
Wrap(n) == ((n + MaxDuration + 1) % (2 * MaxDuration + 2)) - (MaxDuration + 1)

(* The operator certificate's lifetime: the class ceiling, unless a shorter *)
(* positive lifetime was asked for.                                         *)
OperatorTTL(in) ==
  LET requested == Wrap(in.minutes * Minute)
      ceiling == CertCeiling[in.class]
  IN  IF requested > 0 /\ requested < ceiling THEN requested ELSE ceiling

(* The tunnel's lifetime: the default when none was asked for.             *)
TunnelLifetime(in) == IF in.minutes = 0 THEN DefaultTunnel ELSE in.minutes

(* The lifetime a request resolves to; the timefix credentials have a fixed *)
(* one.                                                                     *)
Lifetime(in) ==
  CASE in.mode = "operator" -> OperatorTTL(in)
    [] in.mode = "tunnel" -> TunnelLifetime(in)
    [] OTHER -> None

(* Mutant: the policy is told the lifetime asked for, zero when omitted.   *)
PolicyMinutesRaw(r) == req[r].minutes

(* The lifetime put in the policy context; the timefix pipelines put none. *)
PolicyMinutes(r) ==
  CASE req[r].mode = "operator" -> life[r] \div Minute
    [] req[r].mode = "tunnel" -> life[r]
    [] OTHER -> 0

Goto(r, label) == pc' = [pc EXCEPT ![r] = label]

Init ==
  /\ window = 0
  /\ count = [k \in Modes \X Windows |-> 0]
  /\ pc = [r \in Requests |-> "idle"]
  /\ req = [r \in Requests |-> NoInput]
  /\ gone = [r \in Requests |-> FALSE]
  /\ life = [r \in Requests |-> None]
  /\ seen = [r \in Requests |-> None]
  /\ gate = [r \in Requests |-> "none"]
  /\ trail = [r \in Requests |-> <<>>]
  /\ effect = [r \in Requests |-> FALSE]
  /\ answer = [r \in Requests |-> "none"]
  /\ charged = [r \in Requests |-> <<>>]
  /\ lost = [r \in Requests |-> FALSE]

-----------------------------------------------------------------------------
(* Outcomes of a step.                                                     *)

(* The check at hand passes, and the pipeline goes on at label.            *)
Pass(r, label) ==
  /\ Goto(r, label)
  /\ UNCHANGED <<gate, client, result>>

(* The pipeline refuses the request at gate g; the denied row is next.     *)
Deny(r, g) ==
  /\ gate' = [gate EXCEPT ![r] = g]
  /\ Goto(r, "deny")
  /\ UNCHANGED <<client, resolved, result>>

(* Audit.Record succeeds, or returns an error with the row lost or, when   *)
(* only the reply was lost or came too late, written.                      *)
Recorded(r, row) ==
  /\ trail' = [trail EXCEPT ![r] = Append(@, row)]
  /\ UNCHANGED lost

RecordFailed(r, row) ==
  /\ \/ trail' = [trail EXCEPT ![r] = Append(@, row)]
     \/ UNCHANGED trail
  /\ lost' = [lost EXCEPT ![r] = TRUE]

(* Mutant: the audit write keeps the request's context.                    *)
RecordAttached(r, row) ==
  IF gone[r] THEN UNCHANGED <<trail, lost>>
             ELSE Recorded(r, row) \/ RecordFailed(r, row)

(* Its context is detached from the request's, so that the client's        *)
(* disconnecting is no reason for it to fail.                              *)
Record(r, row) == Recorded(r, row) \/ RecordFailed(r, row)

(* A call under the request's context reaches its service.                 *)
Reaches(r) == ~gone[r]

(* The response ends the request, and with it its context.                 *)
Respond(r, status) ==
  /\ answer' = [answer EXCEPT ![r] = status]
  /\ gone' = [gone EXCEPT ![r] = TRUE]
  /\ Goto(r, "done")

-----------------------------------------------------------------------------
(* handleIssueEndpoint up to the dispatch.                                 *)
Receive(r) ==
  /\ pc[r] = "idle"
  /\ \E in \in Inputs : req' = [req EXCEPT ![r] = in]
  /\ Goto(r, "handler")
  /\ UNCHANGED <<gate, gone, limiter, resolved, result>>

(* No bearer token, or a body that does not decode.                        *)
HandlerDenies(r) ==
  /\ pc[r] = "handler"
  /\ Deny(r, "handler")
  /\ UNCHANGED limiter

Dispatch(r) ==
  /\ pc[r] = "handler"
  /\ Pass(r, "verify")
  /\ UNCHANGED <<limiter, resolved>>

-----------------------------------------------------------------------------
(* verifyEngineer.                                                         *)

(* NewID fails: the error is returned as it is, and no row is recorded.    *)
NewIDFails(r) ==
  /\ pc[r] = "verify"
  /\ lost' = [lost EXCEPT ![r] = TRUE]
  /\ Respond(r, "refused")
  /\ UNCHANGED <<gate, req, limiter, resolved, trail, effect>>

TokenRejected(r) ==
  /\ pc[r] = "verify"
  /\ Deny(r, "token")
  /\ UNCHANGED limiter

TokenAccepted(r) ==
  /\ pc[r] = "verify"
  /\ Pass(r, "limit")
  /\ UNCHANGED <<limiter, resolved>>

(* The counter RateLimiter.Allow updates: the mode's, in the window the    *)
(* limiter's own clock is in.                                              *)
Counter(r) == <<LimiterMode(req[r]), window>>

(* Mutants: the limit is off by one; the check does not count.             *)
IncrementPastLimit(k) ==
  /\ count[k] <= Limit
  /\ count' = [count EXCEPT ![k] = @ + 1]

IncrementUncounted(k) ==
  /\ count[k] < Limit
  /\ UNCHANGED count

(* The conditional UpdateItem, atomic in DynamoDB.                         *)
Increment(k) ==
  /\ count[k] < Limit
  /\ count' = [count EXCEPT ![k] = @ + 1]

Allow(r) ==
  /\ pc[r] = "limit"
  /\ Reaches(r)
  /\ Increment(Counter(r))
  /\ charged' = [charged EXCEPT ![r] = Counter(r)]
  /\ Pass(r, "shape")
  /\ UNCHANGED <<window, resolved>>

(* The condition fails, or the call does; in the latter case the counter   *)
(* may have been incremented all the same.                                 *)
AllowFails(r) ==
  /\ pc[r] = "limit"
  /\ UNCHANGED count \/ (Reaches(r) /\ Increment(Counter(r)))
  /\ Deny(r, "rate")
  /\ UNCHANGED <<window, charged>>

-----------------------------------------------------------------------------
(* What each endpoint checks between the two preambles.                    *)

(* Requests the endpoint refuses for what they ask: an unknown principal   *)
(* type, a negative lifetime, a tunnel lifetime above the AWS maximum.     *)
Malformed(in) ==
  \/ in.mode = "other"
  \/ in.mode = "operator" /\ in.minutes < 0
  \/ in.mode = "tunnel" /\ (in.minutes < 0 \/ in.minutes > MaxTunnel)

(* A time-payload request may also be refused for its nonce.               *)
ShapeRejected(r) ==
  /\ pc[r] = "shape"
  /\ Malformed(req[r]) \/ req[r].endpoint = "payload"
  /\ Deny(r, "shape")
  /\ UNCHANGED limiter

ShapeAccepted(r) ==
  /\ pc[r] = "shape"
  /\ ~Malformed(req[r])
  /\ life' = [life EXCEPT ![r] = Lifetime(req[r])]
  /\ Pass(r, "device")
  /\ UNCHANGED <<limiter, seen>>

-----------------------------------------------------------------------------
(* resolveDevice.                                                          *)

(* No device_id, a registry error or an empty serial.                      *)
DeviceRejected(r) ==
  /\ pc[r] = "device"
  /\ Deny(r, "device")
  /\ UNCHANGED limiter

(* Mutant: the endpoint's own checks come before the policy.               *)
DeviceResolvedTailFirst(r) ==
  /\ pc[r] = "device"
  /\ Reaches(r)
  /\ Pass(r, "tail")
  /\ UNCHANGED <<limiter, resolved>>

DeviceResolved(r) ==
  /\ pc[r] = "device"
  /\ Reaches(r)
  /\ Pass(r, "policy")
  /\ UNCHANGED <<limiter, resolved>>

PolicyRejects(r) ==
  /\ pc[r] = "policy"
  /\ Deny(r, "policy")
  /\ UNCHANGED limiter

PolicyAllows(r) ==
  /\ pc[r] = "policy"
  /\ Reaches(r)
  /\ seen' = [seen EXCEPT ![r] = PolicyMinutes(r)]
  /\ Pass(r, "tail")
  /\ UNCHANGED <<limiter, life>>

-----------------------------------------------------------------------------
(* What each endpoint checks once the policy has allowed the request: the  *)
(* public key, or the tunnel target the device record names.               *)
TailRejected(r) ==
  /\ pc[r] = "tail"
  /\ \/ req[r].endpoint = "cert"
     \/ req[r].endpoint = "tunnel" /\ TargetFromRegistry
  /\ Deny(r, "tail")
  /\ UNCHANGED limiter

(* Mutant: an endpoint forgets recordAuthorized.                           *)
TailAcceptedUnaudited(r) ==
  /\ pc[r] = "tail"
  /\ Pass(r, "effect")
  /\ UNCHANGED <<limiter, resolved>>

TailAccepted(r) ==
  /\ pc[r] = "tail"
  /\ Pass(r, "authorize")
  /\ UNCHANGED <<limiter, resolved>>

-----------------------------------------------------------------------------
(* recordAuthorized: the row is written, or the request fails closed.      *)
Authorized(r) ==
  /\ pc[r] = "authorize"
  /\ Recorded(r, "authorized")
  /\ Goto(r, "effect")
  /\ UNCHANGED <<gate, client, limiter, resolved, effect, answer>>

AuthorizedFails(r) ==
  /\ pc[r] = "authorize"
  /\ RecordFailed(r, "authorized")
  /\ Respond(r, "refused")
  /\ UNCHANGED <<gate, req, limiter, resolved, effect>>

(* SignCert, the JWS signature or OpenTunnel.                              *)
Issue(r) ==
  /\ pc[r] = "effect"
  /\ Reaches(r)
  /\ effect' = [effect EXCEPT ![r] = TRUE]
  /\ Goto(r, "issued")
  /\ UNCHANGED <<gate, client, limiter, resolved, trail, answer, lost>>

(* The call fails.  A tunnel may be open all the same; a signature that    *)
(* did not come back is no certificate.                                    *)
IssueFails(r) ==
  /\ pc[r] = "effect"
  /\ \/ UNCHANGED effect
     \/ /\ req[r].endpoint = "tunnel"
        /\ Reaches(r)
        /\ effect' = [effect EXCEPT ![r] = TRUE]
  /\ gate' = [gate EXCEPT ![r] = "backend"]
  /\ Goto(r, "deny")
  /\ UNCHANGED <<client, limiter, resolved, trail, answer, lost>>

(* Mutant: a failed issued row fails the request.                          *)
IssuedStrict(r) ==
  /\ pc[r] = "issued"
  /\ \/ Recorded(r, "issued") /\ Respond(r, "granted") /\ UNCHANGED gate
     \/ /\ RecordFailed(r, "issued")
        /\ gate' = [gate EXCEPT ![r] = "backend"]
        /\ Goto(r, "deny")
        /\ UNCHANGED <<answer, gone>>
  /\ UNCHANGED <<req, limiter, resolved, effect>>

(* The issued row is best effort: the response is 200 either way.  The     *)
(* handler's check for an empty result never fires: a marshalled           *)
(* certificate or payload is never empty, and the tunnel opener rejects an *)
(* answer without id or token, which is IssueFails.                        *)
Issued(r) ==
  /\ pc[r] = "issued"
  /\ Record(r, "issued")
  /\ Respond(r, "granted")
  /\ UNCHANGED <<gate, req, limiter, resolved, effect>>

(* So is the denied row of every refusal (recordEndpointDenial and         *)
(* recordEndpointHandlerDenial).                                           *)
Denied(r) ==
  /\ pc[r] = "deny"
  /\ Record(r, "denied")
  /\ Respond(r, "refused")
  /\ UNCHANGED <<gate, req, limiter, resolved, effect>>

-----------------------------------------------------------------------------
(* The environment: a client hangs up, the limiter's window moves on.      *)
Disconnect(r) ==
  /\ pc[r] \notin {"idle", "done"}
  /\ ~gone[r]
  /\ gone' = [gone EXCEPT ![r] = TRUE]
  /\ UNCHANGED <<pc, gate, req, limiter, resolved, result>>

Tick ==
  /\ window < MaxWindow
  /\ window' = window + 1
  /\ UNCHANGED <<pc, gate, count, charged, client, resolved, result>>

Finished ==
  /\ \A r \in Requests : pc[r] = "done"
  /\ UNCHANGED vars

Serve(r) ==
  \/ Receive(r) \/ HandlerDenies(r) \/ Dispatch(r)
  \/ NewIDFails(r) \/ TokenRejected(r) \/ TokenAccepted(r)
  \/ Allow(r) \/ AllowFails(r)
  \/ ShapeRejected(r) \/ ShapeAccepted(r)
  \/ DeviceRejected(r) \/ DeviceResolved(r)
  \/ PolicyRejects(r) \/ PolicyAllows(r)
  \/ TailRejected(r) \/ TailAccepted(r)
  \/ Authorized(r) \/ AuthorizedFails(r)
  \/ Issue(r) \/ IssueFails(r)
  \/ Issued(r) \/ Denied(r)

Next ==
  \/ \E r \in Requests : Serve(r) \/ Disconnect(r)
  \/ Tick
  \/ Finished

Spec == Init /\ [][Next]_vars

-----------------------------------------------------------------------------
RowsOf(r) == {trail[r][i] : i \in DOMAIN trail[r]}

(* The shape of the state; a counter never passes the limit.               *)
TypeOK ==
  /\ window \in Windows
  /\ count \in [Modes \X Windows -> 0..Limit]
  /\ pc \in [Requests -> Labels]
  /\ req \in [Requests -> Inputs \cup {NoInput}]
  /\ gone \in [Requests -> BOOLEAN]
  /\ life \in [Requests -> Int]
  /\ seen \in [Requests -> Int]
  /\ gate \in [Requests -> Gates]
  /\ trail \in [Requests -> Seq(Rows)]
  /\ effect \in [Requests -> BOOLEAN]
  /\ answer \in [Requests -> {"none", "granted", "refused"}]
  /\ charged \in [Requests -> (Modes \X Windows) \cup {<<>>}]
  /\ lost \in [Requests -> BOOLEAN]

(* recordAuthorized fails closed: whatever is lost on the way, nothing is  *)
(* signed and no tunnel is open without the authorized row in the trail,   *)
(* and the client is given a credential only if there is one.              *)
FailClosed ==
  \A r \in Requests :
    /\ effect[r] => trail[r] # <<>> /\ Head(trail[r]) = "authorized"
    /\ answer[r] = "granted" => effect[r]

(* The conditional update bounds what concurrent requests are let through  *)
(* in a window of a mode, replies that are lost included.                  *)
BudgetHeld ==
  \A k \in Modes \X Windows :
    Cardinality({r \in Requests : charged[r] = k}) <= Limit

(* The policy allowed the lifetime that is issued: the minutes it was told *)
(* are those of the certificate, rounded down, and of the tunnel, also     *)
(* when the client asked for none.  Lifetimes are positive and never       *)
(* exceed the ceiling of the class, the AWS maximum or, when one was       *)
(* given, what the client asked for, although the multiplication by        *)
(* time.Minute may wrap around.                                            *)
LifetimeAllowed ==
  \A r \in Requests : effect[r] /\ req[r].mode \in {"operator", "tunnel"} =>
    LET unit == IF req[r].mode = "operator" THEN Minute ELSE 1
        ceiling == IF req[r].mode = "operator" THEN CertCeiling[req[r].class] ELSE MaxTunnel
    IN  /\ life[r] \in (seen[r] * unit)..(seen[r] * unit + unit - 1)
        /\ life[r] \in 1..ceiling
        /\ req[r].minutes > 0 => life[r] <= req[r].minutes * unit

(* Even with audit writes lost, a trail never says issued of a request     *)
(* that was refused or denied of one that was granted, so that operators   *)
(* can reconcile authorized and issued rows by jti.                        *)
TrailNeverContradicts ==
  \A r \in Requests :
    /\ "issued" \in RowsOf(r) => answer[r] = "granted" /\ effect[r]
    /\ "denied" \in RowsOf(r) => answer[r] = "refused"

(* Public-key and tunnel-target checks run after Policy: a request that is *)
(* refused by them is one the policy allowed.                              *)
NoFeedbackBeforePolicy ==
  \A r \in Requests : gate[r] = "tail" => seen[r] # None

(* The three pipelines implement AuditedIssue: whatever fails or is lost,   *)
(* the effect is taken within the budget and behind the authorized row,     *)
(* once, and the answer leaves its one outcome row, which a client that     *)
(* hangs up cannot suppress.                                                *)
Abstract == INSTANCE AuditedIssue WITH Budgets <- Modes \X Windows
Implements == Abstract!Spec

-----------------------------------------------------------------------------
(* What comments say of the pipelines that their code does not do.         *)

(* sshcert.go: a request above the ceiling is clamped down to it.          *)
ClampedToCeiling ==
  \A r \in Requests : effect[r] /\ req[r].mode = "operator" =>
    LET ceiling == CertCeiling[req[r].class]
    IN  req[r].minutes * Minute > ceiling => life[r] = ceiling
=============================================================================
