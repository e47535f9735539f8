------------------------------- MODULE Timefix -------------------------------
(***************************************************************************)
(* Broken-clock recovery: `postern timefix` (pkg/cliapp) relays between    *)
(* the device's verifier, timefix-apply, which emits a nonce and waits for *)
(* a signed time, and the broker, which signs one for that nonce; the      *)
(* verifier then becomes timefix-set-clock, which sets the clock.          *)
(*                                                                         *)
(* A session is one ssh connection with its two ends.  The far end is      *)
(* always the verifier; the near end is the CLI, or an engineer who runs   *)
(* ssh by hand and pipes a time payload of their choice.  A nonce is 32    *)
(* random bytes, modelled by the session that drew it.                     *)
(***************************************************************************)
EXTENDS Integers, FiniteSets

CONSTANTS Sessions, Devices,
          Others,          \* the nonces of sessions elsewhere
          MinNow, MaxNow,  \* nowMinBound and nowMaxBound
          MaxTime          \* bound on the time that passes

ASSUME TimefixAssumption ==
  /\ MinNow \in Nat /\ MaxNow \in Nat /\ MaxTime \in Nat
  /\ IsFiniteSet(Sessions) /\ Others \cap Sessions = {}

VARIABLES now,      \* the broker's clock
          trusts,   \* devices whose CA file holds the broker's key
          issued,   \* every time payload the broker signed
          cli,      \* the near end of each session
          stdin,    \* what reached the verifier's stdin, and whether it ended
          device    \* the far end of each session

vars == <<now, trusts, issued, cli, stdin, device>>

Payloads == [serial : Devices, nonce : Sessions \cup Others, now : 0..MaxTime]

Never == -1

NearLabels == {"idle", "connect", "read", "fetch", "write", "wait", "reap",
               "ok", "failed"}

NearEnded == {"ok", "failed"}

FarLabels == {"none", "boot", "emit", "read", "exec", "done"}

\* The exit codes of timefix-apply and of timefix-set-clock, which replaces
\* it.  0 is success; the setter's 1 is for an argument count that timefix-
\* apply never passes, and 255 is ssh's own failure.
Codes == {0, 2, 3, 4, 5, 6, 255}

\* "whole" is the payload in cli.pay, "cut" a prefix of it, "other" some text
\* that is no time payload.
Data == {"none", "cut", "whole", "other"}

NoDevice == "none"

\* near end: the device asked for and the payload in hand, here none.
EmptyHanded(label) == [pc |-> label, byHand |-> FALSE, id |-> NoDevice, pay |-> {}]

NoNear == EmptyHanded("idle")

\* far end: drawn is when the nonce was drawn, set the time the clock got,
\* here never.
ClockUnset(label, code) ==
  [pc |-> label, at |-> NoDevice, drawn |-> Never, set |-> Never, code |-> code]

NoFar == ClockUnset("none", 255)

Init ==
  /\ now = 0
  /\ trusts \in SUBSET Devices
  /\ issued = {}
  /\ cli = [s \in Sessions |-> NoNear]
  /\ device = [s \in Sessions |-> NoFar]
  /\ stdin = [s \in Sessions |-> [data |-> "none", eof |-> FALSE]]

Near(s, label) == cli' = [cli EXCEPT ![s].pc = label]

Far(s, label) == device' = [device EXCEPT ![s].pc = label]

FarExits(s, code) == device' = [device EXCEPT ![s] = ClockUnset("done", code)]

\* An error return of the near end.
Abort(s) == Near(s, "failed")

\* Its return with nothing left at the far end to read what it delivered.
Return(s, label) == cli' = [cli EXCEPT ![s] = EmptyHanded(label)]

Eof(s) == stdin' = [stdin EXCEPT ![s] = [data |-> @.data, eof |-> TRUE]]

\* Mutant of Cleanup: the child is awaited with its stdin still open.
CleanupWaitsOnly(s) == Near(s, "reap") /\ UNCHANGED stdin

\* cleanup of defaultExecSSHTimefix: closes stdin, which ends the verifier's
\* read, and waits for ssh.
Cleanup(s) == Near(s, "reap") /\ Eof(s)
-----------------------------------------------------------------------------
\* runTimefix up to the ssh child: the timefix certificate is minted for
\* device id and written to a tempfile.
Mint(s, id, byHand) ==
  /\ cli[s].pc = "idle"
  /\ cli' = [cli EXCEPT ![s] =
       [pc |-> "connect", byHand |-> byHand, id |-> id, pay |-> {}]]
  /\ UNCHANGED <<now, trusts, issued, stdin, device>>

\* The mint, or a step of writing the tempfile, fails.
MintFails(s) ==
  /\ cli[s].pc = "idle"
  /\ Return(s, "failed")
  /\ UNCHANGED <<now, trusts, issued, stdin, device>>

\* sshd at the address (the stanza's or --ip) admits the certificate when its
\* principal is the device's own, and runs the verifier.
Connect(s) ==
  /\ cli[s].pc = "connect"
  /\ Near(s, "read")
  /\ device' = [device EXCEPT ![s].pc = "boot", ![s].at = cli[s].id]
  /\ UNCHANGED <<now, trusts, issued, stdin>>

\* ssh cannot start or reach the device, or sshd at the address refuses.
ConnectFails(s) ==
  /\ cli[s].pc = "connect"
  /\ Return(s, "failed")
  /\ UNCHANGED <<now, trusts, issued, stdin, device>>

\* The CLI has read the nonce line and the device-clock line.
ReadNonce(s) ==
  /\ cli[s].pc = "read"
  /\ device[s].pc = "read"
  /\ Near(s, "fetch")
  /\ UNCHANGED <<now, trusts, issued, stdin, device>>

\* ssh's output ends, or a line is not what it should be.
ReadFails(s) ==
  /\ cli[s].pc = "read"
  /\ device[s].pc \in {"read", "done"}
  /\ Cleanup(s)
  /\ UNCHANGED <<now, trusts, issued, device>>

\* IssueTimePayload takes the broker's time and signs it with the nonce and
\* the serial of the device the request names; the CLI names its own.
Fetch(s, id) ==
  LET p == [serial |-> id, nonce |-> s, now |-> now]
  IN /\ cli[s].pc = "fetch"
     /\ id = cli[s].id \/ cli[s].byHand
     /\ issued' = issued \cup {p}
     /\ cli' = [cli EXCEPT ![s].pc = "write", ![s].pay = {p}]
     /\ UNCHANGED <<now, trusts, stdin, device>>

\* By hand, a payload the broker signed before is as good as any.
Reuse(s) ==
  /\ cli[s].pc = "fetch"
  /\ cli[s].byHand
  /\ \E p \in issued : cli' = [cli EXCEPT ![s].pc = "write", ![s].pay = {p}]
  /\ UNCHANGED <<now, trusts, issued, stdin, device>>

\* The broker denies or cannot be reached: stdin stays untouched.
FetchFails(s) ==
  /\ cli[s].pc = "fetch"
  /\ Cleanup(s)
  /\ UNCHANGED <<now, trusts, issued, device>>

\* The payload is written and stdin closed.
Write(s) ==
  /\ cli[s].pc = "write"
  /\ \E d \in IF cli[s].byHand THEN {"whole", "other"} ELSE {"whole"} :
       stdin' = [stdin EXCEPT ![s] = [data |-> d, eof |-> TRUE]]
  /\ Near(s, "wait")
  /\ UNCHANGED <<now, trusts, issued, device>>

\* The write or the close fails, part or all of the payload delivered.
WriteFails(s) ==
  /\ cli[s].pc = "write"
  /\ \E d \in {"none", "cut", "whole"} :
       stdin' = [stdin EXCEPT ![s] = [data |-> d, eof |-> TRUE]]
  /\ Near(s, "reap")
  /\ UNCHANGED <<now, trusts, issued, device>>

\* ssh exits with the far end's code.
Wait(s) ==
  /\ cli[s].pc = "wait"
  /\ device[s].pc = "done"
  /\ Return(s, IF device[s].code = 0 THEN "ok" ELSE "failed")
  /\ UNCHANGED <<now, trusts, issued, stdin, device>>

\* The wait of cleanup ends; the error is returned whatever the exit code.
Reap(s) ==
  /\ cli[s].pc = "reap"
  /\ device[s].pc = "done"
  /\ Return(s, "failed")
  /\ UNCHANGED <<now, trusts, issued, stdin, device>>

\* The connection drops, or Ctrl-C ends ssh: the near end fails, and the far
\* end reads what was delivered, to its end.
Sever(s) ==
  /\ cli[s].pc \in {"read", "fetch", "write", "wait", "reap"}
  /\ Abort(s)
  /\ Eof(s)
  /\ UNCHANGED <<now, trusts, issued, device>>

\* SIGKILL of the near end.
Kill(s) ==
  /\ cli[s].pc \notin {"idle"} \cup NearEnded
  /\ Abort(s)
  /\ Eof(s)
  /\ UNCHANGED <<now, trusts, issued, device>>
-----------------------------------------------------------------------------
\* The verifier loads the CA key and the serial and draws its nonce.
Boot(s) ==
  /\ device[s].pc = "boot"
  /\ device' = [device EXCEPT ![s].pc = "emit", ![s].drawn = now]
  /\ UNCHANGED <<now, trusts, issued, cli, stdin>>

\* It emits the nonce and its clock.
Emit(s) ==
  /\ device[s].pc = "emit"
  /\ Far(s, "read")
  /\ UNCHANGED <<now, trusts, issued, cli, stdin>>

\* A file is missing or malformed, no entropy, or stdout is gone.
BadInput(s) ==
  /\ device[s].pc \in {"boot", "emit", "read"}
  /\ FarExits(s, 2)
  /\ UNCHANGED <<now, trusts, issued, cli, stdin>>

\* nowMinBound <= t < nowMaxBound, checked by the verifier and the setter.
InBounds(t) == MinNow <= t /\ t < MaxNow

\* Mutants of Verdicts: without the nonce check; with the claim failure
\* renumbered.
VerdictsNoNonce(s) ==
  IF stdin[s].data = "whole"
  THEN {IF device[s].at \notin trusts THEN 4
        ELSE IF p.serial = device[s].at /\ InBounds(p.now) THEN 0 ELSE 5 : p \in cli[s].pay}
  ELSE {2}

VerdictsRenumbered(s) ==
  IF stdin[s].data = "whole"
  THEN {IF device[s].at \notin trusts THEN 4
        ELSE IF p.serial = device[s].at /\ p.nonce = s /\ InBounds(p.now) THEN 0 ELSE 1 :
          p \in cli[s].pay}
  ELSE {2}

\* The codes verify may end with on what stdin delivered: the signature is
\* checked before the claims, and aud and device_serial (the same serial),
\* the nonce and the bounds make one failure class.
Verdicts(s) ==
  CASE stdin[s].data = "none" -> {2}
    [] stdin[s].data = "cut" -> {2, 4}
    [] stdin[s].data = "other" -> {2, 3, 4}
    [] stdin[s].data = "whole" ->
         {IF device[s].at \notin trusts THEN 4
          ELSE IF p.serial = device[s].at /\ p.nonce = s /\ InBounds(p.now) THEN 0
          ELSE 5 : p \in cli[s].pay}

\* The verifier reads stdin to its end and judges it.
Verify(s) ==
  /\ device[s].pc = "read"
  /\ stdin[s].eof
  /\ \E code \in Verdicts(s) :
       IF code = 0 THEN Far(s, "exec") ELSE FarExits(s, code)
  /\ stdin' = [stdin EXCEPT ![s].data = "none"]
  /\ UNCHANGED <<now, trusts, issued, cli>>

ExecFails(s) ==
  /\ device[s].pc = "exec"
  /\ FarExits(s, 6)
  /\ UNCHANGED <<now, trusts, issued, cli, stdin>>

\* Mutant of SetFails: the failure is tolerated, as the RTC's is.
SetFailsQuietly(s) ==
  /\ device[s].pc = "exec"
  /\ FarExits(s, 0)
  /\ UNCHANGED <<now, trusts, issued, cli, stdin>>

\* clock_settime fails.
SetFails(s) ==
  /\ device[s].pc = "exec"
  /\ FarExits(s, 3)
  /\ UNCHANGED <<now, trusts, issued, cli, stdin>>

\* timefix-set-clock checks the bounds again and sets the kernel clock; the
\* RTC write that follows may fail and changes nothing here.
SetClock(s) ==
  /\ device[s].pc = "exec"
  /\ \E p \in cli[s].pay :
       IF InBounds(p.now)
       THEN device' = [device EXCEPT ![s].pc = "done", ![s].code = 0, ![s].set = p.now]
       ELSE FarExits(s, 2)
  /\ UNCHANGED <<now, trusts, issued, cli, stdin>>

\* A session elsewhere obtains a payload for its own nonce.
Elsewhere ==
  /\ \E id \in Devices, n \in Others :
       /\ \A p \in issued : p.nonce # n
       /\ issued' = issued \cup {[serial |-> id, nonce |-> n, now |-> now]}
  /\ UNCHANGED <<now, trusts, cli, stdin, device>>

Tick ==
  /\ now < MaxTime
  /\ now' = now + 1
  /\ UNCHANGED <<trusts, issued, cli, stdin, device>>
-----------------------------------------------------------------------------
NearStep(s) ==
  \/ Connect(s) \/ ConnectFails(s) \/ ReadNonce(s) \/ ReadFails(s)
  \/ (\E id \in Devices : Fetch(s, id)) \/ Reuse(s) \/ FetchFails(s)
  \/ Write(s) \/ WriteFails(s) \/ Wait(s) \/ Reap(s)

FarStep(s) ==
  \/ Boot(s) \/ Emit(s) \/ BadInput(s) \/ Verify(s) \/ ExecFails(s)
  \/ SetFails(s) \/ SetClock(s)

Next ==
  \/ \E s \in Sessions :
       \/ \E id \in Devices, byHand \in BOOLEAN : Mint(s, id, byHand)
       \/ MintFails(s) \/ NearStep(s) \/ Sever(s) \/ Kill(s) \/ FarStep(s)
  \/ Elsewhere
  \/ Tick

\* Both programs run, the broker answers or the request times out, and ssh
\* reports a connection that ended.  BadInput, Sever and Kill are never owed.
Scheduling ==
  \A s \in Sessions :
    WF_vars(NearStep(s)) /\ WF_vars(Boot(s) \/ Emit(s) \/ Verify(s) \/ SetClock(s))

Spec == Init /\ [][Next]_vars /\ Scheduling
-----------------------------------------------------------------------------
\* The types; the exit codes are those the two device programs document, and
\* the payload in hand is one the broker signed.
TypeOK ==
  /\ now \in 0..MaxTime
  /\ trusts \subseteq Devices
  /\ issued \subseteq Payloads
  /\ cli \in [Sessions -> [pc : NearLabels, byHand : BOOLEAN,
                           id : Devices \cup {NoDevice},
                           pay : {{}} \cup {{p} : p \in issued}]]
  /\ stdin \in [Sessions -> [data : Data, eof : BOOLEAN]]
  /\ device \in [Sessions -> [pc : FarLabels, at : Devices \cup {NoDevice},
                              drawn : {Never} \cup 0..MaxTime,
                              set : {Never} \cup 0..MaxTime, code : Codes]]

\* verify and IssueTimePayload: a session sets the device's clock only to a
\* time the broker took after that session began and before the clock was
\* set, inside the bounds, and issued for this very device, so that its
\* policy and audit trail saw it; whatever was piped in and however late.
AppliedTimeFresh ==
  \A s \in Sessions : device[s].set # Never =>
    /\ device[s].drawn <= device[s].set
    /\ device[s].set <= now
    /\ InBounds(device[s].set)
    /\ \E p \in issued : p.serial = device[s].at /\ p.now = device[s].set

\* runTimefix: "complete" is reported only when this session set the
\* device's clock, not when the verifier or the setter gave up.
SuccessMeansSet ==
  \A s \in Sessions : cli[s].pc = "ok" => device[s].set # Never

\* defaultExecSSHTimefix and run: no end waits for the other for ever; every
\* error path of the near end closes the stdin the far end reads.
BothEndsReturn ==
  \A s \in Sessions : cli[s].pc # "idle" ~>
    (cli[s].pc \in NearEnded /\ device[s].pc \in {"none", "done"})
=============================================================================
