---------------------------- MODULE TimefixProofs ----------------------------
(***************************************************************************)
(* What broken-clock recovery guarantees for any number of sessions and    *)
(* devices, any bounds and whatever is piped in by hand.                   *)
(***************************************************************************)
EXTENDS Timefix, TLAPS

\* How long a solver may take on one step.
USE SMTT(60)

(* The program points of the near end before it fetches a payload, and     *)
(* once the verifier's stdin may have ended.                               *)
BeforeFetch == {"idle", "connect", "read", "failed"}
AfterWrite == {"wait", "reap", "ok", "failed"}

(* A payload carries no time the broker's clock has not reached.           *)
IssuedInv == \A p \in issued : p.now <= now

(* The nonce of a session is in no payload before the verifier has emitted *)
(* it, so every payload that carries it was signed after it was drawn.     *)
NonceInv(s) ==
  /\ cli[s].pc \in {"idle", "connect"} => device[s] = NoFar
  /\ device[s].pc \in {"none", "boot", "emit"} =>
       cli[s].pc \in BeforeFetch /\ \A p \in issued : p.nonce # s
  /\ device[s].pc \in {"emit", "read", "exec"} =>
       /\ device[s].drawn \in 0..now
       /\ \A p \in issued : p.nonce = s => device[s].drawn <= p.now

(* The setter runs on the payload that was verified: the near end can      *)
(* change neither it nor what was delivered once stdin has ended.          *)
HandoverInv(s) ==
  /\ stdin[s].eof => cli[s].pc \in AfterWrite
  /\ device[s].pc = "exec" =>
       /\ stdin[s].eof /\ cli[s].pc # "ok"
       /\ \E p \in issued :
            /\ cli[s].pay = {p}
            /\ p.serial = device[s].at /\ p.nonce = s /\ InBounds(p.now)

(* A clock that was set was set by a far end that succeeded, and only such *)
(* a far end reports success.                                              *)
OutcomeInv(s) ==
  /\ device[s].set # Never => device[s].pc = "done"
  /\ device[s].code = 0 => device[s].set # Never
  /\ cli[s].pc = "ok" => device[s].set # Never

AppliedInv(s) ==
  device[s].set # Never =>
    /\ device[s].drawn <= device[s].set
    /\ device[s].set <= now
    /\ InBounds(device[s].set)
    /\ \E p \in issued : p.serial = device[s].at /\ p.now = device[s].set

SessionInv(s) == NonceInv(s) /\ HandoverInv(s) /\ OutcomeInv(s) /\ AppliedInv(s)

TimefixInv == TypeOK /\ IssuedInv /\ \A s \in Sessions : SessionInv(s)
-----------------------------------------------------------------------------
(* The parts of the types, and what the operators that assign do.          *)

CliType ==
  [Sessions -> [pc : NearLabels, byHand : BOOLEAN, id : Devices \cup {NoDevice},
                pay : {{}} \cup {{p} : p \in issued}]]

StdinType == [Sessions -> [data : Data, eof : BOOLEAN]]

DeviceType ==
  [Sessions -> [pc : FarLabels, at : Devices \cup {NoDevice},
                drawn : {Never} \cup 0..MaxTime,
                set : {Never} \cup 0..MaxTime, code : Codes]]

(* The type invariant, one variable at a time.                             *)
LEMMA TypesAre ==
    TypeOK <=> /\ now \in 0..MaxTime /\ trusts \subseteq Devices /\ issued \subseteq Payloads
               /\ cli \in CliType /\ stdin \in StdinType /\ device \in DeviceType
BY Zenon DEF TypeOK, CliType, StdinType, DeviceType

(* And that of the next state.                                             *)
LEMMA TypesAreNext ==
    ASSUME now' \in 0..MaxTime, trusts' \subseteq Devices, issued' \subseteq Payloads,
           cli' \in CliType', stdin' \in StdinType, device' \in DeviceType
    PROVE  TypeOK'
BY Zenon DEF TypeOK, CliType, StdinType, DeviceType

(* The near end moves on and keeps what it has in hand.                    *)
LEMMA NearIs ==
    ASSUME cli \in CliType, NEW s \in Sessions, NEW label \in NearLabels, Near(s, label),
           UNCHANGED issued
    PROVE  /\ cli' \in CliType'
           /\ cli'[s].pc = label /\ cli'[s].pay = cli[s].pay /\ cli'[s].id = cli[s].id
           /\ \A r \in Sessions \ {s} : cli'[r] = cli[r]
<1> HIDE DEF NearLabels, NoDevice
<1> QED
  BY DEF Near, CliType

(* It returns and forgets the payload.                                     *)
LEMMA ReturnIs ==
    ASSUME cli \in CliType, NEW s \in Sessions, NEW label \in NearLabels, Return(s, label),
           UNCHANGED issued
    PROVE  /\ cli' \in CliType'
           /\ cli'[s].pc = label
           /\ \A r \in Sessions \ {s} : cli'[r] = cli[r]
<1> HIDE DEF NearLabels, NoDevice
<1>1. EmptyHanded(label) \in [pc : NearLabels, byHand : BOOLEAN, id : Devices \cup {NoDevice},
                             pay : {{}} \cup {{p} : p \in issued'}]
  BY DEF EmptyHanded
<1> QED
  BY <1>1 DEF CliType, Return, EmptyHanded

(* Stdin ends with what was delivered so far, or with what is written.     *)
LEMMA EofIs ==
    ASSUME stdin \in StdinType, NEW s \in Sessions,
           Eof(s) \/ \E d \in Data : stdin' = [stdin EXCEPT ![s] = [data |-> d, eof |-> TRUE]]
    PROVE  /\ stdin' \in StdinType /\ stdin'[s].eof
           /\ \A r \in Sessions \ {s} : stdin'[r] = stdin[r]
<1>1. PICK d \in Data : stdin' = [stdin EXCEPT ![s] = [data |-> d, eof |-> TRUE]]
  <2> HIDE DEF Data
  <2>1. stdin[s].data \in Data
    BY DEF StdinType
  <2> QED
    BY <2>1 DEF Eof
<1> HIDE DEF Data
<1> QED
  BY <1>1 DEF StdinType

(* The far end moves on.                                                   *)
LEMMA FarIs ==
    ASSUME device \in DeviceType, NEW s \in Sessions, NEW label \in FarLabels, Far(s, label)
    PROVE  /\ device' \in DeviceType
           /\ device'[s].pc = label /\ device'[s].at = device[s].at
           /\ device'[s].drawn = device[s].drawn /\ device'[s].set = device[s].set
           /\ device'[s].code = device[s].code
           /\ \A r \in Sessions \ {s} : device'[r] = device[r]
<1> HIDE DEF FarLabels, NoDevice, Codes, Never
<1> QED
  BY DEF Far, DeviceType

(* A far end that gives up has set no clock.                               *)
LEMMA FarExitsIs ==
    ASSUME device \in DeviceType, NEW s \in Sessions, NEW code \in Codes, FarExits(s, code)
    PROVE  /\ device' \in DeviceType
           /\ device'[s].pc = "done" /\ device'[s].set = Never /\ device'[s].code = code
           /\ \A r \in Sessions \ {s} : device'[r] = device[r]
<1>1. "done" \in FarLabels
  BY DEF FarLabels
<1> HIDE DEF FarLabels, NoDevice, Codes, Never
<1> QED
  BY <1>1 DEF DeviceType, FarExits, ClockUnset
-----------------------------------------------------------------------------
(* Sessions do not disturb one another: a session that does not move keeps *)
(* its invariant while the clock advances and payloads for other nonces    *)
(* are signed.                                                             *)
LEMMA SessionStays ==
    ASSUME TimefixInv, NEW r \in Sessions,
           cli'[r] = cli[r], stdin'[r] = stdin[r], device'[r] = device[r],
           now' \in Nat, now <= now', issued \subseteq issued',
           \A p \in issued' : p \in issued \/ p.nonce # r
    PROVE  SessionInv(r)'
<1>1. SessionInv(r) /\ now \in Nat /\ device[r].drawn \in Int /\ device[r].set \in Int
  BY TimefixAssumption DEF TimefixInv, TypeOK, Never
<1> HIDE DEF Never
<1>2. NonceInv(r)'
  BY <1>1 DEF SessionInv, NonceInv
<1>3. HandoverInv(r)'
  BY <1>1, Zenon DEF SessionInv, HandoverInv, InBounds
<1>4. OutcomeInv(r)'
  BY <1>1, Zenon DEF SessionInv, OutcomeInv, Never
<1>5. AppliedInv(r)'
  BY <1>1 DEF SessionInv, AppliedInv, InBounds
<1> QED
  BY <1>2, <1>3, <1>4, <1>5, Zenon DEF SessionInv

(* A step of one session that keeps that session's invariant keeps them    *)
(* all.                                                                    *)
LEMMA OneSession ==
    ASSUME TimefixInv, NEW s \in Sessions, TypeOK', SessionInv(s)', now' = now,
           \A r \in Sessions \ {s} :
             cli'[r] = cli[r] /\ stdin'[r] = stdin[r] /\ device'[r] = device[r],
           issued \subseteq issued',
           \A p \in issued' : p \in issued \/ (p.nonce = s /\ p.now <= now)
    PROVE  TimefixInv'
<1>1. now' \in Nat /\ now <= now'
  BY TimefixAssumption DEF TimefixInv, TypeOK
<1>2. \A r \in Sessions \ {s} : SessionInv(r)'
  <2> TAKE r \in Sessions \ {s}
  <2>1. \A p \in issued' : p \in issued \/ p.nonce # r
    OBVIOUS
  <2> QED
    BY <1>1, <2>1, SessionStays
<1>3. IssuedInv'
  BY DEF TimefixInv, IssuedInv
<1> QED
  BY <1>2, <1>3, Zenon DEF TimefixInv
-----------------------------------------------------------------------------
(* The near end.                                                           *)

(* A near end that moves on with the payload it has, and ends stdin when   *)
(* it is past writing, keeps its session's invariant.                      *)
LEMMA NearMoves ==
    ASSUME TimefixInv, NEW s \in Sessions,
           cli[s].pc \notin {"idle"}, cli'[s].pc \notin {"idle", "connect", "ok"},
           cli'[s].pay = cli[s].pay,
           cli'[s].pc \in BeforeFetch \/ device[s].pc \notin {"none", "boot", "emit"},
           stdin[s].eof => stdin'[s].eof, stdin'[s].eof => cli'[s].pc \in AfterWrite,
           UNCHANGED <<now, issued, device>>
    PROVE  SessionInv(s)'
<1>1. SessionInv(s)
  BY DEF TimefixInv
<1>2. NonceInv(s)'
  BY <1>1, Zenon DEF SessionInv, NonceInv
<1>3. HandoverInv(s)'
  BY <1>1, Zenon DEF SessionInv, HandoverInv, AfterWrite, InBounds
<1>4. OutcomeInv(s)' /\ AppliedInv(s)'
  BY <1>1, Zenon DEF SessionInv, OutcomeInv, AppliedInv, InBounds
<1> QED
  BY <1>2, <1>3, <1>4, Zenon DEF SessionInv

(* runTimefix before the ssh child.                                        *)
LEMMA MintKeeps ==
    ASSUME TimefixInv, NEW s \in Sessions,
           \/ \E id \in Devices, byHand \in BOOLEAN : Mint(s, id, byHand)
           \/ MintFails(s) \/ ConnectFails(s)
    PROVE  TimefixInv'
<1>1. /\ cli \in CliType /\ cli[s].pc \in {"idle", "connect"} /\ SessionInv(s)
      /\ UNCHANGED <<now, trusts, issued, stdin, device>>
  BY TypesAre, Zenon DEF TimefixInv, Mint, MintFails, ConnectFails
<1>2. /\ cli' \in CliType' /\ cli'[s].pc \in {"connect", "failed"}
      /\ \A r \in Sessions \ {s} : cli'[r] = cli[r]
  <2>1. CASE \E id \in Devices, byHand \in BOOLEAN : Mint(s, id, byHand)
    <3>1. PICK id \in Devices, byHand \in BOOLEAN : Mint(s, id, byHand)
      BY <2>1
    <3>2. "connect" \in NearLabels
      BY DEF NearLabels
    <3> HIDE DEF NearLabels, NoDevice
    <3> QED
      BY <1>1, <3>1, <3>2 DEF Mint, CliType
  <2>2. CASE Return(s, "failed")
    <3>1. "failed" \in NearLabels
      BY DEF NearLabels
    <3> QED
      BY <1>1, <2>2, <3>1, ReturnIs
  <2> QED
    BY <2>1, <2>2, Zenon DEF MintFails, ConnectFails
<1>3. TypeOK'
  BY <1>1, <1>2, TypesAre, TypesAreNext, Zenon DEF TimefixInv
<1>4. device[s] = NoFar /\ device[s].pc = "none" /\ device[s].code = 255
  BY <1>1 DEF SessionInv, NonceInv, NoFar, ClockUnset
<1>5. SessionInv(s)'
  <2>1. ~stdin[s].eof /\ \A p \in issued : p.nonce # s
    BY <1>1, <1>4 DEF SessionInv, NonceInv, HandoverInv, AfterWrite
  <2>2. device[s].set = Never
    BY <1>4 DEF NoFar, ClockUnset
  <2> QED
    BY <1>1, <1>2, <1>4, <2>1, <2>2
       DEF SessionInv, NonceInv, HandoverInv, OutcomeInv, AppliedInv, BeforeFetch
<1> QED
  BY <1>1, <1>2, <1>3, <1>5, OneSession

(* The relay between the two, with its error paths, and the end of ssh or  *)
(* of the near end: every path that leaves stdin ends it.                  *)
LEMMA RelayKeeps ==
    ASSUME TimefixInv, NEW s \in Sessions,
           \/ ReadNonce(s) \/ ReadFails(s) \/ FetchFails(s) \/ Write(s) \/ WriteFails(s)
           \/ Sever(s) \/ Kill(s)
    PROVE  TimefixInv'
<1>1. TypeOK /\ SessionInv(s) /\ UNCHANGED <<now, trusts, issued, device>>
  BY Zenon DEF TimefixInv, ReadNonce, ReadFails, FetchFails, Write, WriteFails, Sever, Kill
<1>2. cli \in CliType /\ stdin \in StdinType /\ device \in DeviceType
  BY <1>1, TypesAre, Zenon
<1>3. PICK label \in {"fetch", "wait", "reap", "failed"} :
        /\ Near(s, label) /\ cli[s].pc \notin {"idle"}
        /\ label = "failed" \/ cli[s].pc \in {"fetch", "write"} \/ device[s].pc \in {"read", "done"}
        /\ \/ /\ label # "fetch"
              /\ Eof(s) \/ \E d \in Data : stdin' = [stdin EXCEPT ![s] = [data |-> d, eof |-> TRUE]]
           \/ label = "fetch" /\ cli[s].pc = "read" /\ UNCHANGED stdin
  <2>1. CASE ReadNonce(s)
    BY <2>1 DEF ReadNonce
  <2>2. CASE ReadFails(s)
    BY <2>2 DEF ReadFails, Cleanup
  <2>3. CASE FetchFails(s)
    BY <2>3 DEF FetchFails, Cleanup
  <2>4. CASE Write(s)
    <3>1. \E d \in Data : stdin' = [stdin EXCEPT ![s] = [data |-> d, eof |-> TRUE]]
      BY <2>4, Zenon DEF Write, Data
    <3> QED
      BY <2>4, <3>1, Zenon DEF Write
  <2>5. CASE WriteFails(s)
    <3>1. \E d \in Data : stdin' = [stdin EXCEPT ![s] = [data |-> d, eof |-> TRUE]]
      BY <2>5, Zenon DEF WriteFails, Data
    <3> QED
      BY <2>5, <3>1, Zenon DEF WriteFails
  <2>6. CASE Sever(s) \/ Kill(s)
    BY <2>6 DEF Sever, Kill, Abort
  <2> QED
    BY <2>1, <2>2, <2>3, <2>4, <2>5, <2>6
<1>4. label \in NearLabels
  BY DEF NearLabels
<1>5. /\ cli' \in CliType' /\ cli'[s].pc = label /\ cli'[s].pay = cli[s].pay
      /\ \A r \in Sessions \ {s} : cli'[r] = cli[r]
  BY <1>1, <1>2, <1>3, <1>4, NearIs
<1>6. /\ stdin' \in StdinType /\ \A r \in Sessions \ {s} : stdin'[r] = stdin[r]
      /\ label # "fetch" => stdin'[s].eof
      /\ label = "fetch" => cli[s].pc = "read" /\ UNCHANGED stdin
  BY <1>2, <1>3, EofIs
<1>7. TypeOK'
  BY <1>1, <1>2, <1>5, <1>6, TypesAre, TypesAreNext, Zenon
<1>8. SessionInv(s)'
  <2>1. cli'[s].pc \in BeforeFetch \/ device[s].pc \notin {"none", "boot", "emit"}
    BY <1>1, <1>3, <1>5 DEF SessionInv, NonceInv, BeforeFetch
  <2>2. cli'[s].pc \notin {"idle", "connect", "ok"}
    BY <1>5
  <2>3. label # "fetch" => cli'[s].pc \in AfterWrite
    BY <1>5 DEF AfterWrite
  <2>4. label = "fetch" => ~stdin[s].eof
    BY <1>1, <1>6 DEF SessionInv, HandoverInv, AfterWrite
  <2> QED
    BY <1>1, <1>3, <1>5, <1>6, <2>1, <2>2, <2>3, <2>4, NearMoves
<1> QED
  BY <1>1, <1>5, <1>6, <1>7, <1>8, OneSession

(* The connection starts a verifier that has drawn no nonce yet.           *)
LEMMA ConnectKeeps ==
    ASSUME TimefixInv, NEW s \in Sessions, Connect(s)
    PROVE  TimefixInv'
<1>1. TypeOK /\ SessionInv(s) /\ UNCHANGED <<now, trusts, issued, stdin>>
  BY Zenon DEF TimefixInv, Connect
<1>2. cli \in CliType /\ stdin \in StdinType /\ device \in DeviceType
  BY <1>1, TypesAre, Zenon
<1>3. /\ cli' \in CliType' /\ cli'[s].pc = "read" /\ \A r \in Sessions \ {s} : cli'[r] = cli[r]
  <2>1. "read" \in NearLabels
    BY DEF NearLabels
  <2> QED
    BY <1>1, <1>2, <2>1, NearIs DEF Connect
<1>4. /\ device[s].pc = "none" /\ device[s].set = Never /\ device[s].code = 255
  BY <1>1 DEF SessionInv, NonceInv, NoFar, ClockUnset, Connect
<1>5. /\ device' \in DeviceType /\ device'[s].pc = "boot"
      /\ device'[s].set = Never /\ device'[s].code = 255
      /\ \A r \in Sessions \ {s} : device'[r] = device[r]
  <2>1. "boot" \in FarLabels /\ cli[s].id \in Devices \cup {NoDevice}
    BY <1>2 DEF FarLabels, CliType
  <2> HIDE DEF FarLabels, NoDevice, Codes, Never
  <2> DEFINE d == [device EXCEPT ![s].pc = "boot"]
  <2>2. /\ d \in DeviceType /\ d[s].pc = "boot" /\ d[s].set = Never /\ d[s].code = 255
        /\ \A r \in Sessions \ {s} : d[r] = device[r]
    BY <1>2, <1>4, <2>1 DEF DeviceType
  <2>3. device' = [d EXCEPT ![s].at = cli[s].id]
    BY Zenon DEF Connect
  <2> HIDE DEF d
  <2> QED
    BY <2>1, <2>2, <2>3 DEF DeviceType
<1>6. TypeOK'
  BY <1>1, <1>2, <1>3, <1>5, TypesAre, TypesAreNext, Zenon
<1>7. ~stdin[s].eof /\ \A p \in issued : p.nonce # s
  BY <1>1, <1>4 DEF SessionInv, NonceInv, HandoverInv, AfterWrite, Connect
<1>8. SessionInv(s)'
  BY <1>1, <1>3, <1>5, <1>7
     DEF SessionInv, NonceInv, HandoverInv, OutcomeInv, AppliedInv, BeforeFetch
<1> QED
  BY <1>1, <1>3, <1>5, <1>6, <1>8, OneSession

(* IssueTimePayload signs the present time; by hand an older payload will  *)
(* do.  The verifier has emitted its nonce, and reads nothing yet.         *)
LEMMA FetchKeeps ==
    ASSUME TimefixInv, NEW s \in Sessions, (\E id \in Devices : Fetch(s, id)) \/ Reuse(s)
    PROVE  TimefixInv'
<1>1. /\ TypeOK /\ SessionInv(s) /\ cli[s].pc = "fetch" /\ now \in Nat
      /\ UNCHANGED <<now, trusts, stdin, device>>
  BY TimefixAssumption DEF TimefixInv, Fetch, Reuse, TypeOK
<1>2. cli \in CliType /\ stdin \in StdinType /\ device \in DeviceType
      /\ issued \subseteq Payloads /\ now \in 0..MaxTime
  BY <1>1, TypesAre, Zenon
<1>3. PICK p \in issued' :
        /\ cli' = [cli EXCEPT ![s].pc = "write", ![s].pay = {p}]
        /\ issued' = issued \cup {p}
        /\ p \in issued \/ (p.nonce = s /\ p.now = now)
        /\ p \in Payloads
  <2>1. ASSUME NEW id \in Devices, Fetch(s, id)
        PROVE  \E p \in issued' : /\ cli' = [cli EXCEPT ![s].pc = "write", ![s].pay = {p}]
                                  /\ issued' = issued \cup {p}
                                  /\ p.nonce = s /\ p.now = now /\ p \in Payloads
    <3> DEFINE p == [serial |-> id, nonce |-> s, now |-> now]
    <3>1. p.nonce = s /\ p.now = now /\ p \in Payloads
      BY <1>2 DEF Payloads
    <3>2. /\ cli' = [cli EXCEPT ![s].pc = "write", ![s].pay = {p}]
          /\ issued' = issued \cup {p}
      BY <2>1, Zenon DEF Fetch
    <3>3. p \in issued'
      BY <3>2
    <3> HIDE DEF p
    <3> QED
      BY <3>1, <3>2, <3>3, Zenon
  <2>2. ASSUME NEW p \in issued, cli' = [cli EXCEPT ![s].pc = "write", ![s].pay = {p}],
               UNCHANGED issued
        PROVE  p \in issued' /\ issued' = issued \cup {p} /\ p \in Payloads
    BY <1>2, <2>2
  <2> QED
    BY <2>1, <2>2 DEF Reuse
<1>4. /\ cli' \in CliType' /\ cli'[s].pc = "write"
      /\ \A r \in Sessions \ {s} : cli'[r] = cli[r]
  <2>1. "write" \in NearLabels
    BY DEF NearLabels
  <2> HIDE DEF NearLabels, NoDevice
  <2> DEFINE c == [cli EXCEPT ![s].pc = "write"]
  <2>2. /\ c \in CliType /\ c[s].pc = "write" /\ \A r \in Sessions \ {s} : c[r] = cli[r]
    BY <1>2, <2>1 DEF CliType
  <2>3. cli' = [c EXCEPT ![s].pay = {p}]
    BY <1>3, Zenon
  <2>4. c \in CliType'
    BY <1>3, <2>2 DEF CliType
  <2> HIDE DEF c
  <2> QED
    BY <2>2, <2>3, <2>4 DEF CliType
<1>5. TypeOK'
  <2>1. issued' \subseteq Payloads
    BY <1>2, <1>3
  <2> QED
    BY <1>1, <1>2, <1>4, <2>1, TypesAre, TypesAreNext, Zenon
<1>6. ~stdin[s].eof /\ device[s].pc \notin {"none", "boot", "emit", "exec"}
  BY <1>1 DEF SessionInv, NonceInv, HandoverInv, AfterWrite, BeforeFetch
<1>7. SessionInv(s)'
  <2>1. NonceInv(s)'
    BY <1>1, <1>3, <1>4, <1>6 DEF SessionInv, NonceInv
  <2>2. HandoverInv(s)' /\ OutcomeInv(s)'
    BY <1>1, <1>4, <1>6 DEF SessionInv, HandoverInv, OutcomeInv
  <2>3. AppliedInv(s)'
    BY <1>1, <1>3, Zenon DEF SessionInv, AppliedInv, InBounds
  <2> QED
    BY <2>1, <2>2, <2>3, Zenon DEF SessionInv
<1>8. \A q \in issued' : q \in issued \/ (q.nonce = s /\ q.now <= now)
  BY <1>1, <1>3
<1> QED
  <2>1. issued \subseteq issued'
    BY <1>3
  <2> QED
    BY <1>1, <1>4, <1>5, <1>7, <1>8, <2>1, OneSession

(* The end of ssh is reported: "complete" only for the exit code 0.        *)
LEMMA WaitKeeps ==
    ASSUME TimefixInv, NEW s \in Sessions, Wait(s) \/ Reap(s)
    PROVE  TimefixInv'
<1>1. /\ TypeOK /\ SessionInv(s) /\ device[s].pc = "done"
      /\ UNCHANGED <<now, trusts, issued, stdin, device>>
  BY Zenon DEF TimefixInv, Wait, Reap
<1>2. cli \in CliType /\ stdin \in StdinType /\ device \in DeviceType
  BY <1>1, TypesAre, Zenon
<1>3. PICK label \in {"ok", "failed"} : Return(s, label) /\ (label = "ok" => device[s].code = 0)
  BY Zenon DEF Wait, Reap
<1>4. /\ cli' \in CliType' /\ cli'[s].pc = label /\ \A r \in Sessions \ {s} : cli'[r] = cli[r]
  <2>1. label \in NearLabels
    BY DEF NearLabels
  <2> QED
    BY <1>1, <1>2, <1>3, <2>1, ReturnIs
<1>5. TypeOK'
  BY <1>1, <1>2, <1>4, TypesAre, TypesAreNext, Zenon
<1>6. NonceInv(s)' /\ HandoverInv(s)'
  BY <1>1, <1>4 DEF SessionInv, NonceInv, HandoverInv, AfterWrite
<1>7. OutcomeInv(s)' /\ AppliedInv(s)'
  BY <1>1, <1>3, <1>4, Zenon DEF SessionInv, OutcomeInv, AppliedInv, InBounds
<1> QED
  BY <1>1, <1>4, <1>5, <1>6, <1>7, OneSession DEF SessionInv
-----------------------------------------------------------------------------
(* The far end.                                                            *)

(* The verifier draws its nonce: no payload carries it yet.                *)
LEMMA BootKeeps ==
    ASSUME TimefixInv, NEW s \in Sessions, Boot(s)
    PROVE  TimefixInv'
<1>1. /\ TypeOK /\ SessionInv(s) /\ device[s].pc = "boot"
      /\ UNCHANGED <<now, trusts, issued, cli, stdin>>
  BY Zenon DEF TimefixInv, Boot
<1>2. /\ cli \in CliType /\ stdin \in StdinType /\ device \in DeviceType
      /\ now \in 0..MaxTime
  BY <1>1, TypesAre, Zenon
<1>3. /\ device' \in DeviceType /\ device'[s].pc = "emit" /\ device'[s].drawn = now
      /\ device'[s].set = device[s].set /\ device'[s].code = device[s].code
      /\ \A r \in Sessions \ {s} : device'[r] = device[r]
  <2>1. "emit" \in FarLabels
    BY DEF FarLabels
  <2> HIDE DEF FarLabels, NoDevice, Codes, Never
  <2> DEFINE d == [device EXCEPT ![s].pc = "emit"]
  <2>2. /\ d \in DeviceType /\ d[s].pc = "emit" /\ d[s].set = device[s].set
        /\ d[s].code = device[s].code /\ \A r \in Sessions \ {s} : d[r] = device[r]
    BY <1>2, <2>1 DEF DeviceType
  <2>3. device' = [d EXCEPT ![s].drawn = now]
    BY Zenon DEF Boot
  <2> HIDE DEF d
  <2> QED
    BY <1>2, <2>2, <2>3 DEF DeviceType
<1>4. CliType' = CliType
  BY <1>1 DEF CliType
<1>5. TypeOK'
  BY <1>1, <1>2, <1>3, <1>4, TypesAre, TypesAreNext, Zenon
<1>6. SessionInv(s)'
  <2>1. device[s].set = Never
    BY <1>1 DEF SessionInv, OutcomeInv
  <2>2. NonceInv(s)'
    <3>1. cli[s].pc \notin {"idle", "connect"}
      BY <1>1 DEF SessionInv, NonceInv, NoFar, ClockUnset
    <3> QED
      BY <1>1, <1>2, <1>3, <3>1 DEF SessionInv, NonceInv
  <2>3. HandoverInv(s)'
    BY <1>1, <1>3 DEF SessionInv, HandoverInv
  <2>4. OutcomeInv(s)' /\ AppliedInv(s)'
    BY <1>1, <1>3, <2>1, Zenon DEF SessionInv, OutcomeInv, AppliedInv
  <2> QED
    BY <2>2, <2>3, <2>4, Zenon DEF SessionInv
<1> QED
  BY <1>1, <1>3, <1>5, <1>6, OneSession

(* It emits the nonce, after which payloads may carry it.                  *)
LEMMA EmitKeeps ==
    ASSUME TimefixInv, NEW s \in Sessions, Emit(s)
    PROVE  TimefixInv'
<1>1. /\ TypeOK /\ SessionInv(s) /\ device[s].pc = "emit"
      /\ UNCHANGED <<now, trusts, issued, cli, stdin>>
  BY Zenon DEF TimefixInv, Emit
<1>2. cli \in CliType /\ stdin \in StdinType /\ device \in DeviceType
  BY <1>1, TypesAre, Zenon
<1>3. /\ device' \in DeviceType /\ device'[s].pc = "read" /\ device'[s].drawn = device[s].drawn
      /\ device'[s].set = device[s].set /\ device'[s].code = device[s].code
      /\ \A r \in Sessions \ {s} : device'[r] = device[r]
  <2>1. "read" \in FarLabels
    BY DEF FarLabels
  <2> QED
    BY <1>2, <2>1, FarIs DEF Emit
<1>4. CliType' = CliType
  BY <1>1 DEF CliType
<1>5. TypeOK'
  BY <1>1, <1>2, <1>3, <1>4, TypesAre, TypesAreNext, Zenon
<1>6. SessionInv(s)'
  <2>1. device[s].set = Never
    BY <1>1 DEF SessionInv, OutcomeInv
  <2>2. NonceInv(s)'
    <3>1. cli[s].pc \notin {"idle", "connect"}
      BY <1>1 DEF SessionInv, NonceInv, NoFar, ClockUnset
    <3> QED
      BY <1>1, <1>2, <1>3, <3>1 DEF SessionInv, NonceInv
  <2>3. HandoverInv(s)'
    BY <1>1, <1>3 DEF SessionInv, HandoverInv
  <2>4. OutcomeInv(s)' /\ AppliedInv(s)'
    BY <1>1, <1>3, <2>1, Zenon DEF SessionInv, OutcomeInv, AppliedInv
  <2> QED
    BY <2>2, <2>3, <2>4, Zenon DEF SessionInv
<1> QED
  BY <1>1, <1>3, <1>5, <1>6, OneSession

(* A far end that gives up sets no clock and reports no success.           *)
LEMMA GivesUpKeeps ==
    ASSUME TimefixInv, NEW s \in Sessions, NEW code \in Codes \ {0}, FarExits(s, code),
           device[s].pc \in {"boot", "emit", "read", "exec"},
           UNCHANGED <<now, trusts, issued, cli>>, stdin' \in StdinType,
           stdin'[s].eof => stdin[s].eof,
           \A r \in Sessions \ {s} : stdin'[r] = stdin[r]
    PROVE  TimefixInv'
<1>1. TypeOK /\ SessionInv(s)
  BY Zenon DEF TimefixInv
<1>2. cli \in CliType /\ device \in DeviceType
  BY <1>1, TypesAre, Zenon
<1>3. /\ device' \in DeviceType /\ device'[s].pc = "done"
      /\ device'[s].set = Never /\ device'[s].code = code
      /\ \A r \in Sessions \ {s} : device'[r] = device[r]
  BY <1>2, FarExitsIs
<1>4. CliType' = CliType
  BY DEF CliType
<1>5. TypeOK'
  BY <1>1, <1>2, <1>3, <1>4, TypesAre, TypesAreNext, Zenon
<1>6. SessionInv(s)'
  <2>1. device[s].set = Never
    BY <1>1 DEF SessionInv, OutcomeInv
  <2>2. cli[s].pc \notin {"idle", "connect", "ok"}
    BY <1>1, <2>1 DEF SessionInv, NonceInv, OutcomeInv, NoFar, ClockUnset
  <2> QED
    BY <1>1, <1>3, <2>2 DEF SessionInv, NonceInv, HandoverInv, OutcomeInv, AppliedInv
<1> QED
  BY <1>3, <1>5, <1>6, OneSession

(* The verdict 0 is given to one payload only: the one in hand, signed for *)
(* this device and this nonce, with a time inside the bounds.              *)
LEMMA VerdictZero ==
    ASSUME TypeOK, NEW s \in Sessions, 0 \in Verdicts(s)
    PROVE  \E p \in issued : /\ cli[s].pay = {p} /\ p.serial = device[s].at
                             /\ p.nonce = s /\ InBounds(p.now)
<1>1. stdin[s].data \in Data /\ cli[s].pay \in {{}} \cup {{p} : p \in issued}
  BY DEF TypeOK
<1>2. stdin[s].data = "whole"
  BY <1>1 DEF Verdicts, Data
<1>3. \E p \in cli[s].pay : p.serial = device[s].at /\ p.nonce = s /\ InBounds(p.now)
  BY <1>2 DEF Verdicts
<1> QED
  BY <1>1, <1>3

(* The codes of the verifier.                                              *)
LEMMA VerdictsAre ==
    ASSUME TypeOK, NEW s \in Sessions
    PROVE  Verdicts(s) \subseteq Codes
<1>1. stdin[s].data \in Data
  BY DEF TypeOK
<1> QED
  BY <1>1 DEF Verdicts, Data, Codes

(* The verifier judges what stdin delivered and hands over to the setter   *)
(* only what it accepted.                                                  *)
LEMMA VerifyKeeps ==
    ASSUME TimefixInv, NEW s \in Sessions, Verify(s)
    PROVE  TimefixInv'
<1>1. /\ TypeOK /\ SessionInv(s) /\ device[s].pc = "read" /\ stdin[s].eof
      /\ stdin' = [stdin EXCEPT ![s].data = "none"]
      /\ UNCHANGED <<now, trusts, issued, cli>>
  BY Zenon DEF TimefixInv, Verify
<1>2. cli \in CliType /\ stdin \in StdinType /\ device \in DeviceType
  BY <1>1, TypesAre, Zenon
<1>3. /\ stdin' \in StdinType /\ stdin'[s].eof
      /\ \A r \in Sessions \ {s} : stdin'[r] = stdin[r]
  <2>1. "none" \in Data
    BY DEF Data
  <2> HIDE DEF Data
  <2> QED
    BY <1>1, <1>2, <2>1 DEF StdinType
<1>4. PICK code \in Verdicts(s) : IF code = 0 THEN Far(s, "exec") ELSE FarExits(s, code)
  BY Zenon DEF Verify
<1>5. CASE code # 0
  <2>1. code \in Codes \ {0} /\ FarExits(s, code)
    BY <1>1, <1>4, <1>5, VerdictsAre
  <2>2. device[s].pc \in {"boot", "emit", "read", "exec"} /\ (stdin'[s].eof => stdin[s].eof)
    BY <1>1
  <2> HIDE DEF Codes
  <2> QED
    BY <1>1, <1>3, <2>1, <2>2, GivesUpKeeps, Zenon
<1>6. CASE code = 0
  <2>1. PICK p \in issued : /\ cli[s].pay = {p} /\ p.serial = device[s].at
                            /\ p.nonce = s /\ InBounds(p.now)
    BY <1>1, <1>4, <1>6, VerdictZero
  <2>2. "exec" \in FarLabels
    BY DEF FarLabels
  <2>3. /\ device' \in DeviceType /\ device'[s].pc = "exec" /\ device'[s].at = device[s].at
        /\ device'[s].drawn = device[s].drawn /\ device'[s].set = device[s].set
        /\ device'[s].code = device[s].code
        /\ \A r \in Sessions \ {s} : device'[r] = device[r]
    BY <1>2, <1>4, <1>6, <2>2, FarIs
  <2>4. CliType' = CliType
    BY <1>1 DEF CliType
  <2>5. TypeOK'
    BY <1>1, <1>2, <1>3, <2>3, <2>4, TypesAre, TypesAreNext, Zenon
  <2>6. device[s].set = Never /\ cli[s].pc \notin {"idle", "connect", "ok"}
    <3>1. device[s].set = Never /\ cli[s].pc # "ok"
      BY <1>1 DEF SessionInv, OutcomeInv
    <3> QED
      BY <1>1, <3>1 DEF SessionInv, NonceInv, NoFar, ClockUnset
  <2>7. NonceInv(s)'
    BY <1>1, <2>3, <2>6 DEF SessionInv, NonceInv
  <2>8. HandoverInv(s)'
    <3>1. cli'[s].pay = {p} /\ p.serial = device'[s].at /\ p.nonce = s /\ InBounds(p.now)
      BY <1>1, <2>1, <2>3, Zenon
    <3>2. stdin'[s].eof /\ cli'[s].pc \in AfterWrite
      BY <1>1, <1>3, Zenon DEF SessionInv, HandoverInv
    <3>3. p \in issued' /\ cli'[s].pc # "ok"
      BY <1>1, <2>6
    <3> QED
      BY <3>1, <3>2, <3>3, Zenon DEF HandoverInv, InBounds
  <2>9. OutcomeInv(s)' /\ AppliedInv(s)'
    BY <1>1, <2>3, <2>6, Zenon DEF SessionInv, OutcomeInv, AppliedInv
  <2> QED
    BY <1>1, <1>3, <2>3, <2>5, <2>7, <2>8, <2>9, OneSession DEF SessionInv
<1> QED
  BY <1>5, <1>6

(* Every failure of the far end, before and after the handover.            *)
LEMMA FarFailsKeeps ==
    ASSUME TimefixInv, NEW s \in Sessions, BadInput(s) \/ ExecFails(s) \/ SetFails(s)
    PROVE  TimefixInv'
<1>1. /\ stdin \in StdinType /\ device[s].pc \in {"boot", "emit", "read", "exec"}
      /\ UNCHANGED <<now, trusts, issued, cli, stdin>>
      /\ FarExits(s, 2) \/ FarExits(s, 6) \/ FarExits(s, 3)
  BY TypesAre, Zenon DEF TimefixInv, BadInput, ExecFails, SetFails
<1>2. 2 \in Codes \ {0} /\ 6 \in Codes \ {0} /\ 3 \in Codes \ {0}
  BY DEF Codes
<1>3. /\ stdin' \in StdinType /\ (stdin'[s].eof => stdin[s].eof)
      /\ \A r \in Sessions \ {s} : stdin'[r] = stdin[r]
  BY <1>1, Zenon
<1> QED
  BY <1>1, <1>2, <1>3, GivesUpKeeps

(* The setter sets the clock to the verified time.                         *)
LEMMA SetClockKeeps ==
    ASSUME TimefixInv, NEW s \in Sessions, SetClock(s)
    PROVE  TimefixInv'
<1>1. /\ TypeOK /\ SessionInv(s) /\ IssuedInv /\ device[s].pc = "exec"
      /\ UNCHANGED <<now, trusts, issued, cli, stdin>>
  BY Zenon DEF TimefixInv, SetClock
<1>2. /\ cli \in CliType /\ stdin \in StdinType /\ device \in DeviceType
      /\ issued \subseteq Payloads /\ now \in 0..MaxTime
  BY <1>1, TypesAre, Zenon
<1>3. PICK p \in issued : /\ cli[s].pay = {p} /\ p.serial = device[s].at
                          /\ p.nonce = s /\ InBounds(p.now)
  BY <1>1, Zenon DEF SessionInv, HandoverInv
<1>4. device' = [device EXCEPT ![s].pc = "done", ![s].code = 0, ![s].set = p.now]
  BY <1>3, Zenon DEF SetClock
<1>5. p.now \in 0..MaxTime /\ p.now # Never
  BY <1>2 DEF Payloads, Never
<1>6. /\ device' \in DeviceType /\ device'[s].pc = "done" /\ device'[s].at = device[s].at
      /\ device'[s].drawn = device[s].drawn /\ device'[s].set = p.now
      /\ \A r \in Sessions \ {s} : device'[r] = device[r]
  <2>1. "done" \in FarLabels /\ 0 \in Codes
    BY DEF FarLabels, Codes
  <2> HIDE DEF FarLabels, NoDevice, Codes, Never
  <2> DEFINE d == [device EXCEPT ![s].pc = "done"]
             e == [d EXCEPT ![s].code = 0]
  <2>2. /\ d \in DeviceType /\ d[s].pc = "done" /\ d[s].at = device[s].at
        /\ d[s].drawn = device[s].drawn /\ \A r \in Sessions \ {s} : d[r] = device[r]
    BY <1>2, <2>1 DEF DeviceType
  <2>3. device' = [e EXCEPT ![s].set = p.now]
    BY <1>4, Zenon
  <2> HIDE DEF d
  <2>4. /\ e \in DeviceType /\ e[s].pc = "done" /\ e[s].at = device[s].at
        /\ e[s].drawn = device[s].drawn /\ \A r \in Sessions \ {s} : e[r] = device[r]
    BY <2>1, <2>2 DEF DeviceType
  <2> HIDE DEF e
  <2> QED
    BY <1>5, <2>3, <2>4 DEF DeviceType
<1>7. CliType' = CliType
  BY <1>1 DEF CliType
<1>8. TypeOK'
  BY <1>1, <1>2, <1>6, <1>7, TypesAre, TypesAreNext, Zenon
<1>9. SessionInv(s)'
  <2>1. cli[s].pc \notin {"idle", "connect"}
    BY <1>1 DEF SessionInv, NonceInv, NoFar, ClockUnset
  <2>2. NonceInv(s)'
    BY <1>1, <1>6, <2>1 DEF NonceInv
  <2>3. HandoverInv(s)' /\ OutcomeInv(s)'
    BY <1>1, <1>5, <1>6, Zenon DEF SessionInv, HandoverInv, OutcomeInv, Never
  <2>4. device[s].drawn <= p.now /\ p.now <= now
    BY <1>1, <1>3 DEF SessionInv, NonceInv, IssuedInv
  <2>5. AppliedInv(s)'
    BY <1>1, <1>3, <1>6, <2>4, Zenon DEF AppliedInv, InBounds
  <2> QED
    BY <2>2, <2>3, <2>5, Zenon DEF SessionInv
<1> QED
  BY <1>1, <1>6, <1>8, <1>9, OneSession
-----------------------------------------------------------------------------
(* The broker's clock and the sessions elsewhere.                          *)
LEMMA OutsideKeeps ==
    ASSUME TimefixInv, Elsewhere \/ Tick
    PROVE  TimefixInv'
<1>1. /\ TypeOK /\ IssuedInv /\ UNCHANGED <<trusts, cli, stdin, device>>
  BY Zenon DEF TimefixInv, Elsewhere, Tick
<1>2. /\ cli \in CliType /\ stdin \in StdinType /\ device \in DeviceType
      /\ issued \subseteq Payloads /\ now \in 0..MaxTime
  BY <1>1, TypesAre, Zenon
<1>3. /\ now' \in 0..MaxTime /\ now <= now' /\ issued \subseteq issued' /\ issued' \subseteq Payloads
      /\ \A p \in issued' : p \in issued \/ (p.nonce \in Others /\ p.now = now)
  <2>1. CASE Tick
    BY <1>2, <2>1, TimefixAssumption DEF Tick
  <2>2. CASE Elsewhere
    BY <1>2, <2>2, TimefixAssumption DEF Elsewhere, Payloads
  <2> QED
    BY <2>1, <2>2
<1>4. TypeOK'
  <2>1. cli' \in CliType'
    <3> HIDE DEF NearLabels, NoDevice
    <3> QED
      BY <1>1, <1>2, <1>3 DEF CliType
  <2> QED
    BY <1>1, <1>2, <1>3, <2>1, TypesAre, TypesAreNext, Zenon
<1>5. IssuedInv'
  BY <1>1, <1>2, <1>3 DEF IssuedInv, Payloads
<1>6. \A r \in Sessions : SessionInv(r)'
  <2> TAKE r \in Sessions
  <2>1. now' \in Nat
    BY <1>3, TimefixAssumption
  <2>2. \A p \in issued' : p \in issued \/ p.nonce # r
    BY <1>3, TimefixAssumption
  <2> QED
    BY <1>1, <1>3, <2>1, <2>2, SessionStays
<1> QED
  BY <1>4, <1>5, <1>6, Zenon DEF TimefixInv

(* Before any session nothing is signed, delivered or set.                 *)
LEMMA TimefixInit == Init => TimefixInv
<1> SUFFICES ASSUME Init
             PROVE  TimefixInv
  OBVIOUS
<1>1. cli \in CliType
  <2>1. NoNear \in [pc : NearLabels, byHand : BOOLEAN, id : Devices \cup {NoDevice},
                    pay : {{}} \cup {{p} : p \in issued}]
    BY DEF NoNear, EmptyHanded, NearLabels
  <2> QED
    BY <2>1, Zenon DEF Init, CliType
<1>2. stdin \in StdinType
  BY DEF Init, StdinType, Data
<1>3. device \in DeviceType
  BY DEF Init, DeviceType, NoFar, ClockUnset, FarLabels, Codes
<1>4. TypeOK
  <2>1. now \in 0..MaxTime
    BY TimefixAssumption DEF Init
  <2> QED
    BY <1>1, <1>2, <1>3, <2>1, TypesAre DEF Init
<1>5. IssuedInv
  BY DEF Init, IssuedInv
<1>6. ASSUME NEW s \in Sessions
      PROVE  SessionInv(s)
  <2>1. /\ cli[s].pc = "idle" /\ device[s] = NoFar /\ ~stdin[s].eof /\ issued = {}
    BY DEF Init, NoNear, EmptyHanded
  <2>2. device[s].pc = "none" /\ device[s].set = Never /\ device[s].code = 255
    BY <2>1 DEF NoFar, ClockUnset
  <2> QED
    BY <2>1, <2>2 DEF SessionInv, NonceInv, HandoverInv, OutcomeInv, AppliedInv, BeforeFetch
<1> QED
  BY <1>4, <1>5, <1>6 DEF TimefixInv

(* Every step of the near end, the far end, the broker and the sessions    *)
(* elsewhere keeps the invariant.                                          *)
THEOREM TimefixInvariance == Spec => []TimefixInv
<1>1. TimefixInv /\ [Next]_vars => TimefixInv'
  <2> SUFFICES ASSUME TimefixInv, [Next]_vars
               PROVE  TimefixInv'
    OBVIOUS
  <2>1. ASSUME NEW s \in Sessions, NearStep(s)
        PROVE  TimefixInv'
    BY <2>1, MintKeeps, ConnectKeeps, RelayKeeps, FetchKeeps, WaitKeeps, Zenon DEF NearStep
  <2>2. ASSUME NEW s \in Sessions, FarStep(s)
        PROVE  TimefixInv'
    BY <2>2, BootKeeps, EmitKeeps, FarFailsKeeps, VerifyKeeps, SetClockKeeps, Zenon DEF FarStep
  <2>3. CASE UNCHANGED vars
    <3>1. CliType' = CliType
      BY <2>3 DEF vars, CliType
    <3>2. TypeOK' /\ IssuedInv'
      BY <2>3, <3>1, TypesAre, TypesAreNext, Zenon DEF vars, TimefixInv, IssuedInv
    <3>3. now \in Nat
      BY TimefixAssumption DEF TimefixInv, TypeOK
    <3>4. ASSUME NEW r \in Sessions
          PROVE  SessionInv(r)'
      BY <2>3, <3>3, SessionStays DEF vars
    <3> QED
      BY <3>2, <3>4, Zenon DEF TimefixInv
  <2>4. CASE Next
    BY <2>1, <2>2, <2>4, MintKeeps, RelayKeeps, OutsideKeeps, Zenon DEF Next
  <2> QED
    BY <2>3, <2>4
<1> QED
  BY TimefixInit, <1>1, PTL DEF Spec

(* The exit codes are those the two device programs document, and the      *)
(* payload in hand is always one the broker signed.                        *)
THEOREM TimefixTypeCorrect == Spec => []TypeOK
<1>1. TimefixInv => TypeOK
  BY DEF TimefixInv
<1> QED
  BY <1>1, TimefixInvariance, PTL

(* verify and IssueTimePayload: a device's clock is set only to a time the *)
(* broker took after the session began, inside the bounds and issued for   *)
(* this device, whatever was piped in and however late.                    *)
THEOREM AppliedTimeFreshHolds == Spec => []AppliedTimeFresh
<1>1. TimefixInv => AppliedTimeFresh
  BY Zenon DEF TimefixInv, SessionInv, AppliedInv, AppliedTimeFresh
<1> QED
  BY <1>1, TimefixInvariance, PTL

(* runTimefix reports success only when this session set the clock.        *)
THEOREM SuccessMeansSetHolds == Spec => []SuccessMeansSet
<1>1. TimefixInv => SuccessMeansSet
  BY Zenon DEF TimefixInv, SessionInv, OutcomeInv, SuccessMeansSet
<1> QED
  BY <1>1, TimefixInvariance, PTL
=============================================================================
