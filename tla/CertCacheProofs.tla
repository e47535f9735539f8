--------------------------- MODULE CertCacheProofs ---------------------------
(***************************************************************************)
(* The certificate cache, for any number of commands, devices and keys:    *)
(* unless the key file is deleted since a command's last ProfileKey, the   *)
(* key it holds is the one on disk, and outside the excepted situations    *)
(* ssh execs with a certificate of that key that has the promised time     *)
(* left.                                                                   *)
(***************************************************************************)
EXTENDS CertCache, TLAPS

(* How long a solver may take on one step.                                *)
USE SMTT(60)

Commands ==
  [pc : Labels, role : Roles, dev : Devices, started : Nat, key : Nat,
   cert : Certs, victims : SUBSET (Devices \X Certs), lost : BOOLEAN]

(* The key a command holds: none until mintAndCache loads one, and then    *)
(* the one its certificate is for.                                         *)
HoldsAt(l, k, cert) ==
  /\ l \in {"idle", "exit", "get", "getKey", "getLink", "key", "link"} => k = NoKey
  /\ l \in {"request", "putKey", "putLink", "put"} => k # NoKey
  /\ l \in {"putKey", "putLink", "put"} => cert.key = k

Holds(n) == HoldsAt(n.pc, n.key, n.cert)

(* The key on disk is the last one linked.                                 *)
Latest == keyFile \in {NoKey, keys}

IInv ==
  /\ TypeOK
  /\ cmd \in [Cmds -> Commands]
  /\ \A c \in Cmds : Holds(cmd[c])
  /\ Latest
  /\ OneKey

(* What a step makes of its command: it holds the key it held, none, or    *)
(* the key on disk.                                                        *)
Becomes(c, n) ==
  /\ n \in Commands
  /\ cmd' = [cmd EXCEPT ![c] = n]
  /\ n.started \in {0, cmd[c].started, now}
  /\ Holds(n)
  /\ n.key \in {NoKey, keyFile'} \/ (n.key = cmd[c].key /\ n.lost = cmd[c].lost)

(* A command before it starts.                                             *)
LEMMA IdleTyped ==
  ASSUME keys \in Nat, NEW d \in Devices
  PROVE  /\ Idle(d) \in Commands /\ Idle(d).key = NoKey /\ Idle(d).started = 0
         /\ Idle(d).pc = "idle" /\ Idle(d).lost = FALSE
<1>1. NoCert \in Certs /\ NoKey \in Nat
  BY DEF NoKey, NoCert, Certs
<1>2. "idle" \in Labels /\ "mint" \in Roles /\ 0 \in Nat
  BY DEF Labels, Roles
<1>3. Idle(d) \in Commands
  BY <1>1, <1>2, Zenon DEF Commands, Idle
<1>4. /\ Idle(d).key = NoKey /\ Idle(d).started = 0 /\ Idle(d).pc = "idle"
      /\ Idle(d).lost = FALSE
  BY Zenon DEF Idle
<1> QED BY <1>3, <1>4, Zenon

(* A command that ends.                                                    *)
LEMMA ExitBecomes ==
  ASSUME IInv, NEW c \in Cmds, Exit(c)
  PROVE  \E n \in Commands : Becomes(c, n)
<1> DEFINE n == [Idle(cmd[c].dev) EXCEPT !.pc = "exit"]
<1>1. cmd[c] \in Commands
  BY DEF IInv
<1>2. Idle(cmd[c].dev) \in Commands
  <2>1. cmd[c].dev \in Devices /\ keys \in Nat
    BY <1>1 DEF Commands, IInv, TypeOK
  <2> QED BY <2>1, IdleTyped, Zenon
<1>3. n \in Commands
  <2>1. "exit" \in Labels
    BY DEF Labels
  <2> QED BY <1>2, <2>1, Zenon DEF Commands
<1>4. cmd' = [cmd EXCEPT ![c] = n]
  BY DEF Exit
<1>5. n.pc = "exit" /\ n.key = NoKey /\ n.started = 0
  <2>1. Idle(cmd[c].dev).key = NoKey /\ Idle(cmd[c].dev).started = 0
    BY Zenon DEF Idle
  <2> QED BY <1>2, <2>1, Zenon DEF Commands
<1> HIDE DEF n
<1>6. Holds(n)
  BY <1>5 DEF Holds, HoldsAt
<1>7. Becomes(c, n)
  BY <1>3, <1>4, <1>5, <1>6 DEF Becomes
<1> QED BY <1>3, <1>7

(* A command that goes on to another program point, where it may hold the  *)
(* key it has.                                                             *)
LEMMA GotoBecomes ==
  ASSUME IInv, NEW c \in Cmds, NEW l \in Labels, Goto(c, l),
         HoldsAt(l, cmd[c].key, cmd[c].cert)
  PROVE  \E n \in Commands : Becomes(c, n)
<1> DEFINE n == [cmd[c] EXCEPT !.pc = l]
<1>1. cmd[c] \in Commands
  BY DEF IInv
<1>2. n \in Commands
  BY <1>1 DEF Commands
<1>3. cmd' = [cmd EXCEPT ![c] = n]
  BY DEF Goto
<1>4. /\ n.key = cmd[c].key /\ n.started = cmd[c].started /\ n.lost = cmd[c].lost
      /\ n.pc = l /\ n.cert = cmd[c].cert
  BY <1>1 DEF Commands
<1> HIDE DEF n
<1>5. Becomes(c, n)
  BY <1>2, <1>3, <1>4 DEF Becomes, Holds
<1> QED BY <1>2, <1>5

(* A command that has loaded the key on disk and goes on holding key h.    *)
LEMMA LoadedBecomes ==
  ASSUME IInv, NEW c \in Cmds, NEW l \in Labels, NEW h \in Nat, Loaded(c, h, l),
         h \in {NoKey, keyFile'},
         HoldsAt(l, h, cmd[c].cert)
  PROVE  \E n \in Commands : Becomes(c, n)
<1> DEFINE n == [cmd[c] EXCEPT !.key = h, !.lost = FALSE, !.pc = l]
<1>1. cmd[c] \in Commands
  BY DEF IInv
<1>2. n \in Commands
  BY <1>1, ZenonT(90) DEF Commands
<1>3. cmd' = [cmd EXCEPT ![c] = n]
  BY <1>1, ZenonT(90) DEF IInv, Loaded
<1>4. n.key = h /\ n.started = cmd[c].started /\ n.pc = l /\ n.cert = cmd[c].cert
  BY <1>1, Zenon DEF Commands
<1> HIDE DEF n
<1>5. Becomes(c, n)
  BY <1>2, <1>3, <1>4 DEF Becomes, Holds
<1> QED BY <1>2, <1>5

(* ProfileKey returns k, the key on disk.                                  *)
LEMMA HaveKeyBecomes ==
  ASSUME IInv, NEW c \in Cmds, NEW k \in Nat, k = keyFile', k # NoKey, HaveKey(c, k),
         cmd[c].pc \in {"getKey", "getLink", "key", "link", "putKey", "putLink"}
  PROVE  \E n \in Commands : Becomes(c, n)
<1>0. cmd[c] \in Commands /\ Holds(cmd[c]) /\ cmd[c].key \in Nat
  BY DEF IInv, Commands
<1>1. CASE cmd[c].pc \in {"getKey", "getLink"}
  <2>1. Loaded(c, cmd[c].key, IF Hit(cmd[c].cert, k) THEN "use" ELSE "key")
    BY <1>1, ZenonT(90) DEF HaveKey
  <2>2. PICK l \in {"use", "key"} : Loaded(c, cmd[c].key, l)
    BY <2>1
  <2>3. l \in Labels /\ cmd[c].key = NoKey
    BY <1>0, <1>1 DEF Labels, Holds, HoldsAt
  <2>4. HoldsAt(l, cmd[c].key, cmd[c].cert)
    BY <1>0, <2>2, <2>3 DEF Holds, HoldsAt, Commands
  <2> QED BY <1>0, <2>2, <2>3, <2>4, LoadedBecomes
<1>2. CASE cmd[c].pc \in {"key", "link"}
  <2>1. Loaded(c, k, "request")
    BY <1>2, ZenonT(90) DEF HaveKey
  <2>2. "request" \in Labels
    BY DEF Labels
  <2>3. HoldsAt("request", k, cmd[c].cert)
    BY <1>0 DEF Holds, HoldsAt, Commands
  <2> QED BY <2>1, <2>2, <2>3, LoadedBecomes
<1>3. CASE cmd[c].pc \in {"putKey", "putLink"}
  <2>1. CASE Matches(cmd[c].cert, k) /\ Loaded(c, cmd[c].key, "put")
    <3>1. cmd[c].key = k /\ cmd[c].cert.key = k /\ "put" \in Labels
      BY <1>0, <1>3, <2>1 DEF Holds, HoldsAt, Matches, Labels
    <3>2. HoldsAt("put", cmd[c].key, cmd[c].cert)
      BY <1>0, <3>1 DEF Holds, HoldsAt, Commands
    <3> QED BY <1>0, <2>1, <3>1, <3>2, LoadedBecomes
  <2> QED BY <1>3, <2>1, ExitBecomes, ZenonT(90) DEF HaveKey
<1> QED BY <1>1, <1>2, <1>3

(* Every step of a command is of that kind.                                *)
LEMMA StepBecomes ==
  ASSUME IInv, NEW c \in Cmds,
         Step(c) \/ \E r \in Roles, b \in BOOLEAN : Start(c, r, b)
  PROVE  \E n \in Commands : Becomes(c, n)
<1>0. cmd[c] \in Commands /\ TypeOK /\ Holds(cmd[c])
  BY DEF IInv
<1>1. ASSUME NEW r \in Roles, NEW b \in BOOLEAN, Start(c, r, b)
      PROVE  \E n \in Commands : Becomes(c, n)
  <2>1. PICK l \in {"list", "get", "key"} :
          cmd' = [cmd EXCEPT ![c].role = r, ![c].started = now, ![c].pc = l]
    BY <1>1, ZenonT(90) DEF Start
  <2> DEFINE n == [cmd[c] EXCEPT !.role = r, !.started = now, !.pc = l]
  <2>2. cmd' = [cmd EXCEPT ![c] = n]
    BY <1>0, <2>1, ZenonT(90) DEF IInv
  <2>3. n \in Commands
    <3>1. now \in Nat /\ l \in Labels
      BY <1>0, CertCacheAssumption DEF TypeOK, Labels
    <3> QED BY <1>0, <3>1, ZenonT(90) DEF Commands
  <2>4. n.pc = l /\ n.key = cmd[c].key /\ n.started = now
    BY <1>0 DEF Commands
  <2>5. cmd[c].key = NoKey /\ Holds(n)
    <3>1. cmd[c].key = NoKey
      BY <1>0, <1>1, ZenonT(90) DEF Start, Holds, HoldsAt
    <3> HIDE DEF n
    <3> QED BY <2>1, <2>4, <3>1 DEF Holds, HoldsAt
  <2> HIDE DEF n
  <2>6. Becomes(c, n)
    BY <2>2, <2>3, <2>4, <2>5 DEF Becomes
  <2> QED BY <2>3, <2>6
<1>2. CASE LoadKey(c)
  <2>1. keyFile' = keyFile /\ keyFile \in Nat
    BY <1>0, <1>2 DEF LoadKey, TypeOK
  <2>2. CASE keyFile # NoKey
    BY <1>2, <2>1, <2>2, HaveKeyBecomes DEF LoadKey
  <2>3. CASE keyFile = NoKey
    <3>1. CASE cmd[c].pc = "getKey"
      <4>1. Goto(c, "getLink") /\ "getLink" \in Labels
        BY <1>2, <2>3, <3>1 DEF LoadKey, Labels
      <4>2. HoldsAt("getLink", cmd[c].key, cmd[c].cert)
        BY <1>0, <3>1 DEF Holds, HoldsAt, Commands
      <4> QED BY <4>1, <4>2, GotoBecomes
    <3>2. CASE cmd[c].pc = "key"
      <4>1. Goto(c, "link") /\ "link" \in Labels
        BY <1>2, <2>3, <3>2 DEF LoadKey, Labels
      <4>2. HoldsAt("link", cmd[c].key, cmd[c].cert)
        BY <1>0, <3>2 DEF Holds, HoldsAt, Commands
      <4> QED BY <4>1, <4>2, GotoBecomes
    <3>3. CASE cmd[c].pc = "putKey"
      <4>1. Goto(c, "putLink") /\ "putLink" \in Labels
        BY <1>2, <2>3, <3>3 DEF LoadKey, Labels
      <4>2. HoldsAt("putLink", cmd[c].key, cmd[c].cert)
        BY <1>0, <3>3 DEF Holds, HoldsAt, Commands
      <4> QED BY <4>1, <4>2, GotoBecomes
    <3> QED BY <1>2, <3>1, <3>2, <3>3 DEF LoadKey
  <2> QED BY <2>2, <2>3
<1>3. CASE LinkKey(c)
  <2>1. PICK k \in Nat : k = keyFile' /\ k # NoKey
    BY <1>0, <1>3 DEF LinkKey, TypeOK, NoKey
  <2>2. HaveKey(c, k) /\ cmd[c].pc \in {"getLink", "link", "putLink"}
    BY <1>3, <2>1 DEF LinkKey
  <2> QED BY <2>1, <2>2, HaveKeyBecomes
<1>4. CASE GetCert(c)
  <2>0. cmd[c].pc = "get" /\ cmd[c].key = NoKey
    BY <1>0, <1>4 DEF GetCert, Holds, HoldsAt
  <2>1. CASE Goto(c, "key")
    <3>1. "key" \in Labels
      BY DEF Labels
    <3>2. HoldsAt("key", cmd[c].key, cmd[c].cert)
      BY <1>0, <2>0 DEF Holds, HoldsAt, Commands
    <3> QED BY <2>1, <3>1, <3>2, GotoBecomes
  <2>2. CASE cmd' = [cmd EXCEPT ![c].cert = certFile[cmd[c].dev], ![c].pc = "getKey"]
    <3> DEFINE n == [cmd[c] EXCEPT !.cert = certFile[cmd[c].dev], !.pc = "getKey"]
    <3>1. cmd' = [cmd EXCEPT ![c] = n]
      BY <1>0, <2>2, ZenonT(90) DEF IInv
    <3>2. certFile[cmd[c].dev] \in Certs
      BY <1>0 DEF TypeOK, Commands
    <3>3. n \in Commands
      BY <1>0, <3>2, ZenonT(90) DEF Commands, Labels
    <3>4. n.pc = "getKey" /\ n.key = cmd[c].key /\ n.started = cmd[c].started
      BY <1>0 DEF Commands
    <3> HIDE DEF n
    <3>5. Holds(n)
      BY <2>0, <3>4 DEF Holds, HoldsAt
    <3>6. Becomes(c, n)
      BY <2>0, <3>1, <3>3, <3>4, <3>5 DEF Becomes
    <3> QED BY <3>3, <3>6
  <2> QED BY <1>4, <2>1, <2>2 DEF GetCert
<1>5. CASE Request(c)
  <2>0. cmd[c].pc = "request" /\ cmd[c].key # NoKey
    BY <1>0, <1>5 DEF Request, Holds, HoldsAt
  <2>1. ASSUME NEW ttl \in Lifetimes,
               cmd' = [cmd EXCEPT ![c].cert = Granted(cmd[c].key, ttl), ![c].pc = "putKey"]
        PROVE  \E n \in Commands : Becomes(c, n)
    <3> DEFINE g == Granted(cmd[c].key, ttl)
               n == [cmd[c] EXCEPT !.cert = g, !.pc = "putKey"]
    <3>1. cmd' = [cmd EXCEPT ![c] = n]
      BY <1>0, <2>1, ZenonT(90) DEF IInv
    <3>2. g \in Certs /\ g.key = cmd[c].key
      BY <1>0, CertCacheAssumption DEF TypeOK, Certs, Granted
    <3> HIDE DEF g
    <3>3. n \in Commands
      BY <1>0, <3>2, ZenonT(90) DEF Commands, Labels
    <3>4. /\ n.pc = "putKey" /\ n.key = cmd[c].key /\ n.started = cmd[c].started
          /\ n.cert = g /\ n.lost = cmd[c].lost
      BY <1>0 DEF Commands
    <3> HIDE DEF n
    <3>5. Holds(n)
      BY <2>0, <3>2, <3>4 DEF Holds, HoldsAt
    <3>6. Becomes(c, n)
      BY <3>1, <3>3, <3>4, <3>5 DEF Becomes
    <3> QED BY <3>3, <3>6
  <2> QED BY <1>5, <2>1, ExitBecomes, ZenonT(90) DEF Request
<1>6. CASE PutCert(c)
  <2>1. HoldsAt("use", cmd[c].key, cmd[c].cert) /\ "use" \in Labels
    BY <1>0 DEF Holds, HoldsAt, Commands, Labels
  <2>2. Goto(c, "use") \/ Exit(c)
    BY <1>6 DEF PutCert
  <2> QED BY <2>1, <2>2, GotoBecomes, ExitBecomes
<1>7. CASE List(c)
  <2> DEFINE vs == {<<d, certFile[d]>> : d \in Expired(cmd[c].started)}
             n == [cmd[c] EXCEPT !.pc = "remove", !.victims = vs]
  <2>1. cmd' = [cmd EXCEPT ![c] = n]
    BY <1>0, <1>7, ZenonT(90) DEF IInv, List
  <2>2. vs \in SUBSET (Devices \X Certs)
    BY <1>0 DEF Expired, TypeOK
  <2>3. n \in Commands
    BY <1>0, <2>2, ZenonT(90) DEF Commands, Labels
  <2>4. /\ n.pc = "remove" /\ n.key = cmd[c].key /\ n.started = cmd[c].started
        /\ n.lost = cmd[c].lost
    BY <1>0 DEF Commands
  <2> HIDE DEF n
  <2>5. Holds(n)
    BY <2>4 DEF Holds, HoldsAt
  <2>6. Becomes(c, n)
    BY <2>1, <2>3, <2>4, <2>5 DEF Becomes
  <2> QED BY <2>3, <2>6
<1>8. CASE Remove(c)
  <2>0. cmd[c].pc = "remove"
    BY <1>8 DEF Remove
  <2>1. ASSUME NEW v \in cmd[c].victims, cmd' = [cmd EXCEPT ![c].victims = @ \ {v}]
        PROVE  \E n \in Commands : Becomes(c, n)
    <3> DEFINE n == [cmd[c] EXCEPT !.victims = @ \ {v}]
    <3>1. cmd' = [cmd EXCEPT ![c] = n]
      BY <1>0, <2>1 DEF IInv
    <3>2. n \in Commands
      BY <1>0 DEF Commands
    <3>3. /\ n.pc = "remove" /\ n.key = cmd[c].key /\ n.started = cmd[c].started
          /\ n.lost = cmd[c].lost
      BY <1>0, <2>0 DEF Commands
    <3> HIDE DEF n
    <3>4. Holds(n)
      BY <3>3 DEF Holds, HoldsAt
    <3>5. Becomes(c, n)
      BY <3>1, <3>2, <3>3, <3>4 DEF Becomes
    <3> QED BY <3>2, <3>5
  <2> QED BY <1>8, <2>1, ExitBecomes DEF Remove
<1>9. CASE KeyFails(c) \/ Use(c) \/ FileFails(c)
  BY <1>9, ExitBecomes DEF KeyFails, Use, FileFails
<1> QED BY <1>1, <1>2, <1>3, <1>4, <1>5, <1>6, <1>7, <1>8, <1>9 DEF Step
-----------------------------------------------------------------------------
(* The files: a step of a command replaces the key on disk only if there   *)
(* is none, and leaves certificates.                                       *)
LEMMA StepFiles ==
  ASSUME IInv, NEW c \in Cmds,
         Step(c) \/ \E r \in Roles, b \in BOOLEAN : Start(c, r, b)
  PROVE  /\ now' = now
         /\ keys' \in Nat /\ keys <= keys' /\ keyFile' \in 0..keys' /\ Latest'
         /\ keyFile # NoKey => keyFile' = keyFile
         /\ certFile' \in [Devices -> Certs]
         /\ pruned' \in BOOLEAN /\ late' \in BOOLEAN
<1>0. TypeOK /\ cmd[c] \in Commands /\ Latest
  BY DEF IInv
<1>1. CASE LinkKey(c)
  BY <1>0, <1>1 DEF LinkKey, history, TypeOK, NoKey, Latest
<1>2. CASE PutCert(c)
  <2>1. cmd[c].dev \in Devices /\ cmd[c].cert \in Certs
    BY <1>0, Zenon DEF Commands
  <2>2. certFile' \in [Devices -> Certs]
    BY <1>0, <1>2, <2>1 DEF PutCert, TypeOK
  <2>3. late' \in BOOLEAN
    BY <1>2, Zenon DEF PutCert
  <2>4. now' = now /\ pruned' = pruned /\ keys' = keys /\ keyFile' = keyFile
    BY <1>2 DEF PutCert
  <2>5. keys \in Nat /\ keyFile \in 0..keys /\ pruned \in BOOLEAN
    BY <1>0 DEF TypeOK
  <2> QED BY <1>0, <2>2, <2>3, <2>4, <2>5 DEF Latest
<1>3. CASE Remove(c)
  <2>1. NoCert \in Certs
    BY <1>0 DEF NoCert, Certs, NoKey, TypeOK
  <2>2. certFile' \in [Devices -> Certs]
    BY <1>0, <1>3, <2>1 DEF Remove, TypeOK, Commands
  <2>3. pruned' \in BOOLEAN
    BY <1>0, <1>3, ZenonT(90) DEF Remove, TypeOK
  <2> QED BY <1>0, <1>3, <2>2, <2>3 DEF Remove, TypeOK, NoKey, Latest
<1>4. CASE ~LinkKey(c) /\ ~PutCert(c) /\ ~Remove(c)
  <2>1. UNCHANGED <<now, keyFile, keys, certFile, pruned, late>>
    BY <1>4, ZenonT(90) DEF Step, Start, LoadKey, KeyFails, GetCert, Request, Use, List,
      FileFails, history
  <2> QED BY <1>0, <2>1 DEF TypeOK, Latest
<1> QED BY <1>1, <1>2, <1>3, <1>4

(* As keys are linked, certificates and commands keep their types.         *)
LEMMA TypesGrow ==
  ASSUME keys \in Nat, keys' \in Nat, keys <= keys'
  PROVE  Certs \subseteq Certs' /\ Commands \subseteq Commands'
<1>1. Certs \subseteq Certs'
  BY DEF Certs
<1>2. ASSUME NEW n \in Commands PROVE n \in Commands'
  <2>1. /\ n = [pc |-> n.pc, role |-> n.role, dev |-> n.dev, started |-> n.started,
                key |-> n.key, cert |-> n.cert, victims |-> n.victims, lost |-> n.lost]
        /\ n.pc \in Labels /\ n.role \in Roles /\ n.dev \in Devices /\ n.started \in Nat
        /\ n.key \in Nat /\ n.cert \in Certs /\ n.victims \subseteq Devices \X Certs
        /\ n.lost \in BOOLEAN
    BY Zenon DEF Commands
  <2>2. n.cert \in Certs' /\ n.victims \subseteq Devices \X Certs'
    BY <1>1, <2>1
  <2> QED BY <2>1, <2>2, Zenon DEF Commands
<1> QED BY <1>1, <1>2

(* A step of a command preserves the invariant.                            *)
LEMMA CommandStep ==
  ASSUME IInv, NEW c \in Cmds,
         Step(c) \/ \E r \in Roles, b \in BOOLEAN : Start(c, r, b)
  PROVE  IInv'
<1>0. /\ TypeOK /\ cmd \in [Cmds -> Commands] /\ OneKey
      /\ \A q \in Cmds : Holds(cmd[q])
  BY DEF IInv
<1>1. PICK n \in Commands : Becomes(c, n)
  BY StepBecomes
<1>2. /\ now' = now
      /\ keys' \in Nat /\ keys <= keys' /\ keyFile' \in 0..keys' /\ Latest'
      /\ keyFile # NoKey => keyFile' = keyFile
      /\ certFile' \in [Devices -> Certs]
      /\ pruned' \in BOOLEAN /\ late' \in BOOLEAN
  BY StepFiles
<1>T. Certs \subseteq Certs' /\ Commands \subseteq Commands'
  BY <1>0, <1>2, TypesGrow DEF TypeOK
<1>3. /\ cmd' \in [Cmds -> Commands] /\ cmd'[c] = n
      /\ \A q \in Cmds : q # c => cmd'[q] = cmd[q]
  BY <1>0, <1>1 DEF Becomes
<1>C. cmd' \in [Cmds -> Commands'] /\ certFile' \in [Devices -> Certs']
  BY <1>2, <1>3, <1>T
<1>4. ASSUME NEW q \in Cmds
      PROVE  /\ cmd'[q].pc \in Labels /\ cmd'[q].role \in Roles
             /\ cmd'[q].dev \in Devices /\ cmd'[q].cert \in Certs'
             /\ cmd'[q].victims \subseteq Devices \X Certs'
             /\ cmd'[q].lost \in BOOLEAN
  BY <1>C, Zenon DEF Commands
<1>5. ASSUME NEW q \in Cmds
      PROVE  cmd'[q].started \in 0..now' /\ cmd'[q].key \in 0..keys'
  <2>1. /\ cmd[q].started \in 0..now /\ cmd[q].key \in 0..keys
        /\ cmd[c].started \in 0..now /\ cmd[c].key \in 0..keys
        /\ now \in Nat /\ keys \in Nat
    BY <1>0, CertCacheAssumption DEF TypeOK
  <2>2. CASE q = c
    BY <1>1, <1>2, <1>3, <2>1, <2>2 DEF Becomes, NoKey
  <2>3. CASE q # c
    BY <1>2, <1>3, <2>1, <2>3
  <2> QED BY <2>2, <2>3
<1>6. TypeOK'
  BY <1>0, <1>2, <1>4, <1>5, <1>C DEF TypeOK
<1>7. \A q \in Cmds : Holds(cmd[q])'
  <2> SUFFICES ASSUME NEW q \in Cmds PROVE Holds(cmd'[q])
    BY DEF Holds, HoldsAt, NoKey
  <2> QED BY <1>0, <1>1, <1>3 DEF Becomes
<1>8. OneKey'
  <2> SUFFICES ASSUME NEW q \in Cmds
               PROVE  cmd'[q].key \in {NoKey, keyFile'} \/ cmd'[q].lost
    BY DEF OneKey, NoKey
  <2>1. /\ cmd[q].key \in {NoKey, keyFile'} \/ cmd[q].lost
        /\ cmd[c].key \in {NoKey, keyFile'} \/ cmd[c].lost
    BY <1>0, <1>2 DEF OneKey
  <2>2. CASE q = c
    BY <1>1, <1>3, <2>1, <2>2 DEF Becomes
  <2>3. CASE q # c
    BY <1>3, <2>1, <2>3
  <2> QED BY <2>2, <2>3
<1> QED BY <1>2, <1>6, <1>7, <1>8, <1>C DEF IInv

(* Deleting the key leaves it with running commands only, and marks them.  *)
LEMMA DeleteStep ==
  ASSUME IInv, DeleteKey
  PROVE  IInv'
<1>0. /\ TypeOK /\ cmd \in [Cmds -> Commands]
      /\ \A q \in Cmds : Holds(cmd[q])
  BY DEF IInv
<1>1. /\ keyFile' = NoKey /\ keys' = keys /\ now' = now /\ certFile' = certFile
      /\ pruned' = pruned /\ late' = late
      /\ cmd' = [q \in Cmds |-> [cmd[q] EXCEPT !.lost = Running(q)]]
  BY DEF DeleteKey, history
<1>2. Certs' = Certs /\ Commands' = Commands
  BY <1>1, Zenon DEF Certs, Commands
<1>3. ASSUME NEW q \in Cmds
      PROVE  /\ cmd'[q] \in Commands /\ cmd'[q].lost = Running(q)
             /\ cmd'[q].pc = cmd[q].pc /\ cmd'[q].role = cmd[q].role
             /\ cmd'[q].dev = cmd[q].dev /\ cmd'[q].started = cmd[q].started
             /\ cmd'[q].key = cmd[q].key /\ cmd'[q].cert = cmd[q].cert
             /\ cmd'[q].victims = cmd[q].victims
  <2> DEFINE b == Running(q)
  <2>1. b \in BOOLEAN
    BY Zenon DEF Running
  <2>2. cmd[q] \in Commands /\ cmd'[q] = [cmd[q] EXCEPT !.lost = b]
    BY <1>0, <1>1, Zenon
  <2> HIDE DEF b
  <2>3. cmd'[q] \in Commands /\ cmd'[q].lost = b
    BY <2>1, <2>2, Zenon DEF Commands
  <2>4. /\ cmd'[q].pc = cmd[q].pc /\ cmd'[q].role = cmd[q].role
        /\ cmd'[q].dev = cmd[q].dev /\ cmd'[q].started = cmd[q].started
        /\ cmd'[q].key = cmd[q].key /\ cmd'[q].cert = cmd[q].cert
        /\ cmd'[q].victims = cmd[q].victims
    BY <2>2, Zenon DEF Commands
  <2> USE DEF b
  <2> QED BY <2>3, <2>4, Zenon
<1>4. cmd' \in [Cmds -> Commands']
  BY <1>1, <1>2, <1>3
<1>5. TypeOK'
  <2>1. keyFile' \in 0..keys'
    BY <1>0, <1>1 DEF TypeOK, NoKey
  <2>2. ASSUME NEW q \in Cmds PROVE cmd'[q].lost \in BOOLEAN
    BY <1>3, Zenon DEF Commands
  <2>3. ASSUME NEW q \in Cmds
        PROVE  /\ cmd'[q].pc \in Labels /\ cmd'[q].role \in Roles
               /\ cmd'[q].dev \in Devices /\ cmd'[q].started \in 0..now'
               /\ cmd'[q].key \in 0..keys' /\ cmd'[q].cert \in Certs'
               /\ cmd'[q].victims \subseteq Devices \X Certs'
    <3>1. /\ cmd[q].pc \in Labels /\ cmd[q].role \in Roles
          /\ cmd[q].dev \in Devices /\ cmd[q].started \in 0..now
          /\ cmd[q].key \in 0..keys /\ cmd[q].cert \in Certs
          /\ cmd[q].victims \subseteq Devices \X Certs
      BY <1>0, Zenon DEF TypeOK
    <3>2. cmd[q].started \in 0..now' /\ cmd[q].key \in 0..keys'
      BY <1>1, <3>1, Zenon
    <3>3. cmd[q].cert \in Certs' /\ cmd[q].victims \subseteq Devices \X Certs'
      BY <1>2, <3>1, Zenon
    <3> QED BY <1>3, <3>1, <3>2, <3>3, Zenon
  <2>4. /\ now' \in 0..MaxTime /\ keys' \in Nat /\ certFile' \in [Devices -> Certs']
        /\ <<pruned', late'>> \in BOOLEAN \X BOOLEAN
    BY <1>0, <1>1, <1>2, Zenon DEF TypeOK
  <2> QED BY <2>1, <2>2, <2>3, <2>4, Zenon DEF TypeOK
<1>6. \A q \in Cmds : Holds(cmd[q])'
  <2> SUFFICES ASSUME NEW q \in Cmds
               PROVE  HoldsAt(cmd'[q].pc, cmd'[q].key, cmd'[q].cert)
    BY Zenon DEF Holds, HoldsAt, NoKey
  <2> QED BY <1>0, <1>3, Zenon DEF Holds
<1>7. OneKey'
  <2> SUFFICES ASSUME NEW q \in Cmds, ~Running(q)
               PROVE  cmd'[q].key = NoKey
    BY <1>1, <1>3, Zenon DEF OneKey, NoKey
  <2>1. cmd[q].pc \in {"idle", "exit"}
    BY DEF Running
  <2> QED BY <1>0, <1>3, <2>1 DEF Holds, HoldsAt
<1>8. Latest'
  BY <1>1 DEF Latest, NoKey
<1> QED BY <1>4, <1>5, <1>6, <1>7, <1>8 DEF IInv

(* The empty cache.                                                        *)
LEMMA InitHolds == Init => IInv
<1> SUFFICES ASSUME Init PROVE IInv
  OBVIOUS
<1>1. PICK dev \in [Cmds -> Devices] : cmd = [c \in Cmds |-> Idle(dev[c])]
  BY DEF Init
<1>2. /\ now = 0 /\ keys = 0 /\ keyFile = 0 /\ NoKey = 0
      /\ pruned = FALSE /\ late = FALSE /\ NoCert \in Certs
  BY DEF Init, NoCert, Certs, NoKey
<1>3. ASSUME NEW c \in Cmds
      PROVE  /\ cmd[c] \in Commands /\ cmd[c].key = NoKey /\ cmd[c].started = 0
             /\ cmd[c].pc = "idle" /\ cmd[c].lost = FALSE
  <2>1. cmd[c] = Idle(dev[c]) /\ dev[c] \in Devices /\ keys \in Nat
    BY <1>1, <1>2
  <2> QED BY <2>1, IdleTyped, Zenon
<1>4. cmd \in [Cmds -> Commands]
  BY <1>1, <1>3, Zenon
<1>5. TypeOK
  <2>1. ASSUME NEW c \in Cmds
        PROVE  /\ cmd[c].pc \in Labels /\ cmd[c].role \in Roles /\ cmd[c].dev \in Devices
               /\ cmd[c].cert \in Certs /\ cmd[c].victims \subseteq Devices \X Certs
               /\ cmd[c].lost \in BOOLEAN
    BY <1>3, Zenon DEF Commands
  <2>2. certFile \in [Devices -> Certs]
    BY <1>2 DEF Init
  <2>3. <<pruned, late>> \in BOOLEAN \X BOOLEAN
    BY <1>2, Zenon
  <2>4. now \in 0..MaxTime /\ keys \in Nat /\ keyFile \in 0..keys
    BY <1>2, CertCacheAssumption
  <2>5. ASSUME NEW c \in Cmds PROVE cmd[c].started \in 0..now /\ cmd[c].key \in 0..keys
    <3>1. cmd[c].started = 0 /\ cmd[c].key = 0
      BY <1>2, <1>3, Zenon
    <3> QED BY <1>2, <3>1
  <2> QED BY <2>1, <2>2, <2>3, <2>4, <2>5, Zenon DEF TypeOK
<1>6. \A c \in Cmds : Holds(cmd[c])
  <2> SUFFICES ASSUME NEW c \in Cmds PROVE HoldsAt(cmd[c].pc, cmd[c].key, cmd[c].cert)
    BY Zenon DEF Holds
  <2>1. cmd[c].pc = "idle" /\ cmd[c].key = NoKey
    BY <1>3, Zenon
  <2> QED BY <2>1 DEF HoldsAt
<1>7. OneKey /\ Latest
  BY <1>2, <1>3, Zenon DEF OneKey, Latest
<1> QED BY <1>4, <1>5, <1>6, <1>7 DEF IInv

(* Every step preserves the invariant.                                     *)
LEMMA StepHolds == IInv /\ [Next]_vars => IInv'
<1> SUFFICES ASSUME IInv, [Next]_vars PROVE IInv'
  OBVIOUS
<1>0. /\ TypeOK /\ cmd \in [Cmds -> Commands] /\ OneKey /\ Latest
      /\ \A q \in Cmds : Holds(cmd[q])
  BY DEF IInv
<1>1. ASSUME NEW c \in Cmds,
             Step(c) \/ \E r \in Roles, b \in BOOLEAN : Start(c, r, b)
      PROVE  IInv'
  BY <1>1, CommandStep
<1>2. CASE DeleteKey
  BY <1>2, DeleteStep
<1>3. CASE UNCHANGED <<keyFile, keys, certFile, cmd, history>> /\ now' \in {now, now + 1}
                   /\ now' \in 0..MaxTime
  <2>1. /\ keys' = keys /\ keyFile' = keyFile /\ certFile' = certFile /\ cmd' = cmd
        /\ pruned' = pruned /\ late' = late
    BY <1>3 DEF history
  <2>2. Certs' = Certs /\ Commands' = Commands
    BY <2>1, Zenon DEF Certs, Commands
  <2>3. \A q \in Cmds : cmd[q].started \in 0..now'
    BY <1>0, <1>3, CertCacheAssumption DEF TypeOK
  <2>4. TypeOK'
    BY <1>0, <1>3, <2>1, <2>2, <2>3, ZenonT(90) DEF TypeOK
  <2>5. OneKey' /\ Latest' /\ \A q \in Cmds : Holds(cmd[q])'
    BY <1>0, <2>1, ZenonT(90) DEF OneKey, Latest, Holds, HoldsAt, NoKey
  <2> QED BY <1>0, <2>1, <2>2, <2>4, <2>5, Zenon DEF IInv
<1>4. Tick => UNCHANGED <<keyFile, keys, certFile, cmd, history>> /\ now' \in {now, now + 1}
              /\ now' \in 0..MaxTime
  BY <1>0, CertCacheAssumption DEF Tick, TypeOK
<1>5. UNCHANGED vars => UNCHANGED <<keyFile, keys, certFile, cmd, history>>
                        /\ now' \in {now, now + 1} /\ now' \in 0..MaxTime
  BY <1>0 DEF vars, history, TypeOK
<1> QED BY <1>1, <1>2, <1>3, <1>4, <1>5 DEF Next

(* The files and commands keep their types: no command holds a key that    *)
(* ProfileKey did not link.                                                *)
THEOREM CacheTypeCorrect == Spec => []TypeOK
<1>1. IInv => TypeOK
  BY DEF IInv
<1> QED BY <1>1, InitHolds, StepHolds, PTL DEF Spec

(* Concurrent first-time callers of ProfileKey cannot both win: while the  *)
(* key is not deleted under running commands, every key held is the one on *)
(* disk.                                                                   *)
THEOREM OneKeyHolds == Spec => []OneKey
<1>1. IInv => OneKey
  BY DEF IInv
<1> QED BY <1>1, InitHolds, StepHolds, PTL DEF Spec
-----------------------------------------------------------------------------
(* What ssh finds when it is started.                                      *)

(* The certificate c goes by lives as long as promised.                    *)
Lives(c) == cmd[c].cert.before >= cmd[c].started + Promised(c)

(* The file is for the key on disk and lives as long as what c goes by.    *)
Good(c) ==
  /\ keyFile # NoKey
  /\ certFile[cmd[c].dev].key = keyFile
  /\ certFile[cmd[c].dev].before >= cmd[c].cert.before

(* The file is gone, and what c goes by has expired.                       *)
Gone(c) == certFile[cmd[c].dev] = NoCert /\ cmd[c].cert.before <= now

(* The file is the one c has read, or was put over it: a later key and a   *)
(* later end.                                                              *)
Newer(c) ==
  /\ certFile[cmd[c].dev].key >= cmd[c].cert.key
  /\ certFile[cmd[c].dev].before >= cmd[c].cert.before

Tracked(c) ==
  /\ cmd[c].pc \in {"getKey", "getLink"} => Gone(c) \/ Newer(c)
  /\ cmd[c].pc \in {"putKey", "putLink", "put", "use"} => Lives(c)
  /\ cmd[c].pc = "use" => cmd[c].lost \/ Gone(c) \/ Good(c)
  /\ \A v \in cmd[c].victims : v[2].before <= cmd[c].started

Undisturbed == ~pruned /\ ~late

TInv == IInv /\ (Undisturbed => \A c \in Cmds : Tracked(c))

(* History variables only ever become true.                                *)
LEMMA Disturbed ==
  ASSUME Next, Undisturbed'
  PROVE  Undisturbed
<1>1. late' = late \/ (late => late')
  BY ZenonT(90) DEF Next, Step, Start, LoadKey, LinkKey, KeyFails, GetCert, Request, PutCert,
    Use, List, Remove, FileFails, DeleteKey, Tick, history
<1>2. pruned' = pruned \/ (pruned => pruned')
  BY ZenonT(90) DEF Next, Step, Start, LoadKey, LinkKey, KeyFails, GetCert, Request, PutCert,
    Use, List, Remove, FileFails, DeleteKey, Tick, history
<1>3. ~late' /\ ~pruned'
  BY DEF Undisturbed
<1>4. ~late
  BY <1>1, <1>3, Zenon
<1>5. ~pruned
  BY <1>2, <1>3, Zenon
<1> QED BY <1>4, <1>5 DEF Undisturbed

(* What one command goes by is a number of ticks and a linked key.         *)
LEMMA CertTyped ==
  ASSUME IInv, NEW c \in Cmds
  PROVE  /\ cmd[c] \in Commands /\ cmd[c].dev \in Devices /\ cmd[c].cert \in Certs
         /\ cmd[c].cert.before \in Nat /\ cmd[c].cert.key \in 0..keys
         /\ cmd[c].cert.life \in Nat /\ cmd[c].started \in 0..now /\ now \in Nat
         /\ keys \in Nat
         /\ \A d \in Devices : /\ certFile[d] \in Certs /\ certFile[d].before \in Nat
                                /\ certFile[d].key \in 0..keys
<1>1. TypeOK /\ cmd[c] \in Commands
  BY DEF IInv
<1>2. cmd[c].dev \in Devices /\ cmd[c].cert \in Certs
  BY <1>1, Zenon DEF Commands
<1>3. now \in Nat /\ keys \in Nat /\ cmd[c].started \in 0..now
  BY <1>1, CertCacheAssumption DEF TypeOK
<1>4. \A d \in Devices : certFile[d] \in Certs
  BY <1>1 DEF TypeOK
<1>5. \A x \in Certs : x.before \in Nat /\ x.key \in 0..keys /\ x.life \in Nat
  BY DEF Certs
<1> QED BY <1>1, <1>2, <1>3, <1>4, <1>5

(* A command another one's step leaves alone stays tracked: a certificate  *)
(* put over the file is for the key on disk and lives no shorter, one that *)
(* is removed has expired.                                                 *)
LEMMA OthersTracked ==
  ASSUME TInv, NEW c \in Cmds, Undisturbed', Undisturbed,
         Step(c) \/ \E r \in Roles, b \in BOOLEAN : Start(c, r, b),
         NEW q \in Cmds, cmd'[q] = cmd[q], Tracked(q)
  PROVE  Tracked(q)'
<1>0. /\ IInv /\ TypeOK /\ Tracked(c)
      /\ cmd[c] \in Commands /\ cmd[q] \in Commands
  BY DEF TInv, IInv
<1>1. now' = now /\ (keyFile # NoKey => keyFile' = keyFile)
  BY <1>0, StepFiles
<1>2. /\ cmd[q].dev \in Devices /\ cmd[q].cert.before \in Nat /\ now \in Nat
      /\ cmd[q].cert.key \in 0..keys /\ keys \in Nat
  BY <1>0, CertTyped
<1>3. Lives(q) => Lives(q)'
  BY DEF Lives, Promised, NoKey
<1>4. ASSUME certFile'[cmd[q].dev] = certFile[cmd[q].dev] PROVE Tracked(q)'
  <2>1. (Good(q) => Good(q)') /\ (Gone(q) => Gone(q)') /\ (Newer(q) => Newer(q)')
    BY <1>1, <1>4 DEF Good, Gone, Newer, NoKey, NoCert
  <2> QED BY <1>3, <2>1, ZenonT(90) DEF Tracked
<1>5. CASE PutCert(c)
  <2>1. /\ cmd[c].dev \in Devices /\ cmd[c].cert \in Certs /\ cmd[c].cert.before \in Nat
        /\ certFile[cmd[c].dev].before \in Nat
    BY <1>0, CertTyped
  <2>2. /\ certFile' = [certFile EXCEPT ![cmd[c].dev] = cmd[c].cert]
        /\ keyFile' = keyFile /\ cmd[c].pc = "put"
    BY <1>5, Zenon DEF PutCert
  <2>3. /\ ~(cmd[c].cert.before < certFile[cmd[c].dev].before)
        /\ ~(cmd[c].cert.before <= now) /\ ~cmd[c].lost
    BY <1>5, Zenon DEF PutCert, Undisturbed
  <2>4. cmd[c].cert.key = keyFile /\ keyFile # NoKey /\ keyFile = keys
    BY <1>0, <2>2, <2>3 DEF IInv, OneKey, Holds, HoldsAt, Latest
  <2>5. CASE cmd[q].dev = cmd[c].dev
    <3>1. certFile'[cmd[q].dev] = cmd[c].cert
      BY <1>0, <1>2, <2>1, <2>2, <2>5, ZenonT(90) DEF TypeOK
    <3>2. Gone(q) \/ Good(q) \/ Newer(q) => cmd[c].cert.before >= cmd[q].cert.before
      BY <1>2, <2>1, <2>3, <2>5 DEF Gone, Good, Newer
    <3>3. cmd[c].cert.before >= cmd[q].cert.before => Good(q)' /\ Newer(q)'
      BY <1>2, <2>2, <2>4, <3>1 DEF Good, Newer, NoKey
    <3> QED BY <1>3, <3>2, <3>3, ZenonT(90) DEF Tracked
  <2>6. CASE cmd[q].dev # cmd[c].dev
    <3>1. certFile'[cmd[q].dev] = certFile[cmd[q].dev]
      BY <1>0, <1>2, <2>1, <2>2, <2>6, ZenonT(90) DEF TypeOK
    <3> QED BY <1>4, <3>1
  <2> QED BY <2>5, <2>6
<1>6. ASSUME NEW v \in cmd[c].victims, certFile' = [certFile EXCEPT ![v[1]] = NoCert],
             pruned' = (pruned \/ certFile[v[1]] \notin {v[2], NoCert})
      PROVE  Tracked(q)'
  <2>1. v[1] \in Devices /\ v[2] \in Certs
    BY <1>0 DEF Commands
  <2>2. certFile[v[1]] \in {v[2], NoCert} /\ v[2].before <= cmd[c].started
    BY <1>0, <1>6, ZenonT(90) DEF Undisturbed, Tracked
  <2>3. cmd[c].started \in 0..now /\ v[2].before \in Nat
    BY <1>0, <2>1, CertTyped DEF Certs
  <2>4. CASE cmd[q].dev = v[1]
    <3>1. certFile'[cmd[q].dev] = NoCert
      BY <1>0, <1>2, <1>6, <2>1, <2>4 DEF TypeOK
    <3>2. NoCert.before = 0
      BY ZenonT(90) DEF NoCert
    <3>3. certFile[cmd[q].dev].before <= now
      BY <1>2, <2>2, <2>3, <2>4, <3>2
    <3>4. certFile[cmd[q].dev].before \in Nat
      BY <1>0, <1>2, CertTyped
    <3>5. Gone(q) \/ Good(q) \/ Newer(q) => cmd[q].cert.before <= now
      BY <1>2, <3>3, <3>4 DEF Gone, Good, Newer
    <3>6. cmd[q].cert.before <= now => Gone(q)'
      BY <1>1, <3>1 DEF Gone, NoCert, NoKey
    <3> QED BY <1>3, <3>5, <3>6, ZenonT(90) DEF Tracked
  <2>5. CASE cmd[q].dev # v[1]
    <3>1. certFile'[cmd[q].dev] = certFile[cmd[q].dev]
      BY <1>0, <1>2, <1>6, <2>1, <2>5, ZenonT(90) DEF TypeOK
    <3> QED BY <1>4, <3>1
  <2> QED BY <2>4, <2>5
<1>7. CASE Remove(c)
  BY <1>4, <1>6, <1>7 DEF Remove
<1>8. CASE ~PutCert(c) /\ ~Remove(c)
  <2>1. certFile' = certFile
    BY <1>8, ZenonT(90) DEF Start, Step, LoadKey, LinkKey, KeyFails, GetCert, Request, Use, List,
      FileFails
  <2> QED BY <1>4, <2>1
<1> QED BY <1>5, <1>7, <1>8

(* A command that ends expects nothing of the files.                       *)
LEMMA ExitTracked ==
  ASSUME IInv, NEW c \in Cmds, Exit(c)
  PROVE  Tracked(c)'
<1>1. cmd'[c].pc = "exit" /\ cmd'[c].victims = {}
  BY DEF IInv, Exit, Idle
<1> QED BY <1>1 DEF Tracked

(* What a command that has loaded a key keeps.                             *)
LEMMA LoadedKeeps ==
  ASSUME IInv, NEW c \in Cmds, NEW h, NEW l, Loaded(c, h, l)
  PROVE  /\ cmd'[c].pc = l /\ cmd'[c].key = h
         /\ cmd'[c].dev = cmd[c].dev /\ cmd'[c].cert = cmd[c].cert
         /\ cmd'[c].started = cmd[c].started /\ cmd'[c].victims = cmd[c].victims
<1>1. cmd[c] \in Commands /\ cmd \in [Cmds -> Commands]
  BY DEF IInv
<1>2. cmd'[c] = [cmd[c] EXCEPT !.key = h, !.lost = FALSE, !.pc = l]
  BY <1>1, ZenonT(90) DEF Loaded
<1> QED BY <1>1, <1>2, ZenonT(90) DEF Commands

(* ProfileKey returns the key on disk, k: a hit is a certificate for k     *)
(* with the margin left, and since no later key exists, what was put over  *)
(* it is for k too.                                                        *)
LEMMA HaveKeyTracked ==
  ASSUME IInv, NEW c \in Cmds, NEW k \in Nat, k = keyFile', k # NoKey, HaveKey(c, k),
         cmd[c].pc \in {"getKey", "getLink", "key", "link", "putKey", "putLink"},
         now' = now, certFile' = certFile, keys <= k,
         Tracked(c)
  PROVE  Tracked(c)'
<1>0. Holds(cmd[c])
  BY DEF IInv
<1>1. CASE cmd[c].pc \in {"getKey", "getLink"}
  <2>1. Loaded(c, cmd[c].key, IF Hit(cmd[c].cert, k) THEN "use" ELSE "key")
    BY <1>1, ZenonT(90) DEF HaveKey
  <2>2. cmd[c].key = NoKey
    BY <1>0, <1>1 DEF Holds, HoldsAt
  <2>3. CASE Hit(cmd[c].cert, k)
    <3>1. /\ cmd'[c].pc = "use" /\ cmd'[c].key = NoKey
          /\ cmd'[c].dev = cmd[c].dev /\ cmd'[c].cert = cmd[c].cert
          /\ cmd'[c].started = cmd[c].started /\ cmd'[c].victims = cmd[c].victims
      BY <2>1, <2>2, <2>3, LoadedKeeps, ZenonT(90)
    <3>2. cmd[c].cert.key = k /\ cmd[c].cert.before >= now + Margin
      BY <2>3 DEF Hit
    <3>3. /\ cmd[c].started \in 0..now /\ cmd[c].cert.before \in Nat /\ now \in Nat
          /\ Margin \in Nat \ {0} /\ certFile[cmd[c].dev].key \in 0..keys /\ keys \in Nat
      BY CertTyped, CertCacheAssumption
    <3>4. cmd[c].cert.before >= cmd[c].started + Margin
      BY <3>2, <3>3
    <3>5. Lives(c)'
      BY <3>1, <3>4 DEF Lives, Promised, NoKey
    <3>6. ~Gone(c)
      BY <3>2, <3>3 DEF Gone
    <3>7. Newer(c)
      BY <1>1, <3>6, ZenonT(90) DEF Tracked
    <3>8. Good(c)'
      BY <3>1, <3>2, <3>3, <3>7 DEF Good, Newer, NoKey
    <3> QED BY <3>1, <3>5, <3>8, ZenonT(90) DEF Tracked
  <2>4. CASE ~Hit(cmd[c].cert, k)
    <3>1. /\ cmd'[c].pc = "key" /\ cmd'[c].started = cmd[c].started
          /\ cmd'[c].victims = cmd[c].victims
      BY <2>1, <2>4, LoadedKeeps, ZenonT(90)
    <3> QED BY <3>1, Zenon DEF Tracked
  <2> QED BY <2>3, <2>4
<1>2. CASE cmd[c].pc \in {"key", "link"}
  <2>1. Loaded(c, k, "request")
    BY <1>2, ZenonT(90) DEF HaveKey
  <2>2. /\ cmd'[c].pc = "request" /\ cmd'[c].started = cmd[c].started
        /\ cmd'[c].victims = cmd[c].victims
    BY <2>1, LoadedKeeps
  <2> QED BY <2>2, Zenon DEF Tracked
<1>3. CASE cmd[c].pc \in {"putKey", "putLink"}
  <2>1. CASE Loaded(c, cmd[c].key, "put")
    <3>1. /\ cmd'[c].pc = "put" /\ cmd'[c].started = cmd[c].started
          /\ cmd'[c].victims = cmd[c].victims /\ cmd'[c].cert = cmd[c].cert
          /\ cmd'[c].key = cmd[c].key
      BY <2>1, LoadedKeeps
    <3>2. Lives(c)'
      BY <1>3, <3>1 DEF Tracked, Lives, Promised, NoKey
    <3> QED BY <3>1, <3>2, Zenon DEF Tracked
  <2> QED BY <1>3, <2>1, ExitTracked, ZenonT(90) DEF HaveKey
<1> QED BY <1>1, <1>2, <1>3

(* The command that steps stays tracked.                                   *)
LEMMA SelfTracked ==
  ASSUME IInv, NEW c \in Cmds, Tracked(c),
         Step(c) \/ \E r \in Roles, b \in BOOLEAN : Start(c, r, b)
  PROVE  Tracked(c)'
<1>0. cmd[c] \in Commands /\ TypeOK
  BY DEF IInv
<1>1. now' = now /\ (keyFile # NoKey => keyFile' = keyFile)
  BY StepFiles
<1>2. ASSUME NEW r \in Roles, NEW b \in BOOLEAN, Start(c, r, b) PROVE Tracked(c)'
  <2>1. PICK l \in {"list", "get", "key"} :
          cmd' = [cmd EXCEPT ![c].role = r, ![c].started = now, ![c].pc = l]
    BY <1>2, ZenonT(90) DEF Start
  <2>2. cmd'[c].pc = l /\ cmd'[c].started = now /\ cmd'[c].victims = cmd[c].victims
    BY <1>0, <2>1 DEF IInv, Commands
  <2>3. cmd[c].started \in 0..now /\ now \in Nat
    BY <1>0, CertCacheAssumption DEF TypeOK
  <2>4. ASSUME NEW v \in cmd[c].victims PROVE v[2].before \in Nat /\ v[2].before <= now
    <3>1. v \in Devices \X Certs
      BY <1>0, Zenon DEF Commands
    <3>2. v[2].before \in Nat
      BY <3>1 DEF Certs
    <3> QED BY <2>3, <3>2 DEF Tracked
  <2> QED BY <2>2, <2>4, Zenon DEF Tracked
<1>3. CASE LoadKey(c)
  <2>1. CASE keyFile # NoKey
    <3>1. PICK k \in Nat : k = keyFile /\ k = keyFile' /\ keys <= k
      BY <1>0, <1>3, <2>1 DEF LoadKey, TypeOK, IInv, Latest
    <3> QED BY <1>1, <1>3, <2>1, <3>1, HaveKeyTracked DEF LoadKey
  <2>2. CASE keyFile = NoKey
    <3>1. PICK l \in {"getLink", "link", "putLink"} :
            /\ Goto(c, l)
            /\ l = "getLink" => cmd[c].pc = "getKey"
            /\ l = "putLink" => cmd[c].pc = "putKey"
      BY <1>3, <2>2 DEF LoadKey
    <3>2. /\ cmd'[c].pc = l /\ cmd'[c].started = cmd[c].started
          /\ cmd'[c].victims = cmd[c].victims /\ cmd'[c].cert = cmd[c].cert
          /\ cmd'[c].dev = cmd[c].dev /\ cmd'[c].key = cmd[c].key
      BY <1>0, <3>1 DEF IInv, Commands, Goto
    <3>3. certFile' = certFile /\ keyFile' = keyFile
      BY <1>3, ZenonT(90) DEF LoadKey
    <3>4. (Newer(c) => Newer(c)') /\ (Gone(c) => Gone(c)') /\ (Lives(c) => Lives(c)')
      BY <1>1, <3>2, <3>3, Zenon DEF Newer, Gone, Lives, Promised, NoKey, NoCert
    <3> QED BY <3>1, <3>2, <3>3, <3>4, Zenon DEF Tracked
  <2> QED BY <2>1, <2>2
<1>4. CASE LinkKey(c)
  <2>1. PICK k \in Nat : k = keyFile' /\ k # NoKey /\ keys <= k
    BY <1>0, <1>4 DEF LinkKey, TypeOK, NoKey, IInv, Latest
  <2> QED BY <1>1, <1>4, <2>1, HaveKeyTracked, ZenonT(90) DEF LinkKey
<1>5. CASE GetCert(c)
  <2>1. CASE Goto(c, "key")
    <3>1. /\ cmd'[c].pc = "key" /\ cmd'[c].started = cmd[c].started
          /\ cmd'[c].victims = cmd[c].victims
      BY <1>0, <2>1, Zenon DEF IInv, Commands, Goto
    <3> QED BY <3>1, Zenon DEF Tracked
  <2>2. CASE cmd' = [cmd EXCEPT ![c].cert = certFile[cmd[c].dev], ![c].pc = "getKey"]
    <3>1. /\ cmd'[c].pc = "getKey" /\ cmd'[c].started = cmd[c].started
          /\ cmd'[c].victims = cmd[c].victims /\ cmd'[c].dev = cmd[c].dev
          /\ cmd'[c].cert = certFile[cmd[c].dev]
      BY <1>0, <2>2 DEF IInv, Commands
    <3>2. certFile' = certFile
      BY <1>5 DEF GetCert
    <3>3. Newer(c)'
      <4>1. certFile[cmd[c].dev].key \in Nat /\ certFile[cmd[c].dev].before \in Nat
        BY CertTyped
      <4> QED BY <3>1, <3>2, <4>1 DEF Newer
    <3> QED BY <3>1, <3>3, Zenon DEF Tracked
  <2> QED BY <1>5, <2>1, <2>2, Zenon DEF GetCert
<1>6. CASE Request(c)
  <2>1. ASSUME NEW ttl \in Lifetimes,
               cmd' = [cmd EXCEPT ![c].cert = Granted(cmd[c].key, ttl), ![c].pc = "putKey"]
        PROVE  Tracked(c)'
    <3> DEFINE g == Granted(cmd[c].key, ttl)
    <3>0. g.before = now + ttl /\ g.life = ttl
      BY DEF Granted
    <3> HIDE DEF g
    <3>1. /\ cmd'[c].pc = "putKey" /\ cmd'[c].started = cmd[c].started
          /\ cmd'[c].victims = cmd[c].victims /\ cmd'[c].cert = g
          /\ cmd'[c].key = cmd[c].key
      BY <1>0, <2>1 DEF IInv, Commands, g
    <3>2. now + ttl >= cmd[c].started + ttl
      BY CertTyped, CertCacheAssumption
    <3>3. cmd[c].key # NoKey
      BY <1>6 DEF IInv, Holds, HoldsAt, Request
    <3>4. Lives(c)'
      BY <3>0, <3>1, <3>2, <3>3 DEF Lives, Promised, NoKey
    <3> QED BY <3>1, <3>4, Zenon DEF Tracked
  <2> QED BY <1>6, <2>1, ExitTracked, ZenonT(90) DEF Request
<1>7. CASE PutCert(c)
  <2>1. CASE Goto(c, "use")
    <3>1. /\ cmd'[c].pc = "use" /\ cmd'[c].started = cmd[c].started
          /\ cmd'[c].victims = cmd[c].victims /\ cmd'[c].dev = cmd[c].dev
          /\ cmd'[c].cert = cmd[c].cert /\ cmd'[c].key = cmd[c].key
          /\ cmd'[c].lost = cmd[c].lost
      BY <1>0, <2>1 DEF IInv, Commands, Goto
    <3>2. cmd[c].pc = "put" /\ Lives(c) /\ keyFile' = keyFile
      BY <1>7, ZenonT(90) DEF PutCert, Tracked
    <3>3. cmd[c].dev \in Devices /\ cmd[c].cert \in Certs /\ cmd[c].cert.before \in Nat
      BY CertTyped
    <3>4. certFile'[cmd[c].dev] = cmd[c].cert
      BY <1>0, <1>7, <3>3 DEF PutCert, TypeOK
    <3>5. cmd[c].lost \/ (cmd[c].cert.key = keyFile /\ keyFile # NoKey)
      BY <3>2 DEF IInv, OneKey, Holds, HoldsAt
    <3>6. cmd'[c].lost \/ Good(c)'
      BY <3>1, <3>2, <3>3, <3>4, <3>5 DEF Good, NoKey
    <3>7. Lives(c)'
      BY <3>1, <3>2 DEF Lives, Promised, NoKey
    <3> QED BY <3>1, <3>6, <3>7, ZenonT(90) DEF Tracked
  <2> QED BY <1>7, <2>1, ExitTracked, ZenonT(90) DEF PutCert
<1>8. CASE List(c)
  <2>1. /\ cmd'[c].pc = "remove" /\ cmd'[c].started = cmd[c].started
        /\ cmd'[c].victims = {<<d, certFile[d]>> : d \in Expired(cmd[c].started)}
    BY <1>0, <1>8 DEF IInv, Commands, List
  <2>2. \A d \in Expired(cmd[c].started) : certFile[d].before <= cmd[c].started
    BY DEF Expired
  <2>3. \A v \in cmd'[c].victims : v[2].before <= cmd'[c].started
    BY <2>1, <2>2
  <2> QED BY <2>1, <2>3, Zenon DEF Tracked
<1>9. CASE Remove(c)
  <2>1. ASSUME NEW v \in cmd[c].victims, cmd' = [cmd EXCEPT ![c].victims = @ \ {v}]
        PROVE  Tracked(c)'
    <3>1. /\ cmd'[c].pc = "remove" /\ cmd'[c].started = cmd[c].started
          /\ cmd'[c].victims = cmd[c].victims \ {v}
      BY <1>0, <1>9, <2>1 DEF IInv, Commands, Remove
    <3> QED BY <3>1 DEF Tracked
  <2> QED BY <1>9, <2>1, ExitTracked, ZenonT(90) DEF Remove
<1>10. CASE KeyFails(c) \/ Use(c) \/ FileFails(c)
  BY <1>10, ExitTracked DEF KeyFails, Use, FileFails
<1> QED
  BY <1>2, <1>3, <1>4, <1>5, <1>6, <1>7, <1>8, <1>9, <1>10 DEF Step

(* While the excepted situations have not come up, all stay tracked.       *)
LEMMA TrackedStep ==
  ASSUME TInv, [Next]_vars, Undisturbed', NEW q \in Cmds
  PROVE  Tracked(q)'
<1>0. IInv /\ TypeOK /\ cmd[q] \in Commands
  BY DEF TInv, IInv
<1>1. CASE UNCHANGED vars
  <2>1. Undisturbed
    BY <1>1 DEF Undisturbed, vars
  <2>2. Tracked(q)
    BY <2>1 DEF TInv
  <2> QED BY <1>1, <2>2, ZenonT(90) DEF Tracked, Lives, Promised, Good, Gone, Newer, vars,
    NoKey, NoCert
<1>2. ASSUME Next PROVE Undisturbed /\ Tracked(q)
  BY <1>2, Disturbed DEF TInv
<1>3. ASSUME NEW c \in Cmds, Next,
             Step(c) \/ \E r \in Roles, b \in BOOLEAN : Start(c, r, b)
      PROVE  Tracked(q)'
  <2>1. CASE q = c
    BY <1>0, <1>2, <1>3, <2>1, SelfTracked
  <2>2. CASE q # c
    <3>1. PICK n \in Commands : Becomes(c, n)
      BY <1>0, <1>3, StepBecomes
    <3>2. cmd'[q] = cmd[q]
      BY <2>2, <3>1 DEF Becomes, TInv, IInv
    <3> QED BY <1>2, <1>3, <3>2, OthersTracked
  <2> QED BY <2>1, <2>2
<1>4. CASE DeleteKey
  <2>1. /\ Tracked(q) /\ certFile' = certFile /\ now' = now
        /\ cmd'[q] = [cmd[q] EXCEPT !.lost = Running(q)]
    BY <1>2, <1>4, ZenonT(90) DEF Next, DeleteKey
  <2>2. /\ cmd'[q].pc = cmd[q].pc /\ cmd'[q].dev = cmd[q].dev /\ cmd'[q].key = cmd[q].key
        /\ cmd'[q].cert = cmd[q].cert /\ cmd'[q].started = cmd[q].started
        /\ cmd'[q].victims = cmd[q].victims /\ cmd'[q].lost = Running(q)
    BY <1>0, <2>1, ZenonT(90) DEF Commands
  <2>3. (Newer(q) => Newer(q)') /\ (Gone(q) => Gone(q)') /\ (Lives(q) => Lives(q)')
    BY <2>1, <2>2, Zenon DEF Newer, Gone, Lives, Promised, NoKey, NoCert
  <2>4. cmd'[q].pc = "use" => cmd'[q].lost
    BY <2>2, Zenon DEF Running
  <2> QED BY <2>1, <2>2, <2>3, <2>4, ZenonT(90) DEF Tracked
<1>5. CASE Tick
  <2>1. /\ cmd' = cmd /\ certFile' = certFile /\ keyFile' = keyFile /\ now' = now + 1
        /\ Tracked(q)
    BY <1>2, <1>5 DEF Tick, Next
  <2>2. now \in Nat /\ cmd[q].cert.before \in Nat
    BY <1>0, CertTyped
  <2>3. /\ Good(q) => Good(q)'
        /\ Gone(q) => Gone(q)'
        /\ Newer(q) => Newer(q)'
        /\ Lives(q) => Lives(q)'
    BY <2>1, <2>2 DEF Good, Gone, Newer, Lives, Promised, NoKey, NoCert
  <2> QED BY <2>1, <2>3, ZenonT(90) DEF Tracked
<1> QED BY <1>1, <1>3, <1>4, <1>5 DEF Next

(* When ssh or scp is about to exec, the certificate file is for the key   *)
(* on disk and has the safety margin left (found) or the lifetime granted  *)
(* (minted), counting from the command's start, whatever other commands    *)
(* mint and prune, outside the three situations UseFindsCert excepts; for  *)
(* any number of commands, devices, lifetimes and keys.                    *)
THEOREM UseFindsCertHolds == Spec => []UseFindsCert
<1>1. Init => TInv
  <2> SUFFICES ASSUME Init PROVE TInv
    OBVIOUS
  <2>1. IInv
    BY InitHolds
  <2>2. PICK dev \in [Cmds -> Devices] : cmd = [c \in Cmds |-> Idle(dev[c])]
    BY DEF Init
  <2>3. ASSUME NEW c \in Cmds PROVE Tracked(c)
    <3>1. cmd[c].pc = "idle" /\ cmd[c].victims = {}
      BY <2>2 DEF Idle
    <3> QED BY <3>1 DEF Tracked
  <2> QED BY <2>1, <2>3 DEF TInv
<1>2. TInv /\ [Next]_vars => TInv'
  <2> SUFFICES ASSUME TInv, [Next]_vars PROVE TInv'
    OBVIOUS
  <2>1. IInv'
    BY StepHolds DEF TInv
  <2>2. ASSUME Undisturbed' PROVE \A c \in Cmds : Tracked(c)'
    BY <2>2, TrackedStep
  <2> QED BY <2>1, <2>2 DEF TInv
<1>3. TInv => UseFindsCert
  <2> SUFFICES ASSUME TInv, NEW c \in Cmds, cmd[c].pc = "use", ~cmd[c].lost, Undisturbed
               PROVE  \/ /\ keyFile # NoKey /\ certFile[cmd[c].dev].key = keyFile
                         /\ certFile[cmd[c].dev].before >= cmd[c].started + Promised(c)
                      \/ certFile[cmd[c].dev] = NoCert /\ cmd[c].cert.before <= now
    BY DEF UseFindsCert, Undisturbed
  <2>0. IInv /\ Tracked(c)
    BY DEF TInv
  <2>1. Gone(c) \/ Good(c)
    BY <2>0, Zenon DEF Tracked
  <2>2. cmd[c].cert.before >= cmd[c].started + Promised(c)
    BY <2>0 DEF Tracked, Lives
  <2>3. /\ certFile[cmd[c].dev].before \in Nat /\ cmd[c].cert.before \in Nat
        /\ cmd[c].started \in Nat /\ Promised(c) \in Nat
    <3>1. Promised(c) \in Nat
      BY <2>0, CertTyped, CertCacheAssumption DEF Promised
    <3> QED BY <2>0, <3>1, CertTyped
  <2>4. Good(c) => certFile[cmd[c].dev].before >= cmd[c].started + Promised(c)
    BY <2>2, <2>3 DEF Good
  <2> QED BY <2>1, <2>4 DEF Good, Gone
<1> QED BY <1>1, <1>2, <1>3, PTL DEF Spec
=============================================================================
