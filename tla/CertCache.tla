----------------------------- MODULE CertCache -----------------------------
(***************************************************************************)
(* The CLI's on-disk certificate cache of one profile and the commands     *)
(* that share it: `ssh`/`scp`/`tunnel` (ensureFreshCert), `mint` and       *)
(* `add-host` (mintAndCache) and `cache prune`                             *)
(* (internal/certcache, internal/atomicfile, pkg/cliapp/certflow.go).      *)
(*                                                                         *)
(* Each command is a process; the files are all they share.  A key or      *)
(* certificate file is read, linked or renamed in one step, and any other  *)
(* command may run between two such steps.  Keys are numbered as they are  *)
(* linked; a certificate is the key it certifies, the tick its validity    *)
(* ends and the lifetime the broker granted it.                            *)
(***************************************************************************)
EXTENDS Naturals

CONSTANTS Cmds,       \* the commands
          Devices,    \* device ids
          Lifetimes,  \* certificate lifetimes the broker grants, in ticks
          Margin,     \* cacheHitSafetyMargin, in ticks
          MaxKeys,    \* bound on the keys that come to be linked
          MaxTime     \* bound on the clock

ASSUME CertCacheAssumption ==
  /\ Lifetimes \subseteq Nat \ {0}
  /\ Margin \in Nat \ {0}
  /\ MaxKeys \in Nat
  /\ MaxTime \in Nat

VARIABLES now,      \* the clock
          keyFile,  \* <profile>/key
          keys,     \* the number of keys linked so far
          certFile, \* <profile>/<device>.cert
          cmd,      \* the state of each command
          pruned,   \* history: a prune removed a file it had not looked at
          late      \* history: a mint put an expired or shorter-lived file,
                    \* or one for a key deleted since PutCert compared

vars == <<now, keyFile, keys, certFile, cmd, pruned, late>>

history == <<pruned, late>>

NoKey == 0

NoCert == [key |-> NoKey, before |-> 0, life |-> 0]

\* Certificates of the keys linked so far.
Certs == [key : 0..keys, before : Nat, life : Nat]

Roles == {"ssh", "mint", "prune"}

\* GetCert is get, getKey, getLink; mintAndCache is key, link, request;
\* PutCert is putKey, putLink, put; PruneExpired is list, remove.
Labels == {"idle", "get", "getKey", "getLink", "key", "link", "request",
           "putKey", "putLink", "put", "list", "remove", "use", "exit"}

\* A command: where it is, which one, its device, when it started, the profile
\* key and the certificate it holds, the files a prune is about to remove, and
\* (history) whether the key was deleted since its last ProfileKey.
Idle(d) ==
  [pc |-> "idle", role |-> "mint", dev |-> d, started |-> 0, key |-> NoKey,
   cert |-> NoCert, victims |-> {}, lost |-> FALSE]

Running(c) == cmd[c].pc \notin {"idle", "exit"}

Init ==
  /\ now = 0
  /\ keyFile = NoKey
  /\ keys = 0
  /\ certFile = [d \in Devices |-> NoCert]
  /\ \E dev \in [Cmds -> Devices] : cmd = [c \in Cmds |-> Idle(dev[c])]
  /\ pruned = FALSE
  /\ late = FALSE

Goto(c, l) == cmd' = [cmd EXCEPT ![c].pc = l]

\* A command that returns keeps nothing but its files.
Exit(c) == cmd' = [cmd EXCEPT ![c] = [Idle(@.dev) EXCEPT !.pc = "exit"]]

\* ssh and scp with --refresh, mint and add-host go straight to the mint.
Start(c, r, refresh) ==
  /\ cmd[c].pc = "idle"
  /\ cmd' = [cmd EXCEPT ![c].role = r,
                        ![c].started = now,
                        ![c].pc = CASE r = "prune"           -> "list"
                                    [] r = "ssh" /\ ~refresh -> "get"
                                    [] OTHER                 -> "key"]
  /\ UNCHANGED <<now, keyFile, keys, certFile, history>>
-----------------------------------------------------------------------------
(***************************************************************************)
(* ProfileKey, called by GetCert, mintAndCache and PutCert.                *)
(***************************************************************************)

\* Mutant of Hit: any certificate that has not expired is a hit.
HitUnexpired(cert, k) == cert.key = k /\ cert.before > now

\* GetCert and ensureFreshCert: a foreign, expired or nearly expired
\* certificate is a miss.
Hit(cert, k) == cert.key = k /\ cert.before >= now + Margin

\* Mutant of Matches: PutCert writes the certificate without comparing.
MatchesAny(cert, k) == TRUE

\* PutCert: the certificate is for the profile key.
Matches(cert, k) == cert.key = k

Loaded(c, k, l) == cmd' = [cmd EXCEPT ![c].key = k, ![c].lost = FALSE, ![c].pc = l]

\* ProfileKey has key k: GetCert decides on the hit, mintAndCache asks the
\* broker, PutCert compares.
HaveKey(c, k) ==
  LET me == cmd[c]
  IN CASE me.pc \in {"getKey", "getLink"} ->
            Loaded(c, me.key, IF Hit(me.cert, k) THEN "use" ELSE "key")
       [] me.pc \in {"key", "link"} -> Loaded(c, k, "request")
       [] me.pc \in {"putKey", "putLink"} ->
            IF Matches(me.cert, k) THEN Loaded(c, me.key, "put") ELSE Exit(c)

\* loadProfileKey.
LoadKey(c) ==
  /\ cmd[c].pc \in {"getKey", "key", "putKey"}
  /\ IF keyFile # NoKey
     THEN HaveKey(c, keyFile)
     ELSE Goto(c, CASE cmd[c].pc = "getKey" -> "getLink"
                    [] cmd[c].pc = "key"    -> "link"
                    [] cmd[c].pc = "putKey" -> "putLink")
  /\ UNCHANGED <<now, keyFile, keys, certFile, history>>

\* Mutant of LinkKey: the loser goes on with the key it generated, which is
\* in no file.
LinkKeyKeepsOwn(c) ==
  /\ cmd[c].pc \in {"getLink", "link", "putLink"}
  /\ keys' = IF keyFile = NoKey THEN keys + 1 ELSE keys
  /\ keyFile' = IF keyFile = NoKey THEN keys' ELSE keyFile
  /\ HaveKey(c, keys + 1)
  /\ UNCHANGED <<now, certFile, history>>

\* writeProfileKeyExclusive links a fresh key into place; the loser of the
\* race drops the key it generated and loads the winner's.  The failed link
\* changes nothing, so it is one step with that load; a load that finds the
\* winner's key deleted meanwhile is KeyFails.
LinkKey(c) ==
  /\ cmd[c].pc \in {"getLink", "link", "putLink"}
  /\ keys' = IF keyFile = NoKey THEN keys + 1 ELSE keys
  /\ keyFile' = IF keyFile = NoKey THEN keys' ELSE keyFile
  /\ HaveKey(c, keyFile')
  /\ UNCHANGED <<now, certFile, history>>

\* The key file or its directory cannot be read or written, or holds no key.
KeyFails(c) ==
  /\ cmd[c].pc \in {"getKey", "getLink", "key", "link", "putKey", "putLink"}
  /\ Exit(c)
  /\ UNCHANGED <<now, keyFile, keys, certFile, history>>
-----------------------------------------------------------------------------
\* GetCert: loadCert.  A missing file is a miss.
GetCert(c) ==
  LET file == certFile[cmd[c].dev]
  IN /\ cmd[c].pc = "get"
     /\ IF file = NoCert
        THEN Goto(c, "key")
        ELSE cmd' = [cmd EXCEPT ![c].cert = file, ![c].pc = "getKey"]
     /\ UNCHANGED <<now, keyFile, keys, certFile, history>>

Granted(k, ttl) == [key |-> k, before |-> now + ttl, life |-> ttl]

\* The access token and the broker: a certificate for the key sent, or an error.
Request(c) ==
  /\ cmd[c].pc = "request"
  /\ \/ \E ttl \in Lifetimes :
          cmd' = [cmd EXCEPT ![c].cert = Granted(cmd[c].key, ttl), ![c].pc = "putKey"]
     \/ Exit(c)
  /\ UNCHANGED <<now, keyFile, keys, certFile, history>>

\* PutCert renames the certificate into place; ssh goes on to exec.
PutCert(c) ==
  LET me == cmd[c]
  IN /\ me.pc = "put"
     /\ certFile' = [certFile EXCEPT ![me.dev] = me.cert]
     /\ late' = \/ late
                \/ me.cert.before < certFile[me.dev].before
                \/ me.cert.before <= now
                \/ me.lost
     /\ IF me.role = "ssh" THEN Goto(c, "use") ELSE Exit(c)
     /\ UNCHANGED <<now, keyFile, keys, pruned>>

\* The exec of ssh or scp with the paths of the two files.
Use(c) ==
  /\ cmd[c].pc = "use"
  /\ Exit(c)
  /\ UNCHANGED <<now, keyFile, keys, certFile, history>>

\* ListEntries and the filter of PruneExpired, on the time the command started.
Expired(t) == {d \in Devices : certFile[d] # NoCert /\ certFile[d].before <= t}

\* PruneExpired lists the expired files first.
List(c) ==
  /\ cmd[c].pc = "list"
  /\ cmd' = [cmd EXCEPT ![c].pc = "remove",
                        ![c].victims = {<<d, certFile[d]>> : d \in Expired(cmd[c].started)}]
  /\ UNCHANGED <<now, keyFile, keys, certFile, history>>

\* os.Remove of one listed path, whatever the file holds by now.
Remove(c) ==
  /\ cmd[c].pc = "remove"
  /\ \/ /\ cmd[c].victims = {}
        /\ Exit(c)
        /\ UNCHANGED <<certFile, pruned>>
     \/ \E v \in cmd[c].victims :
          /\ certFile' = [certFile EXCEPT ![v[1]] = NoCert]
          /\ cmd' = [cmd EXCEPT ![c].victims = @ \ {v}]
          /\ pruned' = (pruned \/ certFile[v[1]] \notin {v[2], NoCert})
  /\ UNCHANGED <<now, keyFile, keys, late>>

\* A cache file that cannot be read, written or removed ends the command.
FileFails(c) ==
  /\ cmd[c].pc \in {"get", "put", "list", "remove"}
  /\ Exit(c)
  /\ UNCHANGED <<now, keyFile, keys, certFile, history>>

\* Out of band: the engineer deletes the profile key.
DeleteKey ==
  /\ keyFile # NoKey
  /\ keys < MaxKeys
  /\ keyFile' = NoKey
  /\ cmd' = [c \in Cmds |-> [cmd[c] EXCEPT !.lost = Running(c)]]
  /\ UNCHANGED <<now, keys, certFile, history>>

Tick ==
  /\ now < MaxTime
  /\ now' = now + 1
  /\ UNCHANGED <<keyFile, keys, certFile, cmd, history>>

Step(c) ==
  \/ LoadKey(c) \/ LinkKey(c) \/ KeyFails(c)
  \/ GetCert(c) \/ Request(c) \/ PutCert(c) \/ Use(c)
  \/ List(c) \/ Remove(c) \/ FileFails(c)

Next ==
  \/ \E c \in Cmds : \/ \E r \in Roles, b \in BOOLEAN : Start(c, r, b)
                     \/ Step(c)
  \/ DeleteKey
  \/ Tick

Spec == Init /\ [][Next]_vars
-----------------------------------------------------------------------------
\* The types.  By Certs and the bounds on keyFile and key, every key that a
\* command holds, and every key a certificate in a file, a command or a
\* prune's list was issued for, is one that ProfileKey linked into place: no
\* certificate is minted for a key that never was on disk.
TypeOK ==
  /\ now \in 0..MaxTime
  /\ keys \in Nat
  /\ keyFile \in 0..keys
  /\ certFile \in [Devices -> Certs]
  /\ \A c \in Cmds :
       /\ cmd[c].pc \in Labels
       /\ cmd[c].role \in Roles
       /\ cmd[c].dev \in Devices
       /\ cmd[c].started \in 0..now
       /\ cmd[c].key \in 0..keys
       /\ cmd[c].cert \in Certs
       /\ cmd[c].victims \subseteq Devices \X Certs
       /\ cmd[c].lost \in BOOLEAN
  /\ <<pruned, late>> \in BOOLEAN \X BOOLEAN

\* ProfileKey, "concurrent first-time callers cannot both win": the key a
\* command mints for, and then puts the certificate of, is the one on disk,
\* unless that was deleted since the command last called ProfileKey.  A
\* deletion between the mint and PutCert is no exception: PutCert calls it
\* again.
OneKey ==
  \A c \in Cmds : cmd[c].key \in {NoKey, keyFile} \/ cmd[c].lost

\* What ensureFreshCert promises of the certificate it found or minted: a
\* hit (no key was loaded to mint) has the safety margin left, a mint the
\* lifetime the broker granted.
Promised(c) == IF cmd[c].key = NoKey THEN Margin ELSE cmd[c].cert.life

\* ensureFreshCert: when ssh or scp is about to exec, the certificate file
\* certifies the key on disk, even when the key was deleted between two
\* commands and other commands mint and prune the same device; and counting
\* from the command's start it has the safety margin left if the command
\* found its certificate, and the whole lifetime the broker granted if it
\* minted one.  The file can only be missing when the command was so slow
\* that the certificate it found or minted has expired.  Excepted are a key
\* deleted since the command's last ProfileKey, a prune that removed a file
\* renewed after the listing, and a mint so slow that it put back an expired
\* or shorter-lived certificate or one whose key was deleted since PutCert
\* compared it.
UseFindsCert ==
  \A c \in Cmds :
    cmd[c].pc = "use" /\ ~cmd[c].lost /\ ~pruned /\ ~late =>
      LET file == certFile[cmd[c].dev]
      IN  \/ /\ keyFile # NoKey /\ file.key = keyFile
             /\ file.before >= cmd[c].started + Promised(c)
          \/ file = NoCert /\ cmd[c].cert.before <= now
=============================================================================
