---------------------------- MODULE TunnelHosts ----------------------------
(***************************************************************************)
(* The Postern-managed ssh.conf and the commands that edit it:             *)
(* `postern tunnel`, `postern tunnel --reap`, `postern ssh/scp --tunnel`,  *)
(* `postern add-host` and `postern remove-host`                            *)
(* (internal/sshconf, pkg/cliapp/tunnel_open.go, tunnel.go, ssh.go).       *)
(*                                                                         *)
(* Every command is a process of its own.  The file has no lock: an edit   *)
(* reads the whole file, decides on what it read and renames a new file    *)
(* over the old one, so another command may edit the file in between.  A   *)
(* process may be killed at any step; the stanza of a killed `tunnel`      *)
(* command stays behind until a reaper finds that its pid is dead.         *)
(*                                                                         *)
(* A stanza is abstracted to what the code branches on: absent, persistent *)
(* or ephemeral, and then the pid of its sentinel line.  The port of an    *)
(* ephemeral stanza is the loopback port of that command's proxy.          *)
(***************************************************************************)
EXTENDS FiniteSets, Naturals

CONSTANTS Cmds,     \* the commands, each named by its pid
          Devices   \* device ids

ASSUME TunnelHostsAssumption == /\ IsFiniteSet(Cmds)
                                /\ Cmds \cap {"absent", "persistent"} = {}

VARIABLES conf,      \* the file: the stanza of every host name
          pc,        \* where each command is
          role,      \* which command it is
          host,      \* the host name the command was run for
          op,        \* the file operation it is in
          target,    \* the host name that operation edits
          seen,      \* the file content the operation read
          todo,      \* the reaper's candidates: <<host, pid>> still to visit
          proxy,     \* the command's source proxy and its listener
          recycled,  \* pids of dead commands now carried by other processes
          busy,      \* history: commands inside a file operation
          raced,     \* history: two file operations overlapped
          failed,    \* history: a file operation of the command failed
          added,     \* history: hosts add-host wrote and remove-host did not
          undone,    \* history: commands whose stanza add/remove-host edited
          stale      \* history: pids that were dead when the reaper looked

vars == <<conf, pc, role, host, op, target, seen, todo, proxy,
          recycled, busy, raced, failed, added, undone, stale>>

Hosts == Devices \X {"lan", "tunnel"}

\* tunnelHostname: the suffixed name a `tunnel` command registers.
TunnelHost(d) == <<d, "tunnel">>

TunnelHosts == {TunnelHost(d) : d \in Devices}

Stanzas == {"absent", "persistent"} \cup Cmds

Empty == [h \in Hosts |-> "absent"]

NoHost == <<"no device", "none">>

Roles == {"none", "tunnel", "portonly", "reap", "ssh", "addhost", "removehost"}

Ops == {"none", "Reap", "UpsertEphemeral", "RemoveEphemeral", "Upsert", "Remove"}

Labels == {"idle", "read", "check", "sweep", "write", "dial", "mint", "hold",
           "teardown", "exit", "killed"}

Alive(c) == pc[c] \notin {"idle", "exit", "killed"}

\* pidAlive: a pid is alive while its command runs, and again once the
\* kernel has given it to another process.
PidAlive(c) == Alive(c) \/ c \in recycled

\* collectEphemeralCandidates: the ephemeral blocks of a file content.
Candidates(content) ==
  {cand \in Hosts \X Cmds : content[cand[1]] = cand[2]}

\* A command whose proxy has not started is still in its opening reap.
Sweeping(c) == proxy[c] = "none"
-----------------------------------------------------------------------------
Init ==
  /\ conf \in [Hosts -> {"absent", "persistent"}]
  /\ pc = [c \in Cmds |-> "idle"]
  /\ role = [c \in Cmds |-> "none"]
  /\ host = [c \in Cmds |-> NoHost]
  /\ op = [c \in Cmds |-> "none"]
  /\ target = [c \in Cmds |-> NoHost]
  /\ seen = [c \in Cmds |-> Empty]
  /\ todo = [c \in Cmds |-> {}]
  /\ proxy = [c \in Cmds |-> "none"]
  /\ recycled = {}
  /\ busy = {}
  /\ raced = FALSE
  /\ failed = [c \in Cmds |-> FALSE]
  /\ added = {h \in Hosts : conf[h] = "persistent"}
  /\ undone = {}
  /\ stale = [c \in Cmds |-> {}]

Goto(c, l) == pc' = [pc EXCEPT ![c] = l]

\* The command is about to perform operation o on host name h.
Begin(c, o, h) ==
  /\ op' = [op EXCEPT ![c] = o]
  /\ target' = [target EXCEPT ![c] = h]
  /\ Goto(c, "read")

\* The command leaves its file operation for label l.
End(c, l) ==
  /\ Goto(c, l)
  /\ op' = [op EXCEPT ![c] = "none"]
  /\ target' = [target EXCEPT ![c] = NoHost]
  /\ seen' = [seen EXCEPT ![c] = Empty]
  /\ busy' = busy \ {c}

\* An inner removal of the reaper goes back to the candidate loop.
BackToSweep(c) ==
  /\ Goto(c, "sweep")
  /\ op' = [op EXCEPT ![c] = "Reap"]
  /\ target' = [target EXCEPT ![c] = NoHost]
  /\ seen' = [seen EXCEPT ![c] = Empty]
  /\ UNCHANGED busy

-----------------------------------------------------------------------------
(***************************************************************************)
(* The commands.                                                           *)
(***************************************************************************)

\* runTunnelOpen and runTunnelReap begin with the reaper; `ssh --tunnel` and
\* `scp --tunnel` dial at once; add-host mints first; remove-host edits.
Start(c, r, h) ==
  /\ pc[c] = "idle"
  /\ r \in {"tunnel", "portonly", "reap", "ssh"} => h \in TunnelHosts
  /\ role' = [role EXCEPT ![c] = r]
  /\ host' = [host EXCEPT ![c] = h]
  /\ CASE r \in {"tunnel", "portonly", "reap"} -> Begin(c, "Reap", NoHost)
       [] r = "ssh"        -> Goto(c, "dial") /\ UNCHANGED <<op, target>>
       [] r = "addhost"    -> Goto(c, "mint") /\ UNCHANGED <<op, target>>
       [] r = "removehost" -> Begin(c, "Remove", h)
  /\ UNCHANGED <<conf, seen, todo, proxy, recycled, busy, raced, failed, added,
                 undone, stale>>

\* tunnelDial: the proxy listens; with --port-only, and for ssh and scp, no
\* stanza is written.
DialOk(c) ==
  /\ pc[c] = "dial"
  /\ proxy' = [proxy EXCEPT ![c] = "listening"]
  /\ IF role[c] = "tunnel" THEN Begin(c, "UpsertEphemeral", host[c])
                           ELSE Goto(c, "hold") /\ UNCHANGED <<op, target>>
  /\ UNCHANGED <<conf, role, host, seen, todo, recycled, busy, raced, failed,
                 added, undone, stale>>

\* Profile, certificate, token, broker or handshake failure, or a signal that
\* cancelled the context of the calls.
DialFails(c) ==
  /\ pc[c] = "dial"
  /\ Goto(c, "exit")
  /\ UNCHANGED <<conf, role, host, op, target, seen, todo, proxy, recycled,
                 busy, raced, failed, added, undone, stale>>

\* add-host: mint (or --no-mint), then Upsert; a failed mint writes nothing.
Mint(c) ==
  /\ pc[c] = "mint"
  /\ \/ Begin(c, "Upsert", host[c])
     \/ Goto(c, "exit") /\ UNCHANGED <<op, target>>
  /\ UNCHANGED <<conf, role, host, seen, todo, proxy, recycled, busy, raced,
                 failed, added, undone, stale>>

\* Mutant of Release: the proxy is closed and the stanza forgotten.
ReleaseClosesOnly(c) ==
  /\ pc[c] = "hold"
  /\ Goto(c, "teardown")
  /\ UNCHANGED <<conf, role, host, op, target, seen, todo, proxy, recycled,
                 busy, raced, failed, added, undone, stale>>

\* The wait ends: a tunnel command when SIGINT or SIGTERM has cancelled its
\* context, ssh and scp when the child exits.  The stanza goes before the
\* proxy.
Release(c) ==
  /\ pc[c] = "hold"
  /\ IF role[c] = "tunnel" THEN Begin(c, "RemoveEphemeral", host[c])
                           ELSE Goto(c, "teardown") /\ UNCHANGED <<op, target>>
  /\ UNCHANGED <<conf, role, host, seen, todo, proxy, recycled, busy, raced,
                 failed, added, undone, stale>>

\* teardownTunnel: Close and Wait.
Teardown(c) ==
  /\ pc[c] = "teardown"
  /\ proxy' = [proxy EXCEPT ![c] = "released"]
  /\ Goto(c, "exit")
  /\ UNCHANGED <<conf, role, host, op, target, seen, todo, recycled, busy,
                 raced, failed, added, undone, stale>>
-----------------------------------------------------------------------------
(***************************************************************************)
(* The file operations: readExisting, a decision, write.                   *)
(***************************************************************************)

\* Where an operation that cannot go on leaves its command: an inner removal
\* of the reaper is skipped, an edit of a command with a proxy tears the
\* proxy down, every other command returns.
Abandon(c) ==
  IF op[c] = "RemoveEphemeral" /\ Sweeping(c) THEN BackToSweep(c)
  ELSE End(c, IF proxy[c] = "none" THEN "exit" ELSE "teardown")

\* ReapStaleEphemeral reads the file once for its candidate list.
ReapRead(c) ==
  /\ todo' = [todo EXCEPT ![c] = Candidates(conf)]
  /\ stale' = [stale EXCEPT ![c] = {k \in Cmds : ~PidAlive(k)}]
  /\ Goto(c, "sweep")
  /\ UNCHANGED <<op, target, seen>>

\* Upsert replaces whatever it finds; UpsertEphemeral looks at it first;
\* Remove and RemoveEphemeral return when there is nothing to drop.
EditRead(c) ==
  LET nothingToDo == \/ op[c] = "Remove" /\ conf[target[c]] = "absent"
                     \/ op[c] = "RemoveEphemeral" /\ conf[target[c]] \notin Cmds
  IN /\ IF nothingToDo
        THEN Abandon(c)
        ELSE /\ seen' = [seen EXCEPT ![c] = conf]
             /\ Goto(c, IF op[c] = "UpsertEphemeral" THEN "check" ELSE "write")
             /\ busy' = busy \cup {c}
             /\ UNCHANGED <<op, target>>
     /\ UNCHANGED <<todo, stale>>

Read(c) ==
  /\ pc[c] = "read"
  /\ raced' = (raced \/ busy \ {c} # {})
  /\ IF op[c] = "Reap" THEN ReapRead(c) /\ busy' = busy \cup {c} ELSE EditRead(c)
  /\ UNCHANGED <<conf, role, host, proxy, recycled, failed, added, undone>>

\* The file cannot be read.
ReadFails(c) ==
  /\ pc[c] = "read"
  /\ failed' = [failed EXCEPT ![c] = TRUE]
  /\ Abandon(c)
  /\ UNCHANGED <<conf, role, host, todo, proxy, recycled, raced, added, undone,
                 stale>>

\* Mutant of Check: the pid of an ephemeral block is not looked at.
CheckIgnoresPid(c) ==
  /\ pc[c] = "check"
  /\ IF seen[c][target[c]] = "persistent"
     THEN Abandon(c)
     ELSE Goto(c, "write") /\ UNCHANGED <<op, target, seen, busy>>
  /\ UNCHANGED <<conf, role, host, todo, proxy, recycled, raced, failed, added,
                 undone, stale>>

\* Mutant of Check: a persistent block is overwritten like a dead one.
CheckIgnoresPersistent(c) ==
  LET prior == seen[c][target[c]]
  IN /\ pc[c] = "check"
     /\ IF prior \in Cmds /\ PidAlive(prior)
        THEN Abandon(c)
        ELSE Goto(c, "write") /\ UNCHANGED <<op, target, seen, busy>>
     /\ UNCHANGED <<conf, role, host, todo, proxy, recycled, raced, failed,
                    added, undone, stale>>

\* UpsertEphemeral: a persistent block, or an ephemeral one whose pid is
\* alive, is an error.
Check(c) ==
  LET prior == seen[c][target[c]]
  IN /\ pc[c] = "check"
     /\ IF prior = "persistent" \/ (prior \in Cmds /\ PidAlive(prior))
        THEN Abandon(c)
        ELSE Goto(c, "write") /\ UNCHANGED <<op, target, seen, busy>>
     /\ UNCHANGED <<conf, role, host, todo, proxy, recycled, raced, failed,
                    added, undone, stale>>

\* Mutant of Sweep: the reaper probes its own pid instead of the block's.
SweepProbesItself(c) ==
  /\ pc[c] = "sweep"
  /\ todo[c] # {}
  /\ \E cand \in todo[c] :
       /\ todo' = [todo EXCEPT ![c] = @ \ {cand}]
       /\ IF PidAlive(c)
          THEN UNCHANGED <<pc, op, target>>
          ELSE Begin(c, "RemoveEphemeral", cand[1])
  /\ UNCHANGED <<conf, role, host, seen, proxy, recycled, busy, raced, failed,
                 added, undone, stale>>

\* One round of the reaper's loop.
Sweep(c) ==
  /\ pc[c] = "sweep"
  /\ todo[c] # {}
  /\ \E cand \in todo[c] :
       /\ todo' = [todo EXCEPT ![c] = @ \ {cand}]
       /\ IF PidAlive(cand[2])
          THEN UNCHANGED <<pc, op, target>>
          ELSE Begin(c, "RemoveEphemeral", cand[1])
  /\ UNCHANGED <<conf, role, host, seen, proxy, recycled, busy, raced, failed,
                 added, undone, stale>>

\* The reaper is done: --reap returns, the other commands dial.
SweepDone(c) ==
  /\ pc[c] = "sweep"
  /\ todo[c] = {}
  /\ End(c, IF role[c] = "reap" THEN "exit" ELSE "dial")
  /\ stale' = [stale EXCEPT ![c] = {}]
  /\ UNCHANGED <<conf, role, host, todo, proxy, recycled, raced, failed, added,
                 undone>>

\* Mutant of Written: a removal leaves an emptied block behind.
WrittenEmptied(c) ==
  [seen[c] EXCEPT ![target[c]] =
     CASE op[c] = "Upsert"          -> "persistent"
       [] op[c] = "UpsertEphemeral" -> c
       [] OTHER                     -> "emptied"]

\* The content an operation writes, from the content it read.
Written(c) ==
  [seen[c] EXCEPT ![target[c]] =
     CASE op[c] = "Upsert"          -> "persistent"
       [] op[c] = "UpsertEphemeral" -> c
       [] OTHER                     -> "absent"]

\* Writer.write renames a complete file over the old one.
Write(c) ==
  /\ pc[c] = "write"
  /\ conf' = Written(c)
  /\ added' = CASE op[c] = "Upsert" -> added \cup {target[c]}
                [] op[c] = "Remove" -> added \ {target[c]}
                [] OTHER            -> added
  /\ undone' = IF op[c] \in {"Upsert", "Remove"}
               THEN undone \cup ({conf[target[c]]} \cap Cmds)
               ELSE undone
  /\ IF op[c] = "UpsertEphemeral" THEN End(c, "hold") ELSE Abandon(c)
  /\ UNCHANGED <<role, host, todo, proxy, recycled, raced, failed, stale>>

\* The write fails before the rename.
WriteFails(c) ==
  /\ pc[c] = "write"
  /\ failed' = [failed EXCEPT ![c] = TRUE]
  /\ Abandon(c)
  /\ UNCHANGED <<conf, role, host, todo, proxy, recycled, raced, added, undone,
                 stale>>
-----------------------------------------------------------------------------
(***************************************************************************)
(* The environment.                                                        *)
(***************************************************************************)

\* The proxy terminates by itself (lost WebSocket, expired tunnel, cancelled
\* context) and closes its listener.
ProxyEnds(c) ==
  /\ Alive(c)
  /\ proxy[c] = "listening"
  /\ proxy' = [proxy EXCEPT ![c] = "released"]
  /\ UNCHANGED <<conf, pc, role, host, op, target, seen, todo, recycled, busy,
                 raced, failed, added, undone, stale>>

\* SIGKILL or a power loss of the process: the kernel closes its sockets.
Kill(c) ==
  /\ Alive(c)
  /\ pc' = [pc EXCEPT ![c] = "killed"]
  /\ proxy' = [proxy EXCEPT ![c] = IF @ = "listening" THEN "released" ELSE @]
  /\ op' = [op EXCEPT ![c] = "none"]
  /\ target' = [target EXCEPT ![c] = NoHost]
  /\ seen' = [seen EXCEPT ![c] = Empty]
  /\ todo' = [todo EXCEPT ![c] = {}]
  /\ busy' = busy \ {c}
  /\ stale' = [stale EXCEPT ![c] = {}]
  /\ UNCHANGED <<conf, role, host, recycled, raced, failed, added, undone>>

\* The kernel hands the pid of a dead command that left a stanza behind to an
\* unrelated process.
Recycle(c) ==
  /\ pc[c] \in {"exit", "killed"}
  /\ \E h \in Hosts : conf[h] = c
  /\ c \notin recycled
  /\ recycled' = recycled \cup {c}
  /\ UNCHANGED <<conf, pc, role, host, op, target, seen, todo, proxy, busy,
                 raced, failed, added, undone, stale>>

Step(c) ==
  \/ DialOk(c) \/ DialFails(c) \/ Mint(c) \/ Release(c) \/ Teardown(c)
  \/ Read(c) \/ ReadFails(c) \/ Check(c) \/ Sweep(c) \/ SweepDone(c)
  \/ Write(c) \/ WriteFails(c)

Environment(c) == ProxyEnds(c) \/ Kill(c) \/ Recycle(c)

Next ==
  \E c \in Cmds :
    \/ \E r \in Roles \ {"none"}, h \in Hosts : Start(c, r, h)
    \/ Step(c)
    \/ Environment(c)

Spec == Init /\ [][Next]_vars
-----------------------------------------------------------------------------
\* The types; every stanza is absent, persistent or one command's.
TypeOK ==
  /\ conf \in [Hosts -> Stanzas]
  /\ pc \in [Cmds -> Labels]
  /\ role \in [Cmds -> Roles]
  /\ host \in [Cmds -> Hosts \cup {NoHost}]
  /\ op \in [Cmds -> Ops]
  /\ target \in [Cmds -> Hosts \cup {NoHost}]
  /\ seen \in [Cmds -> [Hosts -> Stanzas]]
  /\ todo \in [Cmds -> SUBSET (Hosts \X Cmds)]
  /\ proxy \in [Cmds -> {"none", "listening", "released"}]
  /\ recycled \subseteq Cmds
  /\ busy \subseteq Cmds
  /\ raced \in BOOLEAN
  /\ failed \in [Cmds -> BOOLEAN]
  /\ added \subseteq Hosts
  /\ undone \subseteq Cmds
  /\ stale \in [Cmds -> SUBSET Cmds]

\* UpsertEphemeral, RemoveEphemeral and ReapStaleEphemeral: while a `tunnel`
\* command waits and no two file operations have overlapped, the stanza of
\* its host name is the one it wrote, whatever reapers, second tunnels, kills
\* and recycled pids came by, unless add-host or remove-host was told to edit
\* a tunnel's stanza of that very name.  In particular two tunnels for one
\* device never both wait.
HeldStanza ==
  ~raced => \A c \in Cmds :
    /\ pc[c] = "hold"
    /\ role[c] = "tunnel"
    /\ \A o \in undone : host[o] # host[c]
    => conf[host[c]] = c

\* Every return path of runTunnelOpen, runTunneledSSH and runTunneledSCP goes
\* through teardownTunnel, after the stanza was removed: a command that has
\* returned or was killed has no listening proxy, and one that tears down or
\* has returned, and none of whose file operations failed, has left no stanza
\* behind, as long as no two file operations overlapped.
CleanExit ==
  \A c \in Cmds :
    /\ pc[c] \in {"exit", "killed"} => proxy[c] # "listening"
    /\ ~raced /\ pc[c] \in {"teardown", "exit"} /\ ~failed[c]
         => \A h \in Hosts : conf[h] # c

\* RemoveEphemeral and UpsertEphemeral never touch a persistent stanza: as
\* long as no two file operations overlapped, the persistent stanzas are the
\* ones add-host wrote last and remove-host did not remove.
PersistentKept ==
  ~raced => {h \in Hosts : conf[h] = "persistent"} = added

\* ReapStaleEphemeral, called before every write of a tunnel command: a reap
\* that overlapped nothing and whose removals succeeded ends with no stanza
\* of a pid that was dead when it read the file.
ReapClears ==
  [][\A c \in Cmds :
       /\ pc[c] = "sweep"
       /\ pc'[c] \in {"dial", "exit"}
       /\ ~raced
       /\ ~failed[c]
       => \A h \in Hosts : conf'[h] \notin stale[c] \ recycled]_vars

\* "RemoveEphemeral runs BEFORE proxy.Close()+Wait() so a stanza pointing at a
\* kernel-released port can't mislead the next ssh attempt"
\* (pkg/cliapp/tunnel_open.go): the stanza of a running command names a port
\* its proxy listens on.
StanzaReachable ==
  \A c \in Cmds, h \in Hosts :
    conf[h] = c /\ Alive(c) => proxy[c] = "listening"
=============================================================================
