------------------------- MODULE TunnelHostsProofs -------------------------
(***************************************************************************)
(* What the managed ssh.conf guarantees for any number of commands and     *)
(* devices, as long as no two file operations overlap.                     *)
(***************************************************************************)
EXTENDS TunnelHosts, TLAPS

\* How long a solver may take on one step.
USE SMTT(60)

Gone(c) == pc[c] \in {"exit", "killed"}

(* A `tunnel` command past its UpsertEphemeral, the only one that a stanza *)
(* may name.                                                               *)
Wrote(c) == proxy[c] # "none" /\ op[c] # "UpsertEphemeral" /\ role[c] = "tunnel"

(* Removing the stanza of a candidate, or its own.                         *)
Reaping(c) == op[c] = "RemoveEphemeral" /\ proxy[c] = "none"

Leaving(c) == op[c] = "RemoveEphemeral" /\ proxy[c] # "none"

(* Between the read and the write of an edit, or inside a reap.            *)
Inside(c) == pc[c] \in {"check", "write", "sweep"} \/ (pc[c] = "read" /\ Reaping(c))

(* Which operation a command is in at each program point, on which host    *)
(* name, and with or without a proxy.                                      *)
ShapeInv(c) ==
  /\ pc[c] \in {"idle", "dial", "mint", "hold", "teardown", "exit", "killed"} <=> op[c] = "none"
  /\ pc[c] = "check" => op[c] = "UpsertEphemeral"
  /\ pc[c] = "sweep" => op[c] = "Reap"
  /\ op[c] = "Reap" => pc[c] \in {"read", "sweep"}
  /\ op[c] \in {"UpsertEphemeral", "RemoveEphemeral", "Upsert", "Remove"} => target[c] \in Hosts
  /\ op[c] = "UpsertEphemeral" \/ Leaving(c) =>
       role[c] = "tunnel" /\ target[c] = host[c] /\ proxy[c] # "none"
  /\ op[c] \in {"Reap", "Upsert", "Remove"} => proxy[c] = "none"
  /\ pc[c] \in {"idle", "dial", "mint"} => proxy[c] = "none"
  /\ pc[c] \in {"hold", "teardown"} => proxy[c] # "none"
  /\ pc[c] \in {"exit", "killed"} => proxy[c] # "listening"
  /\ pc[c] # "idle" => host[c] \in Hosts
  /\ Inside(c) => c \in busy

(* What an edit found before it writes.                                    *)
FoundInv(c) ==
  pc[c] = "write" =>
    LET prior == seen[c][target[c]]
    IN /\ op[c] = "RemoveEphemeral" => prior \in Cmds
       /\ op[c] = "UpsertEphemeral" => prior # "persistent" /\ (prior \in Cmds => Gone(prior))

(* The reaper's candidates are in the file, it removes only those of dead  *)
(* commands, and those it has to remove are still to come.                 *)
SweepInv(c) ==
  pc[c] = "sweep" \/ Reaping(c) =>
    /\ \A cand \in todo[c] : conf[cand[1]] = cand[2]
    /\ Reaping(c) => /\ \A cand \in todo[c] : cand[1] # target[c]
                     /\ conf[target[c]] \in Cmds => Gone(conf[target[c]])
    /\ \A h \in Hosts : conf[h] \in stale[c] =>
         /\ Gone(conf[h])
         /\ \/ <<h, conf[h]>> \in todo[c] \/ conf[h] \in recycled \/ failed[c]
            \/ Reaping(c) /\ h = target[c]

(* A command that waits, or is about to remove its stanza, has it.         *)
HeldInv(c) ==
  role[c] = "tunnel" /\ (pc[c] = "hold" \/ Leaving(c)) /\ (\A o \in undone : host[o] # host[c])
    => conf[host[c]] = c

(* A command that is done with it has not.                                 *)
LeftInv(c) ==
  pc[c] \in {"teardown", "exit"} /\ ~failed[c] => \A h \in Hosts : conf[h] # c

(* What the file says when no file operations have overlapped.             *)
AloneInv(c) ==
  /\ pc[c] \in {"check", "write"} => seen[c] = conf
  /\ SweepInv(c) /\ HeldInv(c) /\ LeftInv(c)

CmdInv(c) == ShapeInv(c) /\ FoundInv(c) /\ (~raced => AloneInv(c))

(* A stanza names a command that wrote it, for its host name.              *)
OwnersOf(content) == \A h \in Hosts : content[h] \in Cmds => Wrote(content[h]) /\ host[content[h]] = h

FileInv ==
  /\ OwnersOf(conf)
  /\ \A c \in Cmds : OwnersOf(seen[c])
  /\ \A o \in undone : pc[o] # "idle"
  /\ ~raced => \A c, d \in busy : c = d
  /\ PersistentKept

HostsInv == TypeOK /\ FileInv /\ \A c \in Cmds : CmdInv(c)
-----------------------------------------------------------------------------
(* The constants and the types.                                            *)

(* Commands, host names and what a stanza can be are apart.                *)
LEMMA Constants ==
    /\ NoHost \notin Hosts /\ TunnelHosts \subseteq Hosts
    /\ Empty \in [Hosts -> Stanzas] /\ \A h \in Hosts : Empty[h] = "absent"
    /\ \A c \in Cmds : c # "absent" /\ c # "persistent"
    /\ Stanzas = {"absent", "persistent"} \cup Cmds
<1>1. NoHost \notin Hosts
  <2>1. \A h \in Hosts : h[2] \in {"lan", "tunnel"}
    BY DEF Hosts
  <2>2. NoHost[2] = "none"
    BY DEF NoHost
  <2> QED
    BY <2>1, <2>2
<1>2. TunnelHosts \subseteq Hosts
  BY DEF TunnelHosts, TunnelHost, Hosts
<1>3. \A c \in Cmds : c # "absent" /\ c # "persistent"
  BY TunnelHostsAssumption
<1>4. Empty \in [Hosts -> Stanzas] /\ \A h \in Hosts : Empty[h] = "absent"
  BY DEF Empty, Stanzas
<1> QED
  BY <1>1, <1>2, <1>3, <1>4, Zenon DEF Stanzas

(* One command's entry of a function moves, in its type, to a value.       *)
Moves(f, g, c, T) == g \in [Cmds -> T] /\ \A d \in Cmds \ {c} : g[d] = f[d]

Moved(f, g, c, T, v) == Moves(f, g, c, T) /\ g[c] = v

(* An assignment for one command moves that command only.                  *)
LEMMA MovedIs ==
    ASSUME NEW T, NEW f \in [Cmds -> T], NEW g, NEW c \in Cmds, NEW v \in T,
           g = [f EXCEPT ![c] = v]
    PROVE  Moved(f, g, c, T, v)
BY DEF Moved, Moves

Proxies == {"none", "listening", "released"}

(* The command moves to program point l in operation o on host name t,     *)
(* having read s.                                                          *)
MovesTo(c, l, o, t, s) ==
  /\ Moved(pc, pc', c, Labels, l)
  /\ Moved(op, op', c, Ops, o)
  /\ Moved(target, target', c, Hosts \cup {NoHost}, t)
  /\ Moved(seen, seen', c, [Hosts -> Stanzas], s)

(* A variable that does not change has moved nobody.                       *)
LEMMA StaysPut ==
    ASSUME TypeOK, NEW c \in Cmds
    PROVE  /\ pc' = pc => Moved(pc, pc', c, Labels, pc[c])
           /\ op' = op => Moved(op, op', c, Ops, op[c])
           /\ target' = target => Moved(target, target', c, Hosts \cup {NoHost}, target[c])
           /\ seen' = seen => Moved(seen, seen', c, [Hosts -> Stanzas], seen[c])
           /\ todo' = todo => Moved(todo, todo', c, SUBSET (Hosts \X Cmds), todo[c])
           /\ role' = role => Moved(role, role', c, Roles, role[c])
           /\ host' = host => Moved(host, host', c, Hosts \cup {NoHost}, host[c])
           /\ proxy' = proxy => Moved(proxy, proxy', c, Proxies, proxy[c])
           /\ failed' = failed => Moved(failed, failed', c, BOOLEAN, failed[c])
           /\ stale' = stale => Moved(stale, stale', c, SUBSET Cmds, stale[c])
BY Zenon DEF TypeOK, Moved, Moves, Proxies

(* Goto moves one command.                                                 *)
LEMMA GotoIs ==
    ASSUME TypeOK, NEW c \in Cmds, NEW l \in Labels, Goto(c, l)
    PROVE  Moved(pc, pc', c, Labels, l)
BY MovedIs, Zenon DEF TypeOK, Goto

(* Begin, End and BackToSweep.                                             *)
LEMMA BeginIs ==
    ASSUME TypeOK, NEW c \in Cmds, NEW o \in Ops, NEW h \in Hosts \cup {NoHost},
           Begin(c, o, h), seen' = seen
    PROVE  MovesTo(c, "read", o, h, seen[c])
<1>1. "read" \in Labels
  BY DEF Labels
<1>2. Moved(pc, pc', c, Labels, "read")
  BY <1>1, GotoIs, Zenon DEF Begin
<1>3. Moved(op, op', c, Ops, o) /\ Moved(target, target', c, Hosts \cup {NoHost}, h)
  BY MovedIs, Zenon DEF TypeOK, Begin
<1> QED
  BY <1>2, <1>3, StaysPut, Zenon DEF MovesTo

(* A command that leaves a file operation forgets the target and what it   *)
(* read.                                                                   *)
LEMMA OutIs ==
    ASSUME TypeOK, NEW c \in Cmds, NEW o \in Ops, NEW l \in Labels, Goto(c, l),
           op' = [op EXCEPT ![c] = o], target' = [target EXCEPT ![c] = NoHost],
           seen' = [seen EXCEPT ![c] = Empty]
    PROVE  MovesTo(c, l, o, NoHost, Empty)
<1>1. Moved(pc, pc', c, Labels, l)
  BY GotoIs, Zenon
<1>2. Moved(op, op', c, Ops, o)
  BY MovedIs, Zenon DEF TypeOK
<1>3. Moved(target, target', c, Hosts \cup {NoHost}, NoHost)
  <2>1. NoHost \in Hosts \cup {NoHost}
    BY Zenon
  <2> QED
    BY <2>1, MovedIs, Zenon DEF TypeOK
<1>4. Moved(seen, seen', c, [Hosts -> Stanzas], Empty)
  BY Constants, MovedIs, Zenon DEF TypeOK
<1> QED
  BY <1>1, <1>2, <1>3, <1>4, Zenon DEF MovesTo

(* The end of an operation leaves busy as well.                            *)
LEMMA EndIs ==
    ASSUME TypeOK, NEW c \in Cmds, NEW l \in Labels, End(c, l)
    PROVE  MovesTo(c, l, "none", NoHost, Empty) /\ busy' = busy \ {c}
<1>1. "none" \in Ops
  BY DEF Ops
<1> QED
  BY <1>1, OutIs, Zenon DEF End

(* A removal inside a reap returns to the reap, which goes on being busy.  *)
LEMMA BackIs ==
    ASSUME TypeOK, NEW c \in Cmds, BackToSweep(c)
    PROVE  MovesTo(c, "sweep", "Reap", NoHost, Empty) /\ busy' = busy
<1>1. "Reap" \in Ops /\ "sweep" \in Labels
  BY DEF Ops, Labels
<1> QED
  BY <1>1, OutIs, Zenon DEF BackToSweep

(* An operation that cannot go on, by what it was.                         *)
LEMMA AbandonIs ==
    ASSUME TypeOK, NEW c \in Cmds, Abandon(c)
    PROVE  \/ /\ Reaping(c) /\ MovesTo(c, "sweep", "Reap", NoHost, Empty) /\ busy' = busy
           \/ /\ ~Reaping(c) /\ busy' = busy \ {c}
              /\ \/ proxy[c] = "none" /\ MovesTo(c, "exit", "none", NoHost, Empty)
                 \/ proxy[c] # "none" /\ MovesTo(c, "teardown", "none", NoHost, Empty)
<1>1. "exit" \in Labels /\ "teardown" \in Labels
  BY DEF Labels
<1>2. CASE Reaping(c)
  <2>1. BackToSweep(c)
    BY <1>2, Zenon DEF Abandon, Reaping, Sweeping
  <2> QED
    BY <1>2, <2>1, BackIs, Zenon
<1>3. CASE ~Reaping(c) /\ proxy[c] = "none"
  <2>1. End(c, "exit")
    BY <1>3, Zenon DEF Abandon, Reaping, Sweeping
  <2> QED
    BY <1>1, <1>3, <2>1, EndIs, Zenon
<1>4. CASE ~Reaping(c) /\ proxy[c] # "none"
  <2>1. End(c, "teardown")
    BY <1>4, Zenon DEF Abandon, Reaping, Sweeping
  <2> QED
    BY <1>1, <1>4, <2>1, EndIs, Zenon
<1> QED
  BY <1>2, <1>3, <1>4, Zenon
-----------------------------------------------------------------------------
(* Steps that leave the file alone.                                        *)

(* What every step of a command does: it changes that command's state, and *)
(* never undoes what a stanza, a reaper or a history relies on.            *)
StepOf(c) ==
  /\ Moves(pc, pc', c, Labels) /\ Moves(role, role', c, Roles)
  /\ Moves(host, host', c, Hosts \cup {NoHost}) /\ Moves(op, op', c, Ops)
  /\ Moves(target, target', c, Hosts \cup {NoHost}) /\ Moves(seen, seen', c, [Hosts -> Stanzas])
  /\ Moves(todo, todo', c, SUBSET (Hosts \X Cmds)) /\ Moves(proxy, proxy', c, Proxies)
  /\ Moves(failed, failed', c, BOOLEAN) /\ Moves(stale, stale', c, SUBSET Cmds)
  /\ recycled \subseteq recycled' /\ recycled' \subseteq Cmds
  /\ busy' \subseteq Cmds /\ busy \ {c} \subseteq busy'
  /\ raced' \in BOOLEAN /\ (raced => raced') /\ (~raced' => \A b, d \in busy' : b = d)
  /\ Gone(c) => Gone(c)'
  /\ Wrote(c) => Wrote(c)'
  /\ pc[c] # "idle" => pc'[c] # "idle" /\ host'[c] = host[c]

(* The types after a step of one command.                                  *)
LEMMA TypeNext ==
    ASSUME NEW c \in Cmds, StepOf(c), conf' \in [Hosts -> Stanzas], added' \subseteq Hosts,
           undone' \subseteq Cmds
    PROVE  TypeOK'
BY Zenon DEF StepOf, Moves, TypeOK, Proxies

(* A step of one command leaves the others where they are.                 *)
LEMMA OthersStay ==
    ASSUME NEW c \in Cmds, StepOf(c), NEW d \in Cmds \ {c}
    PROVE  /\ pc'[d] = pc[d] /\ role'[d] = role[d] /\ host'[d] = host[d] /\ op'[d] = op[d]
           /\ target'[d] = target[d] /\ seen'[d] = seen[d] /\ todo'[d] = todo[d]
           /\ proxy'[d] = proxy[d] /\ failed'[d] = failed[d] /\ stale'[d] = stale[d]
BY Zenon DEF StepOf, Moves

(* Nobody comes back, and nobody unwrites.                                 *)
LEMMA Lasting ==
    ASSUME HostsInv, NEW c \in Cmds, StepOf(c), NEW k \in Cmds
    PROVE  /\ Gone(k) => Gone(k)'
           /\ Wrote(k) => Wrote(k)' /\ pc[k] # "idle"
           /\ pc[k] # "idle" => pc'[k] # "idle" /\ host'[k] = host[k]
<1>1. Wrote(k) => pc[k] # "idle"
  BY Zenon DEF Wrote, HostsInv, CmdInv, ShapeInv
<1>2. CASE k = c
  BY <1>1, <1>2, Zenon DEF StepOf
<1>3. CASE k # c
  BY <1>1, <1>3, OthersStay, ZenonT(90) DEF Gone, Wrote
<1> QED
  BY <1>2, <1>3

(* What a stanza says stays true.                                          *)
LEMMA OwnersStay ==
    ASSUME HostsInv, NEW c \in Cmds, StepOf(c), NEW content, OwnersOf(content)
    PROVE  \A h \in Hosts : content[h] \in Cmds =>
             /\ proxy'[content[h]] # "none" /\ op'[content[h]] # "UpsertEphemeral"
             /\ role'[content[h]] = "tunnel" /\ host'[content[h]] = h
<1> SUFFICES ASSUME NEW h \in Hosts, content[h] \in Cmds
             PROVE  /\ proxy'[content[h]] # "none" /\ op'[content[h]] # "UpsertEphemeral"
                    /\ role'[content[h]] = "tunnel" /\ host'[content[h]] = h
  BY Zenon
<1> DEFINE k == content[h]
<1>1. k \in Cmds /\ Wrote(k) /\ host[k] = h
  BY Zenon DEF OwnersOf
<1> HIDE DEF k
<1>2. Wrote(k)' /\ host'[k] = host[k]
  BY <1>1, Lasting, Zenon
<1> QED
  BY <1>1, <1>2, Zenon DEF Wrote, k

(* A command that is where it was, and still has or has not a proxy, still *)
(* knows what it knew.                                                     *)
Same(d) ==
  /\ pc'[d] = pc[d] /\ role'[d] = role[d] /\ host'[d] = host[d] /\ op'[d] = op[d]
  /\ target'[d] = target[d] /\ seen'[d] = seen[d] /\ todo'[d] = todo[d]
  /\ failed'[d] = failed[d] /\ stale'[d] = stale[d]
  /\ proxy'[d] = proxy[d] \/ (proxy'[d] = "released" /\ proxy[d] = "listening")
  /\ d \in busy => d \in busy'

(* What holds of a command that stays where it is survives a step that     *)
(* leaves the file alone.                                                  *)
LEMMA SameKeeps ==
    ASSUME HostsInv, NEW c \in Cmds, StepOf(c), conf' = conf, undone' = undone,
           NEW d \in Cmds, Same(d)
    PROVE  CmdInv(d)'
<1>1. CmdInv(d)
  BY Zenon DEF HostsInv
<1>2. /\ pc'[d] = pc[d] /\ role'[d] = role[d] /\ host'[d] = host[d] /\ op'[d] = op[d]
      /\ target'[d] = target[d] /\ seen'[d] = seen[d] /\ todo'[d] = todo[d]
      /\ failed'[d] = failed[d] /\ stale'[d] = stale[d]
  BY Zenon DEF Same
<1>a. /\ proxy'[d] = "none" <=> proxy[d] = "none"
      /\ proxy'[d] = "listening" => proxy[d] = "listening"
  BY DEF Same
<1>3. /\ Reaping(d)' <=> Reaping(d)
      /\ Leaving(d)' <=> Leaving(d)
      /\ Inside(d)' <=> Inside(d)
  BY <1>2, <1>a, Zenon DEF Reaping, Leaving, Inside
<1>4. ShapeInv(d)'
  BY <1>1, <1>2, <1>a, <1>3, ZenonT(90) DEF CmdInv, ShapeInv, Same
<1>5. \A k \in Cmds : pc[k] \in {"exit", "killed"} => pc'[k] \in {"exit", "killed"}
  BY Lasting, Zenon DEF Gone
<1>6. FoundInv(d)'
  BY <1>1, <1>2, <1>5, Zenon DEF CmdInv, FoundInv, Gone
<1>7. ~raced' => SweepInv(d)'
  <2>1. ~raced' => SweepInv(d)
    BY <1>1, Zenon DEF CmdInv, AloneInv, StepOf
  <2>2. conf \in [Hosts -> Stanzas] /\ stale[d] \subseteq Cmds /\ recycled \subseteq recycled'
    BY Zenon DEF HostsInv, TypeOK, StepOf
  <2> QED
    BY <1>2, <1>3, <1>5, <2>1, <2>2, Zenon DEF SweepInv, Gone
<1>8. ~raced' => HeldInv(d)'
  <2>1. ~raced' => HeldInv(d)
    BY <1>1, Zenon DEF CmdInv, AloneInv, StepOf
  <2>2. \A o \in undone : host'[o] = host[o]
    BY Lasting, Zenon DEF HostsInv, FileInv, TypeOK
  <2> QED
    BY <1>2, <1>3, <2>1, <2>2, Zenon DEF HeldInv
<1>9. ~raced' => AloneInv(d)'
  BY <1>1, <1>2, <1>7, <1>8, Zenon DEF CmdInv, AloneInv, LeftInv, StepOf
<1> QED
  BY <1>4, <1>6, <1>9, Zenon DEF CmdInv

(* In particular what holds of the other commands.                         *)
LEMMA OthersKeep ==
    ASSUME HostsInv, NEW c \in Cmds, StepOf(c), conf' = conf, undone' = undone,
           NEW d \in Cmds \ {c}
    PROVE  CmdInv(d)'
<1>1. Same(d)
  BY OthersStay, ZenonT(90) DEF Same, StepOf
<1> QED
  BY <1>1, SameKeeps, Zenon

(* So that after a step that leaves the file alone only the command itself *)
(* has to be looked at.                                                    *)
LEMMA QuietKeeps ==
    ASSUME HostsInv, NEW c \in Cmds, StepOf(c), UNCHANGED <<conf, added, undone>>,
           seen'[c] \in {seen[c], Empty, conf}, CmdInv(c)'
    PROVE  HostsInv'
<1>1. TypeOK'
  BY TypeNext, Zenon DEF HostsInv, TypeOK
<1>2. \A d \in Cmds : CmdInv(d)'
  BY OthersKeep, Zenon
<1>3. OwnersOf(conf)'
  <2>1. OwnersOf(conf)
    BY Zenon DEF HostsInv, FileInv
  <2>2. \A h \in Hosts : conf[h] \in Cmds =>
          /\ proxy'[conf[h]] # "none" /\ op'[conf[h]] # "UpsertEphemeral"
          /\ role'[conf[h]] = "tunnel" /\ host'[conf[h]] = h
    BY <2>1, OwnersStay, Zenon
  <2> QED
    BY <2>2, Zenon DEF OwnersOf, Wrote
<1>4. ASSUME NEW d \in Cmds
      PROVE  OwnersOf(seen[d])'
  <2>1. OwnersOf(seen[d]) /\ OwnersOf(conf) /\ OwnersOf(Empty)
    BY Constants, Zenon DEF HostsInv, FileInv, OwnersOf
  <2>2. seen'[d] = seen[d] \/ seen'[d] = conf \/ seen'[d] = Empty
    BY OthersStay, ZenonT(90)
  <2>3. OwnersOf(seen'[d])
    BY <2>1, <2>2, Zenon
  <2> QED
    BY <2>3, OwnersStay, ZenonT(90) DEF OwnersOf, Wrote
<1>5. \A o \in undone' : pc'[o] # "idle"
  BY Lasting, Zenon DEF HostsInv, FileInv, TypeOK
<1>6. PersistentKept'
  BY Zenon DEF HostsInv, FileInv, PersistentKept, StepOf
<1> QED
  BY <1>1, <1>2, <1>3, <1>4, <1>5, <1>6, Zenon DEF HostsInv, FileInv, StepOf

(* The histories of overlapping file operations.                           *)
Access(c) ==
  /\ busy' \subseteq Cmds /\ busy \ {c} \subseteq busy'
  /\ raced' \in BOOLEAN /\ (raced => raced') /\ (~raced' => \A b, d \in busy' : b = d)

(* What the actions do to busy and raced: an overlap is noted before two   *)
(* commands are inside.                                                    *)
LEMMA AccessIs ==
    ASSUME HostsInv, NEW c \in Cmds,
           \/ raced' = raced /\ busy' \in {busy, busy \ {c}}
           \/ raced' = (raced \/ busy \ {c} # {}) /\ busy' \in {busy, busy \ {c}, busy \cup {c}}
    PROVE  Access(c)
<1>1. busy \subseteq Cmds /\ raced \in BOOLEAN /\ (~raced => \A b, d \in busy : b = d)
  BY Zenon DEF HostsInv, TypeOK, FileInv
<1>2. busy' \subseteq Cmds /\ busy \ {c} \subseteq busy' /\ raced' \in BOOLEAN /\ (raced => raced')
  BY <1>1, Zenon
<1>3. ASSUME ~raced', NEW b \in busy', NEW d \in busy'
      PROVE  b = d
  <2>1. CASE raced' = raced /\ busy' \in {busy, busy \ {c}}
    <3>1. b \in busy /\ d \in busy /\ ~raced
      BY <1>3, <2>1, Zenon
    <3> QED
      BY <1>1, <3>1, Zenon
  <2>2. CASE raced' = (raced \/ busy \ {c} # {}) /\ busy' \in {busy, busy \ {c}, busy \cup {c}}
    <3>1. busy \ {c} = {}
      BY <1>3, <2>2, Zenon
    <3>2. \A x \in busy : x = c
      BY <3>1
    <3>3. b \in busy \cup {c} /\ d \in busy \cup {c}
      BY <1>3, <2>2, Zenon
    <3> QED
      BY <3>2, <3>3, Zenon
  <2> QED
    BY <2>1, <2>2, Zenon
<1> QED
  BY <1>2, <1>3, Zenon DEF Access

(* A running command's step, with what its functions become.               *)
Steps(c, l, o, t, s) ==
  /\ MovesTo(c, l, o, t, s) /\ Access(c) /\ role' = role /\ host' = host /\ recycled' = recycled
  /\ Moves(todo, todo', c, SUBSET (Hosts \X Cmds)) /\ Moves(proxy, proxy', c, Proxies)
  /\ Moves(failed, failed', c, BOOLEAN) /\ Moves(stale, stale', c, SUBSET Cmds)
  /\ pc[c] \notin {"idle", "exit", "killed"} /\ l # "idle"
  /\ proxy[c] # "none" => proxy'[c] # "none"
  /\ o = "UpsertEphemeral" => ~Wrote(c)

Stepped(c, l, o, t, s) ==
  /\ StepOf(c) /\ role'[c] = role[c] /\ host'[c] = host[c]
  /\ pc'[c] = l /\ op'[c] = o /\ target'[c] = t /\ seen'[c] = s

(* The outcome of a command's step from its assignments.                   *)
LEMMA StepIs ==
    ASSUME HostsInv, NEW c \in Cmds, NEW l, NEW o, NEW t, NEW s, Steps(c, l, o, t, s)
    PROVE  Stepped(c, l, o, t, s)
<1>1. TypeOK /\ recycled \subseteq Cmds
  BY Zenon DEF HostsInv, TypeOK
<1>2. pc'[c] = l /\ op'[c] = o /\ target'[c] = t /\ seen'[c] = s
  BY Zenon DEF Steps, MovesTo, Moved
<1>3. /\ Moves(pc, pc', c, Labels) /\ Moves(op, op', c, Ops)
      /\ Moves(target, target', c, Hosts \cup {NoHost}) /\ Moves(seen, seen', c, [Hosts -> Stanzas])
      /\ Moves(role, role', c, Roles) /\ Moves(host, host', c, Hosts \cup {NoHost})
  BY <1>1, StaysPut, Zenon DEF Steps, MovesTo, Moved
<1>4. /\ Gone(c) => Gone(c)'
      /\ Wrote(c) => Wrote(c)'
      /\ pc[c] # "idle" => pc'[c] # "idle" /\ host'[c] = host[c]
  BY <1>2, Zenon DEF Steps, Gone, Wrote
<1>5. recycled \subseteq recycled' /\ recycled' \subseteq Cmds
  BY <1>1, Zenon DEF Steps
<1> QED
  BY <1>2, <1>3, <1>4, <1>5, Zenon DEF Steps, Stepped, StepOf, Access

(* The stanza of a command that has not written one.                       *)
LEMMA Unnamed ==
    ASSUME HostsInv, NEW c \in Cmds, ~Wrote(c)
    PROVE  \A h \in Hosts : conf[h] # c
BY Zenon DEF HostsInv, FileInv, OwnersOf

(* A command outside the file operations.                                  *)
LEMMA OutsideKeeps ==
    ASSUME NEW c \in Cmds, op'[c] = "none", ShapeInv(c)',
           ~raced' /\ pc'[c] = "hold" => HeldInv(c)', ~raced' => LeftInv(c)'
    PROVE  CmdInv(c)'
<1>1. pc'[c] \in {"idle", "dial", "mint", "hold", "teardown", "exit", "killed"}
  BY Zenon DEF ShapeInv
<1>2. pc'[c] \notin {"check", "write", "sweep"} /\ ~Reaping(c)' /\ ~Leaving(c)'
  BY <1>1 DEF Reaping, Leaving
<1>3. ~raced' => HeldInv(c)'
  BY <1>2, Zenon DEF HeldInv
<1> QED
  BY <1>2, <1>3, Zenon DEF CmdInv, FoundInv, AloneInv, SweepInv

(* A command that has begun an operation.                                  *)
LEMMA ReadingKeeps ==
    ASSUME NEW c \in Cmds, pc'[c] = "read", ShapeInv(c)', ~Reaping(c)',
           ~raced' /\ Leaving(c)' => HeldInv(c)'
    PROVE  CmdInv(c)'
<1>1. pc'[c] \notin {"check", "write", "sweep", "hold", "teardown", "exit"}
  OBVIOUS
<1>2. ~raced' => HeldInv(c)'
  BY <1>1, Zenon DEF HeldInv
<1> QED
  BY <1>1, <1>2, Zenon DEF CmdInv, FoundInv, AloneInv, SweepInv, LeftInv

(* A command that moves on inside its operation keeps target and content.  *)
LEMMA GoesIs ==
    ASSUME TypeOK, NEW c \in Cmds, NEW l \in Labels, Goto(c, l), UNCHANGED <<op, target, seen>>
    PROVE  MovesTo(c, l, op[c], target[c], seen[c])
BY GotoIs, StaysPut, Zenon DEF MovesTo

(* The variables that the steps outside the file operations leave alone.   *)
LEMMA Unmoved ==
    ASSUME TypeOK, NEW c \in Cmds
    PROVE  /\ todo' = todo => Moves(todo, todo', c, SUBSET (Hosts \X Cmds)) /\ todo'[c] = todo[c]
           /\ proxy' = proxy => Moves(proxy, proxy', c, Proxies) /\ proxy'[c] = proxy[c]
           /\ failed' = failed => Moves(failed, failed', c, BOOLEAN) /\ failed'[c] = failed[c]
           /\ stale' = stale => Moves(stale, stale', c, SUBSET Cmds) /\ stale'[c] = stale[c]
BY StaysPut, Zenon DEF Moved

(* An assignment to the proxy of one command.                              *)
LEMMA ProxyIs ==
    ASSUME TypeOK, NEW c \in Cmds, NEW v \in Proxies, proxy' = [proxy EXCEPT ![c] = v]
    PROVE  Moves(proxy, proxy', c, Proxies) /\ proxy'[c] = v
<1>1. proxy \in [Cmds -> Proxies]
  BY Zenon DEF TypeOK, Proxies
<1> QED
  BY <1>1, MovedIs, Zenon DEF Moved
-----------------------------------------------------------------------------
(* The commands, outside the file operations.                              *)

(* tunnelDial returns a proxy, and the command goes on to its stanza or to *)
(* ssh.                                                                    *)
LEMMA DialOkKeeps ==
    ASSUME HostsInv, NEW c \in Cmds, DialOk(c)
    PROVE  HostsInv'
<1>1. /\ TypeOK /\ CmdInv(c) /\ pc[c] = "dial" /\ proxy[c] = "none" /\ op[c] = "none"
      /\ host[c] \in Hosts
  <2>1. TypeOK /\ CmdInv(c) /\ pc[c] = "dial"
    BY Zenon DEF HostsInv, DialOk
  <2>2. ShapeInv(c)
    BY <2>1, Zenon DEF CmdInv
  <2> QED
    BY <2>1, <2>2 DEF ShapeInv
<1>2. /\ UNCHANGED <<conf, role, host, seen, todo, recycled, busy, raced, failed, added, undone, stale>>
      /\ proxy' = [proxy EXCEPT ![c] = "listening"]
  BY Zenon DEF DialOk
<1>3. Moves(proxy, proxy', c, Proxies) /\ proxy'[c] = "listening"
  <2>1. "listening" \in Proxies
    BY DEF Proxies
  <2> QED
    BY <1>1, <1>2, <2>1, ProxyIs, Zenon
<1>4. Access(c) /\ ~Wrote(c)
  BY <1>1, <1>2, AccessIs, Zenon DEF Wrote
<1>5. /\ Moves(todo, todo', c, SUBSET (Hosts \X Cmds)) /\ Moves(failed, failed', c, BOOLEAN)
      /\ Moves(stale, stale', c, SUBSET Cmds)
  BY <1>1, <1>2, Unmoved, Zenon
<1>6. pc[c] \notin {"idle", "exit", "killed"} /\ "read" # "idle" /\ "hold" # "idle"
  BY <1>1
<1>7. CASE role[c] = "tunnel"
  <2>1. Begin(c, "UpsertEphemeral", host[c]) /\ "UpsertEphemeral" \in Ops
    BY <1>7 DEF DialOk, Ops
  <2>2. MovesTo(c, "read", "UpsertEphemeral", host[c], seen[c])
    BY <1>1, <1>2, <2>1, BeginIs, Zenon
  <2>3. Stepped(c, "read", "UpsertEphemeral", host[c], seen[c])
    <3>1. Steps(c, "read", "UpsertEphemeral", host[c], seen[c])
      BY <1>1, <1>2, <1>3, <1>4, <1>5, <1>6, <2>2, ZenonT(90) DEF Steps
    <3> QED
      BY <3>1, StepIs, Zenon
  <2>4. ShapeInv(c)' /\ ~Reaping(c)' /\ ~Leaving(c)'
    BY <1>1, <1>3, <1>7, <2>3 DEF Stepped, ShapeInv, Reaping, Leaving, Inside
  <2> QED
    BY <1>2, <2>3, <2>4, ReadingKeeps, QuietKeeps, Zenon DEF Stepped
<1>8. CASE role[c] # "tunnel"
  <2>1. Goto(c, "hold") /\ UNCHANGED <<op, target>> /\ "hold" \in Labels
    BY <1>8 DEF DialOk, Labels
  <2>2. MovesTo(c, "hold", "none", target[c], seen[c])
    BY <1>1, <1>2, <2>1, GoesIs, Zenon
  <2>3. Stepped(c, "hold", "none", target[c], seen[c])
    <3>1. Steps(c, "hold", "none", target[c], seen[c])
      BY <1>1, <1>2, <1>3, <1>4, <1>5, <1>6, <2>2, ZenonT(90) DEF Steps
    <3> QED
      BY <3>1, StepIs, Zenon
  <2>4. ShapeInv(c)' /\ HeldInv(c)' /\ LeftInv(c)'
    BY <1>1, <1>3, <1>8, <2>3 DEF Stepped, ShapeInv, Reaping, Leaving, Inside, HeldInv, LeftInv
  <2> QED
    BY <1>2, <2>3, <2>4, OutsideKeeps, QuietKeeps, Zenon DEF Stepped
<1> QED
  BY <1>7, <1>8

(* A command that has not written a stanza is named by none.               *)
LEMMA NamelessKeeps ==
    ASSUME HostsInv, NEW c \in Cmds, ~Wrote(c), conf' = conf
    PROVE  LeftInv(c)'
BY Unnamed, Zenon DEF LeftInv

(* What is known of the command that takes a step.                         *)
LEMMA HereIs ==
    ASSUME HostsInv, NEW c \in Cmds
    PROVE  TypeOK /\ ShapeInv(c) /\ FoundInv(c) /\ (~raced => AloneInv(c))
BY Zenon DEF HostsInv, CmdInv

(* A dial that fails ends the command before it has a stanza.              *)
LEMMA DialFailsKeeps ==
    ASSUME HostsInv, NEW c \in Cmds, DialFails(c)
    PROVE  HostsInv'
<1>1. TypeOK /\ ShapeInv(c) /\ pc[c] = "dial"
  BY HereIs, Zenon DEF DialFails
<1>2. proxy[c] = "none" /\ op[c] = "none" /\ host[c] \in Hosts /\ ~Wrote(c)
  BY <1>1 DEF ShapeInv, Wrote
<1>3. /\ UNCHANGED <<conf, role, host, op, target, seen, todo, proxy, recycled, busy, raced, failed,
                     added, undone, stale>>
      /\ Goto(c, "exit")
  BY Zenon DEF DialFails
<1>4. Stepped(c, "exit", "none", target[c], seen[c]) /\ proxy'[c] = "none"
  <2>1. MovesTo(c, "exit", "none", target[c], seen[c])
    <3>1. "exit" \in Labels
      BY DEF Labels
    <3> QED
      BY <1>1, <1>2, <1>3, <3>1, GoesIs, Zenon
  <2>2. Access(c)
    BY <1>3, AccessIs, Zenon
  <2>3. pc[c] \notin {"idle", "exit", "killed"} /\ "exit" # "idle"
    BY <1>1
  <2>4. Steps(c, "exit", "none", target[c], seen[c])
    BY <1>1, <1>2, <1>3, <2>1, <2>2, <2>3, Unmoved, Zenon DEF Steps
  <2> QED
    BY <1>2, <1>3, <2>4, StepIs, Zenon
<1>5. ShapeInv(c)'
  BY <1>2, <1>4 DEF Stepped, ShapeInv, Reaping, Leaving, Inside
<1>6. LeftInv(c)' /\ pc'[c] # "hold"
  <2>1. pc'[c] # "hold"
    BY <1>4 DEF Stepped
  <2> QED
    BY <1>2, <1>3, <2>1, NamelessKeeps, Zenon
<1> QED
  BY <1>3, <1>4, <1>5, <1>6, OutsideKeeps, QuietKeeps, Zenon DEF Stepped

(* add-host mints, or fails, before it touches the file.                   *)
LEMMA MintKeeps ==
    ASSUME HostsInv, NEW c \in Cmds, Mint(c)
    PROVE  HostsInv'
<1>1. TypeOK /\ ShapeInv(c) /\ pc[c] = "mint"
  BY HereIs, Zenon DEF Mint
<1>2. proxy[c] = "none" /\ op[c] = "none" /\ host[c] \in Hosts /\ ~Wrote(c)
  BY <1>1 DEF ShapeInv, Wrote
<1>3. UNCHANGED <<conf, role, host, seen, todo, proxy, recycled, busy, raced, failed, added, undone,
                  stale>>
  BY Zenon DEF Mint
<1>4. Access(c)
  BY <1>3, AccessIs, Zenon
<1>5. pc[c] \notin {"idle", "exit", "killed"} /\ "exit" # "idle" /\ "read" # "idle"
  BY <1>1
<1>6. CASE Begin(c, "Upsert", host[c])
  <2>1. MovesTo(c, "read", "Upsert", host[c], seen[c])
    <3>1. "Upsert" \in Ops
      BY DEF Ops
    <3> QED
      BY <1>1, <1>2, <1>3, <1>6, <3>1, BeginIs, Zenon
  <2>2. Stepped(c, "read", "Upsert", host[c], seen[c]) /\ proxy'[c] = "none"
    <3>1. Steps(c, "read", "Upsert", host[c], seen[c])
      BY <1>1, <1>2, <1>3, <1>4, <1>5, <2>1, Unmoved, ZenonT(90) DEF Steps
    <3> QED
      BY <1>2, <1>3, <3>1, StepIs, Zenon
  <2>3. ShapeInv(c)' /\ ~Reaping(c)' /\ ~Leaving(c)'
    BY <1>2, <2>2 DEF Stepped, ShapeInv, Reaping, Leaving, Inside
  <2> QED
    BY <1>3, <2>2, <2>3, ReadingKeeps, QuietKeeps, Zenon DEF Stepped
<1>7. CASE Goto(c, "exit") /\ UNCHANGED <<op, target>>
  <2>1. MovesTo(c, "exit", "none", target[c], seen[c])
    <3>1. "exit" \in Labels
      BY DEF Labels
    <3> QED
      BY <1>1, <1>2, <1>3, <1>7, <3>1, GoesIs, Zenon
  <2>2. Stepped(c, "exit", "none", target[c], seen[c]) /\ proxy'[c] = "none"
    <3>1. Steps(c, "exit", "none", target[c], seen[c])
      BY <1>1, <1>2, <1>3, <1>4, <1>5, <2>1, Unmoved, Zenon DEF Steps
    <3> QED
      BY <1>2, <1>3, <3>1, StepIs, Zenon
  <2>3. ShapeInv(c)' /\ pc'[c] # "hold"
    BY <1>2, <2>2 DEF Stepped, ShapeInv, Reaping, Leaving, Inside
  <2>4. LeftInv(c)'
    BY <1>2, <1>3, NamelessKeeps, Zenon
  <2> QED
    BY <1>3, <2>2, <2>3, <2>4, OutsideKeeps, QuietKeeps, Zenon DEF Stepped
<1> QED
  BY <1>6, <1>7, Zenon DEF Mint

(* A waiting command goes on to remove its stanza, or to tear down if it   *)
(* has none.                                                               *)
LEMMA ReleaseKeeps ==
    ASSUME HostsInv, NEW c \in Cmds, Release(c)
    PROVE  HostsInv'
<1>1. TypeOK /\ ShapeInv(c) /\ pc[c] = "hold" /\ (~raced => HeldInv(c))
  BY HereIs, Zenon DEF Release, AloneInv
<1>2. proxy[c] # "none" /\ op[c] = "none" /\ host[c] \in Hosts
  BY <1>1 DEF ShapeInv
<1>3. UNCHANGED <<conf, role, host, seen, todo, proxy, recycled, busy, raced, failed, added, undone,
                  stale>>
  BY Zenon DEF Release
<1>4. Access(c)
  BY <1>3, AccessIs, Zenon
<1>5. pc[c] \notin {"idle", "exit", "killed"} /\ "teardown" # "idle" /\ "read" # "idle"
  BY <1>1
<1>6. CASE role[c] = "tunnel"
  <2>1. MovesTo(c, "read", "RemoveEphemeral", host[c], seen[c])
    <3>1. "RemoveEphemeral" \in Ops
      BY DEF Ops
    <3>2. Begin(c, "RemoveEphemeral", host[c])
      BY <1>6, Zenon DEF Release
    <3> QED
      BY <1>1, <1>2, <1>3, <3>1, <3>2, BeginIs, Zenon
  <2>2. Stepped(c, "read", "RemoveEphemeral", host[c], seen[c]) /\ proxy'[c] # "none"
    <3>1. "RemoveEphemeral" # "UpsertEphemeral"
      OBVIOUS
    <3>2. Steps(c, "read", "RemoveEphemeral", host[c], seen[c])
      BY <1>1, <1>2, <1>3, <1>4, <1>5, <2>1, <3>1, Unmoved, ZenonT(90) DEF Steps
    <3> QED
      BY <1>2, <1>3, <3>2, StepIs, Zenon
  <2>3. ShapeInv(c)' /\ ~Reaping(c)'
    BY <1>2, <1>6, <2>2 DEF Stepped, ShapeInv, Reaping, Leaving, Inside
  <2>4. ~raced' => HeldInv(c)'
    BY <1>1, <1>3, <1>6, Zenon DEF HeldInv
  <2> QED
    BY <1>3, <2>2, <2>3, <2>4, ReadingKeeps, QuietKeeps, Zenon DEF Stepped
<1>7. CASE role[c] # "tunnel"
  <2>1. MovesTo(c, "teardown", "none", target[c], seen[c])
    <3>1. "teardown" \in Labels
      BY DEF Labels
    <3>2. Goto(c, "teardown") /\ UNCHANGED <<op, target>>
      BY <1>7, Zenon DEF Release
    <3> QED
      BY <1>1, <1>2, <1>3, <3>1, <3>2, GoesIs, Zenon
  <2>2. Stepped(c, "teardown", "none", target[c], seen[c]) /\ proxy'[c] # "none"
    <3>1. "none" # "UpsertEphemeral"
      OBVIOUS
    <3>2. Steps(c, "teardown", "none", target[c], seen[c])
      BY <1>1, <1>2, <1>3, <1>4, <1>5, <2>1, <3>1, Unmoved, ZenonT(90) DEF Steps
    <3> QED
      BY <1>2, <1>3, <3>2, StepIs, Zenon
  <2>3. ShapeInv(c)' /\ pc'[c] # "hold"
    BY <1>2, <2>2 DEF Stepped, ShapeInv, Reaping, Leaving, Inside
  <2>4. LeftInv(c)'
    BY <1>3, <1>7, NamelessKeeps, Zenon DEF Wrote
  <2> QED
    BY <1>3, <2>2, <2>3, <2>4, OutsideKeeps, QuietKeeps, Zenon DEF Stepped
<1> QED
  BY <1>6, <1>7

(* teardownTunnel releases the proxy of a command whose stanza is gone.    *)
LEMMA TeardownKeeps ==
    ASSUME HostsInv, NEW c \in Cmds, Teardown(c)
    PROVE  HostsInv'
<1>1. TypeOK /\ ShapeInv(c) /\ pc[c] = "teardown" /\ (~raced => LeftInv(c))
  BY HereIs, Zenon DEF Teardown, AloneInv
<1>2. proxy[c] # "none" /\ op[c] = "none" /\ host[c] \in Hosts
  BY <1>1 DEF ShapeInv
<1>3. /\ UNCHANGED <<conf, role, host, op, target, seen, todo, recycled, busy, raced, failed, added,
                     undone, stale>>
      /\ Goto(c, "exit") /\ proxy' = [proxy EXCEPT ![c] = "released"]
  BY Zenon DEF Teardown
<1>4. Moves(proxy, proxy', c, Proxies) /\ proxy'[c] = "released"
  <2>1. "released" \in Proxies
    BY DEF Proxies
  <2> QED
    BY <1>1, <1>3, <2>1, ProxyIs, Zenon
<1>5. Stepped(c, "exit", "none", target[c], seen[c])
  <2>1. MovesTo(c, "exit", "none", target[c], seen[c])
    <3>1. "exit" \in Labels
      BY DEF Labels
    <3> QED
      BY <1>1, <1>2, <1>3, <3>1, GoesIs, Zenon
  <2>2. Access(c)
    BY <1>3, AccessIs, Zenon
  <2>3. /\ pc[c] \notin {"idle", "exit", "killed"} /\ "exit" # "idle" /\ proxy'[c] # "none"
        /\ "none" # "UpsertEphemeral"
    BY <1>1, <1>4
  <2>4. Steps(c, "exit", "none", target[c], seen[c])
    BY <1>1, <1>2, <1>3, <1>4, <2>1, <2>2, <2>3, Unmoved, ZenonT(90) DEF Steps
  <2> QED
    BY <2>4, StepIs, Zenon
<1>6. ShapeInv(c)' /\ pc'[c] # "hold"
  BY <1>2, <1>4, <1>5 DEF Stepped, ShapeInv, Reaping, Leaving, Inside
<1>7. ~raced' => LeftInv(c)'
  BY <1>1, <1>3, Zenon DEF LeftInv
<1> QED
  BY <1>3, <1>5, <1>6, <1>7, OutsideKeeps, QuietKeeps, Zenon DEF Stepped

(* A command that starts has written nothing and holds nothing.            *)
LEMMA StartKeeps ==
    ASSUME HostsInv, NEW c \in Cmds, NEW r \in Roles \ {"none"}, NEW h \in Hosts, Start(c, r, h)
    PROVE  HostsInv'
<1>1. TypeOK /\ ShapeInv(c) /\ pc[c] = "idle"
  BY HereIs, Zenon DEF Start
<1>2. proxy[c] = "none" /\ op[c] = "none" /\ ~Wrote(c) /\ ~Gone(c)
  BY <1>1 DEF ShapeInv, Wrote, Gone
<1>3. /\ UNCHANGED <<conf, seen, todo, proxy, recycled, busy, raced, failed, added, undone, stale>>
      /\ role' = [role EXCEPT ![c] = r] /\ host' = [host EXCEPT ![c] = h]
  BY Zenon DEF Start
<1>4. Moved(role, role', c, Roles, r) /\ Moved(host, host', c, Hosts \cup {NoHost}, h)
  BY <1>1, <1>3, MovedIs, Zenon DEF TypeOK
<1>5. \/ MovesTo(c, "read", "Reap", NoHost, seen[c])
      \/ MovesTo(c, "read", "Remove", h, seen[c])
      \/ MovesTo(c, "dial", "none", target[c], seen[c])
      \/ MovesTo(c, "mint", "none", target[c], seen[c])
  <2>1. /\ {"Reap", "Remove"} \subseteq Ops /\ {"dial", "mint"} \subseteq Labels
        /\ r \in {"tunnel", "portonly", "reap", "ssh", "addhost", "removehost"}
    BY DEF Ops, Labels, Roles
  <2>2. \/ Begin(c, "Reap", NoHost) \/ Begin(c, "Remove", h)
        \/ (Goto(c, "dial") \/ Goto(c, "mint")) /\ UNCHANGED <<op, target>>
    <3>1. CASE r \in {"tunnel", "portonly", "reap"}
      <4>1. CASE r = "tunnel"
        BY <4>1, SMT DEF Start
      <4>2. CASE r = "portonly"
        BY <4>2, SMT DEF Start
      <4>3. CASE r = "reap"
        BY <4>3, SMT DEF Start
      <4> QED
        BY <3>1, <4>1, <4>2, <4>3
    <3>2. CASE r = "ssh"
      BY <3>2, SMT DEF Start
    <3>3. CASE r = "addhost"
      BY <3>3, SMT DEF Start
    <3>4. CASE r = "removehost"
      BY <3>4, SMT DEF Start
    <3> QED
      BY <2>1, <3>1, <3>2, <3>3, <3>4
  <2>3. Begin(c, "Reap", NoHost) => MovesTo(c, "read", "Reap", NoHost, seen[c])
    BY <1>1, <1>3, <2>1, BeginIs, Zenon
  <2>4. Begin(c, "Remove", h) => MovesTo(c, "read", "Remove", h, seen[c])
    BY <1>1, <1>3, <2>1, BeginIs, Zenon
  <2>5. ASSUME NEW l \in {"dial", "mint"}, Goto(c, l), UNCHANGED <<op, target>>
        PROVE  MovesTo(c, l, "none", target[c], seen[c])
    BY <1>1, <1>2, <1>3, <2>1, <2>5, GoesIs, Zenon
  <2> QED
    BY <2>2, <2>3, <2>4, <2>5, Zenon
<1>6. StepOf(c)
  <2>1. /\ Moves(pc, pc', c, Labels) /\ Moves(op, op', c, Ops)
        /\ Moves(target, target', c, Hosts \cup {NoHost}) /\ Moves(seen, seen', c, [Hosts -> Stanzas])
    BY <1>5, Zenon DEF MovesTo, Moved
  <2>2. Access(c)
    BY <1>3, AccessIs, Zenon
  <2>3. recycled \subseteq recycled' /\ recycled' \subseteq Cmds
    BY <1>1, <1>3, Zenon DEF TypeOK
  <2> QED
    BY <1>1, <1>2, <1>3, <1>4, <2>1, <2>2, <2>3, Unmoved, Zenon DEF StepOf, Access, Moved
<1>7. /\ host'[c] = h /\ proxy'[c] = "none" /\ seen'[c] = seen[c]
      /\ \/ pc'[c] = "read" /\ op'[c] = "Reap"
         \/ pc'[c] = "read" /\ op'[c] = "Remove" /\ target'[c] = h
         \/ pc'[c] \in {"dial", "mint"} /\ op'[c] = "none"
  BY <1>2, <1>3, <1>4, <1>5, ZenonT(90) DEF Moved, MovesTo
<1>8. ShapeInv(c)' /\ ~Reaping(c)' /\ ~Leaving(c)'
  BY <1>7 DEF ShapeInv, Reaping, Leaving, Inside
<1>9. pc'[c] # "read" => op'[c] = "none" /\ pc'[c] # "hold"
  BY <1>7
<1>10. LeftInv(c)'
  BY <1>2, <1>3, NamelessKeeps, Zenon
<1>11. CmdInv(c)'
  BY <1>8, <1>9, <1>10, ReadingKeeps, OutsideKeeps, Zenon
<1> QED
  BY <1>3, <1>6, <1>7, <1>11, QuietKeeps, Zenon
-----------------------------------------------------------------------------
(* The environment.                                                        *)

(* A proxy that ends by itself takes no stanza away.                       *)
LEMMA ProxyEndsKeeps ==
    ASSUME HostsInv, NEW c \in Cmds, ProxyEnds(c)
    PROVE  HostsInv'
<1>1. TypeOK /\ ShapeInv(c) /\ proxy[c] = "listening" /\ pc[c] \notin {"idle", "exit", "killed"}
  BY HereIs, Zenon DEF ProxyEnds, Alive
<1>2. /\ UNCHANGED <<conf, pc, role, host, op, target, seen, todo, recycled, busy, raced, failed,
                     added, undone, stale>>
      /\ proxy' = [proxy EXCEPT ![c] = "released"]
  BY Zenon DEF ProxyEnds
<1>3. Moves(proxy, proxy', c, Proxies) /\ proxy'[c] = "released"
  <2>1. "released" \in Proxies
    BY DEF Proxies
  <2> QED
    BY <1>1, <1>2, <2>1, ProxyIs, Zenon
<1>4. MovesTo(c, pc[c], op[c], target[c], seen[c])
  BY <1>1, <1>2, StaysPut, Zenon DEF MovesTo
<1>5. Access(c)
  BY <1>2, AccessIs, Zenon
<1>6. pc[c] # "idle" /\ proxy'[c] # "none" /\ (op[c] = "UpsertEphemeral" => ~Wrote(c))
  BY <1>1, <1>3 DEF Wrote
<1>7. Stepped(c, pc[c], op[c], target[c], seen[c])
  <2>1. Steps(c, pc[c], op[c], target[c], seen[c])
    BY <1>1, <1>2, <1>3, <1>4, <1>5, <1>6, Unmoved, Zenon DEF Steps
  <2> QED
    BY <2>1, StepIs, Zenon
<1>8. CmdInv(c)'
  <2>1. Same(c)
    BY <1>1, <1>2, <1>3, Zenon DEF Same
  <2> QED
    BY <1>2, <1>7, <2>1, SameKeeps, Zenon DEF Stepped
<1> QED
  BY <1>2, <1>7, <1>8, QuietKeeps, Zenon DEF Stepped

(* A killed command leaves its stanza, which is then that of a dead one.   *)
LEMMA KillKeeps ==
    ASSUME HostsInv, NEW c \in Cmds, Kill(c)
    PROVE  HostsInv'
<1>1. TypeOK /\ ShapeInv(c) /\ pc[c] \notin {"idle", "exit", "killed"}
  BY HereIs, Zenon DEF Kill, Alive
<1>2. UNCHANGED <<conf, role, host, recycled, raced, failed, added, undone>> /\ busy' = busy \ {c}
  BY Zenon DEF Kill
<1>3. Moves(proxy, proxy', c, Proxies) /\ proxy'[c] # "listening" /\ (proxy[c] # "none" => proxy'[c] # "none")
  <2> DEFINE v == IF proxy[c] = "listening" THEN "released" ELSE proxy[c]
  <2>1. proxy[c] \in Proxies
    BY <1>1, Zenon DEF TypeOK, Proxies
  <2>2. v \in Proxies /\ v # "listening" /\ (proxy[c] # "none" => v # "none")
    BY <2>1 DEF Proxies
  <2>3. proxy' = [proxy EXCEPT ![c] = v]
    BY Zenon DEF Kill
  <2> HIDE DEF v
  <2>4. Moves(proxy, proxy', c, Proxies) /\ proxy'[c] = v
    BY <1>1, <2>2, <2>3, ProxyIs, Zenon
  <2> QED
    BY <2>2, <2>4, Zenon
<1>4. MovesTo(c, "killed", "none", NoHost, Empty)
  <2>1. "killed" \in Labels /\ "none" \in Ops
    BY DEF Labels, Ops
  <2> QED
    BY <1>1, <2>1, OutIs, Zenon DEF Kill, Goto
<1>5. Moves(todo, todo', c, SUBSET (Hosts \X Cmds)) /\ Moves(stale, stale', c, SUBSET Cmds)
  <2>1. {} \in SUBSET (Hosts \X Cmds) /\ {} \in SUBSET Cmds
    OBVIOUS
  <2> QED
    BY <1>1, <2>1, MovedIs, Zenon DEF TypeOK, Kill, Moved
<1>6. Access(c)
  BY <1>2, AccessIs, Zenon
<1>7. "killed" # "idle" /\ "none" # "UpsertEphemeral"
  OBVIOUS
<1>8. Stepped(c, "killed", "none", NoHost, Empty)
  <2>1. Steps(c, "killed", "none", NoHost, Empty)
    BY <1>1, <1>2, <1>3, <1>4, <1>5, <1>6, <1>7, Unmoved, ZenonT(90) DEF Steps
  <2> QED
    BY <2>1, StepIs, Zenon
<1>9. ShapeInv(c)' /\ LeftInv(c)' /\ pc'[c] # "hold"
  BY <1>1, <1>3, <1>8 DEF Stepped, ShapeInv, LeftInv, Reaping, Leaving, Inside
<1> QED
  BY <1>2, <1>8, <1>9, OutsideKeeps, QuietKeeps, Zenon DEF Stepped

(* A recycled pid makes no stanza of a dead command a live one's.          *)
LEMMA RecycleKeeps ==
    ASSUME HostsInv, NEW c \in Cmds, Recycle(c)
    PROVE  HostsInv'
<1>1. TypeOK
  BY HereIs, Zenon
<1>2. /\ UNCHANGED <<conf, pc, role, host, op, target, seen, todo, proxy, busy, raced, failed, added,
                     undone, stale>>
      /\ recycled' = recycled \cup {c}
  BY Zenon DEF Recycle
<1>3. StepOf(c)
  <2>1. /\ Moves(pc, pc', c, Labels) /\ Moves(op, op', c, Ops) /\ Moves(role, role', c, Roles)
        /\ Moves(target, target', c, Hosts \cup {NoHost}) /\ Moves(seen, seen', c, [Hosts -> Stanzas])
        /\ Moves(host, host', c, Hosts \cup {NoHost})
    BY <1>1, <1>2, StaysPut, Zenon DEF Moved
  <2>2. Access(c)
    BY <1>2, AccessIs, Zenon
  <2>3. recycled \subseteq recycled' /\ recycled' \subseteq Cmds
    BY <1>1, <1>2, Zenon DEF TypeOK
  <2>4. (Gone(c) => Gone(c)') /\ (Wrote(c) => Wrote(c)')
    BY <1>2, Zenon DEF Gone, Wrote
  <2> QED
    BY <1>1, <1>2, <2>1, <2>2, <2>3, <2>4, Unmoved, Zenon DEF StepOf, Access
<1>4. Same(c)
  BY <1>2, Zenon DEF Same
<1> QED
  BY <1>2, <1>3, <1>4, SameKeeps, QuietKeeps, Zenon
-----------------------------------------------------------------------------
(* The file operations, up to the write.                                   *)

(* An operation ends without a write, because it failed or because there   *)
(* is nothing to do.                                                       *)
Abandons(c) ==
  /\ Abandon(c) /\ pc[c] \in {"read", "check", "write"}
  /\ UNCHANGED <<conf, role, host, todo, proxy, recycled, added, undone, stale>>
  /\ raced' = raced \/ raced' = (raced \/ busy \ {c} # {})
  /\ Moves(failed, failed', c, BOOLEAN) /\ (failed[c] => failed'[c])
  /\ failed'[c] \/ op[c] # "RemoveEphemeral" \/ conf[target[c]] \notin Cmds

(* Where a failed or needless operation continues.                         *)
LEMMA AbandonSteps ==
    ASSUME HostsInv, NEW c \in Cmds, Abandons(c), NEW l \in {"sweep", "exit", "teardown"},
           NEW o \in {"Reap", "none"}, MovesTo(c, l, o, NoHost, Empty), busy' \in {busy, busy \ {c}}
    PROVE  Stepped(c, l, o, NoHost, Empty) /\ (raced => raced')
<1>1. TypeOK
  BY HereIs, Zenon
<1>2. Access(c)
  BY AccessIs, ZenonT(90) DEF Abandons
<1>3. pc[c] \notin {"idle", "exit", "killed"} /\ l # "idle" /\ o # "UpsertEphemeral"
  BY DEF Abandons
<1>4. /\ Moves(todo, todo', c, SUBSET (Hosts \X Cmds)) /\ Moves(proxy, proxy', c, Proxies)
      /\ Moves(stale, stale', c, SUBSET Cmds) /\ proxy'[c] = proxy[c]
  BY <1>1, Unmoved, Zenon DEF Abandons
<1>5. Steps(c, l, o, NoHost, Empty)
  BY <1>2, <1>3, <1>4, Zenon DEF Steps, Abandons
<1> QED
  BY <1>2, <1>5, StepIs, Zenon DEF Access

(* A failed or needless operation leaves the file alone, and is noted when *)
(* it should have removed something.                                       *)
LEMMA AbandonKeeps ==
    ASSUME HostsInv, NEW c \in Cmds, Abandons(c)
    PROVE  HostsInv'
<1>1. TypeOK /\ ShapeInv(c) /\ Abandon(c) /\ pc[c] \in {"read", "check", "write"}
  BY HereIs, Zenon DEF Abandons
<1>2. /\ UNCHANGED <<conf, added, undone>> /\ todo'[c] = todo[c] /\ proxy'[c] = proxy[c]
      /\ stale'[c] = stale[c] /\ recycled' = recycled
  BY Zenon DEF Abandons
<1>3. {"sweep", "exit", "teardown"} \subseteq Labels /\ pc[c] # "idle" /\ host[c] \in Hosts
  BY <1>1 DEF Labels, ShapeInv
<1>4. CASE /\ Reaping(c) /\ MovesTo(c, "sweep", "Reap", NoHost, Empty) /\ busy' = busy
  <2>1. Stepped(c, "sweep", "Reap", NoHost, Empty) /\ (raced => raced')
    BY <1>4, AbandonSteps, ZenonT(90)
  <2>2. c \in busy'
    BY <1>1, <1>4 DEF ShapeInv, Inside, Reaping
  <2>3. ShapeInv(c)' /\ ~Reaping(c)' /\ ~Leaving(c)' /\ pc'[c] \notin {"check", "write", "hold", "teardown", "exit"}
    BY <1>2, <1>3, <1>4, <2>1, <2>2 DEF Stepped, ShapeInv, Reaping, Leaving, Inside
  <2>4. ~raced' => SweepInv(c)'
    <3>1. SUFFICES ASSUME ~raced'
                   PROVE  SweepInv(c)'
      BY Zenon
    <3>2. SweepInv(c)
      BY <2>1, <3>1, HereIs, Zenon DEF AloneInv
    <3>3. /\ \A cand \in todo[c] : conf[cand[1]] = cand[2]
          /\ \A h \in Hosts : conf[h] \in stale[c] =>
               /\ Gone(conf[h])
               /\ <<h, conf[h]>> \in todo[c] \/ conf[h] \in recycled \/ failed[c] \/ h = target[c]
      BY <1>4, <3>2, Zenon DEF SweepInv
    <3>4. stale[c] \subseteq Cmds /\ op[c] = "RemoveEphemeral"
      BY <1>1, <1>4, Zenon DEF TypeOK, Reaping
    <3>5. failed'[c] \/ conf[target[c]] \notin stale[c]
      BY <3>4, Zenon DEF Abandons
    <3>6. failed[c] => failed'[c]
      BY Zenon DEF Abandons
    <3>7. \A h \in Hosts : conf[h] \in stale[c] =>
               <<h, conf[h]>> \in todo[c] \/ conf[h] \in recycled \/ failed'[c]
      BY <3>3, <3>5, <3>6, Zenon
    <3>8. \A h \in Hosts : conf[h] \in stale[c] => pc'[conf[h]] \in {"exit", "killed"}
      <4>1. \A k \in Cmds : Gone(k) => pc'[k] \in {"exit", "killed"}
        BY <2>1, Lasting, Zenon DEF Stepped, Gone
      <4> QED
        BY <3>3, <3>4, <4>1, Zenon
    <3> QED
      BY <1>2, <2>3, <3>3, <3>7, <3>8, Zenon DEF SweepInv, Gone
  <2>5. CmdInv(c)'
    BY <2>3, <2>4, Zenon DEF CmdInv, FoundInv, AloneInv, HeldInv, LeftInv
  <2> QED
    BY <1>2, <2>1, <2>5, QuietKeeps, Zenon DEF Stepped
<1>5. CASE /\ ~Reaping(c) /\ busy' = busy \ {c}
           /\ proxy[c] = "none" /\ MovesTo(c, "exit", "none", NoHost, Empty)
  <2>1. Stepped(c, "exit", "none", NoHost, Empty)
    BY <1>5, AbandonSteps, ZenonT(90)
  <2>2. ShapeInv(c)' /\ pc'[c] # "hold"
    BY <1>2, <1>3, <1>5, <2>1 DEF Stepped, ShapeInv, Reaping, Leaving, Inside
  <2>3. LeftInv(c)'
    BY <1>2, <1>5, NamelessKeeps, Zenon DEF Wrote
  <2> QED
    BY <1>2, <2>1, <2>2, <2>3, OutsideKeeps, QuietKeeps, Zenon DEF Stepped
<1>6. CASE /\ ~Reaping(c) /\ busy' = busy \ {c}
           /\ proxy[c] # "none" /\ MovesTo(c, "teardown", "none", NoHost, Empty)
  <2>1. Stepped(c, "teardown", "none", NoHost, Empty)
    BY <1>6, AbandonSteps, ZenonT(90)
  <2>2. ShapeInv(c)' /\ pc'[c] # "hold"
    BY <1>2, <1>3, <1>6, <2>1 DEF Stepped, ShapeInv, Reaping, Leaving, Inside
  <2>3. LeftInv(c)'
    <3>1. op[c] \in Ops
      BY <1>1, ZenonT(90) DEF TypeOK
    <3>2. op[c] = "UpsertEphemeral" \/ (Leaving(c) /\ op[c] = "RemoveEphemeral" /\ target[c] = host[c])
      BY <1>1, <1>6, <3>1 DEF ShapeInv, Leaving, Reaping, Ops
    <3>3. CASE op[c] = "UpsertEphemeral"
      BY <1>2, <3>3, NamelessKeeps, Zenon DEF Wrote
    <3>4. CASE op[c] = "RemoveEphemeral" /\ target[c] = host[c]
      <4>1. failed'[c] \/ conf[host[c]] \notin Cmds
        BY <3>4, Zenon DEF Abandons
      <4>2. \A h \in Hosts : conf[h] = c => host[c] = h
        BY ZenonT(90) DEF HostsInv, FileInv, OwnersOf
      <4> QED
        BY <1>2, <4>1, <4>2, Zenon DEF LeftInv
    <3> QED
      BY <3>2, <3>3, <3>4, Zenon
  <2> QED
    BY <1>2, <2>1, <2>2, <2>3, OutsideKeeps, QuietKeeps, ZenonT(90) DEF Stepped
<1> QED
  BY <1>1, <1>4, <1>5, <1>6, AbandonIs, Zenon

(* The file cannot be read, or not be written.                             *)
LEMMA FailsKeeps ==
    ASSUME HostsInv, NEW c \in Cmds, ReadFails(c) \/ WriteFails(c)
    PROVE  HostsInv'
<1>1. TypeOK
  BY HereIs, Zenon
<1>2. /\ Abandon(c) /\ pc[c] \in {"read", "check", "write"} /\ failed' = [failed EXCEPT ![c] = TRUE]
      /\ UNCHANGED <<conf, role, host, todo, proxy, recycled, raced, added, undone, stale>>
  BY Zenon DEF ReadFails, WriteFails
<1>3. Moves(failed, failed', c, BOOLEAN) /\ failed'[c]
  BY <1>1, <1>2, MovedIs, ZenonT(90) DEF TypeOK, Moved
<1>4. Abandons(c)
  BY <1>2, <1>3, Zenon DEF Abandons
<1> QED
  BY <1>4, AbandonKeeps, Zenon

(* A pid that a stanza names and that is not alive is a dead command's.    *)
LEMMA DeadIsGone ==
    ASSUME HostsInv, NEW k \in Cmds, Wrote(k), ~PidAlive(k)
    PROVE  Gone(k)
<1>1. pc[k] \in {"idle", "exit", "killed"}
  BY Zenon DEF PidAlive, Alive
<1>2. pc[k] # "idle"
  <2>1. ShapeInv(k)
    BY HereIs, Zenon
  <2> QED
    BY <2>1, Zenon DEF ShapeInv, Wrote
<1> QED
  BY <1>1, <1>2, Zenon DEF Gone

(* UpsertEphemeral goes on to write only over nothing or over a dead       *)
(* command's stanza.                                                       *)
LEMMA CheckKeeps ==
    ASSUME HostsInv, NEW c \in Cmds, Check(c)
    PROVE  HostsInv'
<1> DEFINE prior == seen[c][target[c]]
<1>1. TypeOK /\ ShapeInv(c) /\ pc[c] = "check" /\ (~raced => seen[c] = conf)
  BY HereIs, Zenon DEF Check, AloneInv
<1>2. op[c] = "UpsertEphemeral" /\ target[c] \in Hosts /\ host[c] \in Hosts /\ c \in busy
  BY <1>1 DEF ShapeInv, Inside
<1>3. UNCHANGED <<conf, role, host, todo, proxy, recycled, raced, failed, added, undone, stale>>
  BY Zenon DEF Check
<1>4. CASE prior = "persistent" \/ (prior \in Cmds /\ PidAlive(prior))
  <2>1. Abandon(c)
    BY <1>4, Zenon DEF Check
  <2>2. pc[c] \in {"read", "check", "write"} /\ op[c] # "RemoveEphemeral"
    BY <1>1, <1>2
  <2>3. Abandons(c)
    BY <1>1, <1>3, <2>1, <2>2, Unmoved, Zenon DEF Abandons
  <2> QED
    BY <2>3, AbandonKeeps, Zenon
<1>5. CASE ~(prior = "persistent" \/ (prior \in Cmds /\ PidAlive(prior)))
  <2>1. Goto(c, "write") /\ UNCHANGED <<op, target, seen, busy>> /\ "write" \in Labels
    <3>1. Goto(c, "write") /\ UNCHANGED <<op, target, seen, busy>>
      BY <1>5, Zenon DEF Check
    <3> QED
      BY <3>1 DEF Labels
  <2>2. Stepped(c, "write", "UpsertEphemeral", target[c], seen[c])
    <3>1. MovesTo(c, "write", "UpsertEphemeral", target[c], seen[c])
      BY <1>1, <1>2, <2>1, GoesIs, Zenon
    <3>2. Access(c) /\ ~Wrote(c)
      BY <1>2, <1>3, <2>1, AccessIs, ZenonT(90) DEF Wrote
    <3>3. pc[c] \notin {"idle", "exit", "killed"} /\ "write" # "idle"
      BY <1>1
    <3>4. Steps(c, "write", "UpsertEphemeral", target[c], seen[c])
      BY <1>1, <1>3, <3>1, <3>2, <3>3, Unmoved, ZenonT(90) DEF Steps
    <3> QED
      BY <3>4, StepIs, Zenon
  <2>3. ShapeInv(c)' /\ ~Reaping(c)' /\ ~Leaving(c)' /\ pc'[c] \notin {"sweep", "hold", "teardown", "exit"}
    BY <1>1, <1>2, <1>3, <2>1, <2>2 DEF Stepped, ShapeInv, Reaping, Leaving, Inside
  <2>4. prior # "persistent" /\ (prior \in Cmds => Gone(prior))
    <3>1. prior \in Cmds => Wrote(prior)
      BY <1>2, Zenon DEF HostsInv, FileInv, OwnersOf
    <3> HIDE DEF prior
    <3> QED
      BY <1>5, <3>1, DeadIsGone, Zenon
  <2>5. FoundInv(c)'
    <3>1. prior \in Cmds => pc'[prior] \in {"exit", "killed"}
      <4> HIDE DEF prior
      <4> QED
        BY <2>2, <2>4, Lasting, Zenon DEF Stepped, Gone
    <3>2. seen'[c][target'[c]] = prior
      BY <2>1, ZenonT(90)
    <3>3. op'[c] # "RemoveEphemeral"
      BY <2>2 DEF Stepped
    <3> HIDE DEF prior
    <3> QED
      BY <2>4, <3>1, <3>2, <3>3, ZenonT(90) DEF FoundInv, Gone
  <2>6. ~raced' => AloneInv(c)'
    BY <1>1, <1>3, <2>1, <2>3, Zenon DEF AloneInv, SweepInv, HeldInv, LeftInv
  <2>7. CmdInv(c)'
    BY <2>3, <2>5, <2>6, Zenon DEF CmdInv
  <2> QED
    BY <1>3, <2>2, <2>7, QuietKeeps, ZenonT(90) DEF Stepped
<1> QED
  BY <1>4, <1>5, Zenon

(* A reap ends when no candidate is left.                                  *)
LEMMA SweepDoneKeeps ==
    ASSUME HostsInv, NEW c \in Cmds, SweepDone(c)
    PROVE  HostsInv'
<1>1. TypeOK /\ ShapeInv(c) /\ pc[c] = "sweep"
  BY HereIs, ZenonT(90) DEF SweepDone
<1>2. proxy[c] = "none" /\ host[c] \in Hosts /\ ~Wrote(c)
  BY <1>1 DEF ShapeInv, Wrote
<1>3. UNCHANGED <<conf, role, host, todo, proxy, recycled, raced, failed, added, undone>>
  BY Zenon DEF SweepDone
<1>4. PICK l \in {"exit", "dial"} : End(c, l)
  BY Zenon DEF SweepDone
<1>5. MovesTo(c, l, "none", NoHost, Empty) /\ busy' = busy \ {c}
  <2>1. l \in Labels
    BY DEF Labels
  <2> QED
    BY <1>1, <1>4, <2>1, EndIs, Zenon
<1>6. Moves(stale, stale', c, SUBSET Cmds)
  <2>1. {} \in SUBSET Cmds
    OBVIOUS
  <2> QED
    BY <1>1, <2>1, MovedIs, Zenon DEF TypeOK, SweepDone, Moved
<1>7. Stepped(c, l, "none", NoHost, Empty)
  <2>1. Access(c)
    BY <1>3, <1>5, AccessIs, Zenon
  <2>2. pc[c] \notin {"idle", "exit", "killed"} /\ l # "idle"
    BY <1>1
  <2>3. Steps(c, l, "none", NoHost, Empty)
    BY <1>1, <1>2, <1>3, <1>5, <1>6, <2>1, <2>2, Unmoved, ZenonT(90) DEF Steps
  <2> QED
    BY <2>3, StepIs, Zenon
<1>8. ShapeInv(c)' /\ pc'[c] # "hold"
  BY <1>2, <1>3, <1>7 DEF Stepped, ShapeInv, Reaping, Leaving, Inside
<1>9. LeftInv(c)'
  BY <1>2, <1>3, NamelessKeeps, Zenon
<1> QED
  BY <1>3, <1>7, <1>8, <1>9, OutsideKeeps, QuietKeeps, ZenonT(90) DEF Stepped

(* The candidates of a reap, and which of them are dead.                   *)
LEMMA ReapReadKeeps ==
    ASSUME HostsInv, NEW c \in Cmds, Read(c), op[c] = "Reap"
    PROVE  HostsInv'
<1>1. TypeOK /\ ShapeInv(c) /\ pc[c] = "read"
  BY HereIs, ZenonT(90) DEF Read
<1>2. proxy[c] = "none" /\ host[c] \in Hosts /\ ~Wrote(c)
  BY <1>1 DEF ShapeInv, Wrote
<1>3. UNCHANGED <<conf, role, host, proxy, recycled, failed, added, undone>>
  BY Zenon DEF Read
<1>4. /\ todo' = [todo EXCEPT ![c] = Candidates(conf)] /\ UNCHANGED <<op, target, seen>>
      /\ stale' = [stale EXCEPT ![c] = {k \in Cmds : ~PidAlive(k)}] /\ Goto(c, "sweep")
      /\ busy' = busy \cup {c} /\ raced' = (raced \/ busy \ {c} # {})
  BY Zenon DEF Read, ReapRead
<1>5. /\ Moved(todo, todo', c, SUBSET (Hosts \X Cmds), Candidates(conf))
      /\ Moved(stale, stale', c, SUBSET Cmds, {k \in Cmds : ~PidAlive(k)})
  <2>1. Candidates(conf) \in SUBSET (Hosts \X Cmds)
    BY Zenon DEF Candidates
  <2>2. {k \in Cmds : ~PidAlive(k)} \in SUBSET Cmds
    BY Zenon
  <2> QED
    BY <1>1, <1>4, <2>1, <2>2, MovedIs, ZenonT(90) DEF TypeOK
<1>6. Stepped(c, "sweep", "Reap", target[c], seen[c]) /\ c \in busy' /\ proxy'[c] = "none"
  <2>1. MovesTo(c, "sweep", "Reap", target[c], seen[c])
    <3>1. "sweep" \in Labels
      BY DEF Labels
    <3> QED
      BY <1>1, <1>4, <3>1, GoesIs, Zenon
  <2>2. Access(c)
    BY <1>4, AccessIs, ZenonT(90)
  <2>3. pc[c] \notin {"idle", "exit", "killed"} /\ "sweep" # "idle"
    BY <1>1
  <2>4. Steps(c, "sweep", "Reap", target[c], seen[c])
    BY <1>1, <1>2, <1>3, <1>5, <2>1, <2>2, <2>3, Unmoved, ZenonT(90) DEF Steps, Moved
  <2> QED
    BY <1>2, <1>3, <1>4, <2>4, StepIs, Zenon
<1>7. ShapeInv(c)' /\ ~Reaping(c)' /\ ~Leaving(c)' /\ pc'[c] \notin {"check", "write", "hold", "teardown", "exit"}
  BY <1>2, <1>6 DEF Stepped, ShapeInv, Reaping, Leaving, Inside
<1>8. SweepInv(c)'
  <2>1. \A cand \in todo'[c] : conf'[cand[1]] = cand[2]
    BY <1>3, <1>5, Zenon DEF Moved, Candidates
  <2>2. ASSUME NEW h \in Hosts, conf[h] \in stale'[c]
        PROVE  <<h, conf[h]>> \in todo'[c] /\ pc'[conf[h]] \in {"exit", "killed"}
    <3> DEFINE k == conf[h]
    <3>1. k \in Cmds /\ ~PidAlive(k)
      BY <1>5, <2>2, Zenon DEF Moved
    <3>2. Wrote(k)
      BY <3>1, ZenonT(90) DEF HostsInv, FileInv, OwnersOf
    <3>3. <<h, k>> \in Hosts \X Cmds /\ <<h, k>>[1] = h /\ <<h, k>>[2] = k
      BY <3>1
    <3>4. <<h, k>> \in Candidates(conf)
      BY <3>3, Zenon DEF Candidates
    <3>5. pc'[k] \in {"exit", "killed"}
      <4> HIDE DEF k
      <4>1. Gone(k)
        BY <3>1, <3>2, DeadIsGone, Zenon
      <4> QED
        BY <1>6, <3>1, <4>1, Lasting, Zenon DEF Stepped, Gone
    <3> QED
      BY <1>5, <3>4, <3>5, Zenon DEF Moved
  <2> QED
    BY <1>3, <1>7, <2>1, <2>2, Zenon DEF SweepInv, Gone
<1>9. CmdInv(c)'
  BY <1>7, <1>8, Zenon DEF CmdInv, FoundInv, AloneInv, HeldInv, LeftInv
<1> QED
  BY <1>3, <1>6, <1>9, QuietKeeps, Zenon DEF Stepped

(* An edit reads the file: there is nothing to drop, or it goes on with    *)
(* what it read.                                                           *)
LEMMA EditReadKeeps ==
    ASSUME HostsInv, NEW c \in Cmds, Read(c), op[c] # "Reap"
    PROVE  HostsInv'
<1> DEFINE nothing == \/ op[c] = "Remove" /\ conf[target[c]] = "absent"
                      \/ op[c] = "RemoveEphemeral" /\ conf[target[c]] \notin Cmds
<1> DEFINE l == IF op[c] = "UpsertEphemeral" THEN "check" ELSE "write"
<1>1. TypeOK /\ ShapeInv(c) /\ pc[c] = "read" /\ (~raced => AloneInv(c))
  BY HereIs, Zenon DEF Read
<1>2. /\ UNCHANGED <<conf, role, host, proxy, recycled, failed, added, undone, todo, stale>>
      /\ raced' = (raced \/ busy \ {c} # {}) /\ EditRead(c)
  BY Zenon DEF Read, EditRead
<1>3. CASE nothing
  <2>1. Abandon(c)
    BY <1>2, <1>3, Zenon DEF EditRead
  <2>2. pc[c] \in {"read", "check", "write"}
    BY <1>1
  <2>3. op[c] # "RemoveEphemeral" \/ conf[target[c]] \notin Cmds
    BY <1>3
  <2>4. Abandons(c)
    BY <1>1, <1>2, <2>1, <2>2, <2>3, Unmoved, Zenon DEF Abandons
  <2> QED
    BY <2>4, AbandonKeeps, Zenon
<1>4. CASE ~nothing
  <2>1. /\ seen' = [seen EXCEPT ![c] = conf] /\ Goto(c, l) /\ busy' = busy \cup {c}
        /\ UNCHANGED <<op, target>>
    BY <1>2, <1>4, Zenon DEF EditRead
  <2>2. /\ l \in {"check", "write"} /\ l \in Labels /\ l # "idle"
        /\ l = "check" <=> op[c] = "UpsertEphemeral"
    BY DEF Labels
  <2> HIDE DEF l
  <2>3. Stepped(c, l, op[c], target[c], conf) /\ c \in busy' /\ (raced => raced')
    <3>1. MovesTo(c, l, op[c], target[c], conf)
      <4>1. Moved(seen, seen', c, [Hosts -> Stanzas], conf)
        BY <1>1, <2>1, MovedIs, Zenon DEF TypeOK
      <4> QED
        BY <1>1, <2>1, <2>2, <4>1, GotoIs, StaysPut, ZenonT(90) DEF MovesTo
    <3>2. Access(c) /\ (op[c] = "UpsertEphemeral" => ~Wrote(c))
      BY <1>2, <2>1, AccessIs, Zenon DEF Wrote
    <3>3. pc[c] \notin {"idle", "exit", "killed"}
      BY <1>1
    <3>4. Steps(c, l, op[c], target[c], conf)
      BY <1>1, <1>2, <2>2, <3>1, <3>2, <3>3, Unmoved, ZenonT(90) DEF Steps
    <3> QED
      BY <2>1, <3>2, <3>4, StepIs, Zenon DEF Access
  <2>4. /\ Reaping(c)' <=> Reaping(c)
        /\ Leaving(c)' <=> Leaving(c)
    BY <1>2, <2>1, ZenonT(90) DEF Reaping, Leaving
  <2>5. ShapeInv(c)' /\ pc'[c] \notin {"sweep", "hold", "teardown", "exit"}
    <3>1. pc'[c] \in {"check", "write"} /\ (pc'[c] = "check" <=> op[c] = "UpsertEphemeral")
      BY <2>2, <2>3, ZenonT(90) DEF Stepped
    <3>2. op[c] \in {"UpsertEphemeral", "RemoveEphemeral", "Upsert", "Remove"} /\ pc[c] # "idle"
      BY <1>1 DEF TypeOK, Ops, ShapeInv
    <3>3. op'[c] = op[c] /\ target'[c] = target[c] /\ proxy'[c] = proxy[c] /\ role'[c] = role[c] /\ host'[c] = host[c]
      BY <1>2, <2>1, Zenon
    <3> QED
      BY <1>1, <2>3, <2>4, <3>1, <3>2, <3>3 DEF ShapeInv, Inside
  <2>6. FoundInv(c)'
    <3>1. pc'[c] = "write" => op[c] # "UpsertEphemeral"
      BY <2>2, <2>3 DEF Stepped
    <3>2. op[c] = "RemoveEphemeral" => conf[target[c]] \in Cmds
      BY <1>4
    <3>3. seen'[c] = conf /\ op'[c] = op[c] /\ target'[c] = target[c]
      BY <2>3, Zenon DEF Stepped
    <3> QED
      BY <3>1, <3>2, <3>3, ZenonT(90) DEF FoundInv
  <2>7. ~raced' => AloneInv(c)'
    <3> SUFFICES ASSUME ~raced'
                 PROVE  AloneInv(c)'
      BY Zenon
    <3>1. SweepInv(c) /\ HeldInv(c)
      BY <1>1, <2>3, Zenon DEF AloneInv
    <3>2. HeldInv(c)'
      BY <1>2, <2>4, <2>5, <3>1, Zenon DEF HeldInv
    <3>3. \A k \in Cmds : pc[k] \in {"exit", "killed"} => pc'[k] \in {"exit", "killed"}
      BY <2>3, Lasting, Zenon DEF Stepped, Gone
    <3>4. conf \in [Hosts -> Stanzas] /\ stale[c] \subseteq Cmds
      BY <1>1, Zenon DEF TypeOK
    <3>5. SweepInv(c)'
      BY <1>2, <2>1, <2>4, <2>5, <3>1, <3>3, <3>4, ZenonT(90) DEF SweepInv, Gone
    <3> QED
      BY <1>2, <2>3, <2>5, <3>2, <3>5, Zenon DEF AloneInv, LeftInv, Stepped
  <2>8. CmdInv(c)'
    BY <2>5, <2>6, <2>7, Zenon DEF CmdInv
  <2> QED
    BY <1>2, <2>3, <2>8, QuietKeeps, Zenon DEF Stepped
<1> QED
  BY <1>3, <1>4, Zenon

(* The three reads: of a reap, of an edit of a tunnel and of the host      *)
(* commands.                                                               *)
LEMMA ReadKeeps ==
    ASSUME HostsInv, NEW c \in Cmds, Read(c)
    PROVE  HostsInv'
BY ReapReadKeeps, EditReadKeeps, ZenonT(90)

(* One round of the reaper: a live pid is passed by, a dead one's stanza   *)
(* is to be removed.                                                       *)
LEMMA SweepKeeps ==
    ASSUME HostsInv, NEW c \in Cmds, Sweep(c)
    PROVE  HostsInv'
<1>1. TypeOK /\ ShapeInv(c) /\ pc[c] = "sweep" /\ (~raced => SweepInv(c))
  BY HereIs, ZenonT(90) DEF Sweep, AloneInv
<1>2. proxy[c] = "none" /\ op[c] = "Reap" /\ host[c] \in Hosts /\ ~Wrote(c) /\ c \in busy
  BY <1>1 DEF ShapeInv, Wrote, Inside
<1>3. UNCHANGED <<conf, role, host, seen, proxy, recycled, busy, raced, failed, added, undone, stale>>
  BY Zenon DEF Sweep
<1>4. PICK cand \in todo[c] :
        /\ todo' = [todo EXCEPT ![c] = todo[c] \ {cand}]
        /\ IF PidAlive(cand[2]) THEN UNCHANGED <<pc, op, target>>
                                ELSE Begin(c, "RemoveEphemeral", cand[1])
  BY Zenon DEF Sweep
<1>5. todo[c] \subseteq Hosts \X Cmds /\ conf \in [Hosts -> Stanzas] /\ stale[c] \subseteq Cmds
  BY <1>1, Zenon DEF TypeOK
<1>6. cand[1] \in Hosts /\ cand[2] \in Cmds
  BY <1>5
<1>7. Moves(todo, todo', c, SUBSET (Hosts \X Cmds)) /\ todo'[c] = todo[c] \ {cand}
  <2> DEFINE v == todo[c] \ {cand}
  <2>1. v \in SUBSET (Hosts \X Cmds) /\ todo' = [todo EXCEPT ![c] = v]
    BY <1>4, <1>5, Zenon
  <2> HIDE DEF v
  <2>2. Moved(todo, todo', c, SUBSET (Hosts \X Cmds), v)
    BY <1>1, <2>1, MovedIs, ZenonT(90) DEF TypeOK
  <2> QED
    BY <2>2, Zenon DEF Moved, v
<1>8. Access(c)
  BY <1>3, AccessIs, Zenon
<1>9. /\ pc[c] \notin {"idle", "exit", "killed"} /\ "sweep" # "idle" /\ "read" # "idle"
      /\ "RemoveEphemeral" # "UpsertEphemeral"
  BY <1>1
<1>10. ~raced => /\ \A x \in todo[c] : conf[x[1]] = x[2]
                 /\ \A h \in Hosts : conf[h] \in stale[c] =>
                      /\ Gone(conf[h])
                      /\ <<h, conf[h]>> \in todo[c] \/ conf[h] \in recycled \/ failed[c]
  <2>1. ~Reaping(c)
    BY <1>2 DEF Reaping
  <2> QED
    BY <1>1, <2>1, ZenonT(90) DEF SweepInv
<1>11. CASE PidAlive(cand[2])
  <2>1. Stepped(c, "sweep", "Reap", target[c], seen[c]) /\ proxy'[c] = "none" /\ c \in busy'
    <3>1. MovesTo(c, "sweep", "Reap", target[c], seen[c])
      BY <1>1, <1>2, <1>3, <1>4, <1>11, StaysPut, ZenonT(90) DEF MovesTo
    <3>2. Steps(c, "sweep", "Reap", target[c], seen[c])
      BY <1>1, <1>2, <1>3, <1>7, <1>8, <1>9, <3>1, Unmoved, ZenonT(90) DEF Steps
    <3> QED
      BY <1>2, <1>3, <3>2, StepIs, Zenon
  <2>2. ShapeInv(c)' /\ ~Reaping(c)' /\ ~Leaving(c)' /\ pc'[c] \notin {"check", "write", "hold", "teardown", "exit"}
    BY <1>2, <2>1 DEF Stepped, ShapeInv, Reaping, Leaving, Inside
  <2>3. ~raced => SweepInv(c)'
    <3> SUFFICES ASSUME ~raced
                 PROVE  SweepInv(c)'
      BY Zenon
    <3>1. \A x \in todo'[c] : conf[x[1]] = x[2]
      BY <1>7, <1>10, Zenon
    <3>2. ASSUME NEW h \in Hosts, conf[h] \in stale[c]
          PROVE  /\ <<h, conf[h]>> \in todo'[c] \/ conf[h] \in recycled \/ failed[c]
                 /\ pc'[conf[h]] \in {"exit", "killed"}
      <4> DEFINE k == conf[h]
      <4>1. /\ k \in Cmds /\ Gone(k)
            /\ <<h, k>> \in todo[c] \/ k \in recycled \/ failed[c]
        BY <1>5, <1>10, <3>2, ZenonT(90)
      <4>2. <<h, k>>[2] = k
        OBVIOUS
      <4> HIDE DEF k
      <4>3. pc'[k] \in {"exit", "killed"}
        BY <2>1, <4>1, Lasting, Zenon DEF Stepped, Gone
      <4>4. <<h, k>> = cand => k \in recycled
        BY <1>11, <4>1, <4>2, Zenon DEF PidAlive, Alive, Gone
      <4>5. <<h, k>> \in todo'[c] \/ k \in recycled \/ failed[c]
        BY <1>7, <4>1, <4>4, Zenon
      <4> QED
        BY <4>3, <4>5, Zenon DEF k
    <3> QED
      BY <1>3, <2>2, <3>1, <3>2, ZenonT(90) DEF SweepInv, Gone
  <2>4. CmdInv(c)'
    BY <1>3, <2>2, <2>3, Zenon DEF CmdInv, FoundInv, AloneInv, HeldInv, LeftInv
  <2> QED
    BY <1>3, <2>1, <2>4, QuietKeeps, ZenonT(90) DEF Stepped
<1>12. CASE ~PidAlive(cand[2])
  <2>1. Stepped(c, "read", "RemoveEphemeral", cand[1], seen[c]) /\ proxy'[c] = "none" /\ c \in busy'
    <3>1. Begin(c, "RemoveEphemeral", cand[1]) /\ cand[1] \in Hosts \cup {NoHost}
      BY <1>4, <1>6, <1>12, Zenon
    <3>2. "RemoveEphemeral" \in Ops
      BY DEF Ops
    <3>3. MovesTo(c, "read", "RemoveEphemeral", cand[1], seen[c])
      <4> DEFINE t == cand[1]
      <4> HIDE DEF t
      <4>1. Begin(c, "RemoveEphemeral", t) /\ t \in Hosts \cup {NoHost}
        BY <3>1, Zenon DEF t
      <4>2. MovesTo(c, "read", "RemoveEphemeral", t, seen[c])
        BY <1>1, <1>3, <3>2, <4>1, BeginIs, ZenonT(90)
      <4> QED
        BY <4>2, Zenon DEF t
    <3>4. Steps(c, "read", "RemoveEphemeral", cand[1], seen[c])
      BY <1>1, <1>2, <1>3, <1>7, <1>8, <1>9, <3>3, Unmoved, ZenonT(90) DEF Steps
    <3> QED
      BY <1>2, <1>3, <3>4, StepIs, Zenon
  <2>2. ShapeInv(c)' /\ Reaping(c)' /\ ~Leaving(c)' /\ pc'[c] \notin {"check", "write", "sweep", "hold", "teardown", "exit"}
    BY <1>2, <1>6, <2>1 DEF Stepped, ShapeInv, Reaping, Leaving, Inside
  <2>3. ~raced => SweepInv(c)'
    <3> SUFFICES ASSUME ~raced
                 PROVE  SweepInv(c)'
      BY Zenon
    <3>1. \A x \in todo'[c] : conf[x[1]] = x[2]
      BY <1>7, <1>10, Zenon
    <3>2. ASSUME NEW x \in todo'[c], x[1] = cand[1]
          PROVE  FALSE
      <4>1. x \in Hosts \X Cmds /\ cand \in Hosts \X Cmds /\ x # cand
        BY <1>5, <1>7, Zenon
      <4>2. x[2] = cand[2]
        BY <1>7, <1>10, <3>2, Zenon
      <4> QED
        BY <3>2, <4>1, <4>2
    <3>3. conf[cand[1]] = cand[2] /\ Gone(cand[2])
      <4> DEFINE k == cand[2]
      <4>1. conf[cand[1]] = k /\ k \in Cmds
        BY <1>6, <1>10, Zenon
      <4>2. Wrote(k)
        BY <1>6, <4>1, Zenon DEF HostsInv, FileInv, OwnersOf
      <4>3. ~PidAlive(k)
        BY <1>12, Zenon
      <4> HIDE DEF k
      <4>4. Gone(k)
        BY <4>1, <4>2, <4>3, DeadIsGone, Zenon
      <4> QED
        BY <4>1, <4>4, Zenon DEF k
    <3>4. \A k \in Cmds : Gone(k) => pc'[k] \in {"exit", "killed"}
      BY <2>1, Lasting, Zenon DEF Stepped, Gone
    <3>5. ASSUME NEW h \in Hosts, conf[h] \in stale[c]
          PROVE  /\ <<h, conf[h]>> \in todo'[c] \/ conf[h] \in recycled \/ failed[c] \/ h = cand[1]
                 /\ pc'[conf[h]] \in {"exit", "killed"}
      <4>1. <<h, conf[h]>>[1] = h
        OBVIOUS
      <4>2. <<h, conf[h]>> = cand => h = cand[1]
        BY <4>1, Zenon
      <4> QED
        BY <1>5, <1>7, <1>10, <3>4, <3>5, <4>2, ZenonT(90)
    <3>6. target'[c] = cand[1] /\ pc'[conf[cand[1]]] \in {"exit", "killed"}
      BY <1>6, <2>1, <3>3, <3>4, Zenon DEF Stepped
    <3> QED
      BY <1>3, <2>2, <3>1, <3>2, <3>5, <3>6, ZenonT(90) DEF SweepInv, Gone
  <2>4. CmdInv(c)'
    BY <1>3, <2>2, <2>3, Zenon DEF CmdInv, FoundInv, AloneInv, HeldInv, LeftInv
  <2> QED
    BY <1>3, <2>1, <2>4, QuietKeeps, Zenon DEF Stepped
<1> QED
  BY <1>11, <1>12
-----------------------------------------------------------------------------
(* The write.                                                              *)

(* The new file is the one that was read, but for one host name.           *)
Rewrites(c) ==
  /\ pc[c] = "write" /\ target[c] \in Hosts
  /\ op[c] \in {"UpsertEphemeral", "RemoveEphemeral", "Upsert", "Remove"}
  /\ conf' \in [Hosts -> Stanzas]
  /\ \A h \in Hosts : h # target[c] => conf'[h] = seen[c][h]
  /\ op[c] = "Upsert" => conf'[target[c]] = "persistent"
  /\ op[c] = "UpsertEphemeral" => conf'[target[c]] = c
  /\ op[c] \in {"RemoveEphemeral", "Remove"} => conf'[target[c]] = "absent"
  /\ undone' \subseteq Cmds /\ undone \subseteq undone'
  /\ \A o \in undone' : o \in undone \/ o = conf[target[c]]
  /\ op[c] \in {"Upsert", "Remove"} /\ conf[target[c]] \in Cmds => conf[target[c]] \in undone'
  /\ UNCHANGED <<role, host, todo, proxy, recycled, raced, failed, stale>>

(* What a write does to the file, and that without an overlap it replaces  *)
(* what was read.                                                          *)
LEMMA RewriteIs ==
    ASSUME HostsInv, NEW c \in Cmds, Write(c)
    PROVE  Rewrites(c) /\ c \in busy /\ (~raced => busy = {c} /\ seen[c] = conf)
<1>1. TypeOK /\ ShapeInv(c) /\ pc[c] = "write" /\ (~raced => seen[c] = conf)
  BY HereIs, ZenonT(90) DEF Write, AloneInv
<1>2. op[c] \in {"UpsertEphemeral", "RemoveEphemeral", "Upsert", "Remove"} /\ target[c] \in Hosts /\ c \in busy
  BY <1>1 DEF TypeOK, Ops, ShapeInv, Inside
<1>3. ~raced => busy = {c}
  BY <1>2, Zenon DEF HostsInv, FileInv
<1>4. /\ conf' \in [Hosts -> Stanzas]
      /\ \A h \in Hosts : h # target[c] => conf'[h] = seen[c][h]
      /\ op[c] = "Upsert" => conf'[target[c]] = "persistent"
      /\ op[c] = "UpsertEphemeral" => conf'[target[c]] = c
      /\ op[c] \in {"RemoveEphemeral", "Remove"} => conf'[target[c]] = "absent"
  <2> DEFINE v == CASE op[c] = "Upsert" -> "persistent"
                    [] op[c] = "UpsertEphemeral" -> c
                    [] OTHER -> "absent"
  <2>1. /\ v \in Stanzas /\ (op[c] = "Upsert" => v = "persistent")
        /\ op[c] = "UpsertEphemeral" => v = c
        /\ op[c] \in {"RemoveEphemeral", "Remove"} => v = "absent"
    BY <1>2 DEF Stanzas
  <2>2. conf' = [seen[c] EXCEPT ![target[c]] = v]
    BY Zenon DEF Write, Written
  <2> HIDE DEF v
  <2>3. seen[c] \in [Hosts -> Stanzas]
    BY <1>1, Zenon DEF TypeOK
  <2>4. /\ conf' \in [Hosts -> Stanzas] /\ conf'[target[c]] = v
        /\ \A h \in Hosts : h # target[c] => conf'[h] = seen[c][h]
    BY <1>2, <2>1, <2>2, <2>3, Zenon
  <2> QED
    BY <2>1, <2>4, Zenon
<1>5. /\ undone' \subseteq Cmds /\ undone \subseteq undone'
      /\ \A o \in undone' : o \in undone \/ o = conf[target[c]]
      /\ op[c] \in {"Upsert", "Remove"} /\ conf[target[c]] \in Cmds => conf[target[c]] \in undone'
  <2>1. undone \subseteq Cmds
    BY <1>1, Zenon DEF TypeOK
  <2> QED
    BY <2>1, Zenon DEF Write
<1>6. UNCHANGED <<role, host, todo, proxy, recycled, raced, failed, stale>>
  BY ZenonT(90) DEF Write
<1> QED
  BY <1>1, <1>2, <1>3, <1>4, <1>5, <1>6, ZenonT(90) DEF Rewrites

(* Where the command goes on from its write.                               *)
LEMMA WriteSteps ==
    ASSUME HostsInv, NEW c \in Cmds, Write(c)
    PROVE  \/ /\ op[c] = "UpsertEphemeral" /\ Stepped(c, "hold", "none", NoHost, Empty)
              /\ busy' = busy \ {c}
           \/ /\ Reaping(c) /\ Stepped(c, "sweep", "Reap", NoHost, Empty) /\ busy' = busy
           \/ /\ op[c] # "UpsertEphemeral" /\ proxy[c] = "none" /\ busy' = busy \ {c}
              /\ Stepped(c, "exit", "none", NoHost, Empty)
           \/ /\ Leaving(c) /\ Stepped(c, "teardown", "none", NoHost, Empty) /\ busy' = busy \ {c}
<1>1. TypeOK /\ ShapeInv(c) /\ Rewrites(c)
  BY HereIs, RewriteIs, Zenon
<1>2. ASSUME NEW l \in {"hold", "sweep", "exit", "teardown"}, NEW o \in {"Reap", "none"},
             MovesTo(c, l, o, NoHost, Empty), busy' \in {busy, busy \ {c}}
      PROVE  Stepped(c, l, o, NoHost, Empty)
  <2>1. Access(c)
    BY <1>1, <1>2, AccessIs, ZenonT(90) DEF Rewrites
  <2>2. pc[c] \notin {"idle", "exit", "killed"} /\ l # "idle" /\ o # "UpsertEphemeral"
    BY <1>1 DEF Rewrites
  <2>3. /\ Moves(todo, todo', c, SUBSET (Hosts \X Cmds)) /\ Moves(proxy, proxy', c, Proxies)
        /\ Moves(stale, stale', c, SUBSET Cmds) /\ Moves(failed, failed', c, BOOLEAN)
        /\ proxy'[c] = proxy[c]
    BY <1>1, Unmoved, Zenon DEF Rewrites
  <2>4. Steps(c, l, o, NoHost, Empty)
    BY <1>1, <1>2, <2>1, <2>2, <2>3, ZenonT(90) DEF Steps, Rewrites
  <2> QED
    BY <2>4, StepIs, Zenon
<1>3. CASE op[c] = "UpsertEphemeral"
  <2>1. End(c, "hold")
    BY <1>3, Zenon DEF Write
  <2>2. "hold" \in Labels
    BY DEF Labels
  <2>3. MovesTo(c, "hold", "none", NoHost, Empty) /\ busy' = busy \ {c}
    BY <1>1, <2>1, <2>2, EndIs, Zenon
  <2> QED
    BY <1>2, <1>3, <2>3, Zenon
<1>4. CASE op[c] # "UpsertEphemeral"
  <2>1. Abandon(c)
    BY <1>4, ZenonT(90) DEF Write
  <2>2. ~Reaping(c) /\ proxy[c] # "none" => Leaving(c)
    BY <1>1, <1>4 DEF Rewrites, ShapeInv, Reaping, Leaving
  <2>3. \/ /\ Reaping(c) /\ MovesTo(c, "sweep", "Reap", NoHost, Empty) /\ busy' = busy
        \/ /\ ~Reaping(c) /\ busy' = busy \ {c}
           /\ \/ proxy[c] = "none" /\ MovesTo(c, "exit", "none", NoHost, Empty)
              \/ proxy[c] # "none" /\ MovesTo(c, "teardown", "none", NoHost, Empty)
    BY <1>1, <2>1, AbandonIs, Zenon
  <2> QED
    BY <1>2, <1>4, <2>2, <2>3, Zenon
<1> QED
  BY <1>3, <1>4

(* The stanzas after the write name commands that wrote them.              *)
LEMMA WriteFile ==
    ASSUME HostsInv, NEW c \in Cmds, Write(c), Rewrites(c), StepOf(c), seen'[c] = Empty,
           op[c] = "UpsertEphemeral" => op'[c] = "none"
    PROVE  OwnersOf(conf)' /\ (\A d \in Cmds : OwnersOf(seen[d])') /\ \A o \in undone' : pc'[o] # "idle"
<1>1. TypeOK /\ ShapeInv(c) /\ OwnersOf(conf) /\ OwnersOf(Empty) /\ \A d \in Cmds : OwnersOf(seen[d])
  BY HereIs, Constants, ZenonT(90) DEF HostsInv, FileInv, OwnersOf
<1>2. ASSUME NEW h \in Hosts, conf'[h] \in Cmds
      PROVE  /\ proxy'[conf'[h]] # "none" /\ op'[conf'[h]] # "UpsertEphemeral"
             /\ role'[conf'[h]] = "tunnel" /\ host'[conf'[h]] = h
  <2>1. CASE h # target[c]
    <3>1. conf'[h] = seen[c][h]
      BY <1>2, <2>1, Zenon DEF Rewrites
    <3>2. \A g \in Hosts : seen[c][g] \in Cmds =>
             /\ proxy'[seen[c][g]] # "none" /\ op'[seen[c][g]] # "UpsertEphemeral"
             /\ role'[seen[c][g]] = "tunnel" /\ host'[seen[c][g]] = g
      BY <1>1, OwnersStay, Zenon
    <3> QED
      BY <1>2, <3>1, <3>2, ZenonT(90)
  <2>2. CASE h = target[c]
    <3>1. conf'[h] # "persistent" /\ conf'[h] # "absent"
      BY <1>2, Constants, ZenonT(90)
    <3>2. op[c] = "UpsertEphemeral"
      BY <2>2, <3>1 DEF Rewrites
    <3>3. conf'[h] = c /\ op'[c] # "UpsertEphemeral"
      BY <2>2, <3>2 DEF Rewrites
    <3>4. proxy'[c] # "none" /\ role'[c] = "tunnel" /\ host'[c] = h
      BY <1>1, <2>2, <3>2, Zenon DEF Rewrites, ShapeInv
    <3> QED
      BY <3>3, <3>4, Zenon
  <2> QED
    BY <2>1, <2>2, Zenon
<1>3. ASSUME NEW d \in Cmds
      PROVE  OwnersOf(seen[d])'
  <2>1. seen'[d] = seen[d] \/ seen'[d] = Empty
    BY OthersStay, Zenon
  <2>2. OwnersOf(seen'[d])
    BY <1>1, <2>1, Zenon
  <2> QED
    BY <2>2, OwnersStay, ZenonT(90) DEF OwnersOf, Wrote
<1>4. ASSUME NEW o \in undone'
      PROVE  pc'[o] # "idle"
  <2>1. o \in Cmds /\ (o \in undone \/ o = conf[target[c]]) /\ target[c] \in Hosts
    BY <1>4, Zenon DEF Rewrites
  <2>2. pc[o] # "idle"
    <3>1. o \in undone => pc[o] # "idle"
      BY Zenon DEF HostsInv, FileInv
    <3>2. o = conf[target[c]] => Wrote(o)
      BY <1>1, <2>1, ZenonT(90) DEF OwnersOf
    <3>3. Wrote(o) => pc[o] # "idle"
      BY <2>1, Lasting, Zenon
    <3> QED
      BY <2>1, <3>1, <3>2, <3>3, Zenon
  <2> QED
    BY <2>1, <2>2, Lasting, Zenon
<1>5. OwnersOf(conf)'
  BY <1>2, Zenon DEF OwnersOf, Wrote
<1> QED
  BY <1>3, <1>4, <1>5, Zenon

(* Only add-host and remove-host change which stanzas are persistent.      *)
LEMMA WritePersistent ==
    ASSUME HostsInv, NEW c \in Cmds, Write(c), Rewrites(c)
    PROVE  added' \subseteq Hosts /\ PersistentKept'
<1>1. /\ TypeOK /\ FoundInv(c) /\ (~raced => seen[c] = conf)
      /\ ~raced => {h \in Hosts : conf[h] = "persistent"} = added
  BY HereIs, RewriteIs, Zenon DEF HostsInv, FileInv, PersistentKept
<1>2. added \subseteq Hosts /\ target[c] \in Hosts
  BY <1>1, Zenon DEF TypeOK, Rewrites
<1>3. /\ op[c] = "Upsert" => added' = added \cup {target[c]}
      /\ op[c] = "Remove" => added' = added \ {target[c]}
      /\ op[c] \in {"UpsertEphemeral", "RemoveEphemeral"} => added' = added
  BY DEF Write
<1>4. added' \subseteq Hosts
  BY <1>2, <1>3, Zenon DEF Rewrites
<1>5. ASSUME ~raced, NEW h \in Hosts
      PROVE  conf'[h] = "persistent" <=> h \in added'
  <2>1. conf[h] = "persistent" <=> h \in added
    BY <1>1, <1>5, Zenon
  <2>2. CASE h # target[c]
    <3>1. conf'[h] = conf[h]
      BY <1>1, <1>5, <2>2, Zenon DEF Rewrites
    <3>2. h \in added' <=> h \in added
      BY <1>3, <2>2, Zenon DEF Rewrites
    <3> QED
      BY <2>1, <3>1, <3>2, Zenon
  <2>3. CASE h = target[c]
    <3>1. CASE op[c] = "Upsert"
      BY <1>3, <2>3, <3>1, Zenon DEF Rewrites
    <3>2. CASE op[c] = "Remove"
      <4>1. conf'[h] = "absent" /\ h \notin added'
        BY <1>3, <2>3, <3>2, Zenon DEF Rewrites
      <4> QED
        BY <4>1
    <3>3. CASE op[c] = "UpsertEphemeral"
      <4>1. conf'[h] = c /\ c # "persistent" /\ added' = added
        BY <1>3, <2>3, <3>3, Constants, ZenonT(90) DEF Rewrites
      <4>2. conf[h] # "persistent"
        BY <1>1, <1>5, <2>3, <3>3, ZenonT(90) DEF FoundInv, Rewrites
      <4> QED
        BY <2>1, <4>1, <4>2, ZenonT(90)
    <3>4. CASE op[c] = "RemoveEphemeral"
      <4>1. conf'[h] = "absent" /\ added' = added
        BY <1>3, <2>3, <3>4, Zenon DEF Rewrites
      <4>2. conf[h] \in Cmds
        BY <1>1, <1>5, <2>3, <3>4, ZenonT(90) DEF FoundInv, Rewrites
      <4>3. conf[h] # "persistent" /\ conf'[h] # "persistent"
        <5>1. conf[h] # "persistent"
          BY <4>2, Constants, Zenon
        <5> QED
          BY <4>1, <5>1
      <4> QED
        BY <2>1, <4>1, <4>3, Zenon
    <3> QED
      BY <3>1, <3>2, <3>3, <3>4, Zenon DEF Rewrites
  <2> QED
    BY <2>2, <2>3, Zenon
<1>6. raced' = raced
  BY Zenon DEF Rewrites
<1>7. ~raced => {h \in Hosts : conf'[h] = "persistent"} = added'
  BY <1>4, <1>5, Zenon
<1> QED
  BY <1>4, <1>6, <1>7, Zenon DEF PersistentKept

(* Where no operations overlap, no other command is in one, so that a      *)
(* write takes no waiting command's stanza away but by add-host and        *)
(* remove-host.                                                            *)
LEMMA WriteOthers ==
    ASSUME HostsInv, NEW c \in Cmds, Write(c), Rewrites(c), StepOf(c), NEW d \in Cmds \ {c}
    PROVE  CmdInv(d)'
<1>1. TypeOK /\ ShapeInv(c) /\ ShapeInv(d) /\ FoundInv(c) /\ FoundInv(d)
  BY HereIs, Zenon
<1>2. /\ pc'[d] = pc[d] /\ role'[d] = role[d] /\ host'[d] = host[d] /\ op'[d] = op[d]
      /\ target'[d] = target[d] /\ seen'[d] = seen[d] /\ proxy'[d] = proxy[d] /\ failed'[d] = failed[d]
      /\ d \in busy => d \in busy'
  BY OthersStay, ZenonT(90) DEF StepOf
<1>3. /\ Reaping(d)' <=> Reaping(d)
      /\ Leaving(d)' <=> Leaving(d)
      /\ Inside(d)' <=> Inside(d)
  BY <1>2, Zenon DEF Reaping, Leaving, Inside
<1>4. ShapeInv(d)'
  BY <1>1, <1>2, <1>3, ZenonT(90) DEF ShapeInv
<1>5. \A k \in Cmds : pc[k] \in {"exit", "killed"} => pc'[k] \in {"exit", "killed"}
  BY Lasting, Zenon DEF Gone
<1>6. FoundInv(d)'
  BY <1>1, <1>2, <1>5, Zenon DEF FoundInv, Gone
<1>7. ASSUME ~raced
      PROVE  AloneInv(d)'
  <2>1. /\ seen[c] = conf /\ ~Inside(d)
        /\ SweepInv(c) /\ HeldInv(c) /\ HeldInv(d) /\ LeftInv(d)
    <3>1. seen[c] = conf /\ busy = {c}
      BY <1>7, RewriteIs, Zenon
    <3>2. ~Inside(d)
      BY <1>1, <3>1, ZenonT(90) DEF ShapeInv
    <3> QED
      BY <1>7, <3>1, <3>2, HereIs, Zenon DEF AloneInv
  <2>2. pc[d] \notin {"check", "write", "sweep"} /\ ~Reaping(d)
    <3>1. pc[d] \in Labels
      BY <1>1, Zenon DEF TypeOK
    <3> QED
      BY <1>1, <2>1, <3>1 DEF Inside, Reaping, ShapeInv, Labels
  <2>3. SweepInv(d)' /\ (pc'[d] \in {"check", "write"} => seen'[d] = conf')
    BY <1>2, <1>3, <2>2, Zenon DEF SweepInv
  <2>4. ASSUME NEW h \in Hosts, conf[h] # d
        PROVE  conf'[h] # d
    <3>1. h # target[c] => conf'[h] = conf[h]
      BY <2>1, ZenonT(90) DEF Rewrites
    <3>2. h = target[c] => conf'[h] \in {"persistent", "absent", c}
      BY DEF Rewrites
    <3> QED
      BY <2>4, <3>1, <3>2, Constants, ZenonT(90)
  <2>5. LeftInv(d)'
    BY <1>2, <2>1, <2>4, Zenon DEF LeftInv
  <2>6. HeldInv(d)'
    <3> SUFFICES ASSUME role[d] = "tunnel", pc[d] = "hold" \/ Leaving(d),
                        \A o \in undone' : host[o] # host[d]
                 PROVE  conf'[host[d]] = d
      <4>1. host' = host
        BY Zenon DEF Rewrites
      <4> QED
        BY <1>2, <1>3, <4>1, Zenon DEF HeldInv
    <3>1. \A o \in undone : host[o] # host[d]
      BY Zenon DEF Rewrites
    <3>2. conf[host[d]] = d
      BY <2>1, <3>1, ZenonT(90) DEF HeldInv
    <3>3. ~Gone(d) /\ host[d] \in Hosts
      BY <1>1 DEF ShapeInv, Gone, Leaving
    <3>4. host[d] # target[c]
      <4> SUFFICES ASSUME host[d] = target[c]
                   PROVE  FALSE
        BY Zenon
      <4>1. op[c] \notin {"Upsert", "Remove"}
        BY <3>2, Zenon DEF Rewrites
      <4>2. op[c] # "UpsertEphemeral"
        BY <1>1, <2>1, <3>2, <3>3, ZenonT(90) DEF FoundInv, Rewrites
      <4>3. op[c] = "RemoveEphemeral"
        BY <4>1, <4>2, Zenon DEF Rewrites
      <4>4. ~Reaping(c)
        BY <2>1, <3>2, <3>3, ZenonT(90) DEF SweepInv
      <4>5. Leaving(c)
        BY <4>3, <4>4, Zenon DEF Reaping, Leaving
      <4>6. role[c] = "tunnel" /\ host[c] = target[c]
        BY <1>1, <4>5, Zenon DEF ShapeInv
      <4>7. conf[host[c]] = c
        BY <2>1, <3>1, <4>5, <4>6, ZenonT(90) DEF HeldInv
      <4> QED
        BY <3>2, <4>6, <4>7, Zenon
    <3> QED
      BY <2>1, <3>2, <3>3, <3>4, ZenonT(90) DEF Rewrites
  <2> QED
    BY <2>3, <2>5, <2>6, Zenon DEF AloneInv
<1>8. raced' = raced
  BY Zenon DEF Rewrites
<1> QED
  BY <1>4, <1>6, <1>7, <1>8, ZenonT(90) DEF CmdInv

(* The command that wrote has its stanza, or has removed the one it was to *)
(* remove.                                                                 *)
LEMMA WriteOwn ==
    ASSUME HostsInv, NEW c \in Cmds, Write(c), Rewrites(c)
    PROVE  CmdInv(c)' /\ StepOf(c) /\ seen'[c] = Empty /\ (op[c] = "UpsertEphemeral" => op'[c] = "none")
<1>1. TypeOK /\ ShapeInv(c) /\ c \in busy /\ raced' = raced
  BY HereIs, RewriteIs, ZenonT(90) DEF Rewrites
<1>2. /\ proxy'[c] = proxy[c] /\ todo'[c] = todo[c] /\ failed'[c] = failed[c] /\ stale'[c] = stale[c]
      /\ recycled' = recycled /\ target[c] \in Hosts /\ host[c] \in Hosts
  BY <1>1 DEF Rewrites, ShapeInv
<1>3. OwnersOf(seen[c])
  BY Zenon DEF HostsInv, FileInv
<1>4. \A h \in Hosts : conf'[h] = c => (h # target[c] /\ Wrote(c) /\ host[c] = h) \/ (h = target[c] /\ op[c] = "UpsertEphemeral")
  <2>1. \A h \in Hosts : h # target[c] /\ conf'[h] = c => Wrote(c) /\ host[c] = h
    BY <1>3, ZenonT(90) DEF Rewrites, OwnersOf
  <2>2. op[c] # "UpsertEphemeral" => conf'[target[c]] \in {"persistent", "absent"}
    BY DEF Rewrites
  <2> QED
    BY <2>1, <2>2, Constants, Zenon
<1>5. CASE op[c] = "UpsertEphemeral" /\ Stepped(c, "hold", "none", NoHost, Empty) /\ busy' = busy \ {c}
  <2>1. ShapeInv(c)' /\ LeftInv(c)'
    BY <1>1, <1>2, <1>5 DEF Stepped, ShapeInv, LeftInv, Reaping, Leaving, Inside
  <2>2. HeldInv(c)'
    <3>1. target[c] = host[c]
      BY <1>1, <1>5, Zenon DEF ShapeInv
    <3>2. conf'[host'[c]] = c
      BY <1>5, <3>1, Zenon DEF Rewrites
    <3> QED
      BY <3>2, Zenon DEF HeldInv
  <2> QED
    BY <1>5, <2>1, <2>2, OutsideKeeps, Zenon DEF Stepped
<1>6. CASE Reaping(c) /\ Stepped(c, "sweep", "Reap", NoHost, Empty) /\ busy' = busy
  <2>1. /\ ShapeInv(c)' /\ ~Reaping(c)' /\ ~Leaving(c)'
        /\ pc'[c] \notin {"check", "write", "hold", "teardown", "exit"} /\ op[c] # "UpsertEphemeral"
    BY <1>1, <1>2, <1>6 DEF Stepped, ShapeInv, Reaping, Leaving, Inside
  <2>2. ~raced => SweepInv(c)'
    <3> SUFFICES ASSUME ~raced
                 PROVE  SweepInv(c)'
      BY Zenon
    <3>1. /\ \A x \in todo[c] : conf[x[1]] = x[2] /\ x[1] # target[c]
          /\ \A h \in Hosts : conf[h] \in stale[c] =>
               /\ Gone(conf[h])
               /\ <<h, conf[h]>> \in todo[c] \/ conf[h] \in recycled \/ failed[c] \/ h = target[c]
      BY <1>6, HereIs, Zenon DEF AloneInv, SweepInv
    <3>2. todo[c] \subseteq Hosts \X Cmds /\ stale[c] \subseteq Cmds
      BY <1>1, Zenon DEF TypeOK
    <3>3. /\ \A h \in Hosts : h # target[c] => conf'[h] = conf[h]
          /\ conf'[target[c]] \notin stale[c]
      <4>1. conf'[target[c]] = "absent" /\ seen[c] = conf
        BY <1>6, RewriteIs, ZenonT(90) DEF Rewrites, Reaping
      <4> QED
        BY <3>2, <4>1, Constants, ZenonT(90) DEF Rewrites
    <3>4. \A x \in todo[c] : x[1] \in Hosts
      BY <3>2
    <3>5. \A k \in Cmds : Gone(k) => pc'[k] \in {"exit", "killed"}
      BY <1>6, Lasting, Zenon DEF Stepped, Gone
    <3>6. \A x \in todo'[c] : conf'[x[1]] = x[2]
      BY <1>2, <3>1, <3>3, <3>4, ZenonT(90)
    <3>7. ASSUME NEW h \in Hosts, conf'[h] \in stale[c]
          PROVE  /\ <<h, conf'[h]>> \in todo[c] \/ conf'[h] \in recycled \/ failed[c]
                 /\ pc'[conf'[h]] \in {"exit", "killed"}
      <4>1. h # target[c] /\ conf'[h] = conf[h]
        BY <3>3, <3>7, Zenon
      <4> QED
        BY <3>1, <3>2, <3>5, <3>7, <4>1, ZenonT(90)
    <3> QED
      BY <1>2, <2>1, <3>6, <3>7, ZenonT(90) DEF SweepInv, Gone
  <2>3. CmdInv(c)'
    BY <1>1, <2>1, <2>2, ZenonT(90) DEF CmdInv, FoundInv, AloneInv, HeldInv, LeftInv
  <2> QED
    BY <1>6, <2>1, <2>3, ZenonT(90) DEF Stepped
<1>7. CASE /\ op[c] # "UpsertEphemeral" /\ proxy[c] = "none" /\ busy' = busy \ {c}
           /\ Stepped(c, "exit", "none", NoHost, Empty)
  <2>1. ShapeInv(c)' /\ pc'[c] # "hold"
    BY <1>2, <1>7 DEF Stepped, ShapeInv, Reaping, Leaving, Inside
  <2>2. LeftInv(c)'
    BY <1>4, <1>7, Zenon DEF LeftInv, Wrote
  <2> QED
    BY <1>7, <2>1, <2>2, OutsideKeeps, ZenonT(90) DEF Stepped
<1>8. CASE Leaving(c) /\ Stepped(c, "teardown", "none", NoHost, Empty) /\ busy' = busy \ {c}
  <2>1. ShapeInv(c)' /\ pc'[c] # "hold" /\ proxy[c] # "none" /\ op[c] # "UpsertEphemeral"
    BY <1>2, <1>8 DEF Stepped, ShapeInv, Reaping, Leaving, Inside
  <2>2. target[c] = host[c]
    BY <1>1, <1>8, Zenon DEF ShapeInv
  <2>3. LeftInv(c)'
    BY <1>4, <2>1, <2>2, Zenon DEF LeftInv
  <2> QED
    BY <1>8, <2>1, <2>3, OutsideKeeps, ZenonT(90) DEF Stepped
<1> QED
  BY <1>5, <1>6, <1>7, <1>8, WriteSteps, ZenonT(90)

(* A write keeps the invariant.                                            *)
LEMMA WriteKeeps ==
    ASSUME HostsInv, NEW c \in Cmds, Write(c)
    PROVE  HostsInv'
<1>1. Rewrites(c)
  BY RewriteIs, Zenon
<1>2. CmdInv(c)' /\ StepOf(c) /\ seen'[c] = Empty /\ (op[c] = "UpsertEphemeral" => op'[c] = "none")
  BY <1>1, WriteOwn, Zenon
<1>3. \A d \in Cmds : CmdInv(d)'
  BY <1>1, <1>2, WriteOthers, Zenon
<1>4. OwnersOf(conf)' /\ (\A d \in Cmds : OwnersOf(seen[d])') /\ \A o \in undone' : pc'[o] # "idle"
  BY <1>1, <1>2, WriteFile, Zenon
<1>5. added' \subseteq Hosts /\ PersistentKept'
  BY <1>1, WritePersistent, Zenon
<1>6. TypeOK'
  BY <1>1, <1>2, <1>5, TypeNext, ZenonT(90) DEF Rewrites
<1> QED
  BY <1>2, <1>3, <1>4, <1>5, <1>6, ZenonT(90) DEF HostsInv, FileInv, StepOf
-----------------------------------------------------------------------------
(* The invariant, and what follows.                                        *)

(* In the beginning the file names no command and no command runs.         *)
LEMMA HostsInit == Init => HostsInv
<1> SUFFICES ASSUME Init
             PROVE  HostsInv
  OBVIOUS
<1>1. TypeOK
  <2>1. "idle" \in Labels /\ "none" \in Roles /\ "none" \in Ops
    BY DEF Labels, Roles, Ops
  <2>2. Empty \in [Hosts -> Stanzas]
    BY Constants, Zenon
  <2>3. conf \in [Hosts -> Stanzas] /\ added \subseteq Hosts
    <3>1. conf \in [Hosts -> {"absent", "persistent"}]
      BY Zenon DEF Init
    <3>2. conf \in [Hosts -> Stanzas]
      BY <3>1 DEF Stanzas
    <3> QED
      BY <3>2, Zenon DEF Init
  <2>4. /\ recycled \subseteq Cmds /\ busy \subseteq Cmds /\ undone \subseteq Cmds /\ raced \in BOOLEAN
        /\ {} \in SUBSET (Hosts \X Cmds) /\ {} \in SUBSET Cmds
    BY Zenon DEF Init
  <2> QED
    BY <2>1, <2>2, <2>3, <2>4, ZenonT(90) DEF Init, TypeOK
<1>2. \A h \in Hosts : conf[h] \notin Cmds
  BY Constants, Zenon DEF Init
<1>3. FileInv
  <2>1. OwnersOf(conf) /\ \A c \in Cmds : OwnersOf(seen[c])
    BY <1>2, Constants, Zenon DEF Init, OwnersOf
  <2> QED
    BY <2>1, Zenon DEF Init, FileInv, PersistentKept
<1>4. ASSUME NEW c \in Cmds
      PROVE  CmdInv(c)
  <2>1. pc[c] = "idle" /\ op[c] = "none" /\ proxy[c] = "none"
    BY ZenonT(90) DEF Init
  <2>2. ShapeInv(c) /\ pc[c] \notin {"check", "write", "sweep", "hold", "teardown", "exit"} /\ ~Reaping(c) /\ ~Leaving(c)
    BY <2>1 DEF ShapeInv, Reaping, Leaving, Inside
  <2> QED
    BY <2>2, Zenon DEF CmdInv, FoundInv, AloneInv, SweepInv, HeldInv, LeftInv
<1> QED
  BY <1>1, <1>3, <1>4, Zenon DEF HostsInv

(* The invariant is about the variables only.                              *)
LEMMA StutterKeeps == HostsInv /\ UNCHANGED vars => HostsInv'
<1> SUFFICES ASSUME HostsInv, UNCHANGED vars
             PROVE  HostsInv'
  OBVIOUS
<1>1. TypeOK'
  BY Zenon DEF vars, HostsInv, TypeOK
<1>2. FileInv'
  BY ZenonT(90) DEF vars, HostsInv, FileInv, PersistentKept, OwnersOf, Wrote
<1>3. ASSUME NEW c \in Cmds
      PROVE  CmdInv(c)'
  <2>1. ShapeInv(c)'
    BY HereIs, Zenon DEF vars, ShapeInv, Reaping, Leaving, Inside
  <2>2. FoundInv(c)'
    BY HereIs, Zenon DEF vars, FoundInv, Gone
  <2>3. ASSUME ~raced'
        PROVE  AloneInv(c)'
    <3>1. AloneInv(c)
      BY <2>3, HereIs, Zenon DEF vars
    <3>2. SweepInv(c)'
      BY <3>1, Zenon DEF vars, AloneInv, SweepInv, Reaping, Gone
    <3>3. HeldInv(c)' /\ LeftInv(c)'
      BY <3>1, Zenon DEF vars, AloneInv, HeldInv, LeftInv, Leaving
    <3> QED
      BY <3>1, <3>2, <3>3, Zenon DEF vars, AloneInv
  <2> QED
    BY <2>1, <2>2, <2>3, Zenon DEF CmdInv
<1> QED
  BY <1>1, <1>2, <1>3, Zenon DEF HostsInv

(* Every step keeps the invariant.                                         *)
LEMMA NextKeeps == HostsInv /\ Next => HostsInv'
<1> SUFFICES ASSUME HostsInv, NEW c \in Cmds,
                    \/ \E r \in Roles \ {"none"}, h \in Hosts : Start(c, r, h)
                    \/ Step(c)
                    \/ Environment(c)
             PROVE  HostsInv'
  BY Zenon DEF Next
<1>1. CASE \E r \in Roles \ {"none"}, h \in Hosts : Start(c, r, h)
  BY <1>1, StartKeeps, Zenon
<1>2. CASE Step(c)
  BY <1>2, DialOkKeeps, DialFailsKeeps, MintKeeps, ReleaseKeeps, TeardownKeeps, ReadKeeps, FailsKeeps,
     CheckKeeps, SweepKeeps, SweepDoneKeeps, WriteKeeps, Zenon DEF Step
<1>3. CASE Environment(c)
  BY <1>3, ProxyEndsKeeps, KillKeeps, RecycleKeeps, Zenon DEF Environment
<1> QED
  BY <1>1, <1>2, <1>3, Zenon

(* In every state the stanzas name commands that wrote them, at most one   *)
(* command is inside a file operation unless two have overlapped, and then *)
(* each command finds in the file what it expects there.                   *)
THEOREM HostsInvariance == Spec => []HostsInv
<1>1. HostsInv /\ [Next]_vars => HostsInv'
  BY NextKeeps, StutterKeeps, Zenon
<1> QED
  BY HostsInit, <1>1, PTL DEF Spec

(* The types: every stanza of the managed ssh.conf is absent, persistent   *)
(* or one command's, and Written puts no other into it.                    *)
THEOREM HostsTypeCorrect == Spec => []TypeOK
<1>1. HostsInv => TypeOK
  BY ZenonT(90) DEF HostsInv
<1> QED
  BY HostsInvariance, <1>1, PTL

(* A `tunnel` command that waits has its stanza in the file, whatever the  *)
(* reapers, other tunnels, kills and recycled pids did, as long as no two  *)
(* file operations overlapped and add-host and remove-host left the stanza *)
(* alone.                                                                  *)
THEOREM HeldStanzaHolds == Spec => []HeldStanza
<1>1. HostsInv => HeldStanza
  BY ZenonT(90) DEF HostsInv, CmdInv, AloneInv, HeldInv, HeldStanza
<1> QED
  BY HostsInvariance, <1>1, PTL

(* Every way out of runTunnelOpen, runTunneledSSH and runTunneledSCP       *)
(* releases the proxy, and leaves no stanza behind unless a file operation *)
(* failed or two overlapped.                                               *)
THEOREM CleanExitHolds == Spec => []CleanExit
<1>1. HostsInv => CleanExit
  BY ZenonT(90) DEF HostsInv, CmdInv, ShapeInv, AloneInv, LeftInv, CleanExit
<1> QED
  BY HostsInvariance, <1>1, PTL

(* The persistent stanzas are those of add-host: RemoveEphemeral and       *)
(* UpsertEphemeral leave them alone.                                       *)
THEOREM PersistentKeptHolds == Spec => []PersistentKept
<1>1. HostsInv => PersistentKept
  BY Zenon DEF HostsInv, FileInv
<1> QED
  BY HostsInvariance, <1>1, PTL

(* A step of one command leaves the others where they are.                 *)
LEMMA OnlyOwn ==
    ASSUME TypeOK, NEW c \in Cmds, NEW d \in Cmds \ {c}, Step(d) \/ Environment(d)
    PROVE  pc'[c] = pc[c]
<1>1. ASSUME NEW l, Goto(d, l)
      PROVE  pc'[c] = pc[c]
  BY <1>1, Zenon DEF Goto, TypeOK
<1>2. ASSUME Abandon(d)
      PROVE  pc'[c] = pc[c]
  BY <1>1, <1>2, Zenon DEF Abandon, BackToSweep, End
<1>3. CASE DialOk(d) \/ DialFails(d) \/ Mint(d) \/ Release(d) \/ Teardown(d)
  BY <1>1, <1>3, Zenon DEF DialOk, DialFails, Mint, Release, Teardown, Begin
<1>4. CASE Read(d)
  BY <1>1, <1>2, <1>4, Zenon DEF Read, ReapRead, EditRead
<1>5. CASE ReadFails(d) \/ Check(d) \/ WriteFails(d)
  BY <1>1, <1>2, <1>5, Zenon DEF ReadFails, Check, WriteFails
<1>6. CASE Write(d)
  BY <1>1, <1>2, <1>6, ZenonT(90) DEF Write, End
<1>7. CASE Sweep(d) \/ SweepDone(d)
  BY <1>1, <1>7, ZenonT(90) DEF Sweep, SweepDone, End, Begin
<1>8. CASE Environment(d)
  BY <1>8, ZenonT(90) DEF Environment, ProxyEnds, Kill, Recycle, TypeOK
<1> QED
  BY <1>3, <1>4, <1>5, <1>6, <1>7, <1>8, ZenonT(90) DEF Step

(* A reaper leaves its loop by SweepDone only.                             *)
LEMMA SweepEnds ==
    ASSUME TypeOK, NEW c \in Cmds, pc[c] = "sweep", pc'[c] \in {"dial", "exit"}, Next
    PROVE  SweepDone(c)
<1>1. PICK d \in Cmds : \/ \E r \in Roles \ {"none"}, h \in Hosts : Start(d, r, h)
                        \/ Step(d)
                        \/ Environment(d)
  BY Zenon DEF Next
<1>2. pc'[c] # pc[c] /\ pc[c] \notin {"idle", "dial", "mint", "hold", "teardown", "read", "check", "write"}
  OBVIOUS
<1>3. CASE \E r \in Roles \ {"none"}, h \in Hosts : Start(d, r, h)
  <2>1. PICK r \in Roles \ {"none"}, h \in Hosts : Start(d, r, h)
    BY <1>3, Zenon
  <2>2. pc[d] = "idle" /\ d # c
    BY <1>2, <2>1, ZenonT(90) DEF Start
  <2>3. r \in {"tunnel", "portonly", "reap", "ssh", "addhost", "removehost"}
    BY DEF Roles
  <2>4. \E l : Goto(d, l)
    <3>1. CASE r = "ssh"
      BY <2>1, <3>1, SMT DEF Start
    <3>2. CASE r = "addhost"
      BY <2>1, <3>2, SMT DEF Start
    <3>3. CASE r = "removehost"
      BY <2>1, <3>3, SMT DEF Start, Begin
    <3>4. CASE r = "tunnel"
      BY <2>1, <3>4, SMT DEF Start, Begin
    <3>5. CASE r = "portonly"
      BY <2>1, <3>5, SMT DEF Start, Begin
    <3>6. CASE r = "reap"
      BY <2>1, <3>6, SMT DEF Start, Begin
    <3> QED
      BY <2>3, <3>1, <3>2, <3>3, <3>4, <3>5, <3>6
  <2> QED
    BY <1>2, <2>2, <2>4, ZenonT(90) DEF Goto, TypeOK
<1>4. CASE Step(d) \/ Environment(d)
  <2>1. d = c
    BY <1>2, <1>4, OnlyOwn, Zenon
  <2>2. ~(DialOk(c) \/ DialFails(c) \/ Mint(c) \/ Release(c) \/ Teardown(c) \/ Read(c) \/ ReadFails(c) \/ Check(c))
    BY <1>2, Zenon DEF DialOk, DialFails, Mint, Release, Teardown, Read, ReadFails, Check
  <2>3. ~(Write(c) \/ WriteFails(c))
    BY <1>2, Zenon DEF Write, WriteFails
  <2>4. ~Sweep(c)
    <3>1. Sweep(c) => pc' = pc \/ pc' = [pc EXCEPT ![c] = "read"]
      BY Zenon DEF Sweep, Begin, Goto
    <3> QED
      BY <1>2, <3>1 DEF TypeOK
  <2>5. ~Environment(c)
    <3>1. Environment(c) => pc' = pc \/ pc' = [pc EXCEPT ![c] = "killed"]
      BY Zenon DEF Environment, ProxyEnds, Kill, Recycle
    <3> QED
      BY <1>2, <3>1 DEF TypeOK
  <2> QED
    BY <1>4, <2>1, <2>2, <2>3, <2>4, <2>5, ZenonT(90) DEF Step
<1> QED
  BY <1>1, <1>3, <1>4, Zenon

(* ReapStaleEphemeral: a reap none of whose removals failed, and that      *)
(* overlapped nothing, ends with no stanza of a pid that was dead when it  *)
(* read the file.                                                          *)
THEOREM ReapClearsHolds == Spec => ReapClears
<1>1. HostsInv /\ [Next]_vars =>
        [\A c \in Cmds :
           /\ pc[c] = "sweep"
           /\ pc'[c] \in {"dial", "exit"}
           /\ ~raced
           /\ ~failed[c]
           => \A h \in Hosts : conf'[h] \notin stale[c] \ recycled]_vars
  <2> SUFFICES ASSUME HostsInv, Next, NEW c \in Cmds, pc[c] = "sweep", pc'[c] \in {"dial", "exit"},
                      ~raced, ~failed[c], NEW h \in Hosts, conf'[h] \in stale[c] \ recycled
               PROVE  FALSE
    BY Zenon
  <2>1. TypeOK /\ SweepInv(c) /\ ShapeInv(c)
    BY HereIs, Zenon DEF AloneInv
  <2>2. SweepDone(c)
    BY <2>1, SweepEnds, Zenon
  <2>3. conf' = conf /\ todo[c] = {}
    BY <2>2, ZenonT(90) DEF SweepDone
  <2>4. ~Reaping(c)
    BY <2>1 DEF ShapeInv, Reaping
  <2> QED
    BY <2>1, <2>3, <2>4, Zenon DEF SweepInv
<1> QED
  BY HostsInvariance, <1>1, PTL DEF ReapClears, Spec
=============================================================================
