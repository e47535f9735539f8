-------------------------- MODULE SourceProxyProofs -------------------------
(***************************************************************************)
(* Every step of SourceProxy keeps the invariant of SourceProxyInvariant,  *)
(* one lemma for each action, and the safety properties of SourceProxy     *)
(* that follow, for any number of connections.                             *)
(***************************************************************************)
EXTENDS SourceProxyInvariant, TLAPS

\* How long a solver may take on one step.
USE SMTT(60)
-----------------------------------------------------------------------------
(* The constants, the operators and what CloseAll and Goto do.              *)

\* The goroutines are the two loops, the caller and the pumps.
LEMMA ProcsAre ==
    /\ Procs = Conns \cup {ReadLoop, AcceptLoop, Caller}
    /\ ReadLoop \notin Conns /\ AcceptLoop \notin Conns /\ Caller \notin Conns
    /\ ReadLoop # AcceptLoop /\ ReadLoop # Caller /\ AcceptLoop # Caller
    /\ NoConn \notin Conns
    /\ ReadLoop \in Procs /\ AcceptLoop \in Procs /\ Caller \in Procs
BY SourceProxyAssumption, SMTT(60) DEF Procs, Conns, ReadLoop, AcceptLoop, Caller, NoConn

\* The ids handed out are ids of connections: the bound on accepts bounds them.
LEMMA AllocatedAre ==
    ASSUME TypeOK
    PROVE  /\ Allocated \subseteq Conns
           /\ \A c \in Conns : c \in Allocated <=> c < nextStreamID
BY SourceProxyAssumption, SMTT(60) DEF Allocated, TypeOK, Conns

USE SourceProxyAssumption, ProcsAre DEF Terminators, Labels, Jobs, Causes, FrameTypes

\* Where closeStream returns to, for each of its callers.
LEMMA Continuations ==
    /\ Continuation("evict") = "insert"
    /\ Continuation("startFailed") = "accept"
    /\ Continuation("pumpEnd") = "done"
    /\ Continuation("deliverFailed") = "next"
    /\ Continuation("peerReset") = "next"
    /\ Continuation("Close") = "terminate"
    /\ Continuation("terminate") = "wsclose"
BY Zenon DEF Continuation

\* A snapshot of the map is the set of streams nobody has begun to close.
LEMMA OpenStreamsAre ==
    ASSUME TypeOK, MapInv
    PROVE  /\ OpenStreams = {c \in Allocated : once[c] = "new"}
           /\ OpenStreams \subseteq Conns
BY AllocatedAre, SMTT(60) DEF OpenStreams, TypeOK, MapInv

\* A frame for a started stream that is still in the map finds its own stream.
LEMMA StartedAre ==
    ASSUME TypeOK, IdsInv, MapInv, WireInv, NEW c \in Started, streams[id[c]] # NoConn
    PROVE  c \in Allocated /\ c \in Conns /\ streams[id[c]] = c
<1>1. c \in Allocated /\ c \in Conns
  BY AllocatedAre, Zenon DEF Started, WireInv
<1> QED
  BY <1>1, Zenon DEF IdsInv, MapInv

\* Goto moves one goroutine.
LEMMA GotoMoves ==
    ASSUME TypeOK, NEW p \in Procs, NEW l \in Labels, Goto(p, l)
    PROVE  /\ pc' \in [Procs -> Labels]
           /\ pc'[p] = l
           /\ \A q \in Procs \ {p} : pc'[q] = pc[q]
BY Zenon DEF TypeOK, Goto

\* CloseAll gives one goroutine the streams it is to close.
LEMMA CloseAllMoves ==
    ASSUME TypeOK, NEW p \in Procs, NEW cs \in SUBSET Conns, NEW j \in Jobs, CloseAll(p, cs, j)
    PROVE  /\ pc' \in [Procs -> Labels]
           /\ todo' \in [Procs -> SUBSET Conns]
           /\ job' \in [Procs -> Jobs \cup {"none"}]
           /\ todo'[p] = cs
           /\ job'[p] = IF cs = {} THEN "none" ELSE j
           /\ pc'[p] = IF cs = {} THEN Continuation(j) ELSE "close"
           /\ \A q \in Procs \ {p} : pc'[q] = pc[q] /\ todo'[q] = todo[q] /\ job'[q] = job[q]
<1>1. (IF cs = {} THEN Continuation(j) ELSE "close") \in Labels
  BY Continuations, Zenon
<1>2. (IF cs = {} THEN "none" ELSE j) \in Jobs \cup {"none"}
  BY Zenon
<1> QED
  BY <1>1, <1>2, Zenon DEF TypeOK, CloseAll, Goto

\* The same for one stream.
LEMMA CloseOneMoves ==
    ASSUME TypeOK, NEW p \in Procs, NEW c \in Conns, NEW j \in Jobs, CloseAll(p, {c}, j)
    PROVE  /\ pc' \in [Procs -> Labels]
           /\ todo' \in [Procs -> SUBSET Conns]
           /\ job' \in [Procs -> Jobs \cup {"none"}]
           /\ todo'[p] = {c} /\ job'[p] = j /\ pc'[p] = "close"
           /\ \A q \in Procs \ {p} : pc'[q] = pc[q] /\ todo'[q] = todo[q] /\ job'[q] = job[q]
<1>1. {c} # {}
  BY Zenon
<1>2. /\ todo' = [todo EXCEPT ![p] = {c}]
      /\ job' = [job EXCEPT ![p] = j]
      /\ pc' = [pc EXCEPT ![p] = "close"]
  BY <1>1, Zenon DEF CloseAll, Goto
<1> QED
  BY <1>2, ZenonT(90) DEF TypeOK

-----------------------------------------------------------------------------
(* Steps of one goroutine that leave the stream table and the wire alone:   *)
(* what is to be shown about the goroutine itself, and no more.             *)

OthersStay(p) ==
    \A q \in Procs \ {p} :
        pc'[q] = pc[q] /\ cur'[q] = cur[q] /\ todo'[q] = todo[q] /\ job'[q] = job[q] /\ frame'[q] = frame[q]

\* p stays on its side of closeOnce, with the same stream.
OnceStays(p) ==
    /\ InOnce(p)' <=> InOnce(p)
    /\ InOnce(p) => cur'[p] = cur[p]
    /\ Resetting(p)' => Resetting(p)

\* What only a pump, and only the accept loop, can disturb.
PumpStays(p) ==
    p \in Conns => /\ PumpOf(p)'
                   /\ pc[p] # "idle" /\ pc'[p] # "idle"
                   /\ pc'[p] = "done" => once[p] = "done"

AcceptStays(p) ==
    p = AcceptLoop => /\ BeforeInsert' <=> BeforeInsert
                      /\ Starting' => Starting /\ cur'[p] = cur[p]
                      /\ EvictInv'
                      /\ OwnedInv'

ReadStays(p) == IF p = ReadLoop THEN DeliverInv' ELSE owner' = owner

\* A step of p outside terminate keeps TerminateInv.
LEMMA TerminateKept ==
    ASSUME TypeOK, TerminateInv, NEW p \in Procs, OthersStay(p), UNCHANGED <<term, listener, ws>>,
           p # Caller => pc[p] \notin {"idle", "done"},
           InTerminate(p)' => InTerminate(p),
           p = Caller => pc'[p] \notin {"wait", "done"}
    PROVE  TerminateInv'
<1>1. \A q \in Procs : InTerminate(q)' => InTerminate(q)
  BY Zenon DEF OthersStay, InTerminate
<1>2. pc'[Caller] = "done" => Running' = {}
  BY Zenon DEF OthersStay, TerminateInv, Running
<1>3. pc'[Caller] \in {"wait", "done"} => term' = "done"
  BY Zenon DEF OthersStay, TerminateInv
<1> QED
  BY <1>1, <1>2, <1>3, Zenon DEF TerminateInv

\* A step of p that leaves the table and the wire alone keeps the invariant.
LEMMA LocalStep ==
    ASSUME IInv, TypeOK', TerminateInv', NEW p \in Procs, OthersStay(p), UNCHANGED <<table, wire>>,
           LabelOf(p)', JobOf(p)', FrameOf(p)',
           OnceStays(p), PumpStays(p), AcceptStays(p), ReadStays(p)
    PROVE  IInv'
<1> USE DEF IInv
<1>1. Allocated' = Allocated
  BY Zenon DEF Allocated, table
<1>2. /\ BeforeInsert' <=> BeforeInsert
      /\ Starting' => Starting /\ cur'[AcceptLoop] = cur[AcceptLoop]
  BY Zenon DEF OthersStay, AcceptStays, BeforeInsert, Starting
<1>3. \A q \in Procs : OnceStays(q)
  BY ZenonT(90) DEF OthersStay, OnceStays, InOnce, Resetting
<1>4. LabelsInv'
  BY SMTT(60) DEF LabelsInv, LabelOf, OthersStay
<1>5. IdsInv'
  BY <1>1, <1>2, Zenon DEF IdsInv, table
<1>6. MapInv'
  BY <1>1, ZenonT(90) DEF MapInv, PumpStays, OthersStay, table
<1>7. JobInv'
  <2> SUFFICES ASSUME NEW q \in Procs, q # p PROVE JobOf(q)'
    BY Zenon DEF JobInv
  <2> QED
    BY <1>1, <1>3, ZenonT(90) DEF JobInv, JobOf, OthersStay, OnceStays
<1>8. FrameInv'
  <2>1. \A q \in Procs : FrameOf(q)'
    <3> SUFFICES ASSUME NEW q \in Procs, q # p PROVE FrameOf(q)'
      BY Zenon
    <3> QED
      BY <1>1, <1>3, ZenonT(90) DEF FrameInv, FrameOf, OthersStay, OnceStays
  <2>2. \A c \in Conns : PumpOf(c)'
    BY ZenonT(90) DEF FrameInv, PumpOf, PumpStays, OthersStay
  <2>3. StartInv'
    BY <1>2, Zenon DEF FrameInv, StartInv, PumpStays, OthersStay, table
  <2>4. DeliverInv'
    BY <1>1, Zenon DEF FrameInv, DeliverInv, ReadStays, OthersStay
  <2> QED
    BY <2>1, <2>2, <2>3, <2>4, Zenon DEF FrameInv
<1>9. OnceInv'
  <2>1. \A q \in Procs : (InOnce(q)' <=> InOnce(q)) /\ (InOnce(q) => cur'[q] = cur[q])
    BY <1>3, Zenon DEF OnceStays
  <2>2. once' = once
    BY Zenon DEF table
  <2> QED
    BY <2>1, <2>2, ZenonT(90) DEF OnceInv
<1>10. EvictInv'
  BY <1>1, Zenon DEF EvictInv, AcceptStays, OthersStay, table
<1>11. WireInv'
  <2>1. \A q \in Procs : Resetting(q)' => Resetting(q) /\ cur'[q] = cur[q]
    BY <1>3, Zenon DEF OnceStays, InOnce
  <2>2. once' = once /\ wire' = wire
    BY Zenon DEF table
  <2> QED
    BY <1>1, <1>2, <2>1, <2>2 DEF WireInv
<1>13. ControlFramesOnce'
  BY ZenonT(90) DEF ControlFramesOnce
<1>12. OwnedInv'
  BY <1>1, <1>2, AllocatedAre, SMTT(60) DEF OwnedInv, AcceptStays, PumpStays, OthersStay, Starting, table
<1> QED
  BY <1>4, <1>5, <1>6, <1>7, <1>8, <1>9, <1>10, <1>11, <1>12, <1>13, ZenonT(90)
-----------------------------------------------------------------------------
(* The steps of closeStream and emitFrame that change neither the table nor *)
(* the wire.                                                                *)

\* A goroutine that takes writeMu keeps the invariant.
LEMMA LockKeeps ==
    ASSUME IInv, NEW p \in Procs, Lock(p)
    PROVE  IInv'
<1> USE DEF IInv
<1>1. /\ pc[p] = "lock" /\ pc'[p] = "send" /\ OthersStay(p)
      /\ UNCHANGED <<term, listener, ws, table, history, cur, todo, job, frame>>
  BY GotoMoves, ZenonT(90) DEF Lock, OthersStay
<1>2. TypeOK'
  <2>1. pc' \in [Procs -> Labels] /\ TypeOK
    BY GotoMoves, Zenon DEF Lock
  <2> HIDE ProcsAre DEF IInv, Terminators, Labels, Jobs, Causes, FrameTypes
  <2> QED
    BY <2>1 DEF Lock, TypeOK, table, history
<1>3. LabelOf(p)' /\ JobOf(p)' /\ FrameOf(p)' /\ OnceStays(p) /\ PumpStays(p)
  BY <1>1, ZenonT(90) DEF LabelsInv, LabelOf, JobInv, JobOf, FrameInv, FrameOf, PumpOf, PumpStays,
              OnceStays, InOnce, Resetting, Allocated, table
<1>4. AcceptStays(p)
  <2>1. p = AcceptLoop => (BeforeInsert' <=> BeforeInsert) /\ (Starting' <=> Starting)
    BY <1>1, Zenon DEF BeforeInsert, Starting
  <2>2. p = AcceptLoop => EvictInv'
    BY <1>1, Zenon DEF EvictInv, Allocated, table
  <2>3. ASSUME p = AcceptLoop PROVE OwnedInv'
    <3>1. Allocated' = Allocated /\ \A c \in Allocated : pc'[c] = pc[c] /\ once'[c] = once[c]
      BY <1>1, <2>3, AllocatedAre, Zenon DEF Allocated, table, OthersStay
    <3> QED
      BY <1>1, <2>1, <2>3, <3>1, ZenonT(90) DEF OwnedInv, table
  <2> QED
    BY <1>1, <2>1, <2>2, <2>3, Zenon DEF AcceptStays
<1>5. TerminateInv'
  BY <1>1, TerminateKept, Zenon DEF InTerminate
<1> QED
  BY <1>1, <1>2, <1>3, <1>4, <1>5, LocalStep, Zenon DEF ReadStays, DeliverInv, FrameInv, Allocated, table, history

\* A failed STREAM_RESET is ignored.
LEMMA ResetFailedKeeps ==
    ASSUME IInv, NEW p \in Procs, ResetFailed(p)
    PROVE  IInv'
<1> USE DEF IInv
<1>1. /\ pc[p] = "send" /\ frame[p] = "STREAM_RESET" /\ pc'[p] = "hangup" /\ OthersStay(p)
      /\ UNCHANGED <<term, listener, ws, table, history, cur, todo, job, frame>>
  BY GotoMoves, Zenon DEF ResetFailed, WriteFail, OthersStay
<1>2. TypeOK'
  <2>1. pc' \in [Procs -> Labels] /\ TypeOK
    BY GotoMoves, Zenon DEF ResetFailed
  <2> HIDE ProcsAre DEF IInv, Terminators, Labels, Jobs, Causes, FrameTypes
  <2> QED
    BY <2>1 DEF ResetFailed, WriteFail, TypeOK, table, history
<1>3. LabelOf(p)' /\ JobOf(p)' /\ FrameOf(p)' /\ OnceStays(p) /\ PumpStays(p)
  BY <1>1, ZenonT(90) DEF LabelsInv, LabelOf, JobInv, JobOf, FrameInv, FrameOf, PumpOf, PumpStays,
              OnceStays, InOnce, Resetting, Allocated, table
<1>4. AcceptStays(p)
  <2>1. p = AcceptLoop => (BeforeInsert' <=> BeforeInsert) /\ (Starting' <=> Starting)
    BY <1>1, Zenon DEF BeforeInsert, Starting
  <2>2. p = AcceptLoop => EvictInv'
    BY <1>1, Zenon DEF EvictInv, Allocated, table
  <2>3. ASSUME p = AcceptLoop PROVE OwnedInv'
    <3>1. Allocated' = Allocated /\ \A c \in Allocated : pc'[c] = pc[c] /\ once'[c] = once[c]
      BY <1>1, <2>3, AllocatedAre, Zenon DEF Allocated, table, OthersStay
    <3> QED
      BY <1>1, <2>1, <2>3, <3>1, ZenonT(90) DEF OwnedInv, table
  <2> QED
    BY <1>1, <2>1, <2>2, <2>3, Zenon DEF AcceptStays
<1>5. TerminateInv'
  BY <1>1, TerminateKept, Zenon DEF InTerminate
<1> QED
  BY <1>1, <1>2, <1>3, <1>4, <1>5, LocalStep, Zenon DEF ReadStays, DeliverInv, FrameInv, Allocated, table, history

\* Skipping a stream whose Once is done keeps the invariant: what remains to be
\* closed is still all that eviction and the failed start have to close.
LEMMA CloseSkipKeeps ==
    ASSUME IInv, NEW p \in Procs, CloseSkip(p)
    PROVE  IInv'
<1> USE DEF IInv
<1>1. job[p] \in Jobs /\ pc[p] = "close" /\ todo[p] \subseteq Allocated /\ (p \in Conns => todo[p] \subseteq {p})
  BY ZenonT(90) DEF CloseSkip, JobInv, JobOf, TypeOK
<1>2. PICK c \in todo[p] : once[c] = "done" /\ CloseAll(p, todo[p] \ {c}, job[p])
  BY Zenon DEF CloseSkip
<1> DEFINE left == todo[p] \ {c}
<1>3. left \in SUBSET Conns
  BY <1>1, AllocatedAre, Zenon
<1>4. /\ todo'[p] = left
      /\ job'[p] = IF left = {} THEN "none" ELSE job[p]
      /\ pc'[p] = IF left = {} THEN Continuation(job[p]) ELSE "close"
      /\ OthersStay(p)
      /\ UNCHANGED <<term, listener, ws, table, history, cur, frame>>
      /\ pc' \in [Procs -> Labels] /\ todo' \in [Procs -> SUBSET Conns] /\ job' \in [Procs -> Jobs \cup {"none"}]
  <2>1. CloseAll(p, left, job[p]) /\ UNCHANGED <<shared, table, history, cur, frame, cause>>
    BY <1>2, Zenon DEF CloseSkip
  <2>2. job[p] \in Jobs /\ left \in SUBSET Conns /\ TypeOK
    BY <1>1, <1>3, Zenon
  <2> HIDE ProcsAre DEF IInv, Terminators, Labels, Jobs, Causes, FrameTypes, left
  <2>3. /\ pc' \in [Procs -> Labels]
        /\ todo' \in [Procs -> SUBSET Conns]
        /\ job' \in [Procs -> Jobs \cup {"none"}]
        /\ todo'[p] = left
        /\ job'[p] = IF left = {} THEN "none" ELSE job[p]
        /\ pc'[p] = IF left = {} THEN Continuation(job[p]) ELSE "close"
        /\ \A q \in Procs \ {p} : pc'[q] = pc[q] /\ todo'[q] = todo[q] /\ job'[q] = job[q]
    BY <2>1, <2>2, CloseAllMoves, ZenonT(90)
  <2> QED
    BY <2>1, <2>3, Zenon DEF OthersStay, shared
<1>5. TypeOK'
  <2>1. TypeOK
    BY ZenonT(90)
  <2> HIDE ProcsAre DEF IInv, Terminators, Labels, Jobs, Causes, FrameTypes, left
  <2> QED
    BY <1>4, <2>1 DEF CloseSkip, TypeOK, shared, table, history
<1> HIDE DEF left
<1>6. LabelOf(p)' /\ JobOf(p)'
  BY <1>1, <1>4, Continuations, SMTT(60) DEF left, LabelsInv, LabelOf, JobInv, JobOf, InOnce, Resetting, Allocated, table
<1>7. FrameOf(p)' /\ OnceStays(p)
  BY <1>1, <1>4, Continuations, ZenonT(90) DEF FrameInv, FrameOf, OnceStays, InOnce, Resetting, Allocated, table
<1>8. PumpStays(p)
  BY <1>1, <1>2, <1>4, Continuations, ZenonT(90) DEF PumpOf, PumpStays, LabelsInv, LabelOf, left
<1>9. AcceptStays(p)
  <2> SUFFICES ASSUME p = AcceptLoop PROVE AcceptStays(AcceptLoop)
    BY Zenon DEF AcceptStays
  <2>1. job[p] \in {"evict", "startFailed"}
    BY <1>1, Zenon DEF LabelsInv, LabelOf
  <2>2. (BeforeInsert' <=> BeforeInsert) /\ ~Starting' /\ ~Starting
    BY <1>1, <1>4, <2>1, Continuations, ZenonT(90) DEF BeforeInsert, Starting
  <2>3. EvictInv'
    BY <1>1, <1>2, <1>4, <2>1, Continuations, ZenonT(90) DEF EvictInv, Allocated, table, left
  <2>4. OwnedInv'
    BY <1>1, <1>2, <1>4, <2>1, <2>2, AllocatedAre, SMTT(60) DEF OwnedInv, Allocated, table, left, OthersStay
  <2> QED
    BY <2>2, <2>3, <2>4, Zenon DEF AcceptStays
<1>10. TerminateInv'
  <2>1. p = Caller => job[p] \in {"Close", "terminate"}
    BY <1>1, Zenon DEF LabelsInv, LabelOf
  <2>2. InTerminate(p)' => InTerminate(p)
    BY <1>1, <1>4, Continuations, ZenonT(90) DEF InTerminate
  <2>3. p = Caller => pc'[p] \notin {"wait", "done"}
    BY <1>4, <2>1, Continuations, Zenon
  <2> QED
    BY <1>1, <1>4, <2>2, <2>3, TerminateKept, Zenon
<1> QED
  BY <1>1, <1>4, <1>5, <1>6, <1>7, <1>8, <1>9, <1>10, LocalStep, Continuations, ZenonT(90)
     DEF ReadStays, DeliverInv, history
-----------------------------------------------------------------------------
(* The pump.                                                                *)

\* A pump that has read bytes keeps the invariant.
LEMMA RecvDataKeeps ==
    ASSUME IInv, NEW c \in Conns, RecvData(c)
    PROVE  IInv'
<1> USE DEF IInv
<1>1. /\ pc[c] = "recv" /\ pc'[c] = "lock" /\ OthersStay(c)
      /\ UNCHANGED <<term, listener, ws, table, history, cur, todo, job, frame>>
  BY GotoMoves, Zenon DEF RecvData, OthersStay, shared
<1>2. TypeOK'
  <2>1. pc' \in [Procs -> Labels] /\ TypeOK
    BY GotoMoves, Zenon DEF RecvData
  <2> HIDE ProcsAre DEF IInv, Terminators, Labels, Jobs, Causes, FrameTypes
  <2> QED
    BY <2>1 DEF RecvData, TypeOK, shared, table, history
<1>3. LabelOf(c)' /\ JobOf(c)' /\ FrameOf(c)' /\ OnceStays(c) /\ PumpStays(c)
  BY <1>1, ZenonT(90) DEF LabelsInv, LabelOf, JobInv, JobOf, FrameInv, FrameOf, PumpOf, PumpStays,
              OnceStays, InOnce, Resetting, Allocated, table
<1>4. TerminateInv'
  BY <1>1, TerminateKept, Zenon DEF InTerminate
<1> QED
  BY <1>1, <1>2, <1>3, <1>4, LocalStep, Zenon DEF AcceptStays, ReadStays, history

\* A pump whose DATA frame is out keeps the invariant.
LEMMA DataSentKeeps ==
    ASSUME IInv, NEW p \in Procs, DataSent(p)
    PROVE  IInv'
<1> USE DEF IInv
<1>1. p \in Conns
  BY Zenon DEF DataSent, Write, FrameInv, FrameOf
<1>2. /\ pc[p] = "send" /\ frame[p] = "DATA" /\ pc'[p] = "recv" /\ OthersStay(p)
      /\ UNCHANGED <<term, listener, ws, table, history, cur, todo, job, frame>>
  BY GotoMoves, ZenonT(90) DEF DataSent, Write, OthersStay, history
<1>3. TypeOK'
  <2>1. pc' \in [Procs -> Labels] /\ TypeOK
    BY GotoMoves, Zenon DEF DataSent
  <2> HIDE ProcsAre DEF IInv, Terminators, Labels, Jobs, Causes, FrameTypes
  <2> QED
    BY <2>1 DEF DataSent, Write, TypeOK, table
<1>4. LabelOf(p)' /\ JobOf(p)' /\ FrameOf(p)' /\ OnceStays(p) /\ PumpStays(p)
  BY <1>1, <1>2, ZenonT(150) DEF LabelsInv, LabelOf, JobInv, JobOf, FrameInv, FrameOf, PumpOf, PumpStays,
                    OnceStays, InOnce, Resetting, Allocated, table
<1>5. TerminateInv'
  BY <1>2, TerminateKept, Zenon DEF InTerminate
<1> QED
  BY <1>1, <1>2, <1>3, <1>4, <1>5, LocalStep, Zenon DEF AcceptStays, ReadStays, history

\* A pump that has to stop starts to close its own stream.
LEMMA PumpEnds ==
    ASSUME IInv, NEW c \in Conns, pc[c] \in {"recv", "send"}, frame[c] = "DATA",
           CloseAll(c, {c}, "pumpEnd"),
           writeMu' \in {writeMu, NoProc},
           UNCHANGED <<ctxDone, listener, ws, term, terminateErr, table, cur, frame, cause, history>>
    PROVE  IInv'
<1> USE DEF IInv
<1>1. /\ pc'[c] = "close" /\ todo'[c] = {c} /\ job'[c] = "pumpEnd" /\ OthersStay(c)
      /\ pc' \in [Procs -> Labels] /\ todo' \in [Procs -> SUBSET Conns] /\ job' \in [Procs -> Jobs \cup {"none"}]
  BY CloseOneMoves, ZenonT(90) DEF OthersStay
<1>2. TypeOK'
  BY <1>1, SMTT(60) DEF TypeOK, table, history
<1>3. c \in Allocated /\ cur[c] = c
  BY Zenon DEF MapInv, FrameInv, PumpOf
<1>4. LabelOf(c)' /\ JobOf(c)' /\ FrameOf(c)' /\ OnceStays(c) /\ PumpStays(c)
  BY <1>1, <1>3, ZenonT(90) DEF LabelsInv, LabelOf, JobOf, FrameOf, PumpOf, PumpStays,
                    OnceStays, InOnce, Resetting, Allocated, table
<1>5. TerminateInv'
  BY <1>1, TerminateKept, Zenon DEF InTerminate
<1> QED
  BY <1>1, <1>2, <1>4, <1>5, LocalStep, Zenon DEF AcceptStays, ReadStays, history

\* A pump whose Read or Write failed keeps the invariant.
LEMMA PumpEndKeeps ==
    ASSUME IInv, NEW p \in Procs, DataFailed(p) \/ (p \in Conns /\ RecvEnd(p))
    PROVE  IInv'
<1>1. CASE DataFailed(p)
  <2>1. p \in Conns /\ cur[p] = p
    BY <1>1, Zenon DEF IInv, DataFailed, WriteFail, FrameInv, FrameOf, PumpOf
  <2> QED
    BY <1>1, <2>1, PumpEnds, Zenon DEF DataFailed, WriteFail
<1>2. CASE p \in Conns /\ RecvEnd(p)
  BY <1>2, PumpEnds, Zenon DEF RecvEnd, IInv, FrameInv, PumpOf, shared
<1> QED
  BY <1>1, <1>2, Zenon

-----------------------------------------------------------------------------
(* The accept loop, but for Accept, Insert and the sent STREAM_START.       *)

\* The accept loop stops on an error of Accept.
LEMMA AcceptFailKeeps ==
    ASSUME IInv, AcceptFail
    PROVE  IInv'
<1> USE DEF IInv
<1>1. /\ pc[AcceptLoop] = "accept" /\ pc'[AcceptLoop] = "done" /\ OthersStay(AcceptLoop)
      /\ UNCHANGED <<term, listener, ws, table, history, cur, todo, job, frame>>
  BY GotoMoves, ZenonT(90) DEF AcceptFail, OthersStay, shared
<1>2. TypeOK'
  <2>1. pc' \in [Procs -> Labels] /\ TypeOK
    BY GotoMoves, Zenon DEF AcceptFail
  <2> HIDE ProcsAre DEF IInv, Terminators, Labels, Jobs, Causes, FrameTypes
  <2> QED
    BY <2>1 DEF AcceptFail, TypeOK, shared, table, history
<1>3. LabelOf(AcceptLoop)' /\ JobOf(AcceptLoop)' /\ FrameOf(AcceptLoop)' /\ OnceStays(AcceptLoop)
  BY <1>1, Zenon DEF LabelsInv, LabelOf, JobInv, JobOf, FrameOf, OnceStays, InOnce, Resetting, Allocated, table
<1>4. AcceptStays(AcceptLoop)
  BY <1>1, AllocatedAre, ZenonT(150) DEF AcceptStays, BeforeInsert, Starting, EvictInv, OwnedInv, Allocated, table, OthersStay
<1>5. TerminateInv'
  BY <1>1, TerminateKept, Zenon DEF InTerminate
<1> QED
  BY <1>1, <1>2, <1>3, <1>4, <1>5, LocalStep, ZenonT(90) DEF PumpStays, ReadStays, history
-----------------------------------------------------------------------------
(* Eviction, the read loop and terminate.                                   *)

\* The eviction set is every stream that is not being closed already.
LEMMA EvictKeeps ==
    ASSUME IInv, Evict
    PROVE  IInv'
<1> USE DEF IInv
<1>1. OpenStreams = {c \in Allocated : once[c] = "new"} /\ OpenStreams \in SUBSET Conns
  BY OpenStreamsAre, ZenonT(90)
<1>2. /\ pc[AcceptLoop] = "evict" /\ todo'[AcceptLoop] = OpenStreams
      /\ job'[AcceptLoop] = IF OpenStreams = {} THEN "none" ELSE "evict"
      /\ pc'[AcceptLoop] = IF OpenStreams = {} THEN "insert" ELSE "close"
      /\ OthersStay(AcceptLoop)
      /\ UNCHANGED <<term, listener, ws, table, history, cur, frame>>
  <2>1. /\ todo'[AcceptLoop] = OpenStreams
        /\ job'[AcceptLoop] = IF OpenStreams = {} THEN "none" ELSE "evict"
        /\ pc'[AcceptLoop] = IF OpenStreams = {} THEN Continuation("evict") ELSE "close"
        /\ \A q \in Procs \ {AcceptLoop} : pc'[q] = pc[q] /\ todo'[q] = todo[q] /\ job'[q] = job[q]
    <3>1. /\ TypeOK /\ AcceptLoop \in Procs /\ OpenStreams \in SUBSET Conns /\ "evict" \in Jobs
          /\ CloseAll(AcceptLoop, OpenStreams, "evict")
      BY <1>1, Zenon DEF Evict
    <3> HIDE ProcsAre DEF IInv, Terminators, Labels, Jobs, Causes, FrameTypes
    <3> QED
      BY <3>1, Zenon DEF TypeOK, CloseAll, Goto
  <2>2. pc'[AcceptLoop] = IF OpenStreams = {} THEN "insert" ELSE "close"
    BY <2>1, Continuations, Zenon
  <2>3. pc[AcceptLoop] = "evict" /\ UNCHANGED <<term, listener, ws, table, history, cur, frame>>
    BY Zenon DEF Evict, shared
  <2>4. OthersStay(AcceptLoop)
    BY <2>1, <2>3, Zenon DEF OthersStay
  <2> QED
    BY <2>1, <2>2, <2>3, <2>4, Zenon
<1>3. TypeOK'
  <2>1. pc' \in [Procs -> Labels] /\ todo' \in [Procs -> SUBSET Conns] /\ job' \in [Procs -> Jobs \cup {"none"}] /\ TypeOK
    BY <1>1, CloseAllMoves, Zenon DEF Evict
  <2> HIDE ProcsAre DEF IInv, Terminators, Labels, Jobs, Causes, FrameTypes
  <2> QED
    BY <2>1 DEF Evict, TypeOK, shared, table, history
<1>4. LabelOf(AcceptLoop)' /\ JobOf(AcceptLoop)' /\ FrameOf(AcceptLoop)' /\ OnceStays(AcceptLoop)
  BY <1>1, <1>2, Zenon DEF LabelsInv, LabelOf, JobOf, FrameOf, OnceStays, InOnce, Resetting, Allocated, table
<1>5. AcceptStays(AcceptLoop)
  <2>1. job[AcceptLoop] = "none"
    BY <1>2, Zenon DEF JobInv, JobOf, InOnce, Resetting
  <2>2. (BeforeInsert' <=> BeforeInsert) /\ ~Starting' /\ ~Starting
    BY <1>2, Zenon DEF BeforeInsert, Starting
  <2>3. EvictInv'
    BY <1>1, <1>2, Zenon DEF EvictInv, Allocated, table
  <2>4. OwnedInv'
    BY <1>2, <2>1, <2>2, AllocatedAre, ZenonT(90) DEF OwnedInv, Allocated, table, OthersStay
  <2> QED
    BY <2>2, <2>3, <2>4, Zenon DEF AcceptStays
<1>6. TerminateInv'
  BY <1>2, TerminateKept, Zenon DEF InTerminate
<1> QED
  BY <1>2, <1>3, <1>4, <1>5, <1>6, LocalStep, Zenon DEF PumpStays, ReadStays, history

\* After a failed STREAM_START the accept loop owns the new stream until it has
\* closed it.
LEMMA StartFailedKeeps ==
    ASSUME IInv, NEW p \in Procs, StartFailed(p)
    PROVE  IInv'
<1> USE DEF IInv
<1>1. /\ p = AcceptLoop /\ pc[AcceptLoop] = "send" /\ Starting
      /\ cur[AcceptLoop] = accepted /\ accepted \in Conns
  BY Zenon DEF StartFailed, WriteFail, FrameInv, FrameOf, StartInv, Starting
<1>2. job[AcceptLoop] = "none" /\ accepted \in Allocated
  <2>1. job[AcceptLoop] = "none" /\ ~BeforeInsert
    BY <1>1, Zenon DEF JobInv, JobOf, InOnce, Resetting, Starting, BeforeInsert
  <2>2. nextStreamID = accepted + 1 /\ accepted \in Nat
    BY <2>1 DEF IdsInv, TypeOK
  <2> QED
    BY <1>1, <2>1, <2>2, AllocatedAre
<1>3. /\ todo'[AcceptLoop] = {accepted} /\ job'[AcceptLoop] = "startFailed" /\ pc'[AcceptLoop] = "close"
      /\ OthersStay(AcceptLoop)
      /\ UNCHANGED <<term, listener, ws, table, history, cur, frame>>
  BY <1>1, CloseOneMoves, ZenonT(150) DEF StartFailed, WriteFail, OthersStay
<1>4. TypeOK'
  <2>1. pc' \in [Procs -> Labels] /\ todo' \in [Procs -> SUBSET Conns] /\ job' \in [Procs -> Jobs \cup {"none"}]
    BY <1>1, CloseOneMoves, Zenon DEF StartFailed
  <2>2. TypeOK
    BY Zenon
  <2> HIDE ProcsAre DEF IInv, Terminators, Labels, Jobs, Causes, FrameTypes
  <2> QED
    BY <2>1, <2>2 DEF StartFailed, WriteFail, TypeOK, table, history
<1>5. LabelOf(AcceptLoop)' /\ JobOf(AcceptLoop)' /\ FrameOf(AcceptLoop)' /\ OnceStays(AcceptLoop)
  BY <1>1, <1>2, <1>3, Zenon DEF LabelsInv, LabelOf, JobOf, FrameOf, OnceStays, InOnce, Resetting, Starting, Allocated, table
<1>6. AcceptStays(AcceptLoop)
  <2>1. (BeforeInsert' <=> BeforeInsert) /\ ~Starting'
    BY <1>1, <1>2, <1>3, Zenon DEF BeforeInsert, Starting
  <2>2. EvictInv'
    BY <1>3, Zenon DEF EvictInv, Allocated, table
  <2>3. OwnedInv'
    <3>1. Allocated' = Allocated /\ \A c \in Allocated : pc'[c] = pc[c] /\ once'[c] = once[c]
      BY <1>3, AllocatedAre, Zenon DEF Allocated, table, OthersStay
    <3> QED
      BY <1>2, <1>3, <2>1, <3>1, ZenonT(90) DEF OwnedInv, table
  <2> QED
    BY <2>1, <2>2, <2>3, Zenon DEF AcceptStays
<1>7. TerminateInv'
  BY <1>1, <1>2, <1>3, TerminateKept, Zenon DEF InTerminate
<1> QED
  BY <1>1, <1>3, <1>4, <1>5, <1>6, <1>7, LocalStep, Zenon DEF PumpStays, ReadStays, history
-----------------------------------------------------------------------------
(* The read loop.                                                           *)

\* Looking a stream up and writing to it keep the invariant.
LEMMA DataKeeps ==
    ASSUME IInv, (\E c \in Started : ReceiveData(c)) \/ DeliverOk
    PROVE  IInv'
<1> USE DEF IInv
<1>1. /\ pc[ReadLoop] \in {"next", "deliver"} /\ pc'[ReadLoop] \in {"next", "deliver"}
      /\ pc' \in [Procs -> Labels]
      /\ \A q \in Procs \ {ReadLoop} : pc'[q] = pc[q]
      /\ UNCHANGED <<shared, table, todo, job, frame, cause, wire>>
  BY GotoMoves, ZenonT(90) DEF ReceiveData, DeliverOk
<1>2. /\ cur' \in [Procs -> Conns \cup {NoConn}] /\ owner' \in Conns \cup {NoConn}
      /\ \A q \in Procs \ {ReadLoop} : cur'[q] = cur[q]
      /\ DeliverInv'
  <2>1. CASE DeliverOk
    BY <2>1, GotoMoves, Zenon DEF DeliverOk, DeliverInv, TypeOK
  <2>2. ASSUME NEW c \in Started, ReceiveData(c) PROVE <1>2!:
    <3>1. c \in Allocated /\ c \in Conns /\ streams[id[c]] = c
      BY <2>2, StartedAre, Zenon DEF ReceiveData
    <3>2. cur' = [cur EXCEPT ![ReadLoop] = c] /\ owner' = c
      BY <2>2, <3>1, Zenon DEF ReceiveData
    <3> QED
      BY <1>1, <3>1, <3>2, Zenon DEF DeliverInv, TypeOK, Allocated, table
  <2> QED
    BY <2>1, <2>2, Zenon
<1>3. TypeOK' /\ OthersStay(ReadLoop)
  <2>1. TypeOK
    BY Zenon
  <2> HIDE ProcsAre DEF IInv, Terminators, Labels, Jobs, Causes, FrameTypes
  <2>2. TypeOK'
    BY <1>1, <1>2, <2>1 DEF TypeOK, shared, table
  <2> QED
    BY <1>1, <1>2, <2>2, Zenon DEF OthersStay
<1>4. LabelOf(ReadLoop)' /\ JobOf(ReadLoop)' /\ FrameOf(ReadLoop)' /\ OnceStays(ReadLoop)
  BY <1>1, Zenon DEF LabelsInv, LabelOf, JobInv, JobOf, FrameOf, OnceStays, InOnce, Resetting, Allocated, table
<1>5. TerminateInv'
  BY <1>1, <1>3, TerminateKept, Zenon DEF InTerminate, shared
<1> QED
  BY <1>1, <1>2, <1>3, <1>4, <1>5, LocalStep, Zenon DEF PumpStays, AcceptStays, ReadStays

\* The read loop closes a stream it cannot write to, or that the peer reset.
LEMMA ReadLoopCloses ==
    ASSUME IInv, DeliverFail \/ \E c \in Started : ReceiveReset(c)
    PROVE  IInv'
<1> USE DEF IInv
<1>1. \E c \in Allocated, j \in {"deliverFailed", "peerReset"} : CloseAll(ReadLoop, {c}, j)
  <2>1. CASE DeliverFail
    BY <2>1, Zenon DEF DeliverFail, FrameInv, DeliverInv
  <2>2. ASSUME NEW c \in Started, ReceiveReset(c) PROVE <1>1!:
    <3>1. c \in Allocated /\ streams[id[c]] = c
      BY <2>2, StartedAre, Zenon DEF ReceiveReset
    <3> QED
      BY <2>2, <3>1, Zenon DEF ReceiveReset
  <2> QED
    BY <2>1, <2>2, Zenon
<1>2. PICK c \in Allocated, j \in {"deliverFailed", "peerReset"} : CloseAll(ReadLoop, {c}, j)
  BY <1>1, Zenon
<1>3. /\ pc[ReadLoop] \in {"next", "deliver"}
      /\ owner' \in {owner, NoConn}
      /\ UNCHANGED <<shared, table, cur, frame, cause, wire>>
  BY Zenon DEF DeliverFail, ReceiveReset, history
<1>4. /\ pc' \in [Procs -> Labels] /\ todo' \in [Procs -> SUBSET Conns] /\ job' \in [Procs -> Jobs \cup {"none"}]
      /\ todo'[ReadLoop] = {c} /\ job'[ReadLoop] = j /\ pc'[ReadLoop] = "close"
      /\ OthersStay(ReadLoop)
  <2>1. c \in Conns /\ j \in Jobs /\ CloseAll(ReadLoop, {c}, j)
    BY <1>2, AllocatedAre, Zenon
  <2>2. /\ pc' \in [Procs -> Labels] /\ todo' \in [Procs -> SUBSET Conns] /\ job' \in [Procs -> Jobs \cup {"none"}]
        /\ todo'[ReadLoop] = {c} /\ job'[ReadLoop] = j /\ pc'[ReadLoop] = "close"
        /\ \A q \in Procs \ {ReadLoop} : pc'[q] = pc[q] /\ todo'[q] = todo[q] /\ job'[q] = job[q]
    <3> HIDE DEF IInv
    <3>1. TypeOK
      BY Zenon DEF IInv
    <3> HIDE DEF Jobs, Labels
    <3> QED BY <2>1, <3>1, CloseOneMoves, ZenonT(150)
  <2> QED
    BY <1>3, <2>2, Zenon DEF OthersStay
<1>5. TypeOK'
  <2>1. TypeOK
    BY Zenon
  <2> HIDE ProcsAre DEF IInv, Terminators, Labels, Jobs, Causes, FrameTypes
  <2> QED
    BY <1>3, <1>4, <2>1 DEF TypeOK, shared, table
<1>6. LabelOf(ReadLoop)' /\ JobOf(ReadLoop)' /\ FrameOf(ReadLoop)' /\ OnceStays(ReadLoop)
  BY <1>3, <1>4, Zenon DEF LabelOf, JobOf, FrameOf, OnceStays, InOnce, Resetting, Allocated, table
<1>7. TerminateInv'
  BY <1>3, <1>4, TerminateKept, Zenon DEF InTerminate, shared
<1> QED
  BY <1>3, <1>4, <1>5, <1>6, <1>7, LocalStep, Zenon DEF PumpStays, AcceptStays, ReadStays, DeliverInv

\* The read loop reaches terminate.
LEMMA ReadEndKeeps ==
    ASSUME IInv, NEW why \in Causes, ReceiveFatal(why) \/ ReadFail(why)
    PROVE  IInv'
<1> USE DEF IInv
<1>1. /\ pc[ReadLoop] = "next" /\ pc'[ReadLoop] = "terminate" /\ pc' \in [Procs -> Labels]
      /\ OthersStay(ReadLoop) /\ cause' \in Causes
      /\ UNCHANGED <<shared, table, cur, todo, job, frame, history>>
  BY GotoMoves, ZenonT(90) DEF ReceiveFatal, ReadFail, OthersStay
<1>2. TypeOK'
  <2>1. TypeOK
    BY Zenon
  <2> HIDE ProcsAre DEF IInv, Terminators, Labels, Jobs, Causes, FrameTypes
  <2> QED
    BY <1>1, <2>1 DEF TypeOK, shared, table, history
<1>3. LabelOf(ReadLoop)' /\ JobOf(ReadLoop)' /\ FrameOf(ReadLoop)' /\ OnceStays(ReadLoop)
  BY <1>1, Zenon DEF LabelsInv, LabelOf, JobInv, JobOf, FrameOf, OnceStays, InOnce, Resetting, Allocated, table
<1>4. TerminateInv'
  BY <1>1, TerminateKept, Zenon DEF InTerminate, shared
<1> QED
  BY <1>1, <1>2, <1>3, <1>4, LocalStep, Zenon DEF PumpStays, AcceptStays, ReadStays, DeliverInv, history

-----------------------------------------------------------------------------
(* terminate, Close and Wait.                                               *)

\* A goroutine that is, before and after, neither closing nor sending a stream
\* and takes part in terminate only keeps all but TerminateInv.
LEMMA TerminatorMoves ==
    ASSUME IInv, NEW p \in Terminators, TypeOK', TerminateInv', OthersStay(p),
           pc[p] \in {"ready", "terminate", "snapshot", "wsclose", "wait"},
           LabelOf(p)', JobOf(p)',
           pc'[p] \notin {"hangup", "lock", "send", "deliver"},
           UNCHANGED <<table, history>>
    PROVE  IInv'
<1>1. FrameOf(p)' /\ OnceStays(p)
  BY Zenon DEF FrameOf, OnceStays, InOnce, Resetting
<1>2. PumpStays(p) /\ AcceptStays(p) /\ ReadStays(p)
  BY Zenon DEF PumpStays, AcceptStays, ReadStays, DeliverInv, history
<1> QED
  BY <1>1, <1>2, LocalStep, Zenon DEF history

\* terminate and Close take a snapshot of the map and close what is in it.
LEMMA SnapshotKeeps ==
    ASSUME IInv, NEW p \in Terminators, TerminateSnapshot(p) \/ (p = Caller /\ Close)
    PROVE  IInv'
<1> USE DEF IInv
<1>1. OpenStreams \subseteq Allocated /\ OpenStreams \in SUBSET Conns
  BY OpenStreamsAre, Zenon
<1>2. PICK j \in {"Close", "terminate"} :
        /\ CloseAll(p, OpenStreams, j)
        /\ IF j = "Close" THEN p = Caller /\ pc[p] = "ready" ELSE pc[p] = "snapshot"
  BY Zenon DEF TerminateSnapshot, Close
<1>3. UNCHANGED <<shared, table, cur, frame, cause, history>>
  BY Zenon DEF TerminateSnapshot, Close
<1>4. /\ todo'[p] = OpenStreams
      /\ job'[p] = IF OpenStreams = {} THEN "none" ELSE j
      /\ pc'[p] = IF OpenStreams # {} THEN "close" ELSE IF j = "Close" THEN "terminate" ELSE "wsclose"
      /\ OthersStay(p)
  BY <1>1, <1>2, <1>3, CloseAllMoves, Continuations, SMTT(60) DEF OthersStay
<1>5. TypeOK'
  <2>1. pc' \in [Procs -> Labels] /\ todo' \in [Procs -> SUBSET Conns] /\ job' \in [Procs -> Jobs \cup {"none"}] /\ TypeOK
    BY <1>1, <1>2, <1>3, CloseAllMoves, ZenonT(90)
  <2> HIDE ProcsAre DEF IInv, Terminators, Labels, Jobs, Causes, FrameTypes
  <2> QED
    BY <1>3, <2>1 DEF TypeOK, shared, table, history
<1>6. LabelOf(p)' /\ JobOf(p)'
  BY <1>1, <1>2, <1>3, <1>4, Zenon DEF LabelOf, JobOf, InOnce, Resetting, Allocated, table
<1>7. TerminateInv'
  BY <1>2, <1>3, <1>4, TerminateKept, Zenon DEF InTerminate, shared
<1> QED
  BY <1>2, <1>3, <1>4, <1>5, <1>6, <1>7, TerminatorMoves, Zenon

\* Entering terminate: only one goroutine can find the Once new.
LEMMA TerminateEnterKeeps ==
    ASSUME IInv, NEW p \in Terminators, TerminateEnter(p)
    PROVE  IInv'
<1> USE DEF IInv
<1>1. /\ pc[p] = "terminate" /\ pc'[p] = "snapshot" /\ OthersStay(p)
      /\ term = "new" /\ term' = "busy" /\ listener' = "closed"
      /\ UNCHANGED <<table, cur, todo, job, frame, history>>
  BY GotoMoves, ZenonT(90) DEF TerminateEnter, OthersStay
<1>2. TypeOK'
  <2>1. pc' \in [Procs -> Labels] /\ TypeOK
    BY GotoMoves, Zenon DEF TerminateEnter
  <2> HIDE ProcsAre DEF IInv, Terminators, Labels, Jobs, FrameTypes
  <2> QED
    BY <2>1 DEF TerminateEnter, TypeOK, table, history
<1>3. LabelOf(p)' /\ JobOf(p)'
  BY <1>1, Zenon DEF LabelsInv, LabelOf, JobInv, JobOf, InOnce, Resetting, Allocated, table
<1>4. TerminateInv'
  BY <1>1, ZenonT(90) DEF TerminateInv, InTerminate, OthersStay, Running
<1> QED
  BY <1>1, <1>2, <1>3, <1>4, TerminatorMoves, Zenon

\* Leaving terminate, or finding that it is done.
LEMMA TerminateLeaveKeeps ==
    ASSUME IInv, NEW p \in Terminators, TerminateSkip(p) \/ TerminateWs(p)
    PROVE  IInv'
<1> USE DEF IInv
<1>1. /\ pc[p] \in {"terminate", "wsclose"}
      /\ pc[p] = "terminate" => term = "done" /\ ws' = ws
      /\ pc[p] = "wsclose" => ws' = "closed"
      /\ pc'[p] \in {"wait", "next", "done"} /\ (p = Caller <=> pc'[p] = "wait")
      /\ pc' \in [Procs -> Labels] /\ OthersStay(p) /\ term' = "done"
      /\ UNCHANGED <<listener, table, cur, todo, job, frame, history>>
  BY GotoMoves, ZenonT(90) DEF TerminateSkip, TerminateWs, AfterTerminate, OthersStay, shared
<1>2. TypeOK'
  <2>1. TypeOK /\ cause' \in Causes
    BY Zenon DEF TerminateSkip, TerminateWs, TypeOK
  <2>2. ws' \in {ws, "closed"} /\ UNCHANGED <<ctxDone, terminateErr, writeMu>>
    BY <1>1, Zenon DEF TerminateSkip, TerminateWs, shared
  <2> HIDE ProcsAre DEF IInv, Terminators, Labels, Jobs, Causes, FrameTypes
  <2> QED
    BY <1>1, <2>1, <2>2 DEF TypeOK, table, history
<1>3. LabelOf(p)' /\ JobOf(p)'
  BY <1>1, ZenonT(90) DEF LabelsInv, LabelOf, JobInv, JobOf, InOnce, Resetting, Allocated, table
<1>4. job[p] = "none"
  BY <1>1, Zenon DEF JobInv, JobOf, InOnce, Resetting
<1>5. \A q \in Procs : ~InTerminate(q)'
  <2>1. \A q \in Procs : q # p => ~InTerminate(q)
    BY <1>1, Zenon DEF TerminateInv, InTerminate
  <2>2. \A q \in Procs : q # p => ~InTerminate(q)'
    BY <1>1, <2>1, Zenon DEF InTerminate, OthersStay
  <2> QED
    BY <1>1, <1>4, <2>2, Zenon DEF InTerminate
<1>6. TerminateInv'
  BY <1>1, <1>5, ZenonT(90) DEF TerminateInv, InTerminate, OthersStay, Running
<1> QED
  BY <1>1, <1>2, <1>3, <1>6, TerminatorMoves, Zenon

\* Wait returns when no other goroutine runs.
LEMMA WaitKeeps ==
    ASSUME IInv, Wait
    PROVE  IInv'
<1> USE DEF IInv
<1>1. /\ pc[Caller] = "wait" /\ pc'[Caller] = "done" /\ OthersStay(Caller) /\ Running = {}
      /\ UNCHANGED <<shared, table, cur, todo, job, frame, history>>
  BY GotoMoves, ZenonT(90) DEF Wait, OthersStay
<1>2. TypeOK'
  <2>1. pc' \in [Procs -> Labels] /\ TypeOK
    BY GotoMoves, Zenon DEF Wait
  <2> HIDE ProcsAre DEF IInv, Terminators, Labels, Jobs, Causes, FrameTypes
  <2> QED
    BY <2>1 DEF Wait, TypeOK, shared, table, history
<1>3. LabelOf(Caller)' /\ JobOf(Caller)'
  BY <1>1, Zenon DEF LabelsInv, LabelOf, JobInv, JobOf, InOnce, Resetting, Allocated, table
<1>4. TerminateInv'
  BY <1>1, ZenonT(90) DEF TerminateInv, InTerminate, OthersStay, Running, shared
<1> QED
  BY <1>1, <1>2, <1>3, <1>4, TerminatorMoves, Zenon
-----------------------------------------------------------------------------
(* closeStream: entering the Once, which takes the stream out of the map,   *)
(* and leaving it.                                                          *)

\* Entering closeOnce takes the stream out of the map and makes this goroutine
\* the only one in its Once.
LEMMA CloseEnterKeeps ==
    ASSUME IInv, NEW p \in Procs, CloseEnter(p)
    PROVE  IInv'
<1> USE DEF IInv
<1>1. pc[p] = "close" /\ job[p] \in Jobs /\ todo[p] \subseteq Allocated /\ (p \in Conns => todo[p] \subseteq {p})
  BY ZenonT(90) DEF CloseEnter, JobInv, JobOf, TypeOK
<1>2. PICK c \in todo[p] : /\ once[c] = "new"
                           /\ once' = [once EXCEPT ![c] = "busy"]
                           /\ streams' = [streams EXCEPT ![id[c]] = NoConn]
                           /\ todo' = [todo EXCEPT ![p] = @ \ {c}]
                           /\ cur' = [cur EXCEPT ![p] = c]
  BY Zenon DEF CloseEnter
<1>3. c \in Allocated /\ c \in Conns /\ id[c] = c /\ (p \in Conns => c = p)
  BY <1>1, AllocatedAre, Zenon DEF IdsInv
<1>4. /\ pc'[p] \in {"lock", "hangup"} /\ pc' \in [Procs -> Labels]
      /\ \A q \in Procs \ {p} : pc'[q] = pc[q]
      /\ frame' = [frame EXCEPT ![p] = "STREAM_RESET"]
      /\ UNCHANGED <<shared, nextStreamID, accepted, id, conn, hup, job, cause, history>>
  BY GotoMoves, Zenon DEF CloseEnter
<1>5. /\ cur'[p] = c /\ todo'[p] = todo[p] \ {c} /\ frame'[p] = "STREAM_RESET" /\ OthersStay(p)
      /\ once'[c] = "busy" /\ \A d \in Conns \ {c} : once'[d] = once[d]
      /\ streams'[c] = NoConn /\ \A d \in Conns \ {c} : streams'[d] = streams[d]
  BY <1>2, <1>3, <1>4, ZenonT(90) DEF TypeOK, OthersStay
<1>6. /\ Allocated' = Allocated
      /\ ~InOnce(p) /\ InOnce(p)' /\ \A q \in Procs \ {p} : InOnce(q)' <=> InOnce(q)
      /\ BeforeInsert' <=> BeforeInsert
      /\ Starting' <=> Starting
  <2>1. Allocated' = Allocated
    BY <1>4, Zenon DEF Allocated
  <2>2. ~InOnce(p) /\ InOnce(p)' /\ \A q \in Procs \ {p} : InOnce(q)' <=> InOnce(q)
    BY <1>1, <1>4, <1>5, ZenonT(90) DEF InOnce, Resetting, OthersStay
  <2>3. BeforeInsert' <=> BeforeInsert
    BY <1>1, <1>4, <1>5, ZenonT(90) DEF BeforeInsert, OthersStay
  <2>4. Starting' <=> Starting
    BY <1>1, <1>4, <1>5, ZenonT(90) DEF Starting, OthersStay
  <2> QED
    BY <2>1, <2>2, <2>3, <2>4, Zenon
<1>7. TypeOK'
  <2>1. once' \in [Conns -> {"new", "busy", "done"}] /\ streams' \in [Conns -> Conns \cup {NoConn}]
    BY <1>2, <1>3, ZenonT(90) DEF TypeOK
  <2>2. todo' \in [Procs -> SUBSET Conns] /\ cur' \in [Procs -> Conns \cup {NoConn}] /\ frame' \in [Procs -> FrameTypes]
    BY <1>2, <1>3, <1>4, ZenonT(90) DEF TypeOK
  <2>3. TypeOK
    BY Zenon
  <2> HIDE ProcsAre DEF IInv, Terminators, Labels, Jobs, Causes, FrameTypes
  <2> QED
    BY <1>4, <2>1, <2>2, <2>3 DEF TypeOK, shared, history
<1>8. LabelsInv' /\ JobInv'
  <2>1. LabelOf(p)'
    BY <1>1, <1>4, Zenon DEF LabelsInv, LabelOf
  <2>2. JobOf(p)'
    BY <1>1, <1>4, <1>5, <1>6, Zenon DEF JobInv, JobOf
  <2>3. ASSUME NEW q \in Procs \ {p} PROVE LabelOf(q)' /\ JobOf(q)'
    <3>1. LabelOf(q)'
      BY <1>5, ZenonT(90) DEF LabelsInv, LabelOf, OthersStay
    <3>2. JobOf(q)'
      BY <1>5, <1>6 DEF JobInv, JobOf, OthersStay
    <3> QED
      BY <3>1, <3>2, Zenon
  <2> QED
    BY <2>1, <2>2, <2>3, Zenon DEF LabelsInv, JobInv
<1>9. IdsInv'
  BY <1>4, <1>6, ZenonT(90) DEF IdsInv
<1>10. MapInv'
  <2>1. \A d \in Conns : streams'[d] = IF d \in Allocated' /\ once'[d] = "new" THEN d ELSE NoConn
    <3>1. MapInv
      BY ZenonT(90)
    <3> HIDE ProcsAre DEF IInv
    <3> QED
      BY <3>1, <1>3, <1>5, <1>6 DEF MapInv
  <2>2. \A d \in Conns : d \notin Allocated' => once'[d] = "new" /\ pc'[d] = "idle"
    <3>1. MapInv
      BY Zenon
    <3> HIDE DEF IInv
    <3> QED
      BY <3>1, <1>1, <1>3, <1>5, <1>6 DEF MapInv, OthersStay
  <2>3. \A d \in Conns : conn'[d] = IF d > accepted' THEN "none"
                                    ELSE IF once'[d] = "done" THEN "closed" ELSE "open"
    <3>1. MapInv
      BY Zenon
    <3> HIDE ProcsAre DEF IInv
    <3> QED
      BY <3>1, <1>2, <1>3, <1>4, <1>5 DEF MapInv
  <2> QED
    BY <2>1, <2>2, <2>3, Zenon DEF MapInv
<1>11. FrameInv'
  <2>1. \A q \in Procs : FrameOf(q)'
    <3>1. FrameOf(p)'
      BY <1>3, <1>5, <1>6, ZenonT(90) DEF FrameOf
    <3>2. ASSUME NEW q \in Procs \ {p} PROVE FrameOf(q)'
      BY <1>5, <1>6 DEF FrameInv, FrameOf, OthersStay
    <3> QED
      BY <3>1, <3>2, Zenon
  <2>2. \A d \in Conns : PumpOf(d)'
    <3>1. ASSUME p \in Conns PROVE PumpOf(p)'
      BY <1>3, <1>4, <1>5, <3>1, Zenon DEF PumpOf
    <3>2. ASSUME NEW d \in Conns \ {p} PROVE PumpOf(d)'
      BY <1>5, ZenonT(90) DEF FrameInv, PumpOf, OthersStay
    <3> QED
      BY <3>1, <3>2, Zenon
  <2>3. StartInv'
    BY <1>1, <1>4, <1>5, <1>6, ZenonT(90) DEF FrameInv, StartInv, Starting, OthersStay
  <2>4. DeliverInv'
    BY <1>1, <1>4, <1>5, <1>6, ZenonT(90) DEF FrameInv, DeliverInv, OthersStay, history
  <2> QED
    BY <2>1, <2>2, <2>3, <2>4, ZenonT(90) DEF FrameInv
<1>12. OnceInv'
  <2>1. \A q \in Procs : InOnce(q) => cur[q] \in Conns \ {c}
    BY <1>2, AllocatedAre, ZenonT(90) DEF OnceInv, FrameInv, FrameOf
  <2>2. \A q \in Procs : InOnce(q)' => once'[cur'[q]] = "busy"
    BY <1>3, <1>5, <1>6, <2>1 DEF OnceInv, OthersStay
  <2>3. \A q, r \in Procs : InOnce(q)' /\ InOnce(r)' /\ cur'[q] = cur'[r] => q = r
    <3>1. InOnce(p)' /\ cur'[p] = c /\ \A q \in Procs \ {p} : InOnce(q)' => InOnce(q) /\ cur'[q] = cur[q] /\ cur[q] # c
      BY <1>5, <1>6, <2>1, Zenon DEF OthersStay
    <3>2. \A q, r \in Procs : InOnce(q) /\ InOnce(r) /\ cur[q] = cur[r] => q = r
      BY Zenon DEF OnceInv
    <3> HIDE DEF IInv
    <3> QED
      BY <3>1, <3>2, ZenonT(90)
  <2>4. \A d \in Conns : once'[d] = "busy" => \E q \in Procs : InOnce(q)' /\ cur'[q] = d
    BY <1>5, <1>6, SMTT(60) DEF OnceInv, OthersStay
  <2> QED
    BY <2>2, <2>3, <2>4, Zenon DEF OnceInv
<1>13. EvictInv'
  <2>1. \A d \in Conns : once'[d] = "new" => once[d] = "new" /\ d # c
    BY <1>5, Zenon
  <2>2. \A d \in Conns : d < nextStreamID' - 1 => once'[d] # "new"
    BY <1>4, <2>1, Zenon DEF EvictInv
  <2>3. CASE p = AcceptLoop
    BY <1>4, <1>5, <1>6, <2>1, <2>2, <2>3, AllocatedAre, ZenonT(90) DEF EvictInv
  <2>4. CASE p # AcceptLoop
    BY <1>5, <1>6, <2>1, <2>2, <2>4, AllocatedAre, ZenonT(90) DEF EvictInv, OthersStay
  <2> QED
    BY <2>3, <2>4, Zenon
<1>14. WireInv'
  <2>1. \A q \in Procs \ {p} : Resetting(q)' <=> Resetting(q)
    BY <1>5, ZenonT(90) DEF Resetting, OthersStay
  <2>2. \A k \in DOMAIN wire : wire[k].type = "STREAM_RESET" => wire[k].id # c
    BY <1>2, Zenon DEF WireInv
  <2>3. \A d \in Allocated : once[d] # "new" => once'[d] # "new"
    BY <1>5, AllocatedAre, Zenon
  <2> QED
    <3>1. WireInv
      BY Zenon
    <3> HIDE DEF IInv
    <3> QED
      BY <3>1, <1>4, <1>5, <1>6, <2>1, <2>2, <2>3, SMTT(60) DEF WireInv, Starting, OthersStay, history
<1>15. ControlFramesOnce'
  BY <1>4, ZenonT(90) DEF ControlFramesOnce, history
<1>16. OwnedInv'
  BY <1>2, <1>3, <1>4, <1>5, <1>6, AllocatedAre, SMTT(60) DEF OwnedInv, OthersStay
<1>17. TerminateInv'
  BY <1>1, <1>4, <1>5, TerminateKept, ZenonT(90) DEF InTerminate, shared
<1> QED
  BY <1>7, <1>8, <1>9, <1>10, <1>11, <1>12, <1>13, <1>14, <1>15, <1>16, <1>17, ZenonT(90)

\* Leaving closeOnce closes the connection for good.
LEMMA HangupKeeps ==
    ASSUME IInv, NEW p \in Procs, Hangup(p)
    PROVE  IInv'
<1> USE DEF IInv
<1>1. pc[p] = "hangup" /\ InOnce(p) /\ job[p] \in Jobs /\ cur[p] \in Allocated /\ todo[p] \subseteq Allocated
  BY ZenonT(90) DEF Hangup, InOnce, JobInv, JobOf, FrameInv, FrameOf, TypeOK
<1>2. cur[p] \in Conns /\ todo[p] \in SUBSET Conns /\ (p \in Conns => cur[p] = p /\ todo[p] \subseteq {p}) /\ once[cur[p]] = "busy"
  BY <1>1, AllocatedAre, Zenon DEF FrameInv, PumpOf, JobInv, JobOf, OnceInv
<1>3. /\ pc' \in [Procs -> Labels] /\ job' \in [Procs -> Jobs \cup {"none"}] /\ todo' \in [Procs -> SUBSET Conns]
      /\ todo'[p] = todo[p]
      /\ job'[p] = IF todo[p] = {} THEN "none" ELSE job[p]
      /\ pc'[p] = IF todo[p] = {} THEN Continuation(job[p]) ELSE "close"
      /\ \A q \in Procs \ {p} : pc'[q] = pc[q] /\ todo'[q] = todo[q] /\ job'[q] = job[q]
      /\ UNCHANGED <<shared, streams, nextStreamID, accepted, id, cause, history>>
  <2>1. CloseAll(p, todo[p], job[p]) /\ UNCHANGED <<shared, streams, nextStreamID, accepted, id, cause, history>>
    BY Zenon DEF Hangup
  <2>2. job[p] \in Jobs /\ todo[p] \in SUBSET Conns /\ TypeOK
    BY <1>1, <1>2, Zenon
  <2> HIDE DEF IInv, Jobs, Labels
  <2>3. /\ pc' \in [Procs -> Labels]
        /\ todo' \in [Procs -> SUBSET Conns]
        /\ job' \in [Procs -> Jobs \cup {"none"}]
        /\ todo'[p] = todo[p]
        /\ job'[p] = IF todo[p] = {} THEN "none" ELSE job[p]
        /\ pc'[p] = IF todo[p] = {} THEN Continuation(job[p]) ELSE "close"
        /\ \A q \in Procs \ {p} : pc'[q] = pc[q] /\ todo'[q] = todo[q] /\ job'[q] = job[q]
    BY <2>1, <2>2, CloseAllMoves, Zenon
  <2> QED
    BY <2>1, <2>3, Zenon
<1>4. /\ cur'[p] = NoConn /\ frame'[p] = "DATA" /\ OthersStay(p)
      /\ once'[cur[p]] = "done" /\ conn'[cur[p]] = "closed"
      /\ \A d \in Conns \ {cur[p]} : once'[d] = once[d] /\ conn'[d] = conn[d]
  <2>1. /\ cur' = [cur EXCEPT ![p] = NoConn] /\ frame' = [frame EXCEPT ![p] = "DATA"]
        /\ once' = [once EXCEPT ![cur[p]] = "done"] /\ conn' = [conn EXCEPT ![cur[p]] = "closed"]
    BY Zenon DEF Hangup
  <2>2. /\ cur'[p] = NoConn /\ frame'[p] = "DATA"
        /\ \A q \in Procs \ {p} : cur'[q] = cur[q] /\ frame'[q] = frame[q]
    BY <2>1, Zenon DEF TypeOK
  <2>3. /\ once'[cur[p]] = "done" /\ conn'[cur[p]] = "closed"
        /\ \A d \in Conns \ {cur[p]} : once'[d] = once[d] /\ conn'[d] = conn[d]
    BY <1>2, <2>1, ZenonT(90) DEF TypeOK
  <2> QED
    BY <1>3, <2>2, <2>3, ZenonT(90) DEF OthersStay
<1>5. /\ Allocated' = Allocated
      /\ ~InOnce(p)' /\ pc'[p] \notin {"lock", "send"}
      /\ \A q \in Procs \ {p} : InOnce(q)' <=> InOnce(q)
      /\ BeforeInsert' <=> BeforeInsert
      /\ Starting' <=> Starting
  <2>1. Allocated' = Allocated
    BY <1>3, Zenon DEF Allocated
  <2>2. pc'[p] \in {"insert", "accept", "done", "next", "terminate", "wsclose", "close"}
    BY <1>1, <1>3, Continuations, ZenonT(90)
  <2>3. ~InOnce(p)' /\ \A q \in Procs \ {p} : InOnce(q)' <=> InOnce(q)
    BY <1>4, <2>2, Zenon DEF InOnce, Resetting, OthersStay
  <2>4. BeforeInsert' <=> BeforeInsert
    <3>1. CASE p = AcceptLoop
      <4>1. job[p] \in {"evict", "startFailed"}
        BY <1>1, <3>1, Zenon DEF LabelsInv, LabelOf
      <4> QED
        BY <1>1, <1>3, <3>1, <4>1, Continuations, ZenonT(90) DEF BeforeInsert
    <3>2. CASE p # AcceptLoop
      BY <1>4, <3>2, Zenon DEF BeforeInsert, OthersStay
    <3> QED
      BY <3>1, <3>2, Zenon
  <2>5. Starting' <=> Starting
    BY <1>1, <1>4, <2>2, ZenonT(90) DEF Starting, OthersStay
  <2> QED
    BY <2>1, <2>2, <2>3, <2>4, <2>5, Zenon
<1>6. TypeOK'
  <2>1. /\ once' \in [Conns -> {"new", "busy", "done"}] /\ conn' \in [Conns -> {"none", "open", "closed"}]
        /\ hup' \in SUBSET Conns
    BY <1>2, Zenon DEF Hangup, TypeOK
  <2>2. cur' \in [Procs -> Conns \cup {NoConn}] /\ frame' \in [Procs -> FrameTypes]
    BY Zenon DEF Hangup, TypeOK
  <2>3. TypeOK
    BY Zenon
  <2> HIDE ProcsAre DEF IInv, Terminators, Labels, Jobs, Causes, FrameTypes
  <2> QED
    BY <1>3, <2>1, <2>2, <2>3 DEF TypeOK, shared, history
<1>7. LabelsInv' /\ JobInv'
  <2>1. LabelOf(p)'
    BY <1>1, <1>3, Continuations DEF LabelsInv, LabelOf
  <2>2. JobOf(p)'
    <3>1. pc'[p] = "close" <=> todo[p] # {}
      BY <1>1, <1>3, Continuations, ZenonT(90)
    <3> QED
      BY <1>1, <1>2, <1>3, <1>5, <3>1, Zenon DEF JobOf
  <2>3. ASSUME NEW q \in Procs \ {p} PROVE LabelOf(q)' /\ JobOf(q)'
    <3>1. LabelOf(q)'
      BY <1>4, ZenonT(90) DEF LabelsInv, LabelOf, OthersStay
    <3>2. JobOf(q)'
      BY <1>4, <1>5 DEF JobInv, JobOf, OthersStay
    <3> QED
      BY <3>1, <3>2, Zenon
  <2> QED
    BY <2>1, <2>2, <2>3, ZenonT(90) DEF LabelsInv, JobInv
<1>8. IdsInv'
  BY <1>3, <1>5, Zenon DEF IdsInv
<1>9. MapInv'
  <2>1. \A d \in Conns : d \notin Allocated' => once'[d] = "new" /\ pc'[d] = "idle"
    BY <1>1, <1>2, <1>4, <1>5, SMTT(60) DEF MapInv, OthersStay
  <2>2. TypeOK /\ MapInv /\ IdsInv /\ Allocated \subseteq Conns /\ \A d \in Conns : d \in Allocated <=> d < nextStreamID
    BY AllocatedAre, ZenonT(90)
  <2> HIDE ProcsAre DEF IInv, Terminators, Labels, Jobs, Causes, FrameTypes
  <2>3. \A d \in Conns : streams'[d] = IF d \in Allocated' /\ once'[d] = "new" THEN d ELSE NoConn
    BY <1>2, <1>3, <1>4, <1>5, <2>2, SMTT(60) DEF MapInv
  <2>4. cur[p] <= accepted
    BY <1>1, <1>2, <2>2, SMTT(60) DEF IdsInv, TypeOK, Conns
  <2>5. \A d \in Conns : conn'[d] = IF d > accepted' THEN "none"
                                    ELSE IF once'[d] = "done" THEN "closed" ELSE "open"
    <3>1. accepted' = accepted /\ \A d \in Conns : d # cur[p] => conn'[d] = conn[d] /\ once'[d] = once[d]
      BY <1>3, <1>4, ZenonT(90)
    <3>2. cur[p] \in Conns /\ conn'[cur[p]] = "closed" /\ once'[cur[p]] = "done" /\ ~(cur[p] > accepted)
      BY <1>2, <1>3, <1>4, <2>2, <2>4 DEF TypeOK, Conns
    <3> SUFFICES ASSUME NEW d \in Conns
                 PROVE  conn'[d] = IF d > accepted' THEN "none" ELSE IF once'[d] = "done" THEN "closed" ELSE "open"
      BY Zenon
    <3>3. CASE d = cur[p]
      BY <3>1, <3>2, <3>3, Zenon
    <3>4. CASE d # cur[p]
      BY <2>2, <3>1, <3>4, ZenonT(90) DEF MapInv
    <3> QED
      BY <3>3, <3>4, Zenon
  <2> QED
    BY <2>3, <2>1, <2>5, ZenonT(90) DEF MapInv
<1>10. FrameInv'
  <2>1. \A q \in Procs : FrameOf(q)'
    <3>1. FrameOf(p)'
      BY <1>4, <1>5, ZenonT(90) DEF FrameOf
    <3>2. ASSUME NEW q \in Procs \ {p} PROVE FrameOf(q)'
      <4>1. pc'[q] = pc[q] /\ cur'[q] = cur[q] /\ frame'[q] = frame[q]
        BY <1>4, Zenon DEF OthersStay
      <4>2. (InOnce(q)' <=> InOnce(q)) /\ Allocated' = Allocated
        BY <1>5, Zenon
      <4>3. FrameOf(q)
        BY Zenon DEF FrameInv
      <4> QED
        BY <4>1, <4>2, <4>3, Zenon DEF FrameOf
    <3> QED
      BY <3>1, <3>2, Zenon
  <2>2. \A d \in Conns : PumpOf(d)'
    <3>1. ASSUME p \in Conns PROVE PumpOf(p)'
      <4>1. job[p] = "pumpEnd"
        BY <1>1, <3>1, Zenon DEF LabelsInv, LabelOf
      <4>2. pc'[p] \in {"done", "close"}
        BY <1>3, <4>1, Continuations, Zenon
      <4> QED
        BY <4>2, Zenon DEF PumpOf
    <3>2. ASSUME NEW d \in Conns \ {p} PROVE PumpOf(d)'
      BY <1>4, ZenonT(90) DEF FrameInv, PumpOf, OthersStay
    <3> QED
      BY <3>1, <3>2, Zenon
  <2>3. StartInv'
    BY <1>1, <1>3, <1>4, <1>5, ZenonT(90) DEF FrameInv, StartInv, Starting, OthersStay
  <2>4. DeliverInv'
    <3>1. pc'[ReadLoop] = "deliver" => p # ReadLoop
      BY <1>1, <1>3, Continuations, ZenonT(90)
    <3> QED
      BY <1>3, <1>4, <1>5, <3>1, Zenon DEF FrameInv, DeliverInv, OthersStay, history
  <2> QED
    BY <2>1, <2>2, <2>3, <2>4, ZenonT(90) DEF FrameInv
<1>11. OnceInv'
  <2>1. \A q \in Procs \ {p} : InOnce(q) => cur[q] \in Conns \ {cur[p]}
    <3>1. \A q \in Procs : InOnce(q) => cur[q] \in Conns
      BY AllocatedAre, ZenonT(90) DEF FrameInv, FrameOf
    <3> QED
      BY <1>1, <3>1, Zenon DEF OnceInv
  <2>2. \A d \in Conns : once'[d] = "busy" => \E q \in Procs : InOnce(q)' /\ cur'[q] = d
    BY <1>4, <1>5, SMTT(60) DEF OnceInv, OthersStay
  <2> QED
    <3>1. /\ ~InOnce(p)'
          /\ \A q \in Procs \ {p} : InOnce(q)' => InOnce(q) /\ cur'[q] = cur[q] /\ once'[cur[q]] = once[cur[q]]
      BY <1>4, <1>5, <2>1, Zenon DEF OthersStay
    <3>2. /\ \A q \in Procs : InOnce(q) => once[cur[q]] = "busy"
          /\ \A q, r \in Procs : InOnce(q) /\ InOnce(r) /\ cur[q] = cur[r] => q = r
      BY Zenon DEF OnceInv
    <3>3. \A q \in Procs : InOnce(q)' => once'[cur'[q]] = "busy"
      BY <3>1, <3>2, ZenonT(90)
    <3>4. ASSUME NEW q \in Procs, NEW r \in Procs, InOnce(q)', InOnce(r)', cur'[q] = cur'[r] PROVE q = r
      BY <3>1, <3>2, <3>4, ZenonT(90)
    <3> QED
      BY <2>2, <3>3, <3>4, Zenon DEF OnceInv
<1>12. EvictInv'
  <2>1. \A d \in Conns : once'[d] = "new" => once[d] = "new"
    BY <1>2, <1>4, Zenon
  <2>2. \A d \in Conns : d < nextStreamID' - 1 => once'[d] # "new"
    BY <1>3, <2>1, Zenon DEF EvictInv
  <2>3. CASE p = AcceptLoop
    <3>1. /\ pc'[p] = "insert" => todo[p] = {} /\ job[p] = "evict"
          /\ job'[p] = "evict" => job[p] = "evict" /\ todo'[p] = todo[p]
      BY <1>1, <1>3, <2>3, Continuations, ZenonT(90) DEF LabelsInv, LabelOf
    <3> QED
      BY <1>5, <2>1, <2>2, <2>3, <3>1, AllocatedAre, ZenonT(90) DEF EvictInv
  <2>4. CASE p # AcceptLoop
    BY <1>4, <1>5, <2>1, <2>2, <2>4, AllocatedAre, ZenonT(90) DEF EvictInv, OthersStay
  <2> QED
    BY <2>3, <2>4, Zenon
<1>13. WireInv'
  <2>1. \A q \in Procs : Resetting(q)' => Resetting(q) /\ cur'[q] = cur[q]
    BY <1>4, <1>5, ZenonT(90) DEF InOnce, Resetting, OthersStay
  <2>2. \A d \in Allocated : once[d] # "new" => once'[d] # "new"
    BY <1>4, AllocatedAre, Zenon
  <2> QED
    BY <1>3, <1>4, <1>5, <2>1, <2>2, SMTT(60) DEF WireInv, Starting, OthersStay, history
<1>14. ControlFramesOnce'
  BY <1>3, Zenon DEF ControlFramesOnce, history
<1>15. OwnedInv'
  <2>1. ASSUME NEW d \in Allocated, pc'[d] = "done" PROVE once'[d] = "done"
    <3>1. d \in Conns /\ (d = cur[p] \/ once'[d] = once[d])
      BY <1>4, AllocatedAre, Zenon
    <3>2. CASE d = p
      BY <1>2, <1>4, <3>1, <3>2, Zenon
    <3>3. CASE d # p
      BY <1>4, <2>1, <3>1, <3>3 DEF OwnedInv, OthersStay
    <3> QED
      BY <3>2, <3>3, Zenon
  <2>2. ASSUME NEW d \in Allocated, pc'[d] = "idle", once'[d] = "new"
        PROVE  d = accepted /\ (Starting' \/ (job'[AcceptLoop] = "startFailed" /\ d \in todo'[AcceptLoop]))
    <3>1. d \in Conns /\ d # cur[p] /\ d # p
      BY <1>2, <1>4, <2>2, AllocatedAre, Zenon
    <3>2. pc[d] = "idle" /\ once[d] = "new"
      BY <1>4, <2>2, <3>1, Zenon DEF OthersStay
    <3>3. d = accepted /\ (Starting \/ (job[AcceptLoop] = "startFailed" /\ d \in todo[AcceptLoop]))
      BY <3>2, Zenon DEF OwnedInv
    <3> QED
      BY <1>3, <1>4, <1>5, <3>3, ZenonT(90) DEF OthersStay
  <2> QED
    BY <1>3, <1>5, <2>1, <2>2, Zenon DEF OwnedInv
<1>16. TerminateInv'
  <2>1. job[p] \in {"evict", "startFailed", "pumpEnd", "deliverFailed", "peerReset", "Close", "terminate"}
    BY <1>1, Zenon
  <2>2. p = Caller => job[p] \in {"Close", "terminate"}
    BY <1>1, Zenon DEF LabelsInv, LabelOf
  <2>3. InTerminate(p)' => InTerminate(p)
    BY <1>3, <2>1, Continuations, ZenonT(90) DEF InTerminate
  <2>4. p = Caller => pc'[p] \notin {"wait", "done"}
    BY <1>3, <2>2, Continuations, Zenon
  <2> QED
    BY <1>1, <1>3, <1>4, <2>3, <2>4, TerminateKept, ZenonT(90) DEF shared
<1> QED
  BY <1>6, <1>7, <1>8, <1>9, <1>10, <1>11, <1>12, <1>13, <1>14, <1>15, <1>16, ZenonT(90)
-----------------------------------------------------------------------------
(* Accept, insert and the sends.                                            *)

\* A new connection has no stream yet.
LEMMA AcceptKeeps ==
    ASSUME IInv, Accept
    PROVE  IInv'
<1> USE DEF IInv
<1>1. /\ pc[AcceptLoop] = "accept" /\ pc'[AcceptLoop] = "evict" /\ OthersStay(AcceptLoop)
      /\ accepted + 1 \in Conns /\ accepted' = accepted + 1
      /\ UNCHANGED <<shared, streams, nextStreamID, id, hup, once, cur, todo, job, frame, cause, history>>
  <2>1. accepted + 1 \in Conns
    <3>1. TypeOK /\ accepted < MaxConns
      BY Zenon DEF Accept
    <3> HIDE ProcsAre DEF IInv, Terminators, Labels, Jobs, Causes, FrameTypes
    <3> QED
      BY <3>1 DEF TypeOK, Conns
  <2>2. pc'[AcceptLoop] = "evict" /\ OthersStay(AcceptLoop)
    BY GotoMoves, ZenonT(90) DEF Accept, OthersStay
  <2> QED
    BY <2>1, <2>2, ZenonT(90) DEF Accept
<1>2. conn' = [conn EXCEPT ![accepted + 1] = "open"]
  BY Zenon DEF Accept
<1>3. /\ Allocated' = Allocated
      /\ \A q \in Procs : (InOnce(q)' <=> InOnce(q)) /\ (Resetting(q)' <=> Resetting(q))
      /\ ~BeforeInsert /\ BeforeInsert' /\ ~Starting /\ ~Starting' /\ job[AcceptLoop] = "none"
  BY <1>1, ZenonT(90) DEF Allocated, InOnce, Resetting, BeforeInsert, Starting, OthersStay, JobInv, JobOf
<1>4. TypeOK'
  <2>1. conn' \in [Conns -> {"none", "open", "closed"}] /\ accepted' \in 0 .. MaxConns
    <3>1. TypeOK
      BY Zenon
    <3> HIDE ProcsAre DEF IInv
    <3> QED
      BY <3>1, <1>1, <1>2, SMTT(60) DEF TypeOK, Conns
  <2>2. pc' \in [Procs -> Labels]
    BY GotoMoves, Zenon DEF Accept
  <2>3. TypeOK
    BY Zenon
  <2> HIDE ProcsAre DEF IInv, Terminators, Labels, Jobs, Causes, FrameTypes
  <2> QED
    BY <1>1, <2>1, <2>2, <2>3 DEF TypeOK, shared, history
<1>5. LabelsInv' /\ JobInv'
  <2> SUFFICES ASSUME NEW q \in Procs PROVE LabelOf(q)' /\ JobOf(q)'
    BY Zenon DEF LabelsInv, JobInv
  <2>1. LabelOf(q)'
    BY <1>1, <1>3, Zenon DEF LabelsInv, LabelOf, OthersStay
  <2>2. JobOf(q)'
    BY <1>1, <1>3, ZenonT(90) DEF JobInv, JobOf, OthersStay
  <2> QED
    BY <2>1, <2>2, Zenon
<1>6. IdsInv'
  BY <1>1, <1>3, Zenon DEF IdsInv, TypeOK
<1>7. MapInv'
  <2>1. accepted + 1 \notin Allocated
    <3>1. TypeOK /\ IdsInv
      BY Zenon
    <3> HIDE ProcsAre DEF IInv
    <3> QED
      BY <3>1, <1>1, <1>3, AllocatedAre, SMTT(60) DEF IdsInv, TypeOK
  <2>2. \A c \in Conns : conn'[c] = IF c > accepted' THEN "none"
                                    ELSE IF once'[c] = "done" THEN "closed" ELSE "open"
    <3>1. conn \in [Conns -> {"none", "open", "closed"}] /\ accepted \in 0 .. MaxConns
      BY Zenon DEF TypeOK
    <3>2. once' = once /\ accepted' = accepted + 1
      BY <1>1, Zenon
    <3>3. once[accepted + 1] # "done"
      BY <1>1, <2>1, Zenon DEF MapInv
    <3>4. \A c \in Conns : conn[c] = IF c > accepted THEN "none"
                                     ELSE IF once[c] = "done" THEN "closed" ELSE "open"
      BY Zenon DEF MapInv
    <3> HIDE ProcsAre DEF IInv
    <3> QED
      BY <1>2, <3>1, <3>2, <3>3, <3>4, SMTT(60) DEF Conns
  <2> QED
    BY <1>1, <1>3, <2>2, ZenonT(90) DEF MapInv, OthersStay
<1>8. FrameInv'
  BY <1>1, <1>3, ZenonT(90) DEF FrameInv, FrameOf, PumpOf, StartInv, DeliverInv, OthersStay, history
<1>9. OnceInv'
  BY <1>1, <1>3, ZenonT(90) DEF OnceInv
<1>10. EvictInv'
  BY <1>1, <1>3, Zenon DEF EvictInv
<1>11. WireInv' /\ ControlFramesOnce'
  BY <1>1, <1>3, ZenonT(90) DEF WireInv, ControlFramesOnce, history
<1>12. OwnedInv'
  BY <1>1, <1>3, AllocatedAre, ZenonT(90) DEF OwnedInv, OthersStay
<1>13. TerminateInv'
  BY <1>1, <1>3, TerminateKept, Zenon DEF InTerminate, shared
<1> QED
  BY <1>4, <1>5, <1>6, <1>7, <1>8, <1>9, <1>10, <1>11, <1>12, <1>13, ZenonT(90)

\* A new stream enters an empty map under a fresh id.
LEMMA InsertKeeps ==
    ASSUME IInv, Insert
    PROVE  IInv'
<1> USE DEF IInv
<1>1. pc[AcceptLoop] = "insert" /\ job[AcceptLoop] = "none" /\ BeforeInsert /\ ~Starting
  BY ZenonT(90) DEF Insert, JobInv, JobOf, InOnce, Resetting, BeforeInsert, Starting
<1>2. nextStreamID = accepted /\ accepted \in Conns /\ accepted \notin Allocated
  BY <1>1, AllocatedAre, SMTT(60) DEF IdsInv, TypeOK, Conns
<1>3. /\ nextStreamID' = nextStreamID + 1
      /\ id' = [id EXCEPT ![accepted] = accepted]
      /\ streams' = [streams EXCEPT ![accepted] = accepted]
      /\ cur' = [cur EXCEPT ![AcceptLoop] = accepted]
      /\ frame' = [frame EXCEPT ![AcceptLoop] = "STREAM_START"]
      /\ pc' \in [Procs -> Labels] /\ pc'[AcceptLoop] = "lock"
      /\ UNCHANGED <<shared, accepted, conn, hup, once, todo, job, cause, history>>
  BY <1>2, GotoMoves, Zenon DEF Insert
<1>4. /\ OthersStay(AcceptLoop)
      /\ cur'[AcceptLoop] = accepted /\ frame'[AcceptLoop] = "STREAM_START"
  BY <1>3, GotoMoves, ZenonT(90) DEF Insert, OthersStay, TypeOK
<1>5. /\ Allocated' = Allocated \cup {accepted}
      /\ \A q \in Procs : (InOnce(q)' <=> InOnce(q)) /\ (Resetting(q)' <=> Resetting(q)) /\ (InOnce(q) => q # AcceptLoop)
      /\ ~BeforeInsert' /\ Starting'
  <2>1. Allocated' = Allocated \cup {accepted}
    <3>1. TypeOK
      BY Zenon
    <3> HIDE ProcsAre DEF IInv, Terminators, Labels, Jobs, Causes, FrameTypes
    <3> QED
      BY <1>2, <1>3, <3>1 DEF Allocated, TypeOK, Conns
  <2>2. ~InOnce(AcceptLoop) /\ ~InOnce(AcceptLoop)' /\ ~BeforeInsert' /\ Starting'
    BY <1>1, <1>3, <1>4, ZenonT(90) DEF InOnce, Resetting, BeforeInsert, Starting
  <2>3. ASSUME NEW q \in Procs, q # AcceptLoop
        PROVE  (InOnce(q)' <=> InOnce(q)) /\ (Resetting(q)' <=> Resetting(q))
    BY <1>4, <2>3, ZenonT(90) DEF InOnce, Resetting, OthersStay
  <2> QED
    BY <2>1, <2>2, <2>3, ZenonT(90) DEF InOnce
<1>6. TypeOK'
  <2>1. id' \in [Conns -> Conns \cup {0}] /\ streams' \in [Conns -> Conns \cup {NoConn}]
    BY <1>2, <1>3, ZenonT(90) DEF TypeOK
  <2>2. cur' \in [Procs -> Conns \cup {NoConn}] /\ frame' \in [Procs -> FrameTypes]
    BY <1>2, <1>3, ZenonT(90) DEF TypeOK
  <2>3. nextStreamID' \in 1 .. MaxConns + 1
    <3>1. TypeOK
      BY Zenon
    <3> HIDE ProcsAre DEF IInv
    <3> QED
      BY <3>1, <1>2, <1>3, SMTT(60) DEF TypeOK, Conns
  <2>4. TypeOK
    BY Zenon
  <2> HIDE ProcsAre DEF IInv, Terminators, Labels, Jobs, Causes, FrameTypes
  <2> QED
    BY <1>3, <2>1, <2>2, <2>3, <2>4 DEF TypeOK, shared, history
<1>7. LabelsInv'
  <2> SUFFICES ASSUME NEW q \in Procs PROVE LabelOf(q)'
    BY Zenon DEF LabelsInv
  <2> QED
    BY <1>1, <1>3, <1>4, ZenonT(90) DEF LabelsInv, LabelOf, OthersStay
<1>8. JobInv'
  <2> SUFFICES ASSUME NEW q \in Procs PROVE JobOf(q)'
    BY Zenon DEF JobInv
  <2>1. q # AcceptLoop => JobOf(q)'
    BY <1>3, <1>4, <1>5, ZenonT(90) DEF JobInv, JobOf, OthersStay
  <2>2. q = AcceptLoop => JobOf(q)'
    BY <1>1, <1>3, <1>4, <1>5, Zenon DEF JobInv, JobOf
  <2> QED
    BY <2>1, <2>2, Zenon
<1>9. IdsInv'
  BY <1>2, <1>3, <1>5, ZenonT(90) DEF IdsInv, TypeOK
<1>10. MapInv'
  <2>1. TypeOK /\ MapInv
    BY Zenon
  <2> HIDE DEF IInv
  <2> QED
    BY <2>1, <1>2, <1>3, <1>4, <1>5, SMTT(60) DEF MapInv, OthersStay, TypeOK
<1>11. FrameInv'
  <2>1. \A q \in Procs : FrameOf(q)'
    <3> SUFFICES ASSUME NEW q \in Procs PROVE FrameOf(q)'
      BY Zenon
    <3>1. q # AcceptLoop => FrameOf(q)'
      BY <1>4, <1>5, ZenonT(90) DEF FrameInv, FrameOf, OthersStay
    <3>2. q = AcceptLoop => FrameOf(q)'
      BY <1>4, <1>5, Zenon DEF FrameOf
    <3> QED
      BY <3>1, <3>2, Zenon
  <2>2. \A c \in Conns : PumpOf(c)'
    BY <1>4, ZenonT(90) DEF FrameInv, PumpOf, OthersStay
  <2>3. StartInv'
    BY <1>2, <1>3, <1>4, ZenonT(90) DEF StartInv, MapInv, OthersStay
  <2>4. DeliverInv'
    BY <1>3, <1>4, <1>5, SMTT(60) DEF FrameInv, DeliverInv, OthersStay, history
  <2> QED
    BY <2>1, <2>2, <2>3, <2>4, Zenon DEF FrameInv
<1>12. OnceInv'
  <2>1. once' = once /\ \A q \in Procs : (InOnce(q)' <=> InOnce(q)) /\ (InOnce(q) => cur'[q] = cur[q])
    BY <1>3, <1>4, <1>5, Zenon DEF OthersStay
  <2> QED
    BY <2>1, ZenonT(90) DEF OnceInv
<1>13. EvictInv'
  <2>1. \A c \in Conns : c < nextStreamID' - 1 => c \in Allocated
    <3>1. TypeOK
      BY Zenon
    <3> HIDE ProcsAre DEF IInv, Terminators, Labels, Jobs, Causes, FrameTypes
    <3> QED
      BY <1>2, <1>3, <3>1 DEF Allocated, TypeOK, Conns
  <2> QED
    BY <1>1, <1>3, <2>1, ZenonT(90) DEF EvictInv
<1>14. WireInv'
  BY <1>2, <1>3, <1>4, <1>5, SMTT(60) DEF WireInv, OthersStay, history
<1>15. ControlFramesOnce'
  BY <1>3, ZenonT(90) DEF ControlFramesOnce, history
<1>16. OwnedInv'
  BY <1>1, <1>2, <1>3, <1>4, <1>5, AllocatedAre, SMTT(60) DEF OwnedInv, MapInv, OthersStay
<1>17. TerminateInv'
  BY <1>1, <1>3, <1>4, TerminateKept, ZenonT(90) DEF InTerminate, shared
<1> QED
  BY <1>6, <1>7, <1>8, <1>9, <1>10, <1>11, <1>12, <1>13, <1>14, <1>15, <1>16, <1>17, Zenon

\* A control frame sent for the first time is still on the wire only once.
LEMMA WireAppended ==
    ASSUME TypeOK, WireInv, ControlFramesOnce, Allocated' = Allocated, once' = once,
           NEW f \in [type : {"STREAM_START", "STREAM_RESET"}, id : Allocated, conn : Allocated],
           wire' = Append(wire, f),
           f.conn = f.id,
           f.type = "STREAM_START" => ~Starting' /\ Starting /\ cur[AcceptLoop] = f.id,
           f.type = "STREAM_RESET" =>
               /\ once[f.id] # "new"
               /\ \A p \in Procs : ~(Resetting(p)' /\ cur'[p] = f.id)
               /\ \E p \in Procs : Resetting(p) /\ cur[p] = f.id,
           \A p \in Procs : Resetting(p)' => Resetting(p) /\ cur'[p] = cur[p],
           Starting' => Starting /\ cur'[AcceptLoop] = cur[AcceptLoop]
    PROVE  WireInv' /\ ControlFramesOnce'
<1>1. \A k \in DOMAIN wire' : (k \in DOMAIN wire /\ wire'[k] = wire[k]) \/ (k = Len(wire) + 1 /\ wire'[k] = f)
  BY SMTT(60) DEF TypeOK
<1>2. WireInv'
  <2> SUFFICES ASSUME NEW k \in DOMAIN wire'
               PROVE  /\ wire'[k].id \in Allocated
                      /\ wire'[k].conn = wire'[k].id
                      /\ wire'[k].type # "DATA"
                      /\ wire'[k].type = "STREAM_START" => ~(Starting' /\ cur'[AcceptLoop] = wire'[k].id)
                      /\ wire'[k].type = "STREAM_RESET" =>
                            /\ once[wire'[k].id] # "new"
                            /\ \A p \in Procs : ~(Resetting(p)' /\ cur'[p] = wire'[k].id)
    BY ZenonT(90) DEF WireInv
  <2> QED
    BY <1>1, SMTT(60) DEF WireInv
<1>3. \A k \in DOMAIN wire : ~(wire[k].type = f.type /\ wire[k].id = f.id)
  <2> SUFFICES ASSUME NEW k \in DOMAIN wire, wire[k].type = f.type, wire[k].id = f.id PROVE FALSE
    BY Zenon
  <2>1. CASE f.type = "STREAM_START"
    BY <2>1, ZenonT(90) DEF WireInv
  <2>2. CASE f.type = "STREAM_RESET"
    <3>1. PICK p \in Procs : Resetting(p) /\ cur[p] = f.id
      BY <2>2, Zenon
    <3>2. ~(Resetting(p) /\ cur[p] = wire[k].id)
      BY <2>2, ZenonT(90) DEF WireInv
    <3> QED
      BY <3>1, <3>2, Zenon
  <2> QED
    BY <2>1, <2>2
<1>4. ControlFramesOnce'
  BY <1>1, <1>3, SMTT(60) DEF ControlFramesOnce
<1> QED
  BY <1>2, <1>4, ZenonT(90)

\* A STREAM_RESET is sent from inside closeOnce.
LEMMA ResetSentKeeps ==
    ASSUME IInv, NEW p \in Procs, ResetSent(p)
    PROVE  IInv'
<1> USE DEF IInv
<1>1. /\ pc[p] = "send" /\ frame[p] = "STREAM_RESET" /\ pc'[p] = "hangup" /\ OthersStay(p)
      /\ wire' = OnWire(p)
      /\ UNCHANGED <<term, listener, ws, table, cur, todo, job, frame, owner>>
  BY GotoMoves, ZenonT(90) DEF ResetSent, Write, OthersStay
<1>2. InOnce(p) /\ Resetting(p) /\ cur[p] \in Allocated /\ cur[p] \in Conns /\ id[cur[p]] = cur[p] /\ once[cur[p]] = "busy"
  <2>1. InOnce(p) /\ Resetting(p)
    BY <1>1, Zenon DEF InOnce, Resetting, FrameInv, FrameOf
  <2>2. cur[p] \in Allocated
    BY <2>1, Zenon DEF FrameInv, FrameOf
  <2>3. once[cur[p]] = "busy"
    BY <2>1, <2>2, AllocatedAre, ZenonT(90) DEF OnceInv
  <2> QED
    BY <2>1, <2>2, <2>3, AllocatedAre, Zenon DEF IdsInv
<1> DEFINE f == [type |-> "STREAM_RESET", id |-> cur[p], conn |-> cur[p]]
<1>3. /\ Allocated' = Allocated /\ once' = once
      /\ \A q \in Procs : InOnce(q)' <=> InOnce(q)
      /\ \A q \in Procs : Resetting(q)' => Resetting(q) /\ q # p
      /\ Starting' <=> Starting
      /\ BeforeInsert' <=> BeforeInsert
  BY <1>1, <1>2, ZenonT(90) DEF Allocated, table, InOnce, Resetting, Starting, BeforeInsert, OthersStay
<1>4. WireInv' /\ ControlFramesOnce'
  <2>1. wire' = Append(wire, f)
    BY <1>1, <1>2, Zenon DEF OnWire
  <2>2. \A q \in Procs : ~(Resetting(q)' /\ cur'[q] = cur[p])
    BY <1>1, <1>2, <1>3, ZenonT(90) DEF OnceInv, InOnce
  <2> QED
    BY <1>1, <1>2, <1>3, <2>1, <2>2, WireAppended, Zenon
<1>5. TypeOK'
  <2>1. wire' \in Seq([type : FrameTypes, id : Conns, conn : Conns])
    BY <1>1, <1>2, SMTT(60) DEF OnWire, TypeOK
  <2>2. pc' \in [Procs -> Labels] /\ TypeOK
    BY GotoMoves, Zenon DEF ResetSent
  <2> HIDE ProcsAre DEF IInv, Terminators, Labels, Jobs, Causes, FrameTypes
  <2> QED
    BY <2>1, <2>2 DEF ResetSent, Write, TypeOK, table
<1>6. LabelsInv' /\ JobInv'
  <2> SUFFICES ASSUME NEW q \in Procs PROVE LabelOf(q)' /\ JobOf(q)'
    BY Zenon DEF LabelsInv, JobInv
  <2>1. q # p => LabelOf(q)'
    BY <1>1, <1>3, ZenonT(90) DEF LabelsInv, LabelOf, OthersStay
  <2>2. LabelOf(p)'
    BY <1>1, <1>3, ZenonT(90) DEF LabelsInv, LabelOf
  <2>3. q # p => JobOf(q)'
    BY <1>1, <1>3, ZenonT(90) DEF JobInv, JobOf, OthersStay
  <2>4. JobOf(p)'
    BY <1>1, <1>2, <1>3, Zenon DEF JobInv, JobOf
  <2> QED
    BY <2>1, <2>2, <2>3, <2>4, ZenonT(90)
<1>7. IdsInv' /\ MapInv'
  <2>1. IdsInv'
    BY <1>1, <1>3, Zenon DEF IdsInv, table
  <2>2. \A c \in Conns : c \notin Allocated => pc'[c] = "idle"
    BY <1>1, ZenonT(90) DEF MapInv, OthersStay
  <2>3. MapInv'
    BY <1>1, <1>3, <2>2, ZenonT(90) DEF MapInv, table
  <2> QED
    BY <2>1, <2>3, Zenon
<1>8. FrameInv'
  BY <1>1, <1>3, ZenonT(90) DEF FrameInv, FrameOf, PumpOf, StartInv, DeliverInv, OthersStay, table
<1>9. OnceInv' /\ EvictInv'
  <2>1. OnceInv /\ EvictInv
    BY Zenon
  <2>2. cur' = cur /\ todo' = todo /\ job' = job /\ nextStreamID' = nextStreamID
    BY <1>1, Zenon DEF table
  <2>3. pc'[AcceptLoop] = "insert" => pc[AcceptLoop] = "insert"
    BY <1>1, Zenon DEF OthersStay
  <2> HIDE DEF IInv
  <2>4. OnceInv'
    BY <1>3, <2>1, <2>2, ZenonT(90) DEF OnceInv
  <2>5. EvictInv'
    BY <1>3, <2>1, <2>2, <2>3, ZenonT(90) DEF EvictInv
  <2> QED
    BY <2>4, <2>5, Zenon
<1>10. OwnedInv'
  <2>1. \A c \in Allocated : c = p \/ pc'[c] = pc[c]
    BY <1>1, AllocatedAre, Zenon DEF OthersStay
  <2> QED
    BY <1>1, <1>3, <2>1, AllocatedAre, ZenonT(90) DEF OwnedInv, table
<1>11. TerminateInv'
  BY <1>1, TerminateKept, Zenon DEF InTerminate
<1> QED
  BY <1>4, <1>5, <1>6, <1>7, <1>8, <1>9, <1>10, <1>11, ZenonT(90)

\* With the STREAM_START out the pump owns the stream.
LEMMA StartSentKeeps ==
    ASSUME IInv, NEW p \in Procs, StartSent(p)
    PROVE  IInv'
<1> USE DEF IInv
<1>1. /\ p = AcceptLoop /\ pc[AcceptLoop] = "send" /\ Starting /\ job[AcceptLoop] = "none"
      /\ cur[AcceptLoop] = accepted /\ accepted \in Conns /\ pc[accepted] = "idle"
  BY Zenon DEF StartSent, Write, FrameInv, FrameOf, StartInv, Starting, JobInv, JobOf, InOnce, Resetting
<1>2. accepted \in Allocated /\ id[accepted] = accepted /\ frame[accepted] = "DATA"
  <2>1. ~BeforeInsert /\ frame[accepted] = "DATA"
    BY <1>1, ZenonT(90) DEF BeforeInsert, FrameInv, PumpOf
  <2>2. nextStreamID = accepted + 1 /\ accepted \in Nat
    BY <2>1 DEF IdsInv, TypeOK
  <2>3. accepted \in Allocated
    BY <1>1, <2>2, AllocatedAre
  <2> QED
    BY <1>1, <2>1, <2>3, Zenon DEF IdsInv
<1>3. /\ pc' = [pc EXCEPT ![AcceptLoop] = "accept", ![accepted] = "recv"]
      /\ cur' = [cur EXCEPT ![AcceptLoop] = NoConn, ![accepted] = accepted]
      /\ frame' = [frame EXCEPT ![AcceptLoop] = "DATA"]
      /\ wire' = OnWire(AcceptLoop)
      /\ writeMu' = NoProc
      /\ UNCHANGED <<ctxDone, listener, ws, term, terminateErr, table, todo, job, cause, owner>>
  BY <1>1, ZenonT(90) DEF StartSent, Write
<1>4. /\ pc'[AcceptLoop] = "accept" /\ cur'[AcceptLoop] = NoConn /\ frame'[AcceptLoop] = "DATA"
      /\ pc'[accepted] = "recv" /\ cur'[accepted] = accepted /\ frame'[accepted] = "DATA"
      /\ \A q \in Procs \ {AcceptLoop, accepted} : pc'[q] = pc[q] /\ cur'[q] = cur[q] /\ frame'[q] = frame[q]
      /\ UNCHANGED <<term, listener, ws, table, todo, job, owner>>
  BY <1>1, <1>2, <1>3, ZenonT(90) DEF TypeOK
<1>5. /\ Allocated' = Allocated /\ once' = once
      /\ \A q \in Procs : InOnce(q)' <=> InOnce(q)
      /\ \A q \in Procs : InOnce(q) => cur'[q] = cur[q]
      /\ \A q \in Procs : Resetting(q)' => Resetting(q)
      /\ ~Starting' /\ ~BeforeInsert /\ ~BeforeInsert'
  BY <1>1, <1>4, ZenonT(90) DEF Allocated, table, InOnce, Resetting, Starting, BeforeInsert
<1>6. WireInv' /\ ControlFramesOnce'
  <2> DEFINE f == [type |-> "STREAM_START", id |-> accepted, conn |-> accepted]
  <2>1. wire' = Append(wire, f)
    BY <1>1, <1>2, <1>3, Zenon DEF OnWire, Starting
  <2>2. \A q \in Procs : Resetting(q)' => Resetting(q) /\ cur'[q] = cur[q]
    BY <1>5, Zenon DEF InOnce
  <2> QED
    BY <1>1, <1>2, <1>5, <2>1, <2>2, WireAppended, Zenon
<1>7. TypeOK'
  <2>1. wire' \in Seq([type : FrameTypes, id : Conns, conn : Conns])
    BY <1>1, <1>2, <1>3, SMTT(60) DEF OnWire, TypeOK
  <2>2. pc' \in [Procs -> Labels] /\ cur' \in [Procs -> Conns \cup {NoConn}] /\ frame' \in [Procs -> FrameTypes]
    BY <1>1, <1>3, ZenonT(90) DEF TypeOK
  <2>3. writeMu' = NoProc /\ UNCHANGED <<ctxDone, listener, ws, term, terminateErr, table, todo, job, cause, owner>>
    BY <1>3, Zenon
  <2>4. TypeOK
    BY Zenon
  <2> HIDE ProcsAre DEF IInv, Terminators, Labels, Jobs, Causes, FrameTypes
  <2> QED
    BY <2>1, <2>2, <2>3, <2>4 DEF TypeOK, table
<1>8. LabelsInv'
  <2> SUFFICES ASSUME NEW q \in Procs PROVE LabelOf(q)'
    BY Zenon DEF LabelsInv
  <2>1. q \notin {AcceptLoop, accepted} => LabelOf(q)'
    BY <1>4, Zenon DEF LabelsInv, LabelOf
  <2>2. q = AcceptLoop => LabelOf(q)'
    BY <1>1, <1>4, ZenonT(90) DEF LabelsInv, LabelOf
  <2>3. q = accepted => LabelOf(q)'
    BY <1>1, <1>4, ZenonT(90) DEF LabelsInv, LabelOf
  <2> QED
    BY <2>1, <2>2, <2>3, Zenon
<1>9. JobInv'
  <2> SUFFICES ASSUME NEW q \in Procs PROVE JobOf(q)'
    BY Zenon DEF JobInv
  <2>1. q \notin {AcceptLoop, accepted} => JobOf(q)'
    BY <1>4, <1>5, ZenonT(90) DEF JobInv, JobOf
  <2>2. q = AcceptLoop => JobOf(q)'
    BY <1>1, <1>4, <1>5, ZenonT(90) DEF JobInv, JobOf
  <2>3. q = accepted => JobOf(q)'
    BY <1>1, <1>4, <1>5, ZenonT(90) DEF JobInv, JobOf
  <2> QED
    BY <2>1, <2>2, <2>3, Zenon
<1>10. IdsInv' /\ MapInv'
  BY <1>1, <1>2, <1>4, <1>5, SMTT(60) DEF IdsInv, MapInv, table
<1>11. FrameInv'
  <2>1. \A q \in Procs : FrameOf(q)'
    <3> SUFFICES ASSUME NEW q \in Procs PROVE FrameOf(q)'
      BY Zenon
    <3>1. q \notin {AcceptLoop, accepted} => FrameOf(q)'
      BY <1>4, <1>5, ZenonT(90) DEF FrameInv, FrameOf
    <3>2. ASSUME q \in {AcceptLoop, accepted} PROVE FrameOf(q)'
      <4>1. pc'[q] \notin {"hangup", "lock", "send"}
        BY <1>4, <3>2, Zenon
      <4> QED
        BY <4>1, Zenon DEF FrameOf, InOnce, Resetting
    <3> QED
      BY <3>1, <3>2, Zenon
  <2>2. \A c \in Conns : PumpOf(c)'
    BY <1>4, Zenon DEF FrameInv, PumpOf
  <2>3. DeliverInv'
    BY <1>1, <1>4, <1>5, ZenonT(90) DEF FrameInv, DeliverInv
  <2> QED
    BY <1>5, <2>1, <2>2, <2>3, ZenonT(90) DEF FrameInv, StartInv
<1>12. OnceInv' /\ EvictInv'
  <2>1. OnceInv'
    BY <1>5, ZenonT(90) DEF OnceInv
  <2>2. EvictInv'
    BY <1>1, <1>4, <1>5, ZenonT(150) DEF EvictInv, table
  <2> QED
    BY <2>1, <2>2, Zenon
<1>13. OwnedInv'
  BY <1>1, <1>4, <1>5, AllocatedAre, SMTT(60) DEF OwnedInv, table
<1>14. TerminateInv'
  BY <1>1, <1>4, ZenonT(90) DEF TerminateInv, InTerminate, Running
<1> QED
  BY <1>6, <1>7, <1>8, <1>9, <1>10, <1>11, <1>12, <1>13, <1>14, ZenonT(90)

-----------------------------------------------------------------------------
(* The environment changes nothing the invariant relates but the WebSocket. *)

\* A cancelled context, a lost WebSocket and a client that leaves keep it.
LEMMA EnvironmentKeeps ==
    ASSUME IInv, CancelCtx \/ WsAbort \/ WsLost \/ \E c \in Conns : ClientHangup(c)
    PROVE  IInv'
<1> USE DEF IInv
<1>1. /\ UNCHANGED <<listener, term, terminateErr, writeMu, streams, nextStreamID, accepted, id, conn, once,
                     locals, history>>
      /\ ws' \in {ws, "closed"} \/ (ws = "open" /\ ws' = "lost")
      /\ ctxDone' \in BOOLEAN /\ hup' \in SUBSET Conns
  BY ZenonT(90) DEF CancelCtx, WsAbort, WsLost, ClientHangup, shared, table, TypeOK
<1>2. TypeOK'
  <2>1. TypeOK
    BY Zenon
  <2> HIDE ProcsAre DEF IInv, Terminators, Labels, Jobs, Causes, FrameTypes
  <2> QED
    BY <1>1, <2>1 DEF TypeOK, locals, history
<1>3. /\ Allocated' = Allocated /\ BeforeInsert' = BeforeInsert /\ Starting' = Starting
      /\ \A p : InOnce(p)' = InOnce(p) /\ Resetting(p)' = Resetting(p)
  BY <1>1, Zenon DEF Allocated, BeforeInsert, Starting, InOnce, Resetting, locals
<1>4. LabelsInv' /\ IdsInv' /\ MapInv' /\ JobInv'
  BY <1>1, <1>3, ZenonT(90) DEF LabelsInv, LabelOf, IdsInv, MapInv, JobInv, JobOf, locals
<1>5. FrameInv' /\ OnceInv' /\ EvictInv'
  BY <1>1, <1>3, ZenonT(90) DEF FrameInv, FrameOf, PumpOf, StartInv, DeliverInv, OnceInv, EvictInv, locals, history
<1>6. WireInv' /\ ControlFramesOnce' /\ OwnedInv'
  BY <1>1, <1>3, ZenonT(90) DEF WireInv, ControlFramesOnce, OwnedInv, locals, history
<1>7. TerminateInv'
  BY <1>1, Zenon DEF TerminateInv, InTerminate, Running, locals
<1> QED
  BY <1>2, <1>4, <1>5, <1>6, <1>7, Zenon
-----------------------------------------------------------------------------
(* The invariant, and what it gives.                                        *)

\* StartSourceProxy establishes the invariant.
LEMMA InitIInv == Init => IInv
<1> SUFFICES ASSUME Init PROVE IInv
  BY Zenon
<1>1. /\ Allocated = {}
      /\ pc[ReadLoop] = "next" /\ pc[AcceptLoop] = "accept" /\ pc[Caller] = "ready"
      /\ \A c \in Conns : pc[c] = "idle"
      /\ pc \in [Procs -> Labels]
  BY SMTT(60) DEF Init, Allocated
<1>2. \A p \in Procs : /\ cur[p] = NoConn /\ todo[p] = {} /\ job[p] = "none" /\ frame[p] = "DATA"
                       /\ ~InOnce(p) /\ ~InTerminate(p) /\ pc[p] # "close"
  BY <1>1, ZenonT(90) DEF Init, InOnce, InTerminate, Resetting
<1>3. TypeOK
  <2>1. /\ streams \in [Conns -> Conns \cup {NoConn}] /\ id \in [Conns -> Conns \cup {0}]
        /\ conn \in [Conns -> {"none", "open", "closed"}] /\ once \in [Conns -> {"new", "busy", "done"}]
    BY Zenon DEF Init
  <2>2. /\ cur \in [Procs -> Conns \cup {NoConn}] /\ todo \in [Procs -> SUBSET Conns]
        /\ job \in [Procs -> Jobs \cup {"none"}] /\ frame \in [Procs -> FrameTypes]
    BY Zenon DEF Init
  <2>3. wire \in Seq([type : FrameTypes, id : Conns, conn : Conns])
    BY SMTT(60) DEF Init
  <2>4. /\ ctxDone \in BOOLEAN /\ listener \in {"open", "closed"} /\ ws \in {"open", "lost", "closed"}
        /\ term \in {"new", "busy", "done"} /\ terminateErr \in Causes /\ cause \in Causes
        /\ writeMu \in Procs \cup {NoProc} /\ hup \in SUBSET Conns /\ owner \in Conns \cup {NoConn}
    BY Zenon DEF Init
  <2>5. nextStreamID \in 1 .. MaxConns + 1 /\ accepted \in 0 .. MaxConns
    BY SMTT(60) DEF Init
  <2> QED
    BY <1>1, <2>1, <2>2, <2>3, <2>4, <2>5, Zenon DEF TypeOK
<1>4. LabelsInv /\ JobInv /\ FrameInv
  BY <1>1, <1>2, ZenonT(90) DEF LabelsInv, LabelOf, JobInv, JobOf, FrameInv, FrameOf, PumpOf, StartInv, DeliverInv, Starting
<1>5. IdsInv /\ MapInv /\ OwnedInv
  BY <1>1, <1>2, SMTT(60) DEF Init, IdsInv, MapInv, OwnedInv, BeforeInsert, Conns
<1>6. OnceInv /\ WireInv /\ ControlFramesOnce
  <2>1. OnceInv
    <3>1. \A c \in Conns : once[c] = "new"
      BY Zenon DEF Init
    <3> QED
      BY <1>2, <3>1, Zenon DEF OnceInv
  <2>2. DOMAIN wire = {}
    BY SMTT(60) DEF Init
  <2> QED
    BY <2>1, <2>2, Zenon DEF WireInv, ControlFramesOnce
<1>8. EvictInv
  BY <1>1, <1>2, SMTT(60) DEF Init, EvictInv, Conns
<1>7. TerminateInv
  BY <1>1, <1>2, ZenonT(90) DEF Init, TerminateInv
<1> QED
  BY <1>3, <1>4, <1>5, <1>6, <1>7, <1>8, Zenon DEF IInv

\* Every step of every goroutine keeps the invariant.
LEMMA NextIInv == IInv /\ [Next]_vars => IInv'
<1> SUFFICES ASSUME IInv, [Next]_vars PROVE IInv'
  BY Zenon
<1>1. ASSUME NEW p \in Procs, Runnable(p) PROVE IInv'
  <2>1. CASE CloseStep(p)
    BY <2>1, CloseSkipKeeps, CloseEnterKeeps, HangupKeeps, Zenon DEF CloseStep
  <2>2. CASE Lock(p) \/ SendFail(p)
    BY <2>2, LockKeeps, StartFailedKeeps, PumpEndKeeps, ResetFailedKeeps, Zenon DEF SendFail
  <2>3. CASE p \in Terminators /\ TerminateStep(p)
    BY <2>3, TerminateLeaveKeeps, TerminateEnterKeeps, SnapshotKeeps, Zenon DEF TerminateStep
  <2>4. CASE p \in Conns /\ RecvEnd(p)
    BY <2>4, PumpEndKeeps, Zenon
  <2>5. CASE p = AcceptLoop /\ ((listener = "closed" /\ AcceptFail) \/ Evict \/ Insert)
    BY <2>5, AcceptFailKeeps, EvictKeeps, InsertKeeps, Zenon
  <2>6. CASE p = ReadLoop /\ (DeliverFail \/ \E why \in Causes : ReadFail(why))
    BY <2>6, ReadLoopCloses, ReadEndKeeps, Zenon
  <2>7. CASE p = Caller /\ Wait
    BY <2>7, WaitKeeps, Zenon
  <2> QED
    BY <1>1, <2>1, <2>2, <2>3, <2>4, <2>5, <2>6, <2>7, ZenonT(90) DEF Runnable
<1>2. ASSUME NEW p \in Procs, SendOk(p) PROVE IInv'
  BY <1>2, StartSentKeeps, DataSentKeeps, ResetSentKeeps, Zenon DEF SendOk
<1>3. CASE Accept \/ AcceptFail \/ Close
  BY <1>3, AcceptKeeps, AcceptFailKeeps, SnapshotKeeps, Zenon
<1>4. CASE \E c \in Conns : RecvData(c)
  BY <1>4, RecvDataKeeps, Zenon
<1>5. CASE DeliverOk \/ \E c \in Started : ReceiveData(c) \/ ReceiveReset(c)
  BY <1>5, DataKeeps, ReadLoopCloses, Zenon
<1>6. CASE \E why \in Causes : ReceiveFatal(why)
  BY <1>6, ReadEndKeeps, Zenon
<1>7. CASE CancelCtx \/ WsAbort \/ WsLost \/ \E c \in Conns : ClientHangup(c)
  BY <1>7, EnvironmentKeeps, ZenonT(90)
<1>8. CASE UNCHANGED vars
  <2>1. UNCHANGED shared /\ UNCHANGED table /\ UNCHANGED locals /\ UNCHANGED history
    BY <1>8, ZenonT(90) DEF vars
  <2>2. TypeOK'
    BY <2>1 DEF IInv, TypeOK, shared, table, locals, history
  <2>3. LabelsInv'
    BY <2>1, ZenonT(90) DEF IInv, LabelsInv, LabelOf, locals
  <2>4. IdsInv' /\ MapInv'
    BY <2>1 DEF IInv, IdsInv, MapInv, Allocated, BeforeInsert, table, locals
  <2>5. JobInv'
    BY <2>1, ZenonT(90) DEF IInv, JobInv, JobOf, Allocated, InOnce, Resetting, table, locals
  <2>6. FrameInv'
    BY <2>1, ZenonT(90) DEF IInv, FrameInv, FrameOf, PumpOf, StartInv, DeliverInv, Allocated, Starting,
                       InOnce, Resetting, table, locals, history
  <2>7. OnceInv'
    <3>1. OnceInv
      BY Zenon DEF IInv
    <3>2. \A p \in Procs : InOnce(p)' <=> InOnce(p)
      BY <2>1, Zenon DEF InOnce, Resetting, locals
    <3> QED
      BY <2>1, <3>1, <3>2, ZenonT(90) DEF OnceInv, table, locals
  <2>8. EvictInv' /\ OwnedInv'
    <3>1. EvictInv /\ OwnedInv
      BY Zenon DEF IInv
    <3>2. Allocated' = Allocated /\ (Starting' <=> Starting)
      BY <2>1, Zenon DEF Allocated, Starting, table, locals
    <3>3. EvictInv'
      BY <2>1, <3>1, <3>2, Zenon DEF EvictInv, table, locals
    <3>4. OwnedInv'
      BY <2>1, <3>1, <3>2, ZenonT(90) DEF OwnedInv, table, locals
    <3> QED
      BY <3>3, <3>4, Zenon
  <2>9. WireInv' /\ ControlFramesOnce'
    BY <2>1 DEF IInv, WireInv, ControlFramesOnce, Allocated, Starting, Resetting, table, locals, history
  <2>10. TerminateInv'
    BY <2>1, Zenon DEF IInv, TerminateInv, InTerminate, Running, shared, locals
  <2> QED
    BY <2>2, <2>3, <2>4, <2>5, <2>6, <2>7, <2>8, <2>9, <2>10, ZenonT(90) DEF IInv
<1> QED
  BY <1>1, <1>2, <1>3, <1>4, <1>5, <1>6, <1>7, <1>8, ZenonT(90) DEF Next, Finished

\* IInv is an invariant of the source proxy.
THEOREM Invariance == Spec => []IInv
BY InitIInv, NextIInv, PTL DEF Spec

\* The state keeps its shape: in particular nextStreamID never runs past the
\* connections accepted and only frames of allocated ids reach the wire.
THEOREM TypeCorrect == Spec => []TypeOK
<1>1. IInv => TypeOK
  BY ZenonT(90) DEF IInv
<1> QED
  BY <1>1, Invariance, PTL

\* The stream map never holds two streams: eviction before each insert is
\* enough, for any number of connections and any interleaving.
THEOREM SingleActive == Spec => []SingleActiveStream
<1>1. IInv => SingleActiveStream
  <2> SUFFICES ASSUME IInv, NEW i \in Conns, NEW j \in Conns, streams[i] # NoConn, streams[j] # NoConn
               PROVE  i = j
    BY Zenon DEF SingleActiveStream
  <2>1. /\ i \in Allocated /\ once[i] = "new"
        /\ j \in Allocated /\ once[j] = "new"
    BY Zenon DEF IInv, MapInv
  <2> QED
    BY <2>1, SMTT(60) DEF IInv, EvictInv, Allocated, TypeOK, Conns
<1> QED
  BY <1>1, Invariance, PTL

\* No control frame is sent twice for a stream id.
THEOREM ControlOnce == Spec => []ControlFramesOnce
<1>1. IInv => ControlFramesOnce
  BY Zenon DEF IInv
<1> QED
  BY <1>1, Invariance, PTL

\* A payload is written to the connection it was sent for, or to none.
THEOREM CrossTalkFree == Spec => []NoCrossTalk
<1>1. IInv => NoCrossTalk
  BY Zenon DEF IInv, FrameInv, DeliverInv, NoCrossTalk
<1> QED
  BY <1>1, Invariance, PTL

\* When Wait has returned the listener, the WebSocket, the map and every
\* connection ever accepted are closed.
THEOREM CleanExit == Spec => []NothingLeftBehind
<1>1. IInv => NothingLeftBehind
  <2> SUFFICES ASSUME IInv, pc[Caller] = "done" PROVE NothingLeftBehind
    BY Zenon DEF NothingLeftBehind
  <2>1. term = "done" /\ listener = "closed" /\ ws = "closed" /\ Running = {}
    BY Zenon DEF IInv, TerminateInv
  <2>2. \A p \in Procs : p # Caller => pc[p] \in {"idle", "done"}
    BY <2>1, Zenon DEF Running
  <2>3. \A c \in Allocated : once[c] = "done"
    <3> SUFFICES ASSUME NEW c \in Allocated PROVE once[c] = "done"
      BY Zenon
    <3>1. c \in Conns /\ pc[c] \in {"idle", "done"}
      BY <2>2, AllocatedAre, Zenon DEF IInv
    <3>2. once[c] # "busy"
      BY <2>2, <3>1, ZenonT(90) DEF IInv, OnceInv, InOnce, Resetting
    <3>3. once[c] # "new"
      BY <2>2, <3>1, ZenonT(90) DEF IInv, OwnedInv, Starting, JobInv, JobOf, InOnce, Resetting
    <3> QED
      BY <3>1, <3>2, <3>3, ZenonT(90) DEF IInv, TypeOK
  <2>4. nextStreamID = accepted + 1
    BY <2>2, Zenon DEF IInv, IdsInv, BeforeInsert, JobInv, JobOf, InOnce, Resetting
  <2>5. OpenStreams = {}
    BY <2>3, OpenStreamsAre, ZenonT(90) DEF IInv
  <2>6. \A c \in 1 .. accepted : conn[c] = "closed"
    BY <2>3, <2>4, SMTT(60) DEF IInv, MapInv, Allocated, TypeOK, Conns
  <2> QED
    BY <2>1, <2>5, <2>6, Zenon DEF NothingLeftBehind
<1> QED
  BY <1>1, Invariance, PTL

\* A cause is recorded only when terminateOnce runs.
CauseInv == term = "new" => terminateErr = "none"

\* Only TerminateEnter writes terminateErr, and terminateOnce is never new again.
LEMMA OnlyTerminateEnterRecords ==
    ASSUME [Next]_vars
    PROVE  \/ UNCHANGED <<term, terminateErr>>
           \/ terminateErr' = terminateErr /\ term' = "done"
           \/ term = "new" /\ term' = "busy"
<1>1. ASSUME NEW p \in Procs, Runnable(p) \/ SendOk(p)
      PROVE  \/ UNCHANGED <<term, terminateErr>>
             \/ terminateErr' = terminateErr /\ term' = "done"
             \/ term = "new" /\ term' = "busy"
  <2>1. CASE CloseStep(p) \/ Lock(p)
    BY <2>1, Zenon DEF CloseStep, CloseSkip, CloseEnter, Hangup, Lock, shared
  <2>2. CASE SendFail(p) \/ SendOk(p)
    BY <2>2, Zenon DEF SendFail, StartFailed, DataFailed, ResetFailed, WriteFail, SendOk, StartSent, DataSent, ResetSent, Write
  <2>3. CASE TerminateStep(p)
    BY <2>3, Zenon DEF TerminateStep, TerminateSkip, TerminateEnter, TerminateSnapshot, TerminateWs, shared
  <2>4. CASE RecvEnd(p) \/ AcceptFail \/ Evict \/ Insert \/ DeliverFail \/ (\E why \in Causes : ReadFail(why)) \/ Wait
    BY <2>4, Zenon DEF RecvEnd, AcceptFail, Evict, Insert, DeliverFail, ReadFail, Wait, shared
  <2> QED
    BY <1>1, <2>1, <2>2, <2>3, <2>4, ZenonT(90) DEF Runnable
<1>2. CASE Accept \/ AcceptFail \/ Close \/ \E c \in Conns : RecvData(c) \/ ClientHangup(c)
  BY <1>2, Zenon DEF Accept, AcceptFail, Close, RecvData, ClientHangup, shared
<1>3. CASE DeliverOk \/ (\E c \in Started : ReceiveData(c) \/ ReceiveReset(c)) \/ \E why \in Causes : ReceiveFatal(why)
  BY <1>3, Zenon DEF DeliverOk, ReceiveData, ReceiveReset, ReceiveFatal, shared
<1>4. CASE CancelCtx \/ WsAbort \/ WsLost \/ UNCHANGED vars
  BY <1>4, Zenon DEF CancelCtx, WsAbort, WsLost, vars, shared
<1> QED
  BY <1>1, <1>2, <1>3, <1>4, ZenonT(90) DEF Next, Finished

\* The first cause recorded stays: Wait reports what ended the session.
THEOREM FirstCause == Spec => FirstCauseStays
<1>1. Init => CauseInv
  BY Zenon DEF Init, CauseInv
<1>2. CauseInv /\ [Next]_vars => CauseInv'
  BY OnlyTerminateEnterRecords, Zenon DEF CauseInv
<1>3. CauseInv /\ [Next]_vars => [terminateErr # "none" => terminateErr' = terminateErr]_vars
  BY OnlyTerminateEnterRecords, Zenon DEF CauseInv
<1> QED
  BY <1>1, <1>2, <1>3, PTL DEF Spec, FirstCauseStays
=============================================================================
