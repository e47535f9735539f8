---------------------------- MODULE SourceProxy ----------------------------
(***************************************************************************)
(* The source side of an AWS IoT secure tunnel (internal/securetunnel):    *)
(* one goroutine reads the WebSocket, one accepts loopback connections,    *)
(* one pump per accepted connection copies its bytes to the WebSocket, and *)
(* the CLI calls Close and Wait from a goroutine of its own.               *)
(*                                                                         *)
(* One step is what a goroutine does between two points at which another   *)
(* goroutine can act: a streamsMu section, the acquisition of writeMu, a   *)
(* WebSocket or TCP call, the entry of a sync.Once.  A goroutine that      *)
(* finds a Once in progress, or writeMu taken, has no step until it is     *)
(* free.  closeStream, emitFrame and terminate are called from several     *)
(* goroutines, so their steps take the goroutine as a parameter and `job`  *)
(* holds why a goroutine is in closeStream.                                *)
(***************************************************************************)
EXTENDS Integers, Sequences, FiniteSets

CONSTANTS
    MaxConns,          \* loopback connections accepted in a behaviour
    WriteAfterCancel   \* may a WebSocket write that starts after its context
                       \* was cancelled still complete?

ASSUME SourceProxyAssumption ==
    /\ MaxConns \in Nat
    /\ WriteAfterCancel \in BOOLEAN

Conns == 1 .. MaxConns        \* accepted connections, in the order of accept
NoConn == 0

\* Goroutines.  The pump of connection c is goroutine c.
ReadLoop == 0
AcceptLoop == -1
Caller == -2
NoProc == -3
Procs == -2 .. MaxConns
Terminators == {ReadLoop, Caller}

FrameTypes == {"STREAM_START", "DATA", "STREAM_RESET"}

\* Why the proxy ends.  "ErrSessionReset" also stands for ErrServiceIDMismatch,
\* which dispatchMessage treats alike; "none" is the cause before there is one.
Causes == {"none", "nil", "ErrUnexpectedClose", "ErrSessionReset"}

\* Where a goroutine stands.  "close" to "hangup" are closeStream, "lock" and
\* "send" emitFrame, "terminate" to "wsclose" terminate.
Labels == {"idle", "next", "deliver", "accept", "evict", "insert", "recv",
           "ready", "close", "hangup", "lock", "send",
           "terminate", "snapshot", "wsclose", "wait", "done"}

\* Why a goroutine is in closeStream, which decides whether STREAM_RESET is sent
\* (emitReset) and where the goroutine continues.
Jobs == {"evict", "startFailed", "pumpEnd", "deliverFailed", "peerReset", "Close", "terminate"}

EmitsReset(j) == j \in {"evict", "pumpEnd", "deliverFailed", "Close"}

Continuation(j) ==
    CASE j = "evict" -> "insert"
      [] j = "startFailed" -> "accept"
      [] j = "pumpEnd" -> "done"
      [] j \in {"deliverFailed", "peerReset"} -> "next"
      [] j = "Close" -> "terminate"
      [] j = "terminate" -> "wsclose"

VARIABLES
    ctxDone,        \* rootCtx is cancelled
    listener,       \* the loopback listener: "open" or "closed"
    ws,             \* the WebSocket: "open", "lost" (peer or transport), "closed" (by us)
    term,           \* terminateOnce: "new", "busy" or "done"
    terminateErr,   \* the recorded termination cause
    writeMu,        \* the goroutine that holds writeMu
    streams,        \* the stream map: id -> connection, NoConn where there is no entry
    nextStreamID,
    accepted,       \* how many connections the accept loop has taken
    id,             \* the stream id given to a connection (0: none yet)
    conn,           \* the local TCP connection: "none", "open" or "closed" (by us)
    hup,            \* open connections whose local client has hung up
    once,           \* closeOnce of each stream: "new", "busy" or "done"
    pc, cur, todo, job, frame,   \* locals of the goroutines
    cause,          \* what the read loop passes to terminate
    owner,          \* history: the connection the DATA frame in hand was sent for
    wire            \* history: the control frames the WebSocket accepted, in order

shared == <<ctxDone, listener, ws, term, terminateErr, writeMu>>
table == <<streams, nextStreamID, accepted, id, conn, hup, once>>
locals == <<pc, cur, todo, job, frame, cause>>
history == <<owner, wire>>
vars == <<shared, table, locals, history>>

-----------------------------------------------------------------------------
Goto(p, label) == pc' = [pc EXCEPT ![p] = label]

\* The connections in the stream map: a snapshot taken under streamsMu.
OpenStreams == {streams[i] : i \in Conns} \ {NoConn}

\* The goroutines sync.WaitGroup counts: both loops and every spawned pump.
Running == {p \in Procs \ {Caller} : pc[p] \notin {"idle", "done"}}

\* StartSourceProxy returned: handshake done, both loops spawned.
Init ==
    /\ ctxDone = FALSE
    /\ listener = "open"
    /\ ws = "open"
    /\ term = "new"
    /\ terminateErr = "none"
    /\ writeMu = NoProc
    /\ streams = [i \in Conns |-> NoConn]
    /\ nextStreamID = 1
    /\ accepted = 0
    /\ id = [c \in Conns |-> 0]
    /\ conn = [c \in Conns |-> "none"]
    /\ hup = {}
    /\ once = [c \in Conns |-> "new"]
    /\ pc = [p \in Procs |-> CASE p = ReadLoop -> "next"
                               [] p = AcceptLoop -> "accept"
                               [] p = Caller -> "ready"
                               [] OTHER -> "idle"]
    /\ cur = [p \in Procs |-> NoConn]
    /\ todo = [p \in Procs |-> {}]
    /\ job = [p \in Procs |-> "none"]
    /\ frame = [p \in Procs |-> "DATA"]
    /\ cause = "none"
    /\ owner = NoConn
    /\ wire = <<>>

-----------------------------------------------------------------------------
(* closeStream: a goroutine p closes the connections in cs one after the    *)
(* other for the reason j.                                                  *)

CloseAll(p, cs, j) ==
    /\ todo' = [todo EXCEPT ![p] = cs]
    /\ job' = [job EXCEPT ![p] = IF cs = {} THEN "none" ELSE j]
    /\ Goto(p, IF cs = {} THEN Continuation(j) ELSE "close")

\* closeOnce.Do finds the Once done: nothing to do for this stream.
CloseSkip(p) ==
    /\ pc[p] = "close"
    /\ \E c \in todo[p] :
          /\ once[c] = "done"
          /\ CloseAll(p, todo[p] \ {c}, job[p])
    /\ UNCHANGED <<shared, table, cur, frame, cause, history>>

\* Mutant: a sync.Once replaced by a flag that is set last.
CloseEnterAgain(p) ==
    /\ pc[p] = "close"
    /\ \E c \in todo[p] :
          /\ once[c] # "done"
          /\ once' = [once EXCEPT ![c] = "busy"]
          /\ streams' = [streams EXCEPT ![id[c]] = NoConn]
          /\ todo' = [todo EXCEPT ![p] = @ \ {c}]
          /\ cur' = [cur EXCEPT ![p] = c]
    /\ frame' = [frame EXCEPT ![p] = "STREAM_RESET"]
    /\ Goto(p, IF EmitsReset(job[p]) THEN "lock" ELSE "hangup")
    /\ UNCHANGED <<shared, nextStreamID, accepted, id, conn, hup, job, cause,
                   history>>

\* closeOnce.Do runs: the entry leaves the map, STREAM_RESET is next if asked for.
CloseEnter(p) ==
    /\ pc[p] = "close"
    /\ \E c \in todo[p] :
          /\ once[c] = "new"
          /\ once' = [once EXCEPT ![c] = "busy"]
          /\ streams' = [streams EXCEPT ![id[c]] = NoConn]
          /\ todo' = [todo EXCEPT ![p] = @ \ {c}]
          /\ cur' = [cur EXCEPT ![p] = c]
    /\ frame' = [frame EXCEPT ![p] = "STREAM_RESET"]
    /\ Goto(p, IF EmitsReset(job[p]) THEN "lock" ELSE "hangup")
    /\ UNCHANGED <<shared, nextStreamID, accepted, id, conn, hup, job, cause,
                   history>>

\* conn.Close, the last thing the Once does.
Hangup(p) ==
    /\ pc[p] = "hangup"
    /\ conn' = [conn EXCEPT ![cur[p]] = "closed"]
    /\ once' = [once EXCEPT ![cur[p]] = "done"]
    /\ hup' = hup \ {cur[p]}
    /\ cur' = [cur EXCEPT ![p] = NoConn]
    /\ frame' = [frame EXCEPT ![p] = "DATA"]
    /\ CloseAll(p, todo[p], job[p])
    /\ UNCHANGED <<shared, streams, nextStreamID, accepted, id, cause, history>>

-----------------------------------------------------------------------------
(* emitFrame: one WebSocket message under writeMu.                          *)

Lock(p) ==
    /\ pc[p] = "lock"
    /\ writeMu = NoProc
    /\ writeMu' = p
    /\ Goto(p, "send")
    /\ UNCHANGED <<ctxDone, listener, ws, term, terminateErr, table, cur, todo, job, frame, cause, history>>

\* The WebSocket took the frame.  It may do so although rootCtx is cancelled:
\* the library selects between the free lock and ctx.Done().
Write(p) ==
    /\ pc[p] = "send"
    /\ ws = "open"
    /\ ctxDone => WriteAfterCancel
    /\ writeMu' = NoProc
    /\ UNCHANGED <<ctxDone, listener, ws, term, terminateErr, table, todo, job, cause, owner>>

OnWire(p) == Append(wire, [type |-> frame[p], id |-> id[cur[p]], conn |-> cur[p]])

\* STREAM_START is out: the accept loop starts the pump (no other goroutine can
\* tell whether it has started) and accepts again.
StartSent(p) ==
    /\ Write(p)
    /\ frame[p] = "STREAM_START"
    /\ wire' = OnWire(p)
    /\ pc' = [pc EXCEPT ![p] = "accept", ![cur[p]] = "recv"]
    /\ cur' = [cur EXCEPT ![p] = NoConn, ![cur[p]] = cur[p]]
    /\ frame' = [frame EXCEPT ![p] = "DATA"]

DataSent(p) ==
    /\ Write(p)
    /\ frame[p] = "DATA"
    /\ Goto(p, "recv")
    /\ UNCHANGED <<cur, frame, wire>>

ResetSent(p) ==
    /\ Write(p)
    /\ frame[p] = "STREAM_RESET"
    /\ wire' = OnWire(p)
    /\ Goto(p, "hangup")
    /\ UNCHANGED <<cur, frame>>

SendOk(p) == StartSent(p) \/ DataSent(p) \/ ResetSent(p)

\* The write failed: rootCtx is cancelled or the WebSocket is gone.
WriteFail(p) ==
    /\ pc[p] = "send"
    /\ ctxDone \/ ws # "open"
    /\ writeMu' = NoProc
    /\ UNCHANGED <<ctxDone, listener, ws, term, terminateErr, table, cur, frame, cause, history>>

\* Mutant: a failed STREAM_START is ignored, as a failed STREAM_RESET is.
StartFailedIgnored(p) ==
    /\ WriteFail(p)
    /\ frame[p] = "STREAM_START"
    /\ Goto(p, "accept")
    /\ UNCHANGED <<todo, job>>

\* A failed STREAM_START closes the new stream, a failed DATA ends the pump, a
\* failed STREAM_RESET is ignored.
StartFailed(p) == WriteFail(p) /\ frame[p] = "STREAM_START" /\ CloseAll(p, {cur[p]}, "startFailed")
DataFailed(p) == WriteFail(p) /\ frame[p] = "DATA" /\ CloseAll(p, {cur[p]}, "pumpEnd")
ResetFailed(p) ==
    /\ WriteFail(p)
    /\ frame[p] = "STREAM_RESET"
    /\ Goto(p, "hangup")
    /\ UNCHANGED <<todo, job>>

SendFail(p) == StartFailed(p) \/ DataFailed(p) \/ ResetFailed(p)

-----------------------------------------------------------------------------
(* The accept loop.                                                         *)

Accept ==
    /\ pc[AcceptLoop] = "accept"
    /\ listener = "open"
    /\ accepted < MaxConns
    /\ accepted' = accepted + 1
    /\ conn' = [conn EXCEPT ![accepted + 1] = "open"]
    /\ Goto(AcceptLoop, "evict")
    /\ UNCHANGED <<shared, streams, nextStreamID, id, hup, once, cur, todo, job,
                   frame, cause, history>>

\* Any error of Accept ends the loop; a closed listener returns one.
AcceptFail ==
    /\ pc[AcceptLoop] = "accept"
    /\ Goto(AcceptLoop, "done")
    /\ UNCHANGED <<shared, table, cur, todo, job, frame, cause, history>>

\* Mutant: no eviction.
EvictNothing ==
    /\ pc[AcceptLoop] = "evict"
    /\ Goto(AcceptLoop, "insert")
    /\ UNCHANGED <<shared, table, cur, todo, job, frame, cause, history>>

Evict ==
    /\ pc[AcceptLoop] = "evict"
    /\ CloseAll(AcceptLoop, OpenStreams, "evict")
    /\ UNCHANGED <<shared, table, cur, frame, cause, history>>

\* Mutants: an id is taken twice for one stream; an id is used again.
InsertTwoIds ==
    /\ pc[AcceptLoop] = "insert"
    /\ nextStreamID' = nextStreamID + 2
    /\ id' = [id EXCEPT ![accepted] = nextStreamID]
    /\ streams' = [streams EXCEPT ![nextStreamID] = accepted]
    /\ cur' = [cur EXCEPT ![AcceptLoop] = accepted]
    /\ frame' = [frame EXCEPT ![AcceptLoop] = "STREAM_START"]
    /\ Goto(AcceptLoop, "lock")
    /\ UNCHANGED <<shared, accepted, conn, hup, once, todo, job, cause, history>>

InsertSameId ==
    /\ pc[AcceptLoop] = "insert"
    /\ id' = [id EXCEPT ![accepted] = nextStreamID]
    /\ streams' = [streams EXCEPT ![nextStreamID] = accepted]
    /\ cur' = [cur EXCEPT ![AcceptLoop] = accepted]
    /\ frame' = [frame EXCEPT ![AcceptLoop] = "STREAM_START"]
    /\ Goto(AcceptLoop, "lock")
    /\ UNCHANGED <<shared, nextStreamID, accepted, conn, hup, once, todo, job, cause, history>>

\* allocateStreamID and the insertion under streamsMu; only this goroutine
\* allocates, so nothing can come between the two.
Insert ==
    /\ pc[AcceptLoop] = "insert"
    /\ nextStreamID' = nextStreamID + 1
    /\ id' = [id EXCEPT ![accepted] = nextStreamID]
    /\ streams' = [streams EXCEPT ![nextStreamID] = accepted]
    /\ cur' = [cur EXCEPT ![AcceptLoop] = accepted]
    /\ frame' = [frame EXCEPT ![AcceptLoop] = "STREAM_START"]
    /\ Goto(AcceptLoop, "lock")
    /\ UNCHANGED <<shared, accepted, conn, hup, once, todo, job, cause, history>>

-----------------------------------------------------------------------------
(* The pump of connection c.                                                *)

RecvData(c) ==
    /\ pc[c] = "recv"
    /\ conn[c] = "open"
    /\ Goto(c, "lock")
    /\ UNCHANGED <<shared, table, cur, todo, job, frame, cause, history>>

\* Read fails: the client hung up, or closeStream closed the connection.
RecvEnd(c) ==
    /\ pc[c] = "recv"
    /\ conn[c] = "closed" \/ c \in hup
    /\ CloseAll(c, {c}, "pumpEnd")
    /\ UNCHANGED <<shared, table, cur, frame, cause, history>>

-----------------------------------------------------------------------------
(* The read loop.  A frame that names a stream was sent for the connection  *)
(* `for` whose STREAM_START carried that id, at any time since.  A frame    *)
(* for an unknown stream, an empty DATA and the other types are dropped     *)
(* and change nothing.  Frames the reader has buffered are still handled    *)
(* after the WebSocket is gone.                                             *)

Started == {wire[k].conn : k \in {j \in DOMAIN wire : wire[j].type = "STREAM_START"}}

\* DATA: the stream is looked up now and written to in a later step.
ReceiveData(for) ==
    /\ pc[ReadLoop] = "next"
    /\ streams[id[for]] # NoConn
    /\ cur' = [cur EXCEPT ![ReadLoop] = streams[id[for]]]
    /\ owner' = for
    /\ Goto(ReadLoop, "deliver")
    /\ UNCHANGED <<shared, table, todo, job, frame, cause, wire>>

\* conn.Write took the payload: TCP may still take it after the client left.
DeliverOk ==
    /\ pc[ReadLoop] = "deliver"
    /\ conn[cur[ReadLoop]] = "open"
    /\ cur' = [cur EXCEPT ![ReadLoop] = NoConn]
    /\ owner' = NoConn
    /\ Goto(ReadLoop, "next")
    /\ UNCHANGED <<shared, table, todo, job, frame, cause, wire>>

DeliverFail ==
    /\ pc[ReadLoop] = "deliver"
    /\ conn[cur[ReadLoop]] = "closed" \/ cur[ReadLoop] \in hup
    /\ CloseAll(ReadLoop, {cur[ReadLoop]}, "deliverFailed")
    /\ owner' = NoConn
    /\ UNCHANGED <<shared, table, cur, frame, cause, wire>>

\* STREAM_RESET or CONNECTION_RESET.
ReceiveReset(for) ==
    /\ pc[ReadLoop] = "next"
    /\ streams[id[for]] # NoConn
    /\ CloseAll(ReadLoop, {streams[id[for]]}, "peerReset")
    /\ UNCHANGED <<shared, table, cur, frame, cause, history>>

\* SESSION_RESET, or a SERVICE_IDS list that dropped our service: terminate,
\* then read on.  An undecodable message ends the loop.
ReceiveFatal(why) ==
    /\ pc[ReadLoop] = "next"
    /\ why \in {"ErrSessionReset", "ErrUnexpectedClose"}
    /\ cause' = why
    /\ Goto(ReadLoop, "terminate")
    /\ UNCHANGED <<shared, table, cur, todo, job, frame, history>>

\* conn.Read fails, the context cancelled or the WebSocket lost: io.EOF and
\* context.Canceled count as a clean end, but either may show as another error.
ReadFail(why) ==
    /\ pc[ReadLoop] = "next"
    /\ why \in {"nil", "ErrUnexpectedClose"}
    /\ ctxDone \/ ws = "lost"
    /\ cause' = why
    /\ Goto(ReadLoop, "terminate")
    /\ UNCHANGED <<shared, table, cur, todo, job, frame, history>>

-----------------------------------------------------------------------------
(* terminate, called by the read loop and by Close.                         *)

\* Mutant: the read loop does not return after the read that failed.
AfterTerminateReadsOn(p) == IF p = Caller THEN "wait" ELSE "next"

AfterTerminate(p) ==
    CASE p = Caller -> "wait"
      [] p = ReadLoop /\ cause = "ErrSessionReset" -> "next"
      [] OTHER -> "done"

TerminateSkip(p) ==
    /\ pc[p] = "terminate"
    /\ term = "done"
    /\ Goto(p, AfterTerminate(p))
    /\ cause' = IF p = ReadLoop THEN "none" ELSE cause
    /\ UNCHANGED <<shared, table, cur, todo, job, frame, history>>

\* Mutant: terminateOnce replaced by a flag that is set last.
TerminateEnterAgain(p) ==
    /\ pc[p] = "terminate"
    /\ term # "done"
    /\ term' = "busy"
    /\ terminateErr' = IF p = Caller THEN "nil" ELSE cause
    /\ ctxDone' = TRUE
    /\ listener' = "closed"
    /\ Goto(p, "snapshot")
    /\ UNCHANGED <<ws, writeMu, table, cur, todo, job, frame, cause, history>>

\* terminateErr is set, rootCtx cancelled, the listener closed.  A connection
\* accepted between the last two is as one accepted before the first.
TerminateEnter(p) ==
    /\ pc[p] = "terminate"
    /\ term = "new"
    /\ term' = "busy"
    /\ terminateErr' = IF p = Caller THEN "nil" ELSE cause
    /\ ctxDone' = TRUE
    /\ listener' = "closed"
    /\ Goto(p, "snapshot")
    /\ UNCHANGED <<ws, writeMu, table, cur, todo, job, frame, cause, history>>

\* What terminate does to each stream of the snapshot is closeStream(st, false).
TerminateSnapshot(p) ==
    /\ pc[p] = "snapshot"
    /\ CloseAll(p, OpenStreams, "terminate")
    /\ UNCHANGED <<shared, table, cur, frame, cause, history>>

TerminateWs(p) ==
    /\ pc[p] = "wsclose"
    /\ ws' = "closed"
    /\ term' = "done"
    /\ Goto(p, AfterTerminate(p))
    /\ cause' = IF p = ReadLoop THEN "none" ELSE cause
    /\ UNCHANGED <<ctxDone, listener, terminateErr, writeMu, table, cur, todo, job,
                   frame, history>>

-----------------------------------------------------------------------------
(* The CLI: Close, then Wait.                                               *)

Close ==
    /\ pc[Caller] = "ready"
    /\ CloseAll(Caller, OpenStreams, "Close")
    /\ UNCHANGED <<shared, table, cur, frame, cause, history>>

Wait ==
    /\ pc[Caller] = "wait"
    /\ Running = {}
    /\ Goto(Caller, "done")
    /\ UNCHANGED <<shared, table, cur, todo, job, frame, cause, history>>

-----------------------------------------------------------------------------
(* The environment.                                                         *)

\* SIGINT or SIGTERM: the command's context, rootCtx's parent, is cancelled.
CancelCtx ==
    /\ ~ctxDone
    /\ ctxDone' = TRUE
    /\ UNCHANGED <<listener, ws, term, terminateErr, writeMu, table, locals, history>>

\* The library closes the WebSocket under a Read or Write in flight whose
\* context is cancelled.
WsAbort ==
    /\ ctxDone
    /\ ws = "open"
    /\ pc[ReadLoop] = "next" \/ writeMu # NoProc
    /\ ws' = "closed"
    /\ UNCHANGED <<ctxDone, listener, term, terminateErr, writeMu, table, locals, history>>

\* The peer closes the WebSocket, or the transport breaks.
WsLost ==
    /\ ws = "open"
    /\ ws' = "lost"
    /\ UNCHANGED <<ctxDone, listener, term, terminateErr, writeMu, table, locals, history>>

\* A client hangs up (once we have closed the connection it no longer matters).
ClientHangup(c) ==
    /\ conn[c] = "open"
    /\ c \notin hup
    /\ hup' = hup \cup {c}
    /\ UNCHANGED <<shared, streams, nextStreamID, accepted, id, conn, once, locals, history>>

\* Close and Wait have returned: the behaviour is over.
Finished == pc[Caller] = "done" /\ UNCHANGED vars

-----------------------------------------------------------------------------
CloseStep(p) == CloseSkip(p) \/ CloseEnter(p) \/ Hangup(p)

TerminateStep(p) ==
    \/ TerminateSkip(p) \/ TerminateEnter(p)
    \/ TerminateSnapshot(p) \/ TerminateWs(p)

\* What a goroutine does as soon as the scheduler lets it, whatever the
\* destination and the local clients do.
Runnable(p) ==
    \/ CloseStep(p)
    \/ Lock(p)
    \/ SendFail(p)
    \/ p \in Terminators /\ TerminateStep(p)
    \/ p \in Conns /\ RecvEnd(p)
    \/ p = AcceptLoop /\ ((listener = "closed" /\ AcceptFail) \/ Evict \/ Insert)
    \/ p = ReadLoop /\ (DeliverFail \/ \E why \in Causes : ReadFail(why))
    \/ p = Caller /\ Wait

Next ==
    \/ \E p \in Procs : Runnable(p) \/ SendOk(p)
    \/ Accept \/ AcceptFail \/ Close
    \/ \E c \in Conns : RecvData(c) \/ ClientHangup(c)
    \/ \E c \in Started : ReceiveData(c) \/ ReceiveReset(c)
    \/ \E why \in Causes : ReceiveFatal(why)
    \/ DeliverOk
    \/ CancelCtx \/ WsAbort \/ WsLost
    \/ Finished

Spec == Init /\ [][Next]_vars

-----------------------------------------------------------------------------
(* Fairness.  The Go scheduler runs every goroutine that can run, and the   *)
(* library's context watcher runs.  The peer and the clients owe nothing    *)
(* unless a specification below says so.  Fairness is strong because        *)
(* sync.Mutex hands itself to a starving waiter, and for ReadFail because   *)
(* only finitely many buffered frames precede the failing read.             *)

Scheduling ==
    /\ \A p \in Procs : SF_vars(Runnable(p))
    /\ SF_vars(\E why \in Causes : ReadFail(why))
    /\ WF_vars(WsAbort)

\* The destination keeps reading, so that a write into an open WebSocket completes.
PeerReads == \A p \in Procs : WF_vars(SendOk(p))

\* The local clients exit: before `postern ssh` and `postern scp` call Close
\* the ssh child, their only client, is gone.
ClientsExit == \A c \in Conns : WF_vars(ClientHangup(c))

ScheduledSpec == Spec /\ Scheduling
ChildExitSpec == Spec /\ Scheduling /\ ClientsExit

-----------------------------------------------------------------------------
(* Properties.                                                              *)

\* The shape of the state.
TypeOK ==
    /\ ctxDone \in BOOLEAN
    /\ listener \in {"open", "closed"}
    /\ ws \in {"open", "lost", "closed"}
    /\ term \in {"new", "busy", "done"}
    /\ terminateErr \in Causes
    /\ writeMu \in Procs \cup {NoProc}
    /\ streams \in [Conns -> Conns \cup {NoConn}]
    /\ nextStreamID \in 1 .. MaxConns + 1
    /\ accepted \in 0 .. MaxConns
    /\ id \in [Conns -> Conns \cup {0}]
    /\ conn \in [Conns -> {"none", "open", "closed"}]
    /\ hup \in SUBSET Conns
    /\ once \in [Conns -> {"new", "busy", "done"}]
    /\ pc \in [Procs -> Labels]
    /\ cur \in [Procs -> Conns \cup {NoConn}]
    /\ todo \in [Procs -> SUBSET Conns]
    /\ job \in [Procs -> Jobs \cup {"none"}]
    /\ frame \in [Procs -> FrameTypes]
    /\ cause \in Causes
    /\ owner \in Conns \cup {NoConn}
    /\ wire \in Seq([type : FrameTypes, id : Conns, conn : Conns])

\* The stream map never holds two streams, although four kinds of goroutine
\* edit it: handleAccept evicts what is there before it inserts.
SingleActiveStream ==
    \A i, j \in Conns : streams[i] # NoConn /\ streams[j] # NoConn => i = j

\* STREAM_START and STREAM_RESET go out at most once per stream id, although a
\* pump, the accept loop, the read loop and Close may all close the stream:
\* ids are never reused and closeOnce admits one of them.
ControlFramesOnce ==
    \A j, k \in DOMAIN wire :
        wire[j].type # "DATA" /\ wire[j].type = wire[k].type /\ wire[j].id = wire[k].id
            => j = k

\* A payload sent for one connection is never written to another, even when
\* its stream was evicted between the lookup and the write.
NoCrossTalk == pc[ReadLoop] = "deliver" => owner = cur[ReadLoop]

\* When Wait returns nothing is left behind: the listener and the WebSocket are
\* closed, the map is empty and every accepted connection has been closed.
NothingLeftBehind ==
    pc[Caller] = "done" =>
        /\ listener = "closed" /\ ws = "closed" /\ term = "done"
        /\ OpenStreams = {}
        /\ \A c \in 1 .. accepted : conn[c] = "closed"

\* terminate records the first cause: Wait reports what ended the session, not
\* what its teardown ran into.
FirstCauseStays == [][terminateErr # "none" => terminateErr' = terminateErr]_vars

Closing == pc[Caller] # "ready"

\* Once Close is called, Wait returns.
CloseReturns == Closing ~> pc[Caller] = "done"

\* Once Close is called, Wait returns provided the destination keeps reading:
\* Close sends STREAM_RESET before it cancels rootCtx.
CloseReturnsIfPeerReads == PeerReads => CloseReturns

\* Once Close is called with rootCtx cancelled, Wait returns whatever the
\* destination and the local clients do.
CancelledCloseReturns == (Closing /\ ctxDone) ~> pc[Caller] = "done"
============================================================================
