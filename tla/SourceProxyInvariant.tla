------------------------ MODULE SourceProxyInvariant ------------------------
(***************************************************************************)
(* The inductive invariant of SourceProxy.  It says that ids are handed    *)
(* out in the order of accept and never again, the map holds exactly the   *)
(* streams whose closeOnce has not begun, every Once in progress has       *)
(* exactly one goroutine in it, and every stream that is not closed has a  *)
(* goroutine that will close it.                                           *)
(***************************************************************************)
EXTENDS SourceProxy

\* The ids handed out so far.
Allocated == 1 .. nextStreamID - 1

\* The accept loop holds a connection that has no stream yet.
BeforeInsert == pc[AcceptLoop] \in {"evict", "insert"} \/ job[AcceptLoop] = "evict"

\* The accept loop is sending STREAM_START.
Starting == pc[AcceptLoop] \in {"lock", "send"} /\ frame[AcceptLoop] = "STREAM_START"

\* p is sending STREAM_RESET, and p is inside closeOnce.
Resetting(p) == pc[p] \in {"lock", "send"} /\ frame[p] = "STREAM_RESET"
InOnce(p) == pc[p] = "hangup" \/ Resetting(p)

\* p is inside terminateOnce.
InTerminate(p) == pc[p] \in {"snapshot", "wsclose"} \/ job[p] = "terminate"

\* What each goroutine runs.
LabelOf(p) ==
    /\ p = ReadLoop => /\ pc[p] \in {"next", "deliver", "close", "hangup", "lock", "send",
                                     "terminate", "snapshot", "wsclose", "done"}
                       /\ job[p] \in {"none", "deliverFailed", "peerReset", "terminate"}
    /\ p = AcceptLoop => /\ pc[p] \in {"accept", "evict", "insert", "close", "hangup",
                                       "lock", "send", "done"}
                         /\ job[p] \in {"none", "evict", "startFailed"}
    /\ p = Caller => /\ pc[p] \in {"ready", "close", "hangup", "lock", "send",
                                   "terminate", "snapshot", "wsclose", "wait", "done"}
                     /\ job[p] \in {"none", "Close", "terminate"}
    /\ p \in Conns => /\ pc[p] \in {"idle", "recv", "close", "hangup", "lock", "send", "done"}
                      /\ job[p] \in {"none", "pumpEnd"}

LabelsInv == \A p \in Procs : LabelOf(p)

\* Ids follow the order of accept and are handed out once.
IdsInv ==
    /\ nextStreamID = IF BeforeInsert THEN accepted ELSE accepted + 1
    /\ \A c \in Conns : id[c] = IF c \in Allocated THEN c ELSE 0

\* The map holds the streams whose closeOnce has not begun, and a connection
\* is closed when its closeOnce is done.
MapInv ==
    /\ \A c \in Conns : streams[c] = IF c \in Allocated /\ once[c] = "new" THEN c ELSE NoConn
    /\ \A c \in Conns : c \notin Allocated => once[c] = "new" /\ pc[c] = "idle"
    /\ \A c \in Conns : conn[c] = IF c > accepted THEN "none"
                                  ELSE IF once[c] = "done" THEN "closed" ELSE "open"

\* A goroutine has a reason to be in closeStream exactly while it is there, and
\* closes streams that exist; a pump closes its own.
JobOf(p) ==
    /\ job[p] # "none" <=> pc[p] = "close" \/ InOnce(p)
    /\ pc[p] = "close" => todo[p] # {}
    /\ todo[p] \subseteq Allocated
    /\ p \in Conns => todo[p] \subseteq {p}

JobInv == \A p \in Procs : JobOf(p)

\* What a goroutine is sending or writing, and for which stream.
FrameOf(p) ==
    /\ InOnce(p) => cur[p] \in Allocated
    /\ pc[p] \in {"lock", "send"} /\ frame[p] = "STREAM_START" => p = AcceptLoop
    /\ pc[p] \in {"lock", "send"} /\ frame[p] = "DATA" => p \in Conns

PumpOf(c) ==
    /\ pc[c] \in {"idle", "recv"} => frame[c] = "DATA"
    /\ pc[c] \in {"recv", "lock", "send", "hangup"} => cur[c] = c

StartInv == Starting => cur[AcceptLoop] = accepted /\ accepted \in Conns /\ pc[accepted] = "idle"

DeliverInv == pc[ReadLoop] = "deliver" => cur[ReadLoop] \in Allocated /\ owner = cur[ReadLoop]

FrameInv ==
    /\ \A p \in Procs : FrameOf(p)
    /\ \A c \in Conns : PumpOf(c)
    /\ StartInv
    /\ DeliverInv

\* A Once in progress has exactly one goroutine in it.
OnceInv ==
    /\ \A p \in Procs : InOnce(p) => once[cur[p]] = "busy"
    /\ \A p, q \in Procs : InOnce(p) /\ InOnce(q) /\ cur[p] = cur[q] => p = q
    /\ \A c \in Conns : once[c] = "busy" => \E p \in Procs : InOnce(p) /\ cur[p] = c

\* Only the newest stream can be open, and eviction leaves none.
EvictInv ==
    /\ \A c \in Conns : c < nextStreamID - 1 => once[c] # "new"
    /\ pc[AcceptLoop] = "insert" => \A c \in Allocated : once[c] # "new"
    /\ job[AcceptLoop] = "evict" =>
          \A c \in Allocated : once[c] = "new" => c \in todo[AcceptLoop]

\* What is on the wire will not be sent again.
WireInv ==
    \A k \in DOMAIN wire :
        /\ wire[k].id \in Allocated
        /\ wire[k].conn = wire[k].id
        /\ wire[k].type # "DATA"
        /\ wire[k].type = "STREAM_START" => ~(Starting /\ cur[AcceptLoop] = wire[k].id)
        /\ wire[k].type = "STREAM_RESET" =>
              /\ once[wire[k].id] # "new"
              /\ \A p \in Procs : ~(Resetting(p) /\ cur[p] = wire[k].id)

\* Every stream that is not closed has a goroutine that will close it.
OwnedInv ==
    \A c \in Allocated :
        /\ pc[c] = "done" => once[c] = "done"
        /\ pc[c] = "idle" /\ once[c] = "new" =>
              /\ c = accepted
              /\ Starting \/ (job[AcceptLoop] = "startFailed" /\ c \in todo[AcceptLoop])

\* terminateOnce has one goroutine in it, and Wait returns after all the others.
TerminateInv ==
    /\ \A p \in Procs : InTerminate(p) => p \in Terminators /\ term = "busy"
    /\ ~(InTerminate(ReadLoop) /\ InTerminate(Caller))
    /\ term # "new" => listener = "closed"
    /\ term = "done" => ws = "closed"
    /\ pc[Caller] \in {"wait", "done"} => term = "done"
    /\ pc[Caller] = "done" => Running = {}

IInv ==
    /\ TypeOK
    /\ LabelsInv
    /\ IdsInv
    /\ MapInv
    /\ JobInv
    /\ FrameInv
    /\ OnceInv
    /\ EvictInv
    /\ WireInv
    /\ ControlFramesOnce
    /\ OwnedInv
    /\ TerminateInv
=============================================================================
