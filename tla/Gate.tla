-------------------------------- MODULE Gate --------------------------------
(***************************************************************************)
(* The coordinator's pump, its DBLog gate and the staged accumulators      *)
(* (internal/gate/gate.go, internal/staged/coalesce.go,                    *)
(* internal/coordinator/{pump,gate}.go), driven by the snapshot goroutine  *)
(* (internal/snapshot/{range,dblog}.go, internal/coordinator/snapshot*.go).*)
(*                                                                         *)
(* Three processes run against each other: the source reader, which may be *)
(* ReaderBuf batches ahead of the pump; the pump, which reads one batch at *)
(* a time and holds it in an open window, accumulates it or enqueues it;   *)
(* and the snapshot goroutine, which opens a table's window, marks it      *)
(* ready, flushes it per chunk and closes it.  Two locks order them: g.mu  *)
(* makes every step below atomic, and flushMu is held across a delivery,   *)
(* which takes one step per batch sent.                                    *)
(*                                                                         *)
(* A batch is its number in the source's order; src[i] is its table.       *)
(***************************************************************************)
EXTENDS Integers, Sequences, FiniteSets

CONSTANTS
  Targets,      \* the pipeline's tables
  Hash,         \* tables with several owners: the coordinator fans chunks out
  Staged,       \* those of Hash on a staging sink: they have an accumulator
  MaxItems,     \* bound: batches the source produces
  MaxWindows,   \* bound: DBLog windows opened in a behaviour
  ReaderBuf,    \* batches the reader may have decoded ahead of the pump
  GateMax,      \* gateMaxEvents: the bound of one window
  CycleMax,     \* Bounds.MaxRows: the bound of one cycle, a batch being a row
  CanFail       \* whether an enqueue may fail

ASSUME GateAssumption ==
  /\ Hash \subseteq Targets
  /\ Staged \subseteq Hash
  /\ MaxItems \in Nat
  /\ MaxWindows \in Nat
  /\ ReaderBuf \in Nat \ {0}
  /\ GateMax \in Nat \ {0}
  /\ CycleMax \in Nat \ {0}
  /\ CanFail \in BOOLEAN

Items == 1..MaxItems
Windows == 1..MaxWindows
None == 0                \* no window: ready unset, the tag of a plain batch
Tags == 0..MaxWindows
Unsent == -1             \* sent[i] before batch i is enqueued

VARIABLES
  src,        \* the tables of the batches decoded so far
  read,       \* how many of them the pump has taken
  open,       \* g.on: which tables have an open window
  buf,        \* g.buf: the batches a window holds, oldest first
  ready,      \* g.ready: the window id whose rows are in the worker's window
  accum,      \* Coalescer.accum: a staged table's batches not sent yet
  flushMu,    \* the holder of the gate's flush lock
  carry,      \* what the holder took and has still to deliver
  carryTgt,   \* the table of carry
  carryTag,   \* the window tag of carry, None for ordinary changes
  pumpPc,     \* where the pump is
  item,       \* the batch in the pump's hand
  fl,         \* the table whose accumulator the pump is flushing
  due,        \* tables FlushDue has still to flush
  snapPc,     \* where the snapshot goroutine is
  tgt,        \* the table being snapshotted
  wid,        \* its current window
  high,       \* the position the reader must reach before the window closes
  todo,       \* tables still to snapshot
  scanAt,     \* history: what was decoded when the chunk's SELECT began
  base,       \* history: the last window before that SELECT
  sent,       \* history: the tag each batch was enqueued with, Unsent before
  announced,  \* history: windows whose rows are in their worker's window
  closed,     \* history: windows whose Closes marker is queued
  failed      \* the processes that reported a failure: the run is terminating

gateVars == <<open, buf, ready, accum>>
flushVars == <<flushMu, carry, carryTgt, carryTag>>
pumpVars == <<pumpPc, item, fl, due>>
scanVars == <<scanAt, base>>
chunkVars == <<tgt, wid, high, todo, scanAt, base>>
snapVars == <<snapPc, tgt, wid, high, todo, scanAt, base>>
srcVars == <<src, read>>
histVars == <<sent, announced, closed, failed>>
vars == <<src, read, open, buf, ready, accum, flushMu, carry, carryTgt,
          carryTag, pumpPc, item, fl, due, snapPc, tgt, wid, high, todo,
          scanAt, base, sent, announced, closed, failed>>

PumpPcs == {"idle", "hold", "wait", "drain", "drainSend", "live", "take",
            "due", "flush", "flushSend", "tick", "release", "dead"}
SnapPcs == {"idle", "open", "openTake", "openSend", "scan", "catchUp",
            "redo", "flush", "flushSend", "mark", "endDrain", "closes",
            "close", "closeSend", "failed", "dead"}

\* The batches: where each is.
DataOK ==
  /\ src \in Seq(Targets) /\ Len(src) \in 0..MaxItems
  /\ read \in 0..Len(src)
  /\ buf \in [Targets -> Seq(Items)]
  /\ accum \in [Targets -> Seq(Items)]
  /\ carry \in Seq(Items)
  /\ carryTgt \in Targets
  /\ sent \in [Items -> Tags \cup {Unsent}]

GateOK ==
  /\ open \in [Targets -> BOOLEAN]
  /\ ready \in [Targets -> Tags]
  /\ flushMu \in {"free", "pump", "snap"}
  /\ carryTag \in Tags

PumpOK ==
  /\ pumpPc \in PumpPcs
  /\ item \in 0..MaxItems
  /\ fl \in Targets
  /\ due \subseteq Targets

SnapOK ==
  /\ snapPc \in SnapPcs
  /\ tgt \in Targets
  /\ wid \in Tags
  /\ high \in 0..MaxItems
  /\ todo \subseteq Targets
  /\ scanAt \in 0..MaxItems
  /\ base \in Tags
  /\ announced \subseteq Windows
  /\ closed \subseteq Windows
  /\ failed \subseteq {"pump", "snap"}

\* Every variable has its type: in particular what is held are batches that were
\* read, and tags are windows that were opened.
TypeOK == DataOK /\ GateOK /\ PumpOK /\ SnapOK

Init ==
  /\ src = <<>> /\ read = 0
  /\ open = [t \in Targets |-> FALSE]
  /\ buf = [t \in Targets |-> <<>>]
  /\ ready = [t \in Targets |-> None]
  /\ accum = [t \in Targets |-> <<>>]
  /\ flushMu = "free" /\ carry = <<>> /\ carryTag = None
  /\ carryTgt \in Targets
  /\ pumpPc = "idle" /\ item = 0 /\ fl = carryTgt /\ due = {}
  /\ snapPc = "idle" /\ tgt = carryTgt /\ wid = 0 /\ high = 0
  /\ todo = Targets /\ scanAt = 0 /\ base = 0
  /\ sent = [i \in Items |-> Unsent]
  /\ announced = {} /\ closed = {} /\ failed = {}

-----------------------------------------------------------------------------
(* Helpers of the gate. *)

Elems(s) == {s[i] : i \in DOMAIN s}

\* Mutant: the window takes one batch past its bound.
FullPast(t) == Len(buf[t]) > GateMax

FullLocked(t) == Len(buf[t]) >= GateMax

\* wakeLocked: a pump blocked on a full window looks at it again.
Woken == IF pumpPc = "wait" THEN "hold" ELSE pumpPc

\* A delivery is concatenated up to the cycle's bound: the first batch always
\* fits, so a send carries at least one (SendGrouped, Bounds.Fits).
GroupLen == IF Len(carry) <= CycleMax THEN Len(carry) ELSE CycleMax
Group == SubSeq(carry, 1, GroupLen)
Rest == SubSeq(carry, GroupLen + 1, Len(carry))

\* enqueueBatch of the batches in is, one Flight batch, tagged for window w.
Enqueue(is, w) == sent' = [i \in Items |-> IF i \in is THEN w ELSE sent[i]]

\* takeLocked under flushMu by process p: the window's batches of t are p's to
\* deliver, tagged w.
TakeBuf(p, t, w) ==
  /\ carry' = buf[t] /\ carryTgt' = t /\ carryTag' = w
  /\ buf' = [buf EXCEPT ![t] = <<>>]
  /\ flushMu' = IF buf[t] = <<>> THEN "free" ELSE p

\* SendLocked's take: the accumulator of t is p's to send as one cycle.
TakeAccum(p, t) ==
  /\ carry' = accum[t] /\ carryTgt' = t /\ carryTag' = None
  /\ accum' = [accum EXCEPT ![t] = <<>>]
  /\ flushMu' = IF accum[t] = <<>> THEN "free" ELSE p

\* One send of p's delivery; with the last one the flush lock passes to after.
SendGroup(p, after) ==
  /\ flushMu = p /\ carry # <<>>
  /\ Enqueue(Elems(Group), carryTag)
  /\ carry' = Rest
  /\ flushMu' = IF Rest = <<>> THEN after ELSE p
  /\ UNCHANGED <<carryTgt, carryTag>>

\* A failed send drops the rest of the delivery and releases the lock.
SendFails(p) ==
  /\ CanFail /\ flushMu = p /\ carry # <<>>
  /\ carry' = <<>> /\ flushMu' = "free" /\ failed' = failed \cup {p}
  /\ UNCHANGED <<carryTgt, carryTag>>

-----------------------------------------------------------------------------
(* The source reader: it decodes the source's batches in order and blocks   *)
(* once ReaderBuf of them wait for the pump (sourceBatches).                *)

Decode(t) ==
  /\ Len(src) < MaxItems
  /\ Len(src) - read < ReaderBuf
  /\ src' = Append(src, t)
  /\ UNCHANGED <<read, gateVars, flushVars, pumpVars, snapVars, histVars>>

-----------------------------------------------------------------------------
(* The pump (coordinator/pump.go). *)

\* Mutant: the pump reads past what was decoded.
PumpReadPast ==
  /\ pumpPc = "idle" /\ read <= Len(src)
  /\ read' = read + 1 /\ item' = 0 /\ pumpPc' = "idle"
  /\ UNCHANGED <<src, fl, due, gateVars, flushVars, snapVars, histVars>>

PumpRead ==
  /\ pumpPc = "idle" /\ read < Len(src)
  /\ read' = read + 1 /\ item' = read + 1 /\ pumpPc' = "hold"
  /\ UNCHANGED <<src, fl, due, gateVars, flushVars, snapVars, histVars>>

\* Gate.Hold up to its first wait, and again after each wake or drain.
PumpHold ==
  LET t == src[item] IN
  /\ pumpPc = "hold"
  /\ \/ /\ ~open[t]
        /\ pumpPc' = IF t \in Staged THEN "take" ELSE "live"
        /\ UNCHANGED <<buf, item>>
     \/ /\ open[t] /\ ~FullLocked(t)
        /\ buf' = [buf EXCEPT ![t] = Append(@, item)]
        /\ pumpPc' = "idle" /\ item' = 0
     \/ /\ open[t] /\ FullLocked(t)
        /\ pumpPc' = IF ready[t] # None THEN "drain" ELSE "wait"
        /\ UNCHANGED <<buf, item>>
  /\ UNCHANGED <<open, ready, accum, fl, due, srcVars, flushVars, snapVars,
                 histVars>>

\* Mutant: the early drain leaves a full window as it is (#820).
PumpDrainNever ==
  /\ pumpPc = "drain" /\ flushMu = "free"
  /\ pumpPc' = "hold"
  /\ UNCHANGED <<item, fl, due, gateVars, srcVars, flushVars, snapVars, histVars>>

\* drainReady: the early flush of a full window whose chunk is ready.
PumpDrain ==
  LET t == src[item] IN
  /\ pumpPc = "drain" /\ flushMu = "free"
  /\ IF ready[t] # None /\ open[t]
       THEN /\ TakeBuf("pump", t, ready[t])
            /\ pumpPc' = IF buf[t] = <<>> THEN "hold" ELSE "drainSend"
       ELSE /\ pumpPc' = "hold"
            /\ UNCHANGED <<flushVars, buf>>
  /\ UNCHANGED <<open, ready, accum, item, fl, due, srcVars, snapVars,
                 histVars>>

PumpDrainSend ==
  /\ pumpPc = "drainSend" /\ SendGroup("pump", "free")
  /\ pumpPc' = IF Rest = <<>> THEN "hold" ELSE "drainSend"
  /\ UNCHANGED <<item, fl, due, gateVars, srcVars, snapVars, announced,
                 closed, failed>>

\* gateHold on a failed early drain: the batch is released, the run is told to
\* terminate, and the pump goes on with its next batch.
PumpDrainFails ==
  /\ pumpPc = "drainSend" /\ SendFails("pump")
  /\ pumpPc' = "idle" /\ item' = 0
  /\ UNCHANGED <<fl, due, gateVars, srcVars, snapVars, sent, announced,
                 closed>>

PumpLive ==
  /\ pumpPc = "live"
  /\ Enqueue({item}, None)
  /\ pumpPc' = "idle" /\ item' = 0
  /\ UNCHANGED <<fl, due, gateVars, flushVars, srcVars, snapVars, announced,
                 closed, failed>>

\* Any other failed enqueue ends the pump, which then drops its accumulators.
PumpLiveFails ==
  /\ CanFail /\ pumpPc = "live"
  /\ pumpPc' = "release" /\ item' = 0 /\ failed' = failed \cup {"pump"}
  /\ UNCHANGED <<fl, due, gateVars, flushVars, srcVars, snapVars, sent,
                 announced, closed>>

\* Coalescer.Take: into the gate if a window opened meanwhile, else into the
\* accumulator if it fits the cycle, else flush the accumulator and try again.
PumpTake ==
  LET t == src[item] IN
  /\ pumpPc = "take"
  /\ \/ /\ open[t]
        /\ buf' = [buf EXCEPT ![t] = Append(@, item)]
        /\ pumpPc' = "idle" /\ item' = 0
        /\ UNCHANGED <<accum, fl>>
     \/ /\ ~open[t] /\ Len(accum[t]) + 1 <= CycleMax
        /\ accum' = [accum EXCEPT ![t] = Append(@, item)]
        /\ pumpPc' = "due"
        /\ UNCHANGED <<buf, item, fl>>
     \/ /\ ~open[t] /\ Len(accum[t]) + 1 > CycleMax
        /\ pumpPc' = "flush" /\ fl' = t
        /\ UNCHANGED <<buf, accum, item>>
  /\ UNCHANGED <<open, ready, due, srcVars, flushVars, snapVars, histVars>>

\* flushIfDue: a full accumulator is due; one that holds anything is due when
\* it is old enough or none of the table's cycles is being committed.
PumpDue ==
  LET t == src[item] IN
  /\ pumpPc = "due" /\ item' = 0
  /\ \/ accum[t] # <<>> /\ pumpPc' = "flush" /\ fl' = t
     \/ Len(accum[t]) < CycleMax /\ pumpPc' = "idle" /\ fl' = fl
  /\ UNCHANGED <<due, gateVars, srcVars, flushVars, snapVars, histVars>>

\* FlushDue on the pump's tick: the accumulators due now, one after the other.
PumpTick ==
  /\ pumpPc = "idle"
  /\ due' \in SUBSET {t \in Targets : accum[t] # <<>>}
  /\ due' # {}
  /\ pumpPc' = "tick"
  /\ UNCHANGED <<item, fl, gateVars, srcVars, flushVars, snapVars, histVars>>

\* Mutant: the tick finds a table due and does not flush it.
PumpTickForgets(t) ==
  /\ pumpPc = "tick" /\ t \in due
  /\ pumpPc' = "idle" /\ due' = {}
  /\ UNCHANGED <<item, fl, gateVars, srcVars, flushVars, snapVars, histVars>>

PumpTickNext(t) ==
  /\ pumpPc = "tick" /\ t \in due
  /\ pumpPc' = "flush" /\ fl' = t /\ due' = due \ {t}
  /\ UNCHANGED <<item, gateVars, srcVars, flushVars, snapVars, histVars>>

\* Where a flush returns to: Take's loop, the tick's list, or the pump's select.
AfterFlush == IF item # 0 THEN "take" ELSE IF due # {} THEN "tick" ELSE "idle"

\* Coalescer.Flush: take the accumulator under the flush lock and send it as
\* one cycle.
PumpFlush ==
  /\ pumpPc = "flush" /\ flushMu = "free"
  /\ TakeAccum("pump", fl)
  /\ pumpPc' = IF accum[fl] = <<>> THEN AfterFlush ELSE "flushSend"
  /\ UNCHANGED <<open, buf, ready, item, fl, due, srcVars, snapVars,
                 histVars>>

PumpFlushSend ==
  /\ pumpPc = "flushSend" /\ SendGroup("pump", "free")
  /\ pumpPc' = IF Rest = <<>> THEN AfterFlush ELSE "flushSend"
  /\ UNCHANGED <<item, fl, due, gateVars, srcVars, snapVars, announced,
                 closed, failed>>

PumpFlushFails ==
  /\ pumpPc = "flushSend" /\ SendFails("pump")
  /\ pumpPc' = "release" /\ item' = 0
  /\ UNCHANGED <<fl, due, gateVars, srcVars, snapVars, sent, announced,
                 closed>>

\* releaseAccums, deferred by the pump: nothing sends the accumulators any more.
PumpRelease ==
  /\ pumpPc = "release"
  /\ accum' = [t \in Targets |-> <<>>]
  /\ pumpPc' = "dead"
  /\ UNCHANGED <<open, buf, ready, item, fl, due, srcVars, flushVars,
                 snapVars, histVars>>

-----------------------------------------------------------------------------
(* The snapshot goroutine (phaseSnapshot): one table after the other, one    *)
(* window of a table after the other.                                        *)

\* The SELECT of a chunk begins: it sees every batch decoded so far.
BeginScan ==
  /\ snapPc' = "scan"
  /\ scanAt' = Len(src) /\ base' = wid

\* The next table, or (several range partitions) the same one again.
SnapBegin(t) ==
  /\ snapPc = "idle" /\ t \in todo /\ wid < MaxWindows
  /\ tgt' = t /\ snapPc' = "open"
  /\ \/ todo' = todo \ {t}
     \/ t \notin Hash /\ todo' = todo
  /\ UNCHANGED <<wid, high, scanVars, srcVars, gateVars, flushVars, pumpVars,
                 histVars>>

\* Mutant: the window opens without sending the accumulator.
SnapOpenUnflushed ==
  /\ snapPc = "open" /\ flushMu = "free"
  /\ open' = [open EXCEPT ![tgt] = TRUE]
  /\ BeginScan
  /\ UNCHANGED <<buf, ready, accum, tgt, wid, high, todo, srcVars, flushVars,
                 pumpVars, histVars>>

\* openWindowFlushed: under the flush lock the window opens first, then the
\* accumulator, older than anything it will hold, is sent.
SnapOpen ==
  /\ snapPc = "open" /\ flushMu = "free"
  /\ open' = [open EXCEPT ![tgt] = TRUE]
  /\ flushMu' = "snap" /\ snapPc' = "openTake"
  /\ UNCHANGED <<buf, ready, accum, carry, carryTgt, carryTag, tgt, wid, high,
                 todo, scanVars, srcVars, pumpVars, histVars>>

SnapOpenTake ==
  /\ snapPc = "openTake"
  /\ TakeAccum("snap", tgt)
  /\ IF accum[tgt] = <<>> THEN BeginScan
                        ELSE snapPc' = "openSend" /\ UNCHANGED scanVars
  /\ UNCHANGED <<open, buf, ready, tgt, wid, high, todo, srcVars, pumpVars,
                 histVars>>

SnapOpenSend ==
  /\ snapPc = "openSend" /\ SendGroup("snap", "free")
  /\ IF Rest = <<>> THEN BeginScan
                    ELSE snapPc' = "openSend" /\ UNCHANGED scanVars
  /\ UNCHANGED <<tgt, wid, high, todo, gateVars, srcVars, pumpVars, announced,
                 closed, failed>>

\* A chunk has been read and its rows are in the workers' windows: MarkReady,
\* which wakes a blocked pump.  A range window (worker-side SELECT) goes on to
\* the catch-up, up to the position captured after its read; a fan-out chunk
\* flushes first (SnapshotTable: AddWindowRows, then GateFlush).
SnapReady ==
  /\ snapPc = "scan" /\ wid < MaxWindows
  /\ wid' = wid + 1
  /\ announced' = announced \cup {wid'}
  /\ ready' = [ready EXCEPT ![tgt] = wid']
  /\ pumpPc' = Woken
  /\ IF tgt \in Hash THEN snapPc' = "flush" /\ high' = high
                    ELSE snapPc' = "catchUp" /\ high' \in Len(src)..MaxItems
  /\ UNCHANGED <<open, buf, accum, tgt, todo, item, fl, due, scanVars,
                 srcVars, flushVars, sent, closed, failed>>

\* WaitCaughtUp: the reader's position contains the window's.
SnapCaughtUp ==
  /\ snapPc = "catchUp" /\ Len(src) >= high
  /\ snapPc' = IF tgt \in Hash THEN "endDrain" ELSE "flush"
  /\ UNCHANGED <<chunkVars, srcVars, gateVars, flushVars, pumpVars, histVars>>

\* The worker is lost during a range chunk's round-trip: once it is back the
\* partition redoes the chunk under a new window (Redo clears the ready mark).
SnapLost ==
  /\ snapPc \in {"scan", "catchUp"} /\ tgt \notin Hash /\ wid < MaxWindows
  /\ snapPc' = "redo"
  /\ UNCHANGED <<chunkVars, srcVars, gateVars, flushVars, pumpVars, histVars>>

\* Mutant: the redo keeps the lost window's ready mark.
SnapRedoReady ==
  /\ snapPc = "redo"
  /\ BeginScan
  /\ UNCHANGED <<tgt, wid, high, todo, srcVars, gateVars, flushVars, pumpVars,
                 histVars>>

SnapRedo ==
  /\ snapPc = "redo"
  /\ ready' = [ready EXCEPT ![tgt] = None]
  /\ BeginScan
  /\ UNCHANGED <<open, buf, accum, tgt, wid, high, todo, srcVars, flushVars,
                 pumpVars, histVars>>

\* Gate.Flush: the chunk's held batches go out tagged for its window, which
\* stays open but is no longer ready.
SnapFlush ==
  /\ snapPc = "flush" /\ flushMu = "free"
  /\ TakeBuf("snap", tgt, wid)
  /\ ready' = [ready EXCEPT ![tgt] = None]
  /\ pumpPc' = Woken
  /\ snapPc' = IF buf[tgt] = <<>> THEN "mark" ELSE "flushSend"
  /\ UNCHANGED <<open, accum, chunkVars, item, fl, due, srcVars, histVars>>

SnapFlushSend ==
  /\ snapPc = "flushSend" /\ SendGroup("snap", "free")
  /\ snapPc' = IF Rest = <<>> THEN "mark" ELSE "flushSend"
  /\ UNCHANGED <<chunkVars, gateVars, srcVars, pumpVars, announced, closed,
                 failed>>

\* After the flush a range window goes on to its Closes marker.  A fan-out
\* chunk is marked ready again (GateFlush) and waits for the source's position.
SnapMark ==
  /\ snapPc = "mark"
  /\ IF tgt \in Hash
       THEN /\ ready' = [ready EXCEPT ![tgt] = wid]
            /\ pumpPc' = Woken
            /\ high' \in Len(src)..MaxItems
            /\ snapPc' = "catchUp"
       ELSE /\ snapPc' = "closes"
            /\ UNCHANGED <<ready, pumpPc, high>>
  /\ UNCHANGED <<open, buf, accum, tgt, wid, todo, item, fl, due, scanVars,
                 srcVars, flushVars, histVars>>

\* Mutant: Release queues the Closes marker with the chunk still ready.
SnapEndDrainSkipped ==
  /\ snapPc = "endDrain"
  /\ snapPc' = "closes"
  /\ UNCHANGED <<chunkVars, srcVars, gateVars, flushVars, pumpVars, histVars>>

\* endChunkDrain: no early drain after the Closes marker of a fan-out chunk,
\* taken under the flush lock so that one under way has been delivered.
SnapEndDrain ==
  /\ snapPc = "endDrain" /\ flushMu = "free"
  /\ ready' = [ready EXCEPT ![tgt] = None]
  /\ snapPc' = "closes"
  /\ UNCHANGED <<open, buf, accum, chunkVars, srcVars, flushVars, pumpVars,
                 histVars>>

\* The window's Closes marker is queued; then the next window, the next chunk,
\* a redo because the worker was lost meanwhile, or the end of the table.
SnapCloses ==
  /\ snapPc = "closes"
  /\ closed' = closed \cup {wid}
  /\ \/ snapPc' = "close" /\ UNCHANGED scanVars
     \/ /\ wid < MaxWindows /\ UNCHANGED scanVars
        /\ snapPc' \in IF tgt \in Hash THEN {"open"} ELSE {"scan", "redo"}
     \/ wid < MaxWindows /\ tgt \notin Hash /\ BeginScan
  /\ UNCHANGED <<tgt, wid, high, todo, srcVars, gateVars, flushVars, pumpVars,
                 sent, announced, failed>>

\* sealLocked: the window is closed and a blocked pump finds it gone.
Seal ==
  /\ open' = [open EXCEPT ![tgt] = FALSE]
  /\ ready' = [ready EXCEPT ![tgt] = None]
  /\ pumpPc' = Woken

\* Mutant: Close seals the window first and delivers what it held after (#818).
SnapCloseSealsFirst ==
  /\ snapPc = "close" /\ flushMu # "pump"
  /\ TakeBuf("snap", tgt, None)
  /\ Seal
  /\ snapPc' = IF buf[tgt] = <<>> THEN "idle" ELSE "closeSend"
  /\ UNCHANGED <<accum, chunkVars, item, fl, due, srcVars, histVars>>

\* One round of Gate.Close, holding the flush lock across the rounds: the
\* window is sealed only once it is found empty.
SnapClose ==
  /\ snapPc = "close" /\ flushMu # "pump"
  /\ IF buf[tgt] = <<>>
       THEN /\ Seal
            /\ flushMu' = "free" /\ snapPc' = "idle"
            /\ UNCHANGED <<buf, carry, carryTgt, carryTag>>
       ELSE /\ TakeBuf("snap", tgt, None)
            /\ ready' = [ready EXCEPT ![tgt] = None]
            /\ pumpPc' = Woken
            /\ snapPc' = "closeSend" /\ open' = open
  /\ UNCHANGED <<accum, chunkVars, item, fl, due, srcVars, histVars>>

SnapCloseSend ==
  /\ snapPc = "closeSend" /\ SendGroup("snap", "snap")
  /\ snapPc' = IF Rest = <<>> THEN "close" ELSE "closeSend"
  /\ UNCHANGED <<chunkVars, gateVars, srcVars, pumpVars, announced, closed,
                 failed>>

\* A failed delivery of the snapshot goroutine ends the snapshot.
SnapSendFails ==
  /\ snapPc \in {"openSend", "flushSend"} /\ SendFails("snap")
  /\ snapPc' = "failed"
  /\ UNCHANGED <<chunkVars, gateVars, srcVars, pumpVars, sent, announced,
                 closed>>

\* In Close the window is sealed too, and what joined it meanwhile is dropped.
SnapCloseFails ==
  /\ snapPc = "closeSend" /\ SendFails("snap") /\ Seal
  /\ buf' = [buf EXCEPT ![tgt] = <<>>]
  /\ snapPc' = "failed"
  /\ UNCHANGED <<accum, chunkVars, item, fl, due, srcVars, sent, announced,
                 closed>>

\* A chunk read, a catch-up or its watchdog fails.
SnapAborts ==
  /\ CanFail /\ snapPc \in {"scan", "catchUp"}
  /\ snapPc' = "failed" /\ failed' = failed \cup {"snap"}
  /\ UNCHANGED <<chunkVars, gateVars, flushVars, srcVars, pumpVars, sent,
                 announced, closed>>

\* ReleaseAll, deferred by the snapshot goroutine: it takes no flush lock.
SnapReleaseAll ==
  /\ snapPc = "failed"
  /\ open' = [t \in Targets |-> FALSE]
  /\ buf' = [t \in Targets |-> IF open[t] THEN <<>> ELSE buf[t]]
  /\ ready' = [t \in Targets |-> IF open[t] THEN None ELSE ready[t]]
  /\ pumpPc' = Woken
  /\ snapPc' = "dead"
  /\ UNCHANGED <<accum, chunkVars, item, fl, due, srcVars, flushVars,
                 histVars>>

-----------------------------------------------------------------------------

SnapDone == snapPc = "idle" /\ (todo = {} \/ wid = MaxWindows)

\* The end of a bounded behaviour: nothing left to decode, send or snapshot, or
\* the two processes ended by a failure.
Finished ==
  /\ \/ /\ Len(src) = MaxItems /\ pumpPc = "idle" /\ read = MaxItems
        /\ \A t \in Targets : accum[t] = <<>>
     \/ pumpPc = "dead"
  /\ SnapDone \/ snapPc = "dead"
  /\ UNCHANGED vars

ReaderNext == \E t \in Targets : Decode(t)

PumpNext ==
  \/ PumpRead \/ PumpHold \/ PumpDrain \/ PumpDrainSend \/ PumpDrainFails
  \/ PumpLive \/ PumpLiveFails \/ PumpTake \/ PumpDue \/ PumpTick
  \/ \E t \in Targets : PumpTickNext(t)
  \/ PumpFlush \/ PumpFlushSend \/ PumpFlushFails \/ PumpRelease

SnapNext ==
  \/ \E t \in Targets : SnapBegin(t)
  \/ SnapOpen \/ SnapOpenTake \/ SnapOpenSend \/ SnapReady \/ SnapCaughtUp
  \/ SnapLost \/ SnapRedo \/ SnapFlush \/ SnapFlushSend \/ SnapMark
  \/ SnapEndDrain \/ SnapCloses \/ SnapClose \/ SnapCloseSend
  \/ SnapSendFails \/ SnapCloseFails \/ SnapAborts \/ SnapReleaseAll

Next == ReaderNext \/ PumpNext \/ SnapNext \/ Finished

Spec == Init /\ [][Next]_vars

\* Each goroutine keeps taking steps it can take: the reader's source goes on,
\* an enqueue returns, and the Go mutexes are starvation-free.  A worker is not
\* lost before every window it could announce.
FairSpec ==
  /\ Spec
  /\ WF_vars(ReaderNext) /\ WF_vars(PumpNext) /\ WF_vars(SnapNext)
  /\ SF_vars(SnapReady)

-----------------------------------------------------------------------------
(* Properties. *)

Sent(i) == sent[i] # Unsent
SameTable(i, j) == i <= Len(src) /\ j <= Len(src) /\ src[i] = src[j]

\* At-least-once, per table: no batch is enqueued while an earlier batch of its
\* table is not.  The worker's committed position would pass the skipped one.
\* It spans the gate's early drain, Flush and Close (#818), the accumulators and
\* openWindowFlushed.
NoneSkipped ==
  \A i, j \in Items : SameTable(i, j) /\ j < i /\ Sent(i) => Sent(j)

KeepsOrder ==
  \A i, j \in Items :
    /\ Sent(j) => sent'[j] = sent[j]
    /\ SameTable(i, j) /\ j < i /\ Sent(i) /\ ~Sent(j) => sent'[j] = Unsent

\* Source order, failures included: a batch is enqueued once, and never after a
\* later batch of its table (flushMu across gate drains and accumulator sends).
OrderKept == [][KeepsOrder]_vars

\* A batch tagged for a window reaches its worker after the window's rows and
\* before its Closes marker, so it is deduplicated against an open window
\* (Flush, drainReady, endChunkDrain).
TagWindowLive ==
  [][\A i \in Items :
       sent'[i] # sent[i] /\ sent'[i] # None
         => sent'[i] \in announced \ closed]_vars

\* The window's rows are no older than what reached the worker ahead of them: a
\* batch the chunk's SELECT may have missed is enqueued before the Closes marker
\* only under a window of that SELECT, so it replaces the row and not the other
\* way round.
NoStaleRow ==
  snapPc \in {"scan", "catchUp", "flush", "flushSend", "mark", "endDrain",
              "closes"}
    => \A i \in scanAt + 1 .. Len(src) :
         src[i] = tgt /\ Sent(i) => sent[i] > base

\* What the coordinator holds is bounded: a window by GateMax, though Take
\* appends to it without the bound, and an accumulator by a cycle.
HeldWithinBounds ==
  \A t \in Targets : Len(buf[t]) <= GateMax /\ Len(accum[t]) <= CycleMax

\* A full window never stops the catch-up that would empty it (#435, #820,
\* #821).
CatchUpEnds == snapPc = "catchUp" ~> snapPc # "catchUp"

\* Everything the source produced ends up enqueued, a batch an accumulator
\* keeps below every bound included (FlushDue).
EveryBatchSent == <>[](\A i \in 1..Len(src) : Sent(i))

=============================================================================
