---------------------------- MODULE StagedCycles ----------------------------
(* The coordinator's staged commits of one table with several partition      *)
(* owners: the pump opens a cycle per (merged) source batch and sends every  *)
(* owner its share, a fan-out snapshot does the same per chunk, the owners   *)
(* stage their shares and ship descriptors, and a cycle commits, in send     *)
(* order, once every owner it expects has delivered.  Sessions are lost and  *)
(* come back under a new epoch, a commit may fail, the coordinator restarts. *)
EXTENDS Integers, Sequences, FiniteSets, SequencesExt

CONSTANTS NOwners, NChunks, \* how many owners, how many snapshot chunks
          Logs,             \* the source histories considered
          MaxGroup,         \* most batches the accumulator merges in one cycle
          Faults            \* the sets of faults that may happen together, once each

ASSUME SizesAssumption == NOwners \in Nat \ {0} /\ NChunks \in Nat
ASSUME BoundsAssumption ==
    /\ MaxGroup \in Nat \ {0}
    /\ Faults \subseteq SUBSET {"loss", "crash", "reconnect", "fail"}

Owners == 1..NOwners
Chunks == [c \in 1..NChunks |-> c]

(* A source batch of the table: the owners with rows in it, its transaction, *)
(* and whether it ends it.                                                   *)
Batch == [own : (SUBSET Owners) \ {{}}, tx : Nat \ {0, 1}, last : BOOLEAN]

(* Transactions follow one another; each of them ends with its last batch.   *)
(* The stream starts at position 1; 0 stands for no position.                *)
WellFormed(l) ==
    /\ l \in Seq(Batch)
    /\ \A i \in 1..Len(l) - 1 : l[i + 1].tx = IF l[i].last THEN l[i].tx + 1 ELSE l[i].tx
    /\ l # <<>> => l[1].tx = 2 /\ l[Len(l)].last

ASSUME LogsAssumption == \A l \in Logs : WellFormed(l)

VARIABLES
    log, nxt,         \* the source's batches; how many the pump has sent
    spc, todo, pass,  \* the snapshot: its step, chunks to do, the pass's chunks
    fan,              \* the fan-out pass: its open window cycles, the first lost
    cyc, order,       \* every cycle sent, by seq; the seqs not drained yet
    hand,             \* what the pump and the snapshot are half-way through sending
    queue, sent, idx, acked, noted, \* per owner: queued, sent, in flight, acked; last sent
    epoch, sess,      \* per owner: its generation; its session
    chan,             \* per owner: messages of its session, and of earlier ones
    lock, run, rec,   \* the table's lock; the cycles being committed; the one committed
    conf, boot, poisoned, \* positions recorded; the position at boot; a commit failed
    vis, pos, copied, prog, complete, \* the sink
    faults            \* the faults that have happened

snapvars == <<spc, todo, pass, fan>>
sendvars == <<nxt, cyc, order, hand, queue, noted>>
worker == <<epoch, sess, chan>>
sink == <<vis, pos, copied, prog, complete>>
commit == <<lock, run, rec, conf, poisoned>>
vars == <<log, snapvars, sendvars, sent, idx, acked, worker, commit, boot, sink, faults>>

Senders == {"pump", "snap"}
Idle == [q |-> 0, c |-> 0, left |-> {}]
Busy(s) == hand[s].left # {}

(* What a queue carries: the share of cycle q, or (q = 0) the rows of the    *)
(* window of chunk c.                                                        *)
Share(q) == [q |-> q, c |-> 0]
WindowRows(c) == [q |-> 0, c |-> c]

(* A lost or not yet attached session.                                       *)
NoSession == [up |-> FALSE, ep |-> 0, com |-> 0, wire |-> <<>>, win |-> {}, buf |-> <<>>]

NoPass == [open |-> {}, lost |-> 0]

(***************************************************************************)
(* Positions.  A batch that ends its transaction carries the transaction's *)
(* position; a piece of a longer one the position before it.               *)
(***************************************************************************)
PosOf(i) == IF log[i].last THEN log[i].tx ELSE log[i].tx - 1

(* How many batches the source has at or before position p.                  *)
SentThrough(p) == Cardinality({i \in DOMAIN log : log[i].tx <= p})

\* Mutant: a partial share at the committed position counts as committed.
CoveredPartial(h, partial, c) == c # 0 /\ h <= c

(* A share at high position h is skipped by whoever knows the table is       *)
(* committed through c (0: nothing is).                                      *)
Covered(h, partial, c) ==
    c # 0 /\ IF partial THEN h < c ELSE h <= c

(***************************************************************************)
(* The cycles.                                                             *)
(***************************************************************************)
Cycle(kind, own, exp, hi, at) ==
    [kind |-> kind, own |-> own, exp |-> exp, hi |-> hi, at |-> at,
     part |-> FALSE, from |-> 1, upto |-> 0, chunk |-> 0, pend |-> <<>>,
     desc |-> <<>>, lost |-> {}]

(* Batches i..j merged (Concat): an owner's share is high at its own last    *)
(* row, the merged batch is partial when its last one is.                    *)
LiveCycle(i, j) ==
    LET own == UNION {log[k].own : k \in i..j}
        hi  == [o \in Owners |->
                  LET mine == {k \in i..j : o \in log[k].own}
                  IN IF mine = {} THEN 0
                     ELSE PosOf(CHOOSE k \in mine : \A m \in mine : m <= k)]
        exp == {o \in own : ~Covered(hi[o], ~log[j].last, boot)}
    IN [Cycle("live", own, exp, hi, PosOf(j))
           EXCEPT !.part = ~log[j].last, !.from = i, !.upto = j]

Completed(q) == Len(cyc[q].desc) = Cardinality(cyc[q].exp)

(* The cycles the tracker still accumulates.                                 *)
Open(q) == q \in ToSet(order) /\ ~Completed(q)

Fault(kind) ==
    /\ kind \notin faults
    /\ \E together \in Faults : faults \cup {kind} \subseteq together
    /\ faults' = faults \cup {kind}

Init ==
    /\ log \in Logs /\ nxt = 0
    /\ spc = IF NChunks = 0 THEN "off" ELSE "read"
    /\ todo = Chunks /\ pass = Chunks /\ fan = NoPass
    /\ cyc = <<>> /\ order = <<>>
    /\ hand = [s \in Senders |-> Idle]
    /\ queue = [o \in Owners |-> <<>>] /\ sent = queue /\ idx = queue
    /\ acked = [o \in Owners |-> 0] /\ noted = 0
    /\ epoch = [o \in Owners |-> 1]
    /\ sess = [o \in Owners |-> NoSession]
    /\ chan = [o \in Owners |-> [cur |-> <<>>, old |-> <<>>]]
    /\ lock = <<>> /\ run = <<>> /\ rec = 0
    /\ conf = [o \in Owners |-> 0] /\ boot = 0 /\ poisoned = FALSE
    /\ vis = {} /\ pos = 0 /\ copied = {} /\ prog = Chunks /\ complete = FALSE
    /\ faults = {}

(***************************************************************************)
(* Sending.                                                                *)
(***************************************************************************)

(* ExpectAt, ExpectWindow, Expect: the cycle enters the send order, unless   *)
(* nobody is expected to deliver for it.                                     *)
Expect(s, c) ==
    LET q == Len(cyc) + 1
    IN /\ cyc' = Append(cyc, c)
       /\ order' = IF c.exp = {} THEN order ELSE Append(order, q)
       /\ hand' = [hand EXCEPT ![s] = [q |-> q, c |-> 0, left |-> c.own]]

(* enqueuePartitioned: the accumulator, or a window's drain, merges the next *)
(* batches.  While a window is open only its drain sends, never across the   *)
(* window's own rows and marker.                                             *)
PumpSend(n) ==
    /\ ~Busy("pump")
    /\ spc # "off" => ~Busy("snap")
    /\ nxt + n <= Len(log)
    /\ Expect("pump", LiveCycle(nxt + 1, nxt + n))
    /\ nxt' = nxt + n
    /\ UNCHANGED <<log, snapvars, queue, noted, sent, idx, acked, worker, commit, boot, sink, faults>>

(* deliverBatch: the owner's in-flight index first, its queue, and then the  *)
(* table's last sent position.  A window's rows are only queued.             *)
SendShare(s) ==
    /\ Busy(s)
    /\ LET h == hand[s]
           o == CHOOSE p \in h.left : \A r \in h.left : p <= r
       IN /\ queue' = [queue EXCEPT ![o] = Append(@, [q |-> h.q, c |-> h.c])]
          /\ IF h.q = 0
               THEN UNCHANGED <<idx, noted>>
               ELSE /\ idx' = [idx EXCEPT ![o] = Append(@, h.q)]
                    /\ noted' = IF cyc[h.q].kind = "live" THEN cyc[h.q].hi[o] ELSE cyc[h.q].at
          /\ hand' = [hand EXCEPT ![s].left = @ \ {o}]
    /\ UNCHANGED <<log, nxt, snapvars, cyc, order, sent, acked, worker, commit, boot, sink, faults>>

(* AddWindowRows: a window for every owner, rows or not (#829).              *)
SnapRows ==
    /\ spc = "read" /\ ~Busy("pump") /\ ~Busy("snap")
    /\ hand' = [hand EXCEPT !["snap"] = [q |-> 0, c |-> Head(todo), left |-> Owners]]
    /\ spc' = "close"
    /\ UNCHANGED <<log, nxt, todo, pass, fan, cyc, order, queue, noted, sent, idx, acked, worker, commit, boot, sink, faults>>

(* Release, closeFanoutChunk: the Closes markers are one cycle over all the  *)
(* owners, and carry the chunks that remain.                                 *)
SnapClose ==
    /\ spc = "close" /\ ~Busy("pump") /\ ~Busy("snap")
    /\ LET c == Head(todo)
           at == IF nxt = 0 THEN 1 ELSE PosOf(nxt)
       IN /\ Expect("snap", [Cycle("window", Owners, Owners, [o \in Owners |-> at], at)
                               EXCEPT !.chunk = c, !.pend = Tail(todo)])
          /\ fan' = [fan EXCEPT !.open = @ \cup {Len(cyc) + 1}]
    /\ todo' = Tail(todo)
    /\ spc' = IF Tail(todo) = <<>> THEN "drain" ELSE "read"
    /\ UNCHANGED <<log, nxt, pass, queue, noted, sent, idx, acked, worker, commit, boot, sink, faults>>

\* Mutant: the snapshot finishes without waiting for its windows.
SnapDrainedEarly ==
    /\ spc = "drain" /\ ~Busy("snap")
    /\ spc' = "finish" /\ fan' = NoPass
    /\ UNCHANGED <<log, todo, pass, sendvars, sent, idx, acked, worker, commit, boot, sink, faults>>

(* Await, Drained: the pass is over once its windows are resolved; the       *)
(* chunks from the first lost one on are read again.                         *)
SnapDrained ==
    /\ spc = "drain" /\ ~Busy("snap") /\ fan.open = {}
    /\ IF fan.lost = 0
         THEN spc' = "finish" /\ UNCHANGED <<todo, pass>>
         ELSE /\ spc' = "read"
              /\ pass' = SelectSeq(pass, LAMBDA c : c >= fan.lost)
              /\ todo' = pass'
    /\ fan' = NoPass
    /\ UNCHANGED <<log, sendvars, sent, idx, acked, worker, commit, boot, sink, faults>>

(* finishSnapshot: the completion is a cycle of its own, for the owner of    *)
(* the last window, at the table's last sent position.                       *)
SnapFinish ==
    /\ spc = "finish"
    /\ Expect("snap", Cycle("done", {NOwners}, {NOwners}, [o \in Owners |-> noted], noted))
    /\ spc' = "off"
    /\ UNCHANGED <<log, nxt, todo, pass, fan, queue, noted, sent, idx, acked, worker, commit, boot, sink, faults>>

(***************************************************************************)
(* The owners.                                                             *)
(***************************************************************************)

(* A session takes the current generation, reads the table's committed       *)
(* position from the sink, and is sent again what it was sent and did not    *)
(* ack.                                                                      *)
Attach(o) ==
    /\ ~sess[o].up
    /\ sess' = [sess EXCEPT ![o] =
         [NoSession EXCEPT !.up = TRUE, !.ep = epoch[o], !.com = pos,
                           !.wire = [k \in DOMAIN sent[o] |-> Share(sent[o][k])]]]
    /\ UNCHANGED <<log, snapvars, sendvars, sent, idx, acked, epoch, chan, commit, boot, sink, faults>>

(* DoGet: the next queued batch goes on the wire, and on the sent list       *)
(* unless it is a window's rows.                                             *)
DoGet(o) ==
    /\ sess[o].up /\ queue[o] # <<>>
    /\ LET b == Head(queue[o])
       IN /\ sess' = [sess EXCEPT ![o].wire = Append(@, b)]
          /\ sent' = IF b.q = 0 THEN sent ELSE [sent EXCEPT ![o] = Append(@, b.q)]
    /\ queue' = [queue EXCEPT ![o] = Tail(@)]
    /\ UNCHANGED <<log, nxt, snapvars, cyc, order, hand, noted, idx, acked, epoch, chan, commit, boot, sink, faults>>

Staged(o, q, lost) == [k |-> "staged", q |-> q, lost |-> lost, ep |-> sess[o].ep, ok |-> FALSE]
Ack(o, p) == [k |-> "ack", p |-> p, ep |-> sess[o].ep]
Marker(o, q) == [k |-> "marker", q |-> q, ep |-> sess[o].ep]

(* apply: window rows are kept, a covered share is acked and skipped, and    *)
(* anything else goes to the batcher.                                        *)
Receive(o) ==
    /\ sess[o].up /\ sess[o].wire # <<>>
    /\ LET b == Head(sess[o].wire)
           s == [sess[o] EXCEPT !.wire = Tail(@)]
           c == cyc[b.q]
           skip == b.q # 0 /\ c.kind = "live" /\ Covered(c.hi[o], c.part, s.com)
       IN /\ sess' = [sess EXCEPT ![o] =
                        IF b.q = 0 THEN [s EXCEPT !.win = @ \cup {b.c}]
                        ELSE IF skip THEN s ELSE [s EXCEPT !.buf = Append(@, b.q)]]
          /\ chan' = IF skip
                       THEN [chan EXCEPT ![o].cur =
                               Append(@, Ack(o, IF c.part THEN s.com ELSE c.hi[o]))]
                       ELSE chan
    /\ UNCHANGED <<log, snapvars, sendvars, sent, idx, acked, epoch, commit, boot, sink, faults>>

(* The batcher flushes one cycle at a time; the committer stages it, ships   *)
(* the descriptor and then acks: a live share by position, a window by the   *)
(* id of its marker.                                                         *)
Stage(o) ==
    /\ sess[o].up /\ sess[o].buf # <<>>
    /\ LET q == Head(sess[o].buf)
           c == cyc[q]
           window == c.kind = "window"
       IN /\ sess' = [sess EXCEPT ![o].buf = Tail(@),
                                  ![o].win = IF window THEN @ \ {c.chunk} ELSE @]
          /\ chan' = [chan EXCEPT ![o].cur = @ \o
               <<Staged(o, q, window /\ c.chunk \notin sess[o].win),
                 IF window THEN Marker(o, q) ELSE Ack(o, c.hi[o])>>]
    /\ UNCHANGED <<log, snapvars, sendvars, sent, idx, acked, epoch, commit, boot, sink, faults>>

(* loseWorker: the generation is superseded.  The messages the coordinator   *)
(* had received are still handled, whatever is sent after them is not.       *)
LoseWorker(o) ==
    /\ sess[o].up
    /\ Fault("loss")
    /\ epoch' = [epoch EXCEPT ![o] = @ + 1]
    /\ sess' = [sess EXCEPT ![o] = NoSession]
    /\ \E k \in 0..Len(chan[o].cur) :
         chan' = [chan EXCEPT ![o] = [cur |-> <<>>, old |-> @.old \o SubSeq(@.cur, 1, k)]]
    /\ lock' = IF lock = <<"cur", o>> THEN <<"old", o>> ELSE lock
    /\ UNCHANGED <<log, snapvars, sendvars, sent, idx, acked, run, rec, conf, poisoned, boot, sink>>

(***************************************************************************)
(* The coordinator's end of an owner's stream.  Messages of one stream are *)
(* handled one at a time: none while its handler holds the table's lock.   *)
(***************************************************************************)
Ready(o, ch, kind) ==
    /\ chan[o][ch] # <<>> /\ chan[o][ch][1].k = kind
    /\ lock # <<ch, o>>

Handled(o, ch) == chan' = [chan EXCEPT ![o][ch] = Tail(@)]

(* OnDelivery, first half: the epoch is checked before the lock is taken.    *)
CheckEpoch(o, ch) ==
    /\ Ready(o, ch, "staged") /\ ~chan[o][ch][1].ok
    /\ IF chan[o][ch][1].ep = epoch[o]
         THEN chan' = [chan EXCEPT ![o][ch][1].ok = TRUE]
         ELSE Handled(o, ch)
    /\ UNCHANGED <<log, snapvars, sendvars, sent, idx, acked, epoch, sess, commit, boot, sink, faults>>

(* MarkLost and Deliver: one delivery per expected owner.                    *)
Delivered(o, q, lost) ==
    IF Open(q) /\ o \in cyc[q].exp /\ o \notin ToSet(cyc[q].desc)
      THEN [cyc EXCEPT ![q].desc = Append(@, o),
                       ![q].lost = IF lost THEN @ \cup {o} ELSE @]
      ELSE cyc

\* Mutant: a delivery drains the head of the order only.
DrainableOne(cs) ==
    IF order # <<>> /\ Len(cs[order[1]].desc) = Cardinality(cs[order[1]].exp) THEN 1 ELSE 0

(* drainLocked: how many cycles at the head of the order are complete.       *)
Drainable(cs) ==
    LET Done(k) == Len(cs[order[k]].desc) = Cardinality(cs[order[k]].exp)
    IN CHOOSE n \in 0..Len(order) :
         /\ \A k \in 1..n : Done(k)
         /\ n < Len(order) => ~Done(n + 1)

(* OnDelivery, second half, under the table's lock: the cycles now complete  *)
(* and in turn leave the order, and this handler commits them.               *)
Deliver(o, ch) ==
    /\ Ready(o, ch, "staged") /\ chan[o][ch][1].ok
    /\ lock = <<>>
    /\ Handled(o, ch)
    /\ IF poisoned
         THEN UNCHANGED <<cyc, order, run, lock>>
         ELSE /\ cyc' = Delivered(o, chan[o][ch][1].q, chan[o][ch][1].lost)
              /\ run' = SubSeq(order, 1, Drainable(cyc'))
              /\ order' = SubSeq(order, Drainable(cyc') + 1, Len(order))
              /\ lock' = IF run' = <<>> THEN <<>> ELSE <<ch, o>>
    /\ UNCHANGED <<log, nxt, snapvars, hand, queue, noted, sent, idx, acked, epoch, sess, rec, conf, poisoned, boot, sink, faults>>

\* Mutant: the handler never unlocks.
NextCycleLocked ==
    run' = Tail(run) /\ lock' = lock

(* The handler goes on to its next cycle, and unlocks after the last one.    *)
NextCycle ==
    /\ run' = Tail(run)
    /\ lock' = IF Tail(run) = <<>> THEN <<>> ELSE lock

\* Mutant: only a lost window leaves its pass.
ResolvedKeeps(q) ==
    [open |-> IF cyc[q].lost # {} THEN fan.open \ {q} ELSE fan.open,
     lost |-> IF cyc[q].lost # {} THEN cyc[q].chunk ELSE fan.lost]

(* Resolve: a window cycle leaves its pass; it is dropped when an owner lost *)
(* it or it follows one an owner lost.                                       *)
Resolved(q) ==
    [open |-> fan.open \ {q},
     lost |-> IF q \in fan.open /\ cyc[q].lost # {} /\ fan.lost = 0 THEN cyc[q].chunk
              ELSE fan.lost]

\* Mutant: a window an owner lost is committed (#829).
DroppedNever(q) == FALSE

Dropped(q) == cyc[q].kind = "window" /\ q \in fan.open /\ Resolved(q).lost # 0

(* CommitStaged: the descriptors of the cycle and what it records become     *)
(* visible at once.  A window commits no position, and the last window's     *)
(* empty list of chunks does not survive the wire, so it records none.       *)
SinkCommit(q) ==
    LET c == cyc[q]
        from == ToSet(c.desc)
    IN /\ vis' = vis \cup UNION {{i} \X (log[i].own \cap from) : i \in c.from..c.upto}
       /\ pos' = IF c.kind = "live" THEN c.at ELSE pos
       /\ copied' = IF c.kind = "window" THEN copied \cup {c.chunk} \X (from \ c.lost) ELSE copied
       /\ prog' = IF c.pend = <<>> THEN prog ELSE c.pend
       /\ complete' = (complete \/ c.kind = "done")

(* commitLocked, up to the sink's commit.                                    *)
CommitCycle ==
    /\ run # <<>> /\ rec = 0
    /\ LET q == Head(run)
       IN /\ fan' = IF cyc[q].kind = "window" THEN Resolved(q) ELSE fan
          /\ IF Dropped(q) THEN UNCHANGED sink ELSE SinkCommit(q)
          /\ IF cyc[q].kind = "live"
               THEN rec' = q /\ UNCHANGED <<run, lock>>
               ELSE NextCycle /\ UNCHANGED rec
    /\ UNCHANGED <<log, spc, todo, pass, sendvars, sent, idx, acked, worker, conf, poisoned, boot, faults>>

(* The sink's commit returns an error, whether or not it took effect: the    *)
(* table is poisoned and the run is ended.                                   *)
CommitFails ==
    /\ run # <<>> /\ rec = 0 /\ Fault("fail")
    /\ LET q == Head(run)
       IN /\ ~Dropped(q)
          /\ fan' = IF cyc[q].kind = "window" THEN Resolved(q) ELSE fan
          /\ SinkCommit(q) \/ UNCHANGED sink
    /\ poisoned' = TRUE
    /\ run' = <<>> /\ lock' = <<>>
    /\ UNCHANGED <<log, spc, todo, pass, sendvars, sent, idx, acked, worker, rec, conf, boot>>

(***************************************************************************)
(* The in-flight index.                                                    *)
(***************************************************************************)

(* popCoveredLocked: a marker leaves only by its id, a partial share only by *)
(* a position beyond its own.                                                *)
Releasable(o, q, a) ==
    /\ cyc[q].kind # "window"
    /\ IF cyc[q].part THEN cyc[q].hi[o] < a ELSE cyc[q].hi[o] <= a

PopCovered(o, ix, a) ==
    LET n == CHOOSE n \in 0..Len(ix) :
               /\ \A k \in 1..n : Releasable(o, ix[k], a)
               /\ n < Len(ix) => ~Releasable(o, ix[n + 1], a)
    IN SubSeq(ix, n + 1, Len(ix))

(* dropSent: what leaves the index is not sent again.                        *)
DropSent(o, ix) == SelectSeq(sent[o], LAMBDA q : q \notin ToSet(idx[o]) \ ToSet(ix))

Larger(a, b) == IF a >= b THEN a ELSE b


(* Truncate the indexes of the owners in S at position p.                    *)
Truncate(S, p) ==
    LET a(o) == Larger(acked[o], p)
        ix(o) == PopCovered(o, idx[o], a(o))
    IN /\ acked' = [o \in Owners |-> IF o \in S THEN a(o) ELSE acked[o]]
       /\ idx' = [o \in Owners |-> IF o \in S THEN ix(o) ELSE idx[o]]
       /\ sent' = [o \in Owners |-> IF o \in S THEN DropSent(o, ix(o)) ELSE sent[o]]

(* Committed, releaseCommittedCycles: only now is the position recorded, for *)
(* the cycle's owners; every owner's index gives up what it covers.          *)
RecordCommitted ==
    /\ rec # 0
    /\ conf' = [o \in Owners |-> IF o \in cyc[rec].exp THEN cyc[rec].at ELSE conf[o]]
    /\ Truncate(Owners, cyc[rec].at)
    /\ rec' = 0 /\ NextCycle
    /\ UNCHANGED <<log, snapvars, sendvars, worker, poisoned, boot, sink, faults>>

\* Mutant: the ack of a superseded generation releases (#855).
OnAckStale(o, ch) ==
    /\ Ready(o, ch, "ack")
    /\ Truncate({o}, chan[o][ch][1].p)
    /\ Handled(o, ch)
    /\ UNCHANGED <<log, snapvars, sendvars, epoch, sess, commit, boot, sink, faults>>

\* Mutant: the ack of a staged share records its position, as a plain one does.
OnAckRecords(o, ch) ==
    /\ Ready(o, ch, "ack")
    /\ IF chan[o][ch][1].ep = epoch[o]
         THEN Truncate({o}, chan[o][ch][1].p) /\ conf' = [conf EXCEPT ![o] = chan[o][ch][1].p]
         ELSE UNCHANGED <<sent, idx, acked, conf>>
    /\ Handled(o, ch)
    /\ UNCHANGED <<log, snapvars, sendvars, epoch, sess, lock, run, rec, poisoned, boot, sink, faults>>

(* OnAck of a position: it releases, and records nothing on a staged table.  *)
(* A superseded generation's ack is dropped, as its delivery is (#855).      *)
OnAck(o, ch) ==
    /\ Ready(o, ch, "ack")
    /\ IF chan[o][ch][1].ep = epoch[o]
         THEN Truncate({o}, chan[o][ch][1].p)
         ELSE UNCHANGED <<sent, idx, acked>>
    /\ Handled(o, ch)
    /\ UNCHANGED <<log, snapvars, sendvars, epoch, sess, commit, boot, sink, faults>>

(* OnAck of a marker id, onMarkerAck.                                        *)
OnMarkerAck(o, ch) ==
    /\ Ready(o, ch, "marker")
    /\ IF chan[o][ch][1].ep = epoch[o]
         THEN LET ix == PopCovered(o, SelectSeq(idx[o], LAMBDA q : q # chan[o][ch][1].q), acked[o])
              IN /\ idx' = [idx EXCEPT ![o] = ix]
                 /\ sent' = [sent EXCEPT ![o] = DropSent(o, ix)]
         ELSE UNCHANGED <<sent, idx>>
    /\ Handled(o, ch)
    /\ UNCHANGED <<log, snapvars, sendvars, acked, epoch, sess, commit, boot, sink, faults>>

(***************************************************************************)
(* Restarts.                                                               *)
(***************************************************************************)

(* The coordinator ends, killed or by a failed commit, and boots again: the  *)
(* stream resumes at p, the lowest position any table needs, this table is   *)
(* known committed through pos, its snapshot resumes at the recorded chunks. *)
Restart(p) ==
    /\ IF poisoned THEN UNCHANGED faults ELSE Fault("crash")
    /\ nxt' = SentThrough(p)
    /\ spc' = IF complete \/ NChunks = 0 THEN "off" ELSE "read"
    /\ todo' = prog /\ pass' = prog /\ fan' = NoPass
    /\ cyc' = <<>> /\ order' = <<>>
    /\ hand' = [s \in Senders |-> Idle]
    /\ queue' = [o \in Owners |-> <<>>] /\ sent' = queue' /\ idx' = queue'
    /\ acked' = [o \in Owners |-> 0] /\ noted' = 0
    /\ epoch' = [o \in Owners |-> 1]
    /\ sess' = [o \in Owners |-> NoSession]
    /\ chan' = [o \in Owners |-> [cur |-> <<>>, old |-> <<>>]]
    /\ lock' = <<>> /\ run' = <<>> /\ rec' = 0
    /\ conf' = [o \in Owners |-> pos] /\ boot' = pos /\ poisoned' = FALSE
    /\ UNCHANGED <<log, sink>>

(* The source's stream breaks and is opened again at an earlier position.    *)
Reconnect(p) ==
    /\ Fault("reconnect")
    /\ nxt' = SentThrough(p)
    /\ UNCHANGED <<log, snapvars, cyc, order, hand, queue, noted, sent, idx, acked, worker, commit, boot, sink>>

(* Confirmed positions a stream may resume at.                               *)
Resumable == 0..pos

Handle(o, ch) == CheckEpoch(o, ch) \/ Deliver(o, ch) \/ OnAck(o, ch) \/ OnMarkerAck(o, ch)

Snapshot == SnapRows \/ SnapClose \/ SnapDrained \/ SnapFinish

Next ==
    \/ \E n \in 1..MaxGroup : PumpSend(n)
    \/ \E s \in Senders : SendShare(s)
    \/ Snapshot
    \/ \E o \in Owners : Attach(o) \/ DoGet(o) \/ Receive(o) \/ Stage(o) \/ LoseWorker(o)
    \/ \E o \in Owners, ch \in {"cur", "old"} : Handle(o, ch)
    \/ CommitCycle \/ CommitFails \/ RecordCommitted
    \/ \E p \in Resumable : Restart(p) \/ Reconnect(p)

Spec == Init /\ [][Next]_vars

(* Every goroutine of the coordinator and of the owners goes on running, and *)
(* a failed run is started again; faults are not owed.                       *)
Fairness ==
    /\ WF_vars(\E n \in 1..MaxGroup : PumpSend(n))
    /\ \A s \in Senders : WF_vars(SendShare(s))
    /\ WF_vars(Snapshot)
    /\ \A o \in Owners :
         /\ WF_vars(Attach(o)) /\ WF_vars(DoGet(o))
         /\ WF_vars(Receive(o)) /\ WF_vars(Stage(o))
         /\ \A ch \in {"cur", "old"} : WF_vars(Handle(o, ch))
    /\ WF_vars(CommitCycle) /\ WF_vars(RecordCommitted)
    /\ WF_vars(poisoned /\ \E p \in Resumable : Restart(p))

FairSpec == Spec /\ Fairness

(***************************************************************************)
(* Properties.                                                             *)
(***************************************************************************)

(* The shapes of the coordinator's, the owners' and the sink's state.        *)
TypeOK ==
    /\ log \in Logs /\ nxt \in 0..Len(log)
    /\ spc \in {"read", "close", "drain", "finish", "off"}
    /\ todo \in Seq(1..NChunks) /\ pass \in Seq(1..NChunks) /\ prog \in Seq(1..NChunks)
    /\ (spc \in {"read", "close"}) => todo # <<>>
    /\ \A q \in DOMAIN cyc : ToSet(cyc[q].desc) \subseteq cyc[q].exp /\ cyc[q].exp \subseteq cyc[q].own
    /\ ToSet(order) \cup ToSet(run) \cup fan.open \subseteq DOMAIN cyc
    /\ rec # 0 => run # <<>> /\ rec = Head(run)
    /\ (run = <<>>) = (lock = <<>>)
    /\ \A o \in Owners :
         /\ ToSet(idx[o]) \cup ToSet(sent[o]) \subseteq DOMAIN cyc
         /\ sess[o].up => sess[o].ep <= epoch[o]
         /\ chan[o].cur # <<>> => sess[o].up

Table == INSTANCE StagedTable

(* The staged table changes only by whole cycles, and what is recorded with  *)
(* the rows never says more than they do: StagedTable's promise.  (Cycles,   *)
(* OnDelivery, FanoutPasses, coveredAtBoot together.)                        *)
CommitsWholeCycles == Table!Spec

(* Everything at or before the table's position is in the table, and so is   *)
(* every chunk its snapshot record no longer names: what a restart skips is  *)
(* there.  (coveredAtBoot, CommitPosition #468 #459, FanoutPasses #829.)     *)
RecordsHonest ==
    /\ Table!Through(pos, vis)
    /\ Table!CopiedBut(IF complete THEN <<>> ELSE prog, copied)

(* A share an open cycle still waits for is about to be queued, queued, or   *)
(* on the list a new session is sent again; a cycle never waits for a share  *)
(* nobody will send.  (OnAck #855, dropSent, releaseCommittedCycles.)        *)
NoShareForgotten ==
    \A q \in ToSet(order) : \A o \in cyc[q].exp \ ToSet(cyc[q].desc) :
        \/ \E s \in Senders : hand[s].q = q /\ o \in hand[s].left
        \/ Share(q) \in ToSet(queue[o])
        \/ q \in ToSet(sent[o])


(* The positions the source's retention follows are durable: on a staged     *)
(* table the coordinator records one only after the cycle's commit, "so      *)
(* source retention never passes data the cycle still owes" (OnAck).         *)
RecordedDurable == \A o \in Owners : Table!Through(conf[o], vis)

(* Every batch and every chunk ends up in the table and its completion is    *)
(* recorded, nothing stays open or in flight.  (Cycles, releaseCommittedCycles *)
(* #823, fan-out redo #829, redelivery.)                                     *)
Settled ==
    /\ \A i \in DOMAIN log : Table!Shares(i) \subseteq vis
    /\ NChunks # 0 => complete
    /\ order = <<>> /\ \A o \in Owners : idx[o] = <<>>
Converges == <>[]Settled

=============================================================================
