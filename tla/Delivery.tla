------------------------------ MODULE Delivery ------------------------------
(***************************************************************************)
(* How a batch of a table with one owner reaches the sink, and what the    *)
(* source is told of it: the coordinator's enqueue path, the in-flight     *)
(* index, the Flight stream with its sent list, the worker's receiver,     *)
(* committer and acks, and the confirmed position the Postgres reader      *)
(* reports to its slot (internal/coordinator/{enqueue,flight,confirmed,    *)
(* recovery}.go, internal/inflight/index.go, internal/confirmed,           *)
(* internal/worker/remote/receiver.go, internal/worker/batcher_commit.go,  *)
(* internal/source/postgres/reader.go).                                    *)
(*                                                                         *)
(* A worker group owns one table, so a worker is named by its table.  The  *)
(* source's log is a sequence of batches; a position is a natural number,  *)
(* 0 standing for the point the run starts from.  A batch of transaction   *)
(* tx carries tx as its position when it ends its table's rows of tx, and  *)
(* the position of the transaction before when more of them follow.        *)
(*                                                                         *)
(* The sink is the set of batches whose effect it holds, in the worst case *)
(* where every batch of a table writes the same key: applying a batch      *)
(* undoes the later ones that were applied before it.                      *)
(***************************************************************************)
EXTENDS Integers, Sequences, FiniteSets, SequencesExt, FiniteSetsExt

CONSTANTS
  Tables,         \* the pipeline's tables, and the worker that owns each
  Logs,           \* the source logs considered
  Gated,          \* the tables whose snapshot window is open at the start
  QueueCap,       \* workerQueueCap
  Faults          \* bound: the sets of faults that may happen together, once each

\* A batch: its table, its transaction, the position it carries, and whether
\* the sink keeps any of its rows (an append table drops its deletes).
Batch == [tbl : Tables, tx : Nat \ {0}, pos : Nat, kept : BOOLEAN]

\* What the readers emit: transactions in order, a batch that is not the last
\* of its table's in its transaction carrying an earlier position.
WellFormed(l) ==
  /\ \A i \in DOMAIN l : l[i].pos <= l[i].tx
  /\ \A i, j \in DOMAIN l : i < j =>
       /\ l[i].tx <= l[j].tx
       /\ l[i].tbl = l[j].tbl /\ l[i].tx = l[j].tx => l[i].pos < l[i].tx
       /\ l[i].tx < l[j].tx => l[i].tx <= l[j].pos

ASSUME DeliveryAssumption ==
  /\ \A l \in Logs : l \in Seq(Batch) /\ WellFormed(l)
  /\ Gated \subseteq Tables
  /\ QueueCap \in Nat \ {0}
  /\ Faults \subseteq SUBSET {"loss", "crash", "reconnect"}

VARIABLES
  log,      \* the source's log
  nxt,      \* how much of it the pump has taken since the stream started
  gate,     \* the tables with an open window
  held,     \* gate.buf: the batches a window holds
  hand,     \* what each sender has taken and not handed over
  stage,    \* how far the first of them is: taken, indexed or queued
  seq,      \* batchSeq
  idx,      \* PositionIndex.head: the unacked batches of each worker
  acked,    \* PositionIndex.acked
  queue,    \* workerState.queue
  sent,     \* workerState.sent: delivered and not acked
  noted,    \* confirmed.Sent: the last position sent of each table
  conf,     \* confirmed.Positions
  up,       \* the workers with a session
  com,      \* the position a worker's session found in the sink
  wire,     \* the Flight messages of a session
  pend,     \* what a worker holds: the batcher's pending and the ready batches
  acks,     \* the acks on a session's stream
  late,     \* the acks of ended sessions the coordinator has still to handle
  eff,      \* the batches in effect in the sink
  sinkPos,  \* cdc.position of each table
  ask,      \* the reader's call of confirmedPosition
  slot,     \* confirmed_flush_lsn
  faults    \* the faults that have happened

source == <<log, nxt>>
gating == <<gate, held>>
sending == <<hand, stage, seq>>
flight == <<idx, acked, queue, sent>>
session == <<up, com, wire, pend>>
sink == <<eff, sinkPos>>
vars == <<source, gating, sending, flight, noted, conf, session, acks, late,
          sink, ask, slot, faults>>

Senders == {"pump", "snap"}
Empty == [t \in Tables |-> <<>>]
Zero == [t \in Tables |-> 0]
Partial(b) == b.pos # b.tx

\* A batch on its way: its id, 0 before it has one, and its place in the log.
Entry == [id : Nat, i : Nat \ {0}]
Taken(i) == [id |-> 0, i |-> i]
Idle == [pc |-> "idle", dispatched |-> 0, owing |-> {}, best |-> 0,
         frontier |-> FALSE]

Init ==
  /\ log \in Logs /\ nxt = 0
  /\ gate = Gated /\ held = Empty
  /\ hand = [s \in Senders |-> <<>>] /\ stage = [s \in Senders |-> "taken"]
  /\ seq = 0
  /\ idx = Empty /\ acked = Zero /\ queue = Empty /\ sent = Empty
  /\ noted = Zero /\ conf = Zero
  /\ up = {} /\ com = Zero /\ wire = Empty /\ pend = Empty
  /\ acks = Empty /\ late = Empty
  /\ eff = {} /\ sinkPos = Zero
  /\ ask = Idle /\ slot = 0
  /\ faults = {}

\* A fault happens; an environment's step, never owed.
Fault(kind) ==
  /\ kind \notin faults
  /\ \E together \in Faults : faults \cup {kind} \subseteq together
  /\ faults' = faults \cup {kind}

(***************************************************************************)
(* The senders: the pump, and the snapshot goroutine draining a window.    *)
(***************************************************************************)

\* Mutant: the pump delivers a batch only once the next one has come.
PumpTakeLate ==
  /\ hand["pump"] = <<>> /\ nxt + 1 < Len(log)
  /\ hand' = [hand EXCEPT !["pump"] = <<Taken(nxt + 1)>>]
  /\ nxt' = nxt + 1
  /\ UNCHANGED <<log, gating, stage, seq, flight, noted, conf, session, acks,
                 late, sink, ask, slot, faults>>

\* The pump takes the next batch; an open window of its table holds it.
PumpTake ==
  /\ hand["pump"] = <<>> /\ nxt < Len(log)
  /\ LET t == log[nxt + 1].tbl IN
       IF t \in gate
       THEN /\ held' = [held EXCEPT ![t] = Append(@, Taken(nxt + 1))]
            /\ UNCHANGED hand
       ELSE /\ hand' = [hand EXCEPT !["pump"] = <<Taken(nxt + 1)>>]
            /\ UNCHANGED held
  /\ nxt' = nxt + 1
  /\ UNCHANGED <<log, gate, stage, seq, flight, noted, conf, session, acks,
                 late, sink, ask, slot, faults>>

\* A flush of the window takes everything it holds, and sends it with no lock
\* that confirmedPosition reads under.
GateTake(t) ==
  /\ t \in gate /\ held[t] # <<>> /\ hand["snap"] = <<>>
  /\ hand' = [hand EXCEPT !["snap"] = held[t]]
  /\ held' = [held EXCEPT ![t] = <<>>]
  /\ UNCHANGED <<source, gate, stage, seq, flight, noted, conf, session, acks,
                 late, sink, ask, slot, faults>>

\* The snapshot ends: a window with nothing left to send is closed.
GateClose(t) ==
  /\ t \in gate /\ held[t] = <<>> /\ hand["snap"] = <<>>
  /\ gate' = gate \ {t}
  /\ UNCHANGED <<source, held, sending, flight, noted, conf, session, acks,
                 late, sink, ask, slot, faults>>

First(s) == Head(hand[s])
TableOf(s) == log[First(s).i].tbl

\* enqueueTo past the budget, deliverBatch up to the send: the batch gets its
\* id and is in the index before it is in the queue.
Register(s) ==
  /\ hand[s] # <<>> /\ stage[s] = "taken"
  /\ seq' = seq + 1
  /\ hand' = [hand EXCEPT ![s][1].id = seq + 1]
  /\ idx' = [idx EXCEPT ![TableOf(s)] = Append(@, First(s)')]
  /\ stage' = [stage EXCEPT ![s] = "indexed"]
  /\ UNCHANGED <<source, gating, acked, queue, sent, noted, conf, session,
                 acks, late, sink, ask, slot, faults>>

\* Mutant: the send does not wait for room.
EnqueueAlways(s) ==
  /\ hand[s] # <<>> /\ stage[s] = "indexed"
  /\ queue' = [queue EXCEPT ![TableOf(s)] = Append(@, First(s))]
  /\ stage' = [stage EXCEPT ![s] = "queued"]
  /\ UNCHANGED <<source, gating, hand, seq, idx, acked, sent, noted, conf,
                 session, acks, late, sink, ask, slot, faults>>

\* deliverBatch's send: it waits for room in the worker's queue.
Enqueue(s) ==
  /\ hand[s] # <<>> /\ stage[s] = "indexed"
  /\ Len(queue[TableOf(s)]) < QueueCap
  /\ queue' = [queue EXCEPT ![TableOf(s)] = Append(@, First(s))]
  /\ stage' = [stage EXCEPT ![s] = "queued"]
  /\ UNCHANGED <<source, gating, hand, seq, idx, acked, sent, noted, conf,
                 session, acks, late, sink, ask, slot, faults>>

\* ... and the record of the position sent, which comes last.
NoteSent(s) ==
  /\ hand[s] # <<>> /\ stage[s] = "queued"
  /\ noted' = [noted EXCEPT ![TableOf(s)] = log[First(s).i].pos]
  /\ hand' = [hand EXCEPT ![s] = Tail(@)]
  /\ stage' = [stage EXCEPT ![s] = "taken"]
  /\ UNCHANGED <<source, gating, seq, flight, conf, session, acks, late, sink,
                 ask, slot, faults>>

(***************************************************************************)
(* The worker's session.                                                   *)
(***************************************************************************)

\* A worker attaches: it reads its table's position from the sink, and its
\* DoGet first sends again everything delivered before and not acked.
Attach(t) ==
  /\ t \notin up
  /\ up' = up \cup {t}
  /\ com' = [com EXCEPT ![t] = sinkPos[t]]
  /\ wire' = [wire EXCEPT ![t] = sent[t]]
  /\ UNCHANGED <<source, gating, sending, flight, noted, conf, pend, acks,
                 late, sink, ask, slot, faults>>

\* Mutant: the batch is streamed and not put on the sent list.
DoGetUnrecorded(t) ==
  /\ t \in up /\ queue[t] # <<>>
  /\ wire' = [wire EXCEPT ![t] = Append(@, Head(queue[t]))]
  /\ queue' = [queue EXCEPT ![t] = Tail(@)]
  /\ UNCHANGED <<source, gating, sending, idx, acked, sent, noted, conf, up, com,
                 pend, acks, late, sink, ask, slot, faults>>

\* DoGet moves a batch from the queue to the sent list and the stream.
DoGet(t) ==
  /\ t \in up /\ queue[t] # <<>>
  /\ sent' = [sent EXCEPT ![t] = Append(@, Head(queue[t]))]
  /\ wire' = [wire EXCEPT ![t] = Append(@, Head(queue[t]))]
  /\ queue' = [queue EXCEPT ![t] = Tail(@)]
  /\ UNCHANGED <<source, gating, sending, idx, acked, noted, conf, up, com,
                 pend, acks, late, sink, ask, slot, faults>>

\* Mutant: a partial batch at the committed position counts as committed.
CoveredPartial(t, b) == b.pos <= com[t]

\* batchReceiver.covered: at or before what the session found committed, a
\* partial batch only strictly before it.
Covered(t, b) == IF Partial(b) THEN b.pos < com[t] ELSE b.pos <= com[t]


\* The receiver acks a covered batch without applying it, a partial one at
\* what is committed; any other goes to the batcher.
Receive(t) ==
  /\ t \in up /\ wire[t] # <<>>
  /\ LET b == log[Head(wire[t]).i] IN
       IF Covered(t, b)
       THEN /\ acks' = [acks EXCEPT ![t] =
                          Append(@, IF Partial(b) THEN com[t] ELSE b.pos)]
            /\ UNCHANGED pend
       ELSE /\ pend' = [pend EXCEPT ![t] = Append(@, Head(wire[t]).i)]
            /\ UNCHANGED acks
  /\ wire' = [wire EXCEPT ![t] = Tail(@)]
  /\ UNCHANGED <<source, gating, sending, flight, noted, conf, up, com, late,
                 sink, ask, slot, faults>>

\* The sink after batch i of its table is written: what was written later in
\* the log, and before it in time, is undone.
Apply(e, i) == {i} \cup {j \in e : log[j].tbl # log[i].tbl \/ j < i}

\* A flush of the first n batches: their rows and the position of the last of
\* them commit as one, and are then acked.  A flush none of whose rows the
\* sink keeps commits and acks nothing.
Commit(t) ==
  \E n \in 1..Len(pend[t]) :
    LET group == SubSeq(pend[t], 1, n)
        pos == log[group[n]].pos
        kept == SelectSeq(group, LAMBDA i : log[i].kept)
    IN /\ t \in up
       /\ pend' = [pend EXCEPT ![t] = SubSeq(@, n + 1, Len(@))]
       /\ IF kept # <<>>
          THEN /\ eff' = FoldLeft(Apply, eff, group)
               /\ sinkPos' = [sinkPos EXCEPT ![t] = pos]
               /\ acks' = [acks EXCEPT ![t] = Append(@, pos)]
          ELSE UNCHANGED <<sink, acks>>
       /\ UNCHANGED <<source, gating, sending, flight, noted, conf, up, com,
                      wire, late, ask, slot, faults>>

\* A session is lost with what it carried; of its acks the coordinator has
\* received a prefix, which it may handle after the next session started.
LoseWorker(t) ==
  /\ t \in up /\ Fault("loss")
  /\ \E n \in 0..Len(acks[t]) :
       late' = [late EXCEPT ![t] = @ \o SubSeq(acks[t], 1, n)]
  /\ acks' = [acks EXCEPT ![t] = <<>>]
  /\ up' = up \ {t}
  /\ com' = [com EXCEPT ![t] = 0]
  /\ wire' = [wire EXCEPT ![t] = <<>>]
  /\ pend' = [pend EXCEPT ![t] = <<>>]
  /\ UNCHANGED <<source, gating, sending, flight, noted, conf, sink, ask, slot>>

(***************************************************************************)
(* The coordinator's acks.                                                 *)
(***************************************************************************)

\* popCoveredLocked's test of one batch against its table's acked position.
Popped(b, cur) == IF Partial(b) THEN b.pos < cur ELSE b.pos <= cur

\* How many batches leave the head of index q: the covered ones before the
\* first that is not.
PopCount(q, cur) ==
  LET stays == {n \in 1..Len(q) : ~Popped(log[q[n].i], cur)}
  IN IF stays = {} THEN Len(q) ELSE Min(stays) - 1

\* OnAck of a table its worker commits itself, whatever generation sent it:
\* Truncate moves the acked position forward only and pops the head of the
\* index, what it pops leaves the sent list, and the position is recorded.
OnAck(t, pos) ==
  LET cur == Max({acked[t], pos})
      n == PopCount(idx[t], cur)
      ids == {idx[t][k].id : k \in 1..n}
  IN /\ acked' = [acked EXCEPT ![t] = cur]
     /\ idx' = [idx EXCEPT ![t] = SubSeq(@, n + 1, Len(@))]
     /\ sent' = [sent EXCEPT ![t] = SelectSeq(@, LAMBDA e : e.id \notin ids)]
     /\ conf' = [conf EXCEPT ![t] = pos]

Ack(t) ==
  /\ acks[t] # <<>>
  /\ OnAck(t, Head(acks[t]))
  /\ acks' = [acks EXCEPT ![t] = Tail(@)]
  /\ UNCHANGED <<source, gating, sending, queue, noted, session, late, sink,
                 ask, slot, faults>>

LateAck(t) ==
  /\ late[t] # <<>>
  /\ OnAck(t, Head(late[t]))
  /\ late' = [late EXCEPT ![t] = Tail(@)]
  /\ UNCHANGED <<source, gating, sending, queue, noted, session, acks, sink,
                 ask, slot, faults>>

(***************************************************************************)
(* The reader's call of confirmedPosition: it reads the dispatched         *)
(* frontier, the queues, the buffers, the indexes and the positions, each  *)
(* under a lock of its own.                                                *)
(***************************************************************************)

Asking(from, to) ==
  /\ ask.pc = from /\ ask' = to
  /\ UNCHANGED <<source, gating, sending, flight, noted, conf, session, acks,
                 late, sink, slot, faults>>

\* dispatchedPosition: the greatest position sent, 0 before any.
AskDispatched ==
  Asking("idle", [Idle EXCEPT !.pc = "queues",
                              !.dispatched = Max({noted[t] : t \in Tables})])

AskQueues ==
  Asking("queues", [ask EXCEPT !.pc = "buffers",
                               !.owing = {t \in Tables : queue[t] # <<>>}])

AskBuffers ==
  Asking("buffers", [ask EXCEPT !.pc = "indexes",
                                !.owing = @ \cup {t \in Tables : held[t] # <<>>}])

AskIndexes ==
  Asking("indexes", [ask EXCEPT !.pc = "positions",
                                !.owing = @ \cup {t \in Tables : idx[t] # <<>>}])

\* Mutant: the frontier is read last, after the indexes.
AskPositionsLate ==
  LET dispatched == Max({noted[t] : t \in Tables})
      frontier == ask.owing = {} /\ dispatched # 0
      among == IF ask.owing = {} THEN Tables ELSE ask.owing
  IN Asking("positions",
            [ask EXCEPT !.pc = "answer", !.frontier = frontier,
                        !.best = IF frontier THEN dispatched
                                 ELSE Min({conf[t] : t \in among})])

\* Positions.Min: the least position of the workers that owe work; with none,
\* the dispatched frontier, or the boot baseline before any dispatch.
AskPositions ==
  LET frontier == ask.owing = {} /\ ask.dispatched # 0
      among == IF ask.owing = {} THEN Tables ELSE ask.owing
  IN Asking("positions",
            [ask EXCEPT !.pc = "answer", !.frontier = frontier,
                        !.best = IF frontier THEN ask.dispatched
                                 ELSE Min({conf[t] : t \in among})])

\* The answer goes to the server in a standby status, which never moves the
\* slot back.
SendStandby ==
  /\ ask.pc = "answer"
  /\ slot' = Max({slot, ask.best})
  /\ ask' = Idle
  /\ UNCHANGED <<source, gating, sending, flight, noted, conf, session, acks,
                 late, sink, faults>>

\* How much of the log a stream started at pos leaves out: the server sends
\* the transactions after the later of pos and the slot.
SkippedAt(pos) == Cardinality({i \in DOMAIN log : log[i].tx <= Max({slot, pos})})

\* The stream broke: after a back-off the reader redials and starts again at
\* the answer it got before.
Reconnect ==
  /\ ask.pc = "answer" /\ Fault("reconnect")
  /\ nxt' = SkippedAt(ask.best)
  /\ ask' = Idle
  /\ UNCHANGED <<log, gating, sending, flight, noted, conf, session, acks,
                 late, sink, slot>>

(***************************************************************************)
(* A restart of the coordinator: only the sink, the source and its slot    *)
(* remain.  It resumes from the least position of the tables, or from the  *)
(* slot when that is further (ValidateSlotState), and moves the slot there.*)
(***************************************************************************)
Restart ==
  LET resume == Min({sinkPos[t] : t \in Tables}) IN
  /\ Fault("crash")
  /\ slot' = Max({slot, resume})
  /\ nxt' = SkippedAt(resume)
  /\ conf' = [t \in Tables |-> resume]
  /\ held' = Empty /\ hand' = [s \in Senders |-> <<>>]
  /\ stage' = [s \in Senders |-> "taken"] /\ seq' = 0
  /\ idx' = Empty /\ acked' = Zero /\ queue' = Empty /\ sent' = Empty
  /\ noted' = Zero
  /\ up' = {} /\ com' = Zero /\ wire' = Empty /\ pend' = Empty
  /\ acks' = Empty /\ late' = Empty /\ ask' = Idle
  /\ UNCHANGED <<log, gate, sink>>

Sending(s) == Register(s) \/ Enqueue(s) \/ NoteSent(s)
Draining(t) == GateTake(t) \/ GateClose(t)
Confirming == AskDispatched \/ AskQueues \/ AskBuffers \/ AskIndexes
              \/ AskPositions

Next ==
  \/ PumpTake
  \/ \E s \in Senders : Sending(s)
  \/ \E t \in Tables :
       \/ Draining(t)
       \/ Attach(t) \/ DoGet(t) \/ Receive(t) \/ Commit(t) \/ LoseWorker(t)
       \/ Ack(t) \/ LateAck(t)
  \/ Confirming \/ SendStandby \/ Reconnect
  \/ Restart

Spec == Init /\ [][Next]_vars

\* Every goroutine keeps running and every worker comes back; a loss, a
\* reconnect and a restart may happen and need not.  The standby status is
\* sent on a timer, so the call of confirmedPosition is repeated for ever.
FairSpec ==
  /\ Spec
  /\ WF_vars(PumpTake)
  /\ \A s \in Senders : WF_vars(Sending(s))
  /\ \A t \in Tables :
       /\ WF_vars(Draining(t))
       /\ WF_vars(Attach(t)) /\ WF_vars(DoGet(t)) /\ WF_vars(Receive(t))
       /\ WF_vars(Commit(t)) /\ WF_vars(Ack(t)) /\ WF_vars(LateAck(t))
  /\ WF_vars(Confirming) /\ WF_vars(SendStandby)

-----------------------------------------------------------------------------

TypeOK ==
  /\ log \in Logs /\ nxt \in 0..Len(log)
  /\ gate \subseteq Gated /\ held \in [Tables -> Seq(Entry)]
  /\ hand \in [Senders -> Seq(Entry)]
  /\ stage \in [Senders -> {"taken", "indexed", "queued"}]
  /\ seq \in Nat
  /\ idx \in [Tables -> Seq(Entry)] /\ acked \in [Tables -> Nat]
  /\ \A t \in Tables : Len(queue[t]) <= QueueCap
  /\ queue \in [Tables -> Seq(Entry)] /\ sent \in [Tables -> Seq(Entry)]
  /\ noted \in [Tables -> Nat] /\ conf \in [Tables -> Nat]
  /\ up \subseteq Tables /\ com \in [Tables -> Nat]
  /\ wire \in [Tables -> Seq(Entry)] /\ pend \in [Tables -> Seq(Nat)]
  /\ acks \in [Tables -> Seq(Nat)] /\ late \in [Tables -> Seq(Nat)]
  /\ eff \subseteq DOMAIN log /\ sinkPos \in [Tables -> Nat]
  /\ ask \in [pc : {"idle", "queues", "buffers", "indexes", "positions",
                    "answer"},
              dispatched : Nat, owing : SUBSET Tables, best : Nat,
              frontier : BOOLEAN]
  /\ slot \in Nat
  /\ faults \in UNION {SUBSET together : together \in Faults}

\* Every batch of a transaction at or before p that the sink keeps rows of.
DueBy(p) == {i \in DOMAIN log : log[i].tx <= p /\ log[i].kept}

\* A table's position in the sink never covers a batch of the table the sink
\* does not hold: what resume.Resolve and batchReceiver.covered skip by it is
\* durable (the position commits with its data, batcher_commit.go).
PositionDurable ==
  \A t \in Tables : \A i \in DueBy(sinkPos[t]) : log[i].tbl = t => i \in eff


\* When confirmedPosition finds no worker owing and answers the dispatched
\* frontier, everything at or before it is durable: "When no worker owes
\* anything, every dispatched batch is committed, so the result is dispatched"
\* (internal/confirmed/positions.go:99-101).
FrontierDurable ==
  ask.pc = "answer" /\ ask.frontier => DueBy(ask.best) \subseteq eff

\* Where a batch waits that will still be delivered or delivered again.
OnItsWay(i) ==
  LET t == log[i].tbl IN
  \E e \in Range(held[t]) \cup Range(queue[t]) \cup Range(sent[t])
           \cup UNION {Range(hand[s]) : s \in Senders} : e.i = i

\* A batch the pump took is in effect in the sink, or is kept where a later
\* session gets it from: in the window, in a sender's hand, in the queue or on
\* the sent list, "so a delivered-but-unacked batch is replayed rather than
\* dropped" (internal/coordinator/flight.go:20-22), whatever sessions are lost
\* and whenever an old session's ack is handled.
NothingForgotten ==
  \A i \in 1..nxt : log[i].kept => i \in eff \/ OnItsWay(i)

\* Whatever is lost and replayed on the way, the sink ends with every batch in
\* effect: a replay is one "which the idempotent commit absorbs; it never
\* skips data" (internal/source/postgres/reader.go:450-452).
Converges == <>[](\A i \in DOMAIN log : log[i].kept => i \in eff)

=============================================================================
