------------------------------ MODULE GatePump ------------------------------
(***************************************************************************)
(* Each step of the log's decoder and of the pump, and each delivery of    *)
(* either goroutine, preserves the inductive invariant of GateMoves.       *)
(***************************************************************************)
EXTENDS GateMoves

\* The decoder adds a batch at the end of the source.
LEMMA DecodeStep ==
  ASSUME IInv, NEW t \in Targets, Decode(t)
  PROVE  IInv'
<1> USE DEF IInv, CtrlInv, Decode, gateVars, flushVars, pumpVars, snapVars,
            histVars
<1>1. DataInv'
  BY Decoded
<1>2. GateOK' /\ PumpOK' /\ SnapOK' /\ Locked' /\ Windowed' /\ NoFailure'
      /\ Numbered' /\ HeldWithinBounds'
  BY DEF GateOK, PumpOK, SnapOK, Locked, Windowed, NoFailure, Numbered,
         HeldWithinBounds
<1>3. InHand'
  <2>1. item # 0 => src'[item] = src[item]
    BY AppendProperties DEF DataInv, DataOK, InHand, PumpOK
  <2> QED BY <2>1 DEF InHand
<1> QED BY <1>1, <1>2, <1>3

\* The pump takes the next batch of the source in hand.
LEMMA PumpReadStep ==
  ASSUME IInv, PumpRead
  PROVE  IInv'
<1> USE DEF IInv, CtrlInv, PumpRead, gateVars, flushVars, snapVars, histVars
<1>1. read \in Nat /\ item = 0 /\ Done' = Done
  BY DEF DataInv, DataOK, InHand, Done
<1>a. /\ DataOK /\ Placed /\ Ordered /\ Complete
      /\ GateOK /\ PumpOK /\ SnapOK /\ Locked /\ Windowed /\ InHand
      /\ NoFailure /\ Numbered /\ HeldWithinBounds
  BY DEF DataInv
<1>b. /\ UNCHANGED <<src, buf, accum, carry, carryTgt, sent, open, ready, flushMu,
                     carryTag, fl, due, snapPc, tgt, wid, high, todo, scanAt, base,
                     announced, closed, failed>>
      /\ pumpPc = "idle" /\ pumpPc' = "hold" /\ read < Len(src)
      /\ read' = read + 1 /\ item' = read + 1
  OBVIOUS
<1>2. DataInv'
  <2>1. DataOK'
    BY ONLY <1>1, <1>a, <1>b DEF DataOK
  <2>2. Placed' /\ Ordered' /\ Complete'
    BY ONLY <1>1, <1>a, <1>b DEF Placed, Ordered, Complete, Held, Sent
  <2> QED BY ONLY <2>1, <2>2 DEF DataInv
<1>3. PumpOK'
  <2>1. item' \in 0..MaxItems
    BY ONLY <1>1, <1>a, <1>b, GateAssumption DEF DataOK
  <2> QED BY ONLY <1>a, <1>b, <2>1 DEF PumpOK, PumpPcs
<1>4. GateOK' /\ SnapOK' /\ Locked' /\ NoFailure' /\ Numbered' /\ HeldWithinBounds'
  BY ONLY <1>a, <1>b DEF GateOK, SnapOK, Locked, NoFailure, Numbered, HeldWithinBounds
<1>5. Windowed' /\ InHand'
  BY ONLY <1>1, <1>a, <1>b DEF Windowed, InHand
<1> QED BY ONLY <1>2, <1>3, <1>4, <1>5 DEF IInv, CtrlInv

\* The pump parks its batch in the table's open window.
LEMMA PumpHoldStep ==
  ASSUME IInv, PumpHold
  PROVE  IInv'
<1> USE DEF IInv, CtrlInv
<1> DEFINE t == src[item]
<1>a. /\ GateOK /\ PumpOK /\ SnapOK /\ Locked /\ Windowed /\ InHand
      /\ NoFailure /\ Numbered /\ HeldWithinBounds /\ DataOK
  BY DEF DataInv
<1>b. pumpPc = "hold"
  BY DEF PumpHold
<1>1. /\ pumpPc = "hold" /\ item = read /\ item \in Items /\ t \in Targets
      /\ Done = read - 1
  BY ONLY <1>a, <1>b, GateAssumption DEF InHand, DataOK, PumpOK, Done, Items
<1>2. UNCHANGED <<src, read, accum, carry, carryTgt, sent, open, ready, flushMu,
                  carryTag, fl, due, snapPc, tgt, wid, high, todo, scanAt, base,
                  announced, closed, failed>>
  BY DEF PumpHold, srcVars, flushVars, snapVars, histVars
<1>3. CASE open[t] /\ ~FullLocked(t)
  <2>1. /\ buf' = [buf EXCEPT ![t] = Append(@, item)]
        /\ pumpPc' = "idle" /\ item' = 0
    BY <1>1, <1>3 DEF PumpHold
  <2>2. Done' = read
    BY <1>2, <2>1 DEF Done
  <2>3. DataInv'
    BY <1>1, <1>2, <2>1, <2>2, HandHeld
  <2>4. PumpOK' /\ GateOK' /\ SnapOK'
    BY ONLY <1>2, <1>a, <2>1, GateAssumption DEF PumpOK, PumpPcs, GateOK, SnapOK
  <2>5. Locked' /\ NoFailure' /\ Numbered'
    BY ONLY <1>1, <1>2, <1>a, <2>1 DEF Locked, NoFailure, Numbered
  <2>6. Windowed'
    BY ONLY <1>1, <1>2, <1>3, <1>a, <2>1 DEF Windowed, DataOK
  <2>7. InHand'
    BY <2>1 DEF InHand
  <2>8. HeldWithinBounds'
    <3>1. Len(buf'[t]) = Len(buf[t]) + 1
      BY <1>1, <2>1, AppendElems DEF DataInv, DataOK
    <3>2. Len(buf[t]) \in Nat
      BY ONLY <1>1, <1>a DEF DataOK
    <3>3. Len(buf'[t]) <= GateMax
      BY ONLY <1>3, <3>1, <3>2, GateAssumption DEF FullLocked
    <3>4. \A u \in Targets \ {t} : buf'[u] = buf[u]
      BY ONLY <1>1, <1>a, <2>1 DEF DataOK
    <3> QED BY ONLY <1>2, <1>a, <3>3, <3>4 DEF HeldWithinBounds
  <2> QED BY <2>3, <2>4, <2>5, <2>6, <2>7, <2>8
<1>4. CASE ~open[t] \/ FullLocked(t)
  <2>1. /\ UNCHANGED <<buf, item>>
        /\ pumpPc' \in {"take", "live", "drain", "wait"}
        /\ pumpPc' = "take" => t \in Staged /\ ~open[t]
        /\ pumpPc' = "live" => t \notin Staged /\ ~open[t]
    BY <1>1, <1>4 DEF PumpHold, GateOK
  <2>2. Done' = Done
    BY <1>1, <1>2, <2>1 DEF Done
  <2>3. DataInv'
    BY <1>2, <2>1, <2>2, Still
  <2>4. PumpOK' /\ GateOK' /\ SnapOK'
    BY <1>2, <2>1 DEF PumpOK, PumpPcs, GateOK, SnapOK
  <2>5. Locked' /\ Windowed' /\ NoFailure' /\ Numbered' /\ HeldWithinBounds'
    BY <1>1, <1>2, <2>1 DEF Locked, Windowed, NoFailure, Numbered, HeldWithinBounds
  <2>6. InHand'
    BY <1>1, <1>2, <2>1 DEF InHand, Windowed
  <2> QED BY <2>3, <2>4, <2>5, <2>6
<1> QED BY <1>1, <1>3, <1>4 DEF GateOK

\* A send of a delivery under way, by the pump or by the snapshot goroutine.
LEMMA SendStep ==
  ASSUME IInv,
         \/ PumpDrainSend \/ PumpFlushSend
         \/ SnapOpenSend \/ SnapFlushSend \/ SnapCloseSend
  PROVE  IInv'
<1> USE DEF IInv, CtrlInv
<1>1. UNCHANGED <<src, read, buf, accum, open, ready, carryTgt, carryTag, item,
                  fl, due, tgt, wid, high, todo, announced, closed, failed>>
  BY DEF PumpDrainSend, PumpFlushSend, SnapOpenSend, SnapFlushSend,
         SnapCloseSend, SendGroup, gateVars, srcVars, pumpVars, snapVars,
         chunkVars
<1>2. /\ \E p \in {"pump", "snap"}, after \in {"free", "snap"} : SendGroup(p, after)
      /\ carry # <<>>
  BY DEF PumpDrainSend, PumpFlushSend, SnapOpenSend, SnapFlushSend,
         SnapCloseSend, SendGroup
<1>3. Done' = Done
  BY <1>1 DEF PumpDrainSend, PumpFlushSend, SnapOpenSend, SnapFlushSend,
         SnapCloseSend, Done, AfterFlush, pumpVars, InHand
<1>4. DataInv'
  BY <1>1, <1>2, <1>3, GroupSent DEF GateOK
<1>5. GateOK'
  BY <1>1, <1>2 DEF GateOK, SendGroup
<1>6. PumpOK'
  BY <1>1 DEF PumpDrainSend, PumpFlushSend, SnapOpenSend, SnapFlushSend,
              SnapCloseSend, AfterFlush, PumpOK, PumpPcs, pumpVars
<1>7. SnapOK'
  <2>1. snapPc' \in SnapPcs
    BY DEF PumpDrainSend, PumpFlushSend, SnapOpenSend, SnapFlushSend,
           SnapCloseSend, BeginScan, SnapOK, SnapPcs, snapVars
  <2>2. scanAt' \in 0..MaxItems /\ base' \in Tags
    BY DEF PumpDrainSend, PumpFlushSend, SnapOpenSend, SnapFlushSend,
           SnapCloseSend, BeginScan, SnapOK, snapVars, chunkVars, scanVars,
           DataInv, DataOK
  <2> QED BY <1>1, <2>1, <2>2 DEF SnapOK
<1>8. Locked'
  BY <1>1 DEF PumpDrainSend, PumpFlushSend, SnapOpenSend, SnapFlushSend,
              SnapCloseSend, SendGroup, BeginScan, AfterFlush, Locked, pumpVars,
              snapVars
<1>9. Windowed'
  BY <1>1, <1>2 DEF PumpDrainSend, PumpFlushSend, SnapOpenSend, SnapFlushSend,
              SnapCloseSend, SendGroup, BeginScan, AfterFlush, Windowed, pumpVars,
              snapVars, Locked
<1>10. InHand'
  BY <1>1, <1>2 DEF PumpDrainSend, PumpFlushSend, SnapOpenSend, SnapFlushSend,
              SnapCloseSend, SendGroup, BeginScan, AfterFlush, InHand, pumpVars
<1>11. NoFailure' /\ Numbered' /\ HeldWithinBounds'
  BY <1>1 DEF PumpDrainSend, PumpFlushSend, SnapOpenSend, SnapFlushSend,
              SnapCloseSend, BeginScan, AfterFlush, NoFailure, Numbered,
              HeldWithinBounds, pumpVars, snapVars
<1> QED BY <1>4, <1>5, <1>6, <1>7, <1>8, <1>9, <1>10, <1>11

\* A failed send.
LEMMA SendFailsStep ==
  ASSUME IInv, PumpDrainFails \/ PumpFlushFails \/ SnapSendFails
  PROVE  IInv'
<1> USE DEF IInv, CtrlInv, PumpDrainFails, PumpFlushFails, SnapSendFails,
            SendFails
<1>1. UNCHANGED <<src, read, buf, accum, sent, open, ready, carryTgt, carryTag,
                  fl, due, tgt, wid, high, todo, scanAt, base, announced, closed>>
  BY DEF gateVars, srcVars, pumpVars, snapVars, chunkVars
<1>2. CanFail /\ carry' = <<>> /\ flushMu' = "free"
  OBVIOUS
<1>3. DataInv'
  <2>1. Done <= Done' /\ Done' \in Int
    BY <1>1, DoneRead DEF Done, pumpVars, DataInv, DataOK
  <2> QED BY <1>1, <1>2, <2>1, Dropped DEF DataInv, DataOK
<1>4. GateOK' /\ PumpOK'
  BY <1>1, GateAssumption DEF GateOK, PumpOK, PumpPcs, pumpVars
<1>5. SnapOK'
  <2>1. snapPc' \in SnapPcs /\ failed' \subseteq {"pump", "snap"}
    BY DEF SnapOK, SnapPcs, snapVars
  <2> QED BY <1>1, <2>1 DEF SnapOK
<1>6. Locked'
  BY <1>1 DEF Locked, pumpVars, snapVars
<1>7. Windowed'
  BY <1>1, <1>2 DEF Windowed, snapVars
<1>8. InHand'
  BY <1>1, <1>2 DEF InHand, pumpVars
<1>9. NoFailure' /\ Numbered' /\ HeldWithinBounds'
  BY <1>1, <1>2 DEF NoFailure, Numbered, HeldWithinBounds, snapVars
<1> QED BY <1>3, <1>4, <1>5, <1>6, <1>7, <1>8, <1>9

\* The pump takes a full window that may be drained, or holds again.
LEMMA PumpDrainStep ==
  ASSUME IInv, PumpDrain
  PROVE  IInv'
<1> USE DEF IInv, CtrlInv, PumpDrain
<1> DEFINE t == src[item]
<1>1. /\ pumpPc = "drain" /\ flushMu = "free" /\ carry = <<>> /\ snapPc # "openTake"
      /\ item = read /\ item \in Items /\ t \in Targets
  BY GateAssumption DEF InHand, DataInv, DataOK, PumpOK, Items, Locked
<1>2. UNCHANGED <<src, read, accum, sent, open, ready, item, fl, due, snapPc,
                  tgt, wid, high, todo, scanAt, base, announced, closed, failed>>
  BY DEF srcVars, snapVars, histVars
<1>3. pumpPc' \in {"hold", "drainSend"} /\ Done' = Done
  BY <1>1, <1>2 DEF Done
<1>4. CASE ready[t] # None /\ open[t]
  <2>1. TakeBuf("pump", t, ready[t])
    BY <1>4
  <2>2. accum[t] = <<>>
    BY <1>1, <1>4 DEF Windowed
  <2>3. DataInv'
    BY <1>1, <1>2, <1>3, <2>1, <2>2, BufTaken
  <2>4. GateOK'
    BY <1>1, <1>2, <2>1 DEF GateOK, TakeBuf
  <2>5. Locked'
    BY <1>1, <1>2, <1>4, <2>1 DEF Locked, TakeBuf
  <2>6. Windowed'
    BY <1>1, <1>2, <1>4, <2>1 DEF Windowed, TakeBuf, DataInv, DataOK
  <2>7. HeldWithinBounds'
    BY <1>1, <1>2, <2>1, EmptyElems, GateAssumption
       DEF HeldWithinBounds, TakeBuf, DataInv, DataOK
  <2> QED BY <1>1, <1>2, <1>3, <2>3, <2>4, <2>5, <2>6, <2>7
          DEF PumpOK, PumpPcs, SnapOK, InHand, NoFailure, Numbered
<1>5. CASE ~(ready[t] # None /\ open[t])
  <2>1. UNCHANGED <<flushVars, buf>> /\ pumpPc' = "hold"
    BY <1>5
  <2>2. DataInv'
    BY <1>2, <1>3, <2>1, Still DEF flushVars
  <2> QED BY <1>1, <1>2, <2>1, <2>2
          DEF GateOK, PumpOK, PumpPcs, SnapOK, Locked, Windowed, InHand,
              NoFailure, Numbered, HeldWithinBounds, flushVars
<1> QED BY <1>4, <1>5

\* The pump enqueues a batch of a table that does not stage, and is done with it.
LEMMA PumpLiveStep ==
  ASSUME IInv, PumpLive
  PROVE  IInv'
<1> USE DEF IInv, CtrlInv, PumpLive
<1>1. UNCHANGED <<src, read, buf, accum, carry, carryTgt, carryTag, flushMu,
                  open, ready, fl, due, snapPc, tgt, wid, high, todo, scanAt,
                  base, announced, closed, failed>>
  BY DEF gateVars, flushVars, srcVars, snapVars
<1>2. /\ item \in Items /\ item = read /\ src[item] \in Targets
      /\ Done = read - 1 /\ Done' = read
  BY <1>1, GateAssumption DEF InHand, PumpOK, Items, Done, DataInv, DataOK
<1>3. DataInv'
  <2>1. Held(src[item]) = {}
    BY <1>2, EmptyElems DEF Held, InHand, Windowed
  <2> QED BY <1>1, <1>2, <2>1, HandSent DEF InHand
<1>4. GateOK' /\ PumpOK'
  BY <1>1, GateAssumption DEF GateOK, PumpOK, PumpPcs
<1>5. SnapOK' /\ Locked'
  BY <1>1 DEF SnapOK, Locked
<1>6. Windowed' /\ InHand'
  BY <1>1 DEF Windowed, InHand
<1>7. NoFailure' /\ Numbered' /\ HeldWithinBounds'
  BY <1>1 DEF NoFailure, Numbered, HeldWithinBounds
<1> QED BY <1>3, <1>4, <1>5, <1>6, <1>7

\* The pump's failures outside a delivery.
LEMMA PumpEndsStep ==
  ASSUME IInv, PumpLiveFails \/ PumpRelease
  PROVE  IInv'
<1> USE DEF IInv, CtrlInv, PumpLiveFails, PumpRelease
<1>1. UNCHANGED <<src, read, buf, carry, carryTgt, carryTag, flushMu, sent,
                  open, ready, fl, due, snapPc, tgt, wid, high, todo, scanAt,
                  base, announced, closed>>
  BY DEF gateVars, flushVars, srcVars, snapVars, histVars
<1>2. /\ CanFail /\ item' = 0
      /\ accum' = accum \/ accum' = [t \in Targets |-> <<>>]
  BY DEF NoFailure, gateVars, InHand
<1>3. DataInv'
  <2>1. Done <= Done' /\ Done' \in Int
    BY <1>1, <1>2, DoneRead DEF Done, DataInv, DataOK
  <2>2. /\ buf' \in [Targets -> Seq(Items)] /\ accum' \in [Targets -> Seq(Items)]
        /\ \A t \in Targets : accum'[t] = accum[t] \/ accum'[t] = <<>>
    BY <1>1, <1>2, EmptyElems DEF DataInv, DataOK
  <2> QED BY <1>1, <1>2, <2>1, <2>2, Dropped
<1>4. GateOK' /\ PumpOK'
  BY <1>1, <1>2, GateAssumption DEF GateOK, PumpOK, PumpPcs
<1>5. SnapOK'
  BY <1>1 DEF SnapOK, histVars
<1>6. Locked'
  BY <1>1 DEF Locked
<1>7. Windowed'
  BY <1>1, <1>2 DEF Windowed
<1>8. InHand'
  BY <1>1, <1>2 DEF InHand
<1>9. NoFailure' /\ Numbered'
  BY <1>1, <1>2 DEF NoFailure, Numbered
<1>10. HeldWithinBounds'
  BY <1>1, <1>2, EmptyElems, GateAssumption DEF HeldWithinBounds
<1> QED BY <1>3, <1>4, <1>5, <1>6, <1>7, <1>8, <1>9, <1>10

\* The pump's batch goes to the window or the accumulator, or waits for a flush.
LEMMA PumpTakeStep ==
  ASSUME IInv, PumpTake
  PROVE  IInv'
<1> USE DEF IInv, CtrlInv
<1> DEFINE t == src[item]
<1>1. /\ item \in Items /\ item = read /\ t \in Staged /\ t \in Targets
      /\ buf[t] = <<>> /\ Done = read - 1
  <2>1. pumpPc = "take" /\ InHand /\ PumpOK /\ DataOK
    BY DEF PumpTake, DataInv
  <2> QED BY ONLY <2>1, GateAssumption DEF InHand, PumpOK, Items, Done, DataOK
<1>2. UNCHANGED <<src, read, carry, carryTgt, carryTag, flushMu, sent, open,
                  ready, due, snapPc, tgt, wid, high, todo, scanAt, base,
                  announced, closed, failed>>
  BY DEF PumpTake, flushVars, srcVars, snapVars, histVars
<1>3. pumpPc' \in {"idle", "due", "flush"} /\ item' \in {0, item}
      /\ (pumpPc' = "idle" <=> item' = 0)
  BY <1>1 DEF PumpTake, Items
<1>4. GateOK' /\ SnapOK' /\ Locked' /\ NoFailure' /\ Numbered'
  <2>1. pumpPc = "take" /\ GateOK /\ SnapOK /\ Locked /\ NoFailure /\ Numbered
    BY DEF PumpTake
  <2> QED BY ONLY <1>2, <1>3, <2>1 DEF GateOK, SnapOK, Locked, NoFailure, Numbered
<1>5. PumpOK'
  <2>1. fl' \in Targets
    BY <1>1 DEF PumpTake, PumpOK
  <2>2. PumpOK
    OBVIOUS
  <2> QED BY ONLY <1>1, <1>2, <1>3, <2>1, <2>2, GateAssumption DEF PumpOK, PumpPcs
<1>a. /\ Windowed /\ HeldWithinBounds /\ pumpPc = "take" /\ item # 0
      /\ buf \in [Targets -> Seq(Items)] /\ accum \in [Targets -> Seq(Items)]
      /\ \A u \in Targets : Len(accum[u]) \in Nat
  <2>1. item # 0 /\ pumpPc = "take"
    BY DEF PumpTake, InHand
  <2> QED BY <2>1 DEF DataInv, DataOK
<1>6. CASE open[t]
  <2>1. /\ buf' = [buf EXCEPT ![t] = Append(@, item)]
        /\ pumpPc' = "idle" /\ item' = 0 /\ UNCHANGED accum
    BY <1>6 DEF PumpTake
  <2>2. DataInv'
    BY <1>1, <1>2, <2>1, HandHeld DEF Done
  <2>3. Windowed'
    BY ONLY <1>1, <1>2, <1>6, <1>a, <2>1 DEF Windowed
  <2>4. HeldWithinBounds'
    <3>1. /\ Len(Append(<<>>, item)) = 1
          /\ buf'[t] = Append(<<>>, item)
          /\ \A u \in Targets \ {t} : buf'[u] = buf[u]
      <4>1. Len(Append(<<>>, item)) = 0 + 1
        BY ONLY <1>1, AppendElems, EmptyElems
      <4> QED BY ONLY <1>1, <1>a, <2>1, <4>1
    <3>2. Len(buf'[t]) <= GateMax
      BY ONLY <3>1, GateAssumption
    <3> QED BY ONLY <1>a, <2>1, <3>1, <3>2 DEF HeldWithinBounds
  <2> QED BY <1>2, <1>4, <1>5, <2>1, <2>2, <2>3, <2>4 DEF InHand
<1>7. Len(accum[t]) \in Nat
  BY <1>1 DEF DataInv, DataOK
<1>8. CASE ~open[t] /\ Len(accum[t]) + 1 <= CycleMax
  <2>1. /\ accum' = [accum EXCEPT ![t] = Append(@, item)]
        /\ pumpPc' = "due" /\ UNCHANGED <<buf, item>>
    <3>1. ~open[t] /\ ~(Len(accum[t]) + 1 > CycleMax)
      BY ONLY <1>8, <1>7, GateAssumption
    <3> QED BY <3>1 DEF PumpTake
  <2>2. DataInv'
    BY <1>1, <1>2, <2>1, HandAccumulated DEF Done
  <2>3. Windowed'
    BY ONLY <1>1, <1>2, <1>8, <1>a, <2>1 DEF Windowed
  <2>4. HeldWithinBounds'
    <3>1. Len(accum'[t]) = Len(accum[t]) + 1
          /\ \A u \in Targets \ {t} : accum'[u] = accum[u]
      BY ONLY <1>1, <1>a, <2>1, AppendElems
    <3> QED BY ONLY <1>8, <1>a, <2>1, <3>1 DEF HeldWithinBounds
  <2>5. InHand'
    BY ONLY <1>1, <1>2, <1>a, <2>1 DEF InHand
  <2> QED BY <1>4, <1>5, <2>2, <2>3, <2>4, <2>5
<1>9. CASE ~open[t] /\ Len(accum[t]) + 1 > CycleMax
  <2>1. pumpPc' = "flush" /\ UNCHANGED <<buf, accum, item>>
    <3>1. ~open[t] /\ ~(Len(accum[t]) + 1 <= CycleMax)
      BY ONLY <1>9, <1>7, GateAssumption
    <3> QED BY <3>1 DEF PumpTake
  <2>2. DataInv'
    BY <1>1, <1>2, <2>1, Still DEF Done, Items
  <2>3. Windowed' /\ HeldWithinBounds'
    BY ONLY <1>1, <1>2, <1>a, <2>1 DEF Windowed, HeldWithinBounds
  <2>4. InHand'
    BY ONLY <1>1, <1>2, <1>a, <2>1 DEF InHand
  <2> QED BY <1>4, <1>5, <2>2, <2>3, <2>4
<1>10. open[t] \/ Len(accum[t]) + 1 <= CycleMax \/ Len(accum[t]) + 1 > CycleMax
  BY ONLY <1>7, GateAssumption
<1> QED BY <1>6, <1>8, <1>9, <1>10

\* The pump decides to flush an accumulator, or not to.
LEMMA PumpDueStep ==
  ASSUME IInv, PumpDue \/ PumpTick \/ \E t \in Targets : PumpTickNext(t)
  PROVE  IInv'
<1> USE DEF IInv, CtrlInv, PumpDue, PumpTick, PumpTickNext
<1>1. UNCHANGED <<src, read, buf, accum, carry, carryTgt, carryTag, flushMu,
                  sent, open, ready, snapPc, tgt, wid, high, todo, scanAt,
                  base, announced, closed, failed>>
  BY DEF gateVars, flushVars, srcVars, snapVars, histVars
<1>2. /\ pumpPc \in {"due", "idle", "tick"} /\ item' = 0
      /\ pumpPc' \in {"flush", "idle", "tick"} /\ Done' = Done
  BY <1>1 DEF InHand, Done
<1>3. DataInv'
  BY <1>1, <1>2, Still
<1>4. PumpOK'
  <2>1. fl' \in Targets
    BY GateAssumption DEF PumpOK, InHand, Items, DataInv, DataOK
  <2>2. due' \subseteq Targets
    BY DEF PumpOK
  <2> QED BY <1>2, <2>1, <2>2, GateAssumption DEF PumpOK, PumpPcs
<1>5. GateOK' /\ SnapOK' /\ Locked'
  BY <1>1, <1>2 DEF GateOK, SnapOK, Locked
<1>6. Windowed' /\ InHand'
  BY <1>1, <1>2 DEF Windowed, InHand
<1>7. NoFailure' /\ Numbered' /\ HeldWithinBounds'
  BY <1>1, <1>2 DEF NoFailure, Numbered, HeldWithinBounds
<1> QED BY <1>3, <1>4, <1>5, <1>6, <1>7

\* A delivery takes an accumulator: the pump's flush, or the snapshot's after it
\* has opened the window.
LEMMA TakeAccumStep ==
  ASSUME IInv, PumpFlush \/ SnapOpenTake
  PROVE  IInv'
<1> USE DEF IInv, CtrlInv
<1>1. UNCHANGED <<src, read, buf, sent, open, ready, item, fl, due, tgt, wid,
                  high, todo, announced, closed, failed>>
  BY DEF PumpFlush, SnapOpenTake, srcVars, snapVars, pumpVars, histVars
<1>2. PICK p \in {"pump", "snap"}, t \in Targets :
        /\ TakeAccum(p, t) /\ carry = <<>>
        /\ p = "pump" => PumpFlush /\ t = fl
        /\ p = "snap" => SnapOpenTake /\ t = tgt
  BY DEF PumpFlush, SnapOpenTake, Locked, PumpOK, SnapOK
<1>3. /\ carry' = accum[t] /\ carryTgt' = t /\ carryTag' = None
      /\ accum' = [accum EXCEPT ![t] = <<>>]
      /\ flushMu' = IF accum[t] = <<>> THEN "free" ELSE p
      /\ accum \in [Targets -> Seq(Items)]
  BY <1>2 DEF TakeAccum, DataInv, DataOK
<1>4. Done' = Done
  BY <1>1 DEF PumpFlush, SnapOpenTake, Done, AfterFlush, pumpVars, InHand
<1>5. DataInv'
  BY <1>1, <1>2, <1>4, AccumTaken
<1>6. GateOK'
  BY <1>1, <1>3, GateAssumption DEF GateOK, Tags, None
<1>7. PumpOK'
  BY <1>1 DEF PumpFlush, SnapOpenTake, AfterFlush, PumpOK, PumpPcs, pumpVars
<1>8. SnapOK'
  <2>1. snapPc' \in SnapPcs
    BY DEF PumpFlush, SnapOpenTake, BeginScan, SnapOK, SnapPcs, snapVars
  <2>2. scanAt' \in 0..MaxItems /\ base' \in Tags
    BY DEF PumpFlush, SnapOpenTake, BeginScan, SnapOK, snapVars, scanVars,
           DataInv, DataOK
  <2> QED BY <1>1, <2>1, <2>2 DEF SnapOK
<1>9. Locked'
  BY <1>1, <1>2, <1>3 DEF PumpFlush, SnapOpenTake, BeginScan, AfterFlush,
     Locked, snapVars, pumpVars
<1>10. Windowed'
  <2>1. ASSUME NEW u \in Targets, open'[u], accum'[u] # <<>>
        PROVE  snapPc' = "openTake" /\ tgt' = u
    <3>1. u # t /\ accum[u] # <<>>
      BY <1>3, <2>1
    <3>2. snapPc = "openTake" /\ tgt = u
      BY <1>1, <2>1, <3>1 DEF Windowed
    <3> QED BY <1>1, <1>2, <3>1, <3>2 DEF PumpFlush, snapVars
  <2>2. carry' # <<>> => carryTgt' \in Staged
    BY <1>2, <1>3 DEF Windowed
  <2> QED BY <1>1, <1>3, <2>1, <2>2 DEF Windowed
<1>11. InHand'
  BY <1>1, <1>2, <1>3 DEF PumpFlush, SnapOpenTake, AfterFlush, InHand, pumpVars,
     Windowed
<1>12. NoFailure' /\ Numbered'
  BY <1>1 DEF PumpFlush, SnapOpenTake, BeginScan, AfterFlush, NoFailure,
     Numbered, snapVars, pumpVars
<1>13. HeldWithinBounds'
  BY <1>1, <1>3, EmptyElems, GateAssumption DEF HeldWithinBounds
<1> QED BY <1>5, <1>6, <1>7, <1>8, <1>9, <1>10, <1>11, <1>12, <1>13

=============================================================================
