----------------------------- MODULE GateProof ------------------------------
(***************************************************************************)
(* Each step of the snapshot goroutine preserves the inductive invariant   *)
(* of GateMoves, and the theorems about Gate.                              *)
(***************************************************************************)
EXTENDS GatePump

\* The snapshot opens the table's window, holding the flush lock.
LEMMA SnapOpenStep ==
  ASSUME IInv, SnapOpen
  PROVE  IInv'
<1> USE DEF IInv, CtrlInv, SnapOpen
<1>1. /\ UNCHANGED <<src, read, buf, accum, carry, carryTgt, carryTag, sent,
                     ready, pumpPc, item, fl, due, tgt, wid, high, todo, scanAt,
                     base, announced, closed, failed>>
      /\ snapPc' = "openTake" /\ flushMu = "free" /\ flushMu' = "snap"
      /\ open' = [open EXCEPT ![tgt] = TRUE]
  BY DEF srcVars, pumpVars, scanVars, histVars
<1>2. DataInv'
  BY <1>1, Still DEF Done
<1>3. GateOK' /\ PumpOK'
  BY <1>1 DEF GateOK, PumpOK
<1>4. SnapOK' /\ Locked'
  BY <1>1 DEF SnapOK, SnapPcs, Locked
<1>5. Windowed'
  BY <1>1 DEF Windowed, GateOK, SnapOK, Locked
<1>6. InHand'
  BY <1>1 DEF InHand
<1>7. NoFailure' /\ Numbered' /\ HeldWithinBounds'
  BY <1>1 DEF NoFailure, Numbered, HeldWithinBounds
<1> QED BY <1>2, <1>3, <1>4, <1>5, <1>6, <1>7

\* A step that takes an empty window.
LEMMA NothingTaken ==
  ASSUME DataInv, UNCHANGED <<src, read, buf, accum, sent>>, Done' = Done,
         carry = <<>>, carry' = <<>>, carryTgt' \in Targets
  PROVE  DataInv'
BY EmptyElems DEF DataInv, DataOK, Placed, Ordered, Complete, Held, Sent

\* The snapshot takes what the window holds, for a chunk or to close it.
LEMMA SnapTakeStep ==
  ASSUME IInv, SnapFlush \/ (SnapClose /\ buf[tgt] # <<>>)
  PROVE  IInv'
<1> USE DEF IInv, CtrlInv
<1>1. /\ UNCHANGED <<src, read, accum, sent, open, item, fl, due, tgt, wid,
                     high, todo, scanAt, base, announced, closed, failed>>
      /\ tgt \in Targets /\ pumpPc' = Woken /\ carry = <<>>
      /\ snapPc \in {"flush", "close"}
      /\ flushMu # "pump"
      /\ ready' = [ready EXCEPT ![tgt] = None]
  BY DEF SnapFlush, SnapClose, Locked, SnapOK, GateOK, chunkVars, srcVars, histVars
<1>2. snapPc' = IF snapPc = "close" THEN "closeSend"
                ELSE IF buf[tgt] = <<>> THEN "mark" ELSE "flushSend"
  BY DEF SnapFlush, SnapClose
<1>3. PICK w \in Tags : TakeBuf("snap", tgt, w)
  BY GateAssumption DEF SnapFlush, SnapClose, SnapOK, None, Tags
<1>4. /\ carry' = buf[tgt] /\ carryTgt' = tgt /\ carryTag' = w
      /\ buf' = [buf EXCEPT ![tgt] = <<>>]
      /\ flushMu' = IF buf[tgt] = <<>> THEN "free" ELSE "snap"
      /\ buf \in [Targets -> Seq(Items)]
  BY <1>3 DEF TakeBuf, DataInv, DataOK
<1>5. Done' = Done
  BY <1>1 DEF Done, Woken
<1>6. buf[tgt] # <<>> => open[tgt] /\ accum[tgt] = <<>>
  BY <1>1 DEF Windowed
<1>7. DataInv'
  <2>1. CASE buf[tgt] = <<>>
    <3>1. buf' = buf
      BY <1>4, <2>1
    <3> QED BY <1>1, <1>4, <1>5, <2>1, <3>1, NothingTaken
  <2>2. CASE buf[tgt] # <<>>
    BY <1>1, <1>3, <1>5, <1>6, <2>2, BufTaken
  <2> QED BY <2>1, <2>2
<1>8. GateOK'
  BY <1>1, <1>4, GateAssumption DEF GateOK, Tags, None
<1>9. PumpOK'
  BY <1>1 DEF PumpOK, PumpPcs, Woken
<1>10. SnapOK'
  BY <1>1, <1>2 DEF SnapOK, SnapPcs
<1>11. Locked'
  <2>1. flushMu' = "pump" <=> pumpPc' \in {"drainSend", "flushSend"}
    BY <1>1, <1>4 DEF Locked, Woken
  <2>2. snapPc = "close" => buf[tgt] # <<>>
    BY DEF SnapFlush, SnapClose
  <2> QED BY <1>1, <1>2, <1>4, <2>1, <2>2 DEF Locked
<1>12. Windowed'
  <2>1. carry' # <<>> => open'[carryTgt'] /\ flushMu' = "snap"
    BY <1>1, <1>4, <1>6
  <2>2. \A u \in Targets : ~open'[u] => buf'[u] = <<>>
    BY <1>1, <1>4 DEF Windowed
  <2> QED BY <1>1, <1>2, <2>1, <2>2 DEF Windowed
<1>13. InHand'
  <2>1. \A u \in Targets : buf[u] = <<>> => buf'[u] = <<>>
    BY <1>4
  <2>2. item # 0 => item \in Items /\ src[item] \in Targets
    BY GateAssumption DEF InHand, PumpOK, Items, DataInv, DataOK
  <2>3. carry' # <<>> => buf[carryTgt'] # <<>>
    BY <1>4
  <2> QED BY <1>1, <2>1, <2>2, <2>3 DEF InHand, Woken
<1>14. NoFailure' /\ Numbered'
  BY <1>1, <1>2 DEF NoFailure, Numbered, Woken
<1>15. HeldWithinBounds'
  BY <1>1, <1>4, EmptyElems, GateAssumption DEF HeldWithinBounds
<1> QED BY <1>7, <1>8, <1>9, <1>10, <1>11, <1>12, <1>13, <1>14, <1>15

\* The window, found empty, is sealed.
LEMMA SnapSealStep ==
  ASSUME IInv, SnapClose, buf[tgt] = <<>>
  PROVE  IInv'
<1> USE DEF IInv, CtrlInv
<1>1. /\ UNCHANGED <<src, read, accum, sent, buf, carry, carryTgt, carryTag,
                     item, fl, due, tgt, wid, high, todo, scanAt, base,
                     announced, closed, failed>>
      /\ tgt \in Targets /\ pumpPc' = Woken /\ carry = <<>>
      /\ snapPc = "close" /\ snapPc' = "idle"
      /\ flushMu # "pump" /\ flushMu' = "free"
      /\ ready' = [ready EXCEPT ![tgt] = None]
      /\ open' = [open EXCEPT ![tgt] = FALSE]
  BY DEF SnapClose, Seal, Locked, SnapOK, GateOK, chunkVars, srcVars, histVars
<1>2. DataInv'
  BY <1>1, Still DEF Done, Woken
<1>3. GateOK'
  BY <1>1, GateAssumption DEF GateOK, Tags, None
<1>4. PumpOK' /\ SnapOK'
  BY <1>1 DEF PumpOK, PumpPcs, Woken, SnapOK, SnapPcs
<1>5. Locked'
  BY <1>1 DEF Locked, Woken
<1>6. Windowed'
  BY <1>1 DEF Windowed, GateOK
<1>7. InHand'
  BY <1>1 DEF InHand, Woken
<1>8. NoFailure' /\ Numbered' /\ HeldWithinBounds'
  BY <1>1 DEF NoFailure, Numbered, HeldWithinBounds, Woken
<1> QED BY <1>2, <1>3, <1>4, <1>5, <1>6, <1>7, <1>8

\* A snapshot that failed drops what its windows hold.
LEMMA SnapDropStep ==
  ASSUME IInv, SnapCloseFails \/ SnapReleaseAll
  PROVE  IInv'
<1> USE DEF IInv, CtrlInv
<1>1. /\ UNCHANGED <<src, read, accum, sent, carryTgt, carryTag, item, fl, due,
                     tgt, wid, high, todo, scanAt, base, announced, closed>>
      /\ CanFail /\ pumpPc' = Woken
      /\ snapPc' \in {"failed", "dead"}
      /\ failed' \subseteq {"pump", "snap"}
  BY DEF SnapCloseFails, SnapReleaseAll, SendFails, Seal, NoFailure, SnapOK,
         chunkVars, srcVars, flushVars, histVars
<1>2. \/ UNCHANGED <<carry, flushMu>> /\ snapPc = "failed"
      \/ carry' = <<>> /\ flushMu = "snap" /\ flushMu' = "free"
  BY DEF SnapCloseFails, SnapReleaseAll, SendFails, flushVars
<1>3. /\ open' \in [Targets -> BOOLEAN]
      /\ ready' \in [Targets -> Tags]
      /\ buf' \in [Targets -> Seq(Items)]
  <2>1. CASE SnapCloseFails
    <3>1. open' \in [Targets -> BOOLEAN]
      BY <2>1 DEF SnapCloseFails, Seal, GateOK
    <3>2. ready' \in [Targets -> Tags]
      <4>1. None \in Tags /\ ready \in [Targets -> Tags]
        BY GateAssumption DEF Tags, None, GateOK
      <4>2. ready' = [ready EXCEPT ![tgt] = None]
        BY <2>1 DEF SnapCloseFails, Seal
      <4> QED BY <4>1, <4>2
    <3>3. buf' \in [Targets -> Seq(Items)]
      BY <2>1, EmptyElems DEF SnapCloseFails, DataInv, DataOK
    <3> QED BY <3>1, <3>2, <3>3
  <2>2. CASE SnapReleaseAll
    BY <2>2, GateAssumption, EmptyElems
       DEF SnapReleaseAll, GateOK, DataInv, DataOK, Tags, None
  <2> QED BY <2>1, <2>2
<1>4. \A t \in Targets : /\ buf'[t] = buf[t] \/ buf'[t] = <<>>
                         /\ open'[t] => open[t]
                         /\ ~open'[t] => buf'[t] = <<>>
                         /\ open[t] /\ ~open'[t] => tgt = t \/ snapPc = "failed"
  <2>1. CASE SnapCloseFails
    BY <2>1 DEF SnapCloseFails, Seal, GateOK, DataInv, DataOK, Windowed, SnapOK
  <2>2. CASE SnapReleaseAll
    BY <2>2 DEF SnapReleaseAll, GateOK, DataInv, DataOK, Windowed
  <2> QED BY <2>1, <2>2
<1>5. DataInv'
  <2>1. Done' = Done
    BY <1>1 DEF Done, Woken
  <2>2. Done <= Done' /\ Done' \in Int
    BY <2>1, DoneRead
  <2>3. accum' \in [Targets -> Seq(Items)]
    BY <1>1 DEF DataInv, DataOK
  <2> QED BY <1>1, <1>2, <1>3, <1>4, <2>2, <2>3, Dropped
<1>6. GateOK'
  BY <1>1, <1>2, <1>3 DEF GateOK
<1>7. PumpOK' /\ SnapOK'
  BY <1>1 DEF PumpOK, PumpPcs, Woken, SnapOK, SnapPcs
<1>8. Locked'
  BY <1>1, <1>2 DEF Locked, Woken
<1>9. Windowed'
  <2>1. carry' # <<>> => snapPc = "failed" /\ carry' = carry /\ flushMu = "pump"
    BY <1>1, <1>2 DEF Locked, GateOK
  <2>2. carry' # <<>> => pumpPc' \in {"drainSend", "flushSend"}
    BY <1>1, <2>1 DEF Locked, Woken
  <2>3. carry' # <<>> => carryTgt' \in Staged \/ pumpPc' = "drainSend"
    BY <1>1, <2>1, <2>2 DEF Windowed, Woken
  <2>4. \A t \in Targets : open'[t] => accum'[t] = <<>>
    BY <1>1, <1>4 DEF Windowed, SnapCloseFails, SnapReleaseAll
  <2> QED BY <1>1, <1>4, <2>3, <2>4 DEF Windowed
<1>10. InHand'
  <2>1. item # 0 => item \in Items /\ src[item] \in Targets
    BY GateAssumption DEF InHand, PumpOK, Items, DataInv, DataOK
  <2> QED BY <1>1, <1>2, <1>4, <2>1 DEF InHand, Woken
<1>11. NoFailure' /\ Numbered'
  BY <1>1 DEF NoFailure, Numbered
<1>12. HeldWithinBounds'
  BY <1>1, <1>4, EmptyElems, GateAssumption DEF HeldWithinBounds
<1> QED BY <1>5, <1>6, <1>7, <1>8, <1>9, <1>10, <1>11, <1>12

SnapControl ==
  \/ SnapReady \/ SnapCaughtUp \/ SnapLost \/ SnapRedo \/ SnapMark
  \/ SnapEndDrain \/ SnapCloses \/ SnapAborts
  \/ \E t \in Targets : SnapBegin(t)

\* The snapshot's steps that move no batch.
LEMMA SnapControlStep ==
  ASSUME IInv, SnapControl
  PROVE  IInv'
<1>a. /\ DataInv /\ GateOK /\ PumpOK /\ SnapOK /\ Locked /\ Windowed /\ InHand
      /\ NoFailure /\ Numbered /\ HeldWithinBounds
  BY DEF IInv, CtrlInv
<1>b. SnapControl
  OBVIOUS
<1>c. MaxItems \in Nat /\ MaxWindows \in Nat /\ Len(src) \in 0..MaxItems
  BY <1>a, GateAssumption DEF DataInv, DataOK
<1>d. tgt \in Targets /\ wid \in 0..MaxWindows /\ None \in Tags /\ None = 0
      /\ Tags = 0..MaxWindows /\ Windows = 1..MaxWindows
  BY ONLY <1>a, <1>c DEF SnapOK, Tags, Windows, None
<1> USE DEF SnapControl, SnapReady, SnapCaughtUp, SnapLost, SnapRedo, SnapMark,
            SnapEndDrain, SnapCloses, SnapAborts, SnapBegin, BeginScan
<1>1. UNCHANGED <<src, read, buf, accum, carry, carryTgt, sent, item, flushMu,
                  open, carryTag, fl, due>>
  BY ONLY <1>b DEF gateVars, flushVars, pumpVars, srcVars, histVars, chunkVars,
                   scanVars
<1>2. pumpPc' = pumpPc \/ pumpPc' = Woken
  BY ONLY <1>b DEF pumpVars
<1>3. wid' = wid \/ (wid < MaxWindows /\ wid' = wid + 1)
  BY ONLY <1>b DEF chunkVars
<1>4. \/ ready' = ready
      \/ ready' = [ready EXCEPT ![tgt] = None]
      \/ ready' = [ready EXCEPT ![tgt] = wid']
  BY ONLY <1>b DEF chunkVars, gateVars
<1>5. wid' \in Tags
  BY ONLY <1>3, <1>c, <1>d
<1>6. /\ snapPc' \in {"scan", "open", "flush", "catchUp", "endDrain", "redo",
                      "closes", "close", "failed"}
      /\ snapPc \in {"idle", "scan", "catchUp", "redo", "mark", "endDrain", "closes"}
      /\ snapPc' = "failed" => CanFail
  BY ONLY <1>b
<1>7. DataInv'
  <2>1. Done' = Done
    BY ONLY <1>1, <1>2 DEF Done, Woken
  <2> QED BY ONLY <1>1, <1>a, <2>1, Still
<1>8. GateOK'
  BY ONLY <1>1, <1>4, <1>5, <1>a, <1>d DEF GateOK
<1>9. PumpOK'
  BY ONLY <1>1, <1>2, <1>a DEF PumpOK, PumpPcs, Woken
<1>10. SnapOK'
  <2>1. snapPc' \in SnapPcs
    BY ONLY <1>6 DEF SnapPcs
  <2>2. tgt' \in Targets
    <3>1. tgt' = tgt \/ tgt' \in Targets
      BY ONLY <1>b DEF chunkVars
    <3> QED BY ONLY <3>1, <1>d
  <2>3. high' \in 0..MaxItems
    <3>1. high' = high \/ high' \in Len(src)..MaxItems
      BY ONLY <1>b DEF chunkVars
    <3> QED BY ONLY <3>1, <1>a, <1>c DEF SnapOK
  <2>4. scanAt' \in 0..MaxItems /\ base' \in Tags
    <3>1. scanAt' \in {scanAt, Len(src)} /\ base' \in {base, wid}
      BY ONLY <1>b DEF chunkVars, scanVars
    <3> QED BY ONLY <3>1, <1>a, <1>c DEF SnapOK
  <2>5. todo' \subseteq Targets
    <3>1. todo' = todo \/ \E t \in Targets : todo' = todo \ {t}
      BY ONLY <1>b DEF chunkVars
    <3> QED BY ONLY <3>1, <1>a DEF SnapOK
  <2>6. announced' \subseteq Windows
    <3>1. \/ announced' = announced
          \/ wid < MaxWindows /\ announced' = announced \cup {wid + 1}
      BY ONLY <1>b DEF histVars
    <3>2. wid < MaxWindows => wid + 1 \in Windows
      BY ONLY <1>c, <1>d
    <3> QED BY ONLY <3>1, <3>2, <1>a DEF SnapOK
  <2>7. closed' \subseteq Windows
    <3>1. closed' = closed \/ (snapPc = "closes" /\ closed' = closed \cup {wid})
      BY ONLY <1>b DEF histVars
    <3>2. snapPc = "closes" => wid \in Windows
      BY ONLY <1>a, <1>c, <1>d DEF Numbered
    <3> QED BY ONLY <3>1, <3>2, <1>a DEF SnapOK
  <2>8. failed' \subseteq {"pump", "snap"}
    <3>1. failed' = failed \/ failed' = failed \cup {"snap"}
      BY ONLY <1>b DEF histVars
    <3> QED BY ONLY <3>1, <1>a DEF SnapOK
  <2> QED BY ONLY <1>5, <2>1, <2>2, <2>3, <2>4, <2>5, <2>6, <2>7, <2>8 DEF SnapOK
<1>11. Locked'
  BY ONLY <1>1, <1>2, <1>6, <1>a DEF Locked, Woken
<1>12. Windowed'
  <2>1. snapPc # "openTake"
    BY ONLY <1>6
  <2> QED BY ONLY <1>1, <1>2, <2>1, <1>a DEF Windowed, Woken
<1>13. InHand'
  BY ONLY <1>1, <1>2, <1>a DEF InHand, Woken
<1>14. NoFailure'
  BY ONLY <1>2, <1>6, <1>a DEF NoFailure, Woken
<1>15. Numbered'
  <2>1. snapPc' \in {"catchUp", "flush", "endDrain", "closes"}
          => wid' = wid + 1 \/ (wid' = wid /\ snapPc \in {"catchUp", "mark", "endDrain"})
    BY ONLY <1>b DEF chunkVars
  <2> QED BY ONLY <2>1, <1>6, <1>a, <1>c, <1>d DEF Numbered
<1>16. HeldWithinBounds'
  BY ONLY <1>1, <1>a DEF HeldWithinBounds
<1> QED BY ONLY <1>7, <1>8, <1>9, <1>10, <1>11, <1>12, <1>13, <1>14, <1>15, <1>16
        DEF IInv, CtrlInv

-----------------------------------------------------------------------------
(* The theorems. *)

\* Nothing is held, carried or enqueued at first.
LEMMA InitIInv ==
  ASSUME Init
  PROVE  IInv
<1> USE DEF Init
<1>1. /\ Elems(<<>>) = {} /\ Inc(<<>>) /\ <<>> \in Seq(Items)
      /\ \A i \in Items : ~Sent(i)
  BY EmptyElems DEF Sent
<1>2. Done = 0
  BY DEF Done
<1>3. DataOK
  BY <1>1, GateAssumption DEF DataOK, Unsent
<1>4. Placed /\ Ordered /\ Complete
  BY <1>1, <1>2 DEF Placed, Ordered, Complete, Held
<1>5. GateOK
  BY GateAssumption DEF GateOK, Tags, None
<1>6. PumpOK
  BY GateAssumption DEF PumpOK, PumpPcs
<1>7. SnapOK
  BY GateAssumption DEF SnapOK, SnapPcs, Tags
<1>8. Locked /\ Windowed /\ InHand
  BY DEF Locked, Windowed, InHand
<1>9. NoFailure /\ Numbered
  BY DEF NoFailure, Numbered
<1>10. HeldWithinBounds
  BY EmptyElems, GateAssumption DEF HeldWithinBounds
<1> QED BY <1>3, <1>4, <1>5, <1>6, <1>7, <1>8, <1>9, <1>10
        DEF IInv, DataInv, CtrlInv

\* A step that changes nothing preserves the invariant.
LEMMA StutterIInv ==
  ASSUME IInv, UNCHANGED vars
  PROVE  IInv'
<1>1. Done' = Done
  BY DEF vars, Done
<1>2. DataInv'
  BY <1>1, Still DEF IInv, vars
<1>3. GateOK' /\ PumpOK' /\ SnapOK'
  BY DEF IInv, CtrlInv, GateOK, PumpOK, SnapOK, vars
<1>4. Locked' /\ Windowed' /\ InHand'
  BY DEF IInv, CtrlInv, Locked, Windowed, InHand, vars
<1>5. NoFailure' /\ Numbered' /\ HeldWithinBounds'
  BY DEF IInv, CtrlInv, NoFailure, Numbered, HeldWithinBounds, vars
<1> QED BY <1>2, <1>3, <1>4, <1>5 DEF IInv, CtrlInv

\* Every step preserves the invariant.
LEMMA NextIInv ==
  ASSUME IInv, [Next]_vars
  PROVE  IInv'
<1>1. CASE ReaderNext
  BY <1>1, DecodeStep DEF ReaderNext
<1>2. CASE PumpNext
  BY <1>2, PumpReadStep, PumpHoldStep, PumpDrainStep, SendStep, SendFailsStep,
     PumpLiveStep, PumpEndsStep, PumpTakeStep, PumpDueStep, TakeAccumStep
     DEF PumpNext
<1>3. CASE SnapNext
  BY <1>3, SnapControlStep, SnapOpenStep, TakeAccumStep, SendStep, SnapTakeStep,
     SnapSealStep, SendFailsStep, SnapDropStep DEF SnapNext, SnapControl
<1>4. CASE Finished \/ UNCHANGED vars
  BY <1>4, StutterIInv DEF Finished
<1> QED BY <1>1, <1>2, <1>3, <1>4 DEF Next

\* What the theorems rest on.
THEOREM Inductive == Spec => []IInv
BY InitIInv, NextIInv, PTL DEF Spec

\* The pump, the gate and the snapshot goroutine keep their types: whatever the
\* number of tables, batches and windows, what is held was read from the source.
THEOREM TypeCorrect == Spec => []TypeOK
<1>1. IInv => TypeOK
  BY DEF IInv, DataInv, CtrlInv, TypeOK
<1> QED BY <1>1, Inductive, PTL

\* The gate holds at most GateMax batches of a table and an accumulator at most
\* a cycle, even though Coalescer.Take appends to an open window unchecked.
THEOREM Bounded == Spec => []HeldWithinBounds
<1>1. IInv => HeldWithinBounds
  BY DEF IInv, CtrlInv
<1> QED BY <1>1, Inductive, PTL

\* At-least-once: unless an enqueue fails, no batch of a table is enqueued
\* before an earlier one, however the pump and the snapshot interleave.
THEOREM NothingSkipped == ASSUME ~CanFail PROVE Spec => []NoneSkipped
<1>1. ASSUME IInv PROVE NoneSkipped
  <2> SUFFICES ASSUME NEW i \in Items, NEW j \in Items, SameTable(i, j), j < i,
                      Sent(i), ~Sent(j)
               PROVE  FALSE
    BY DEF NoneSkipped
  <2> USE <1>1 DEF IInv, DataInv
  <2>1. i <= Done /\ Done \in Int /\ src[i] = src[j]
    BY DoneRead DEF Placed, SameTable
  <2>2. j \in 1..Done /\ src[j] \in Targets
    BY <2>1 DEF Items, SameTable, DataOK
  <2>3. j \in Elems(carry) \/ j \in Held(src[j])
    BY <2>2 DEF Complete
  <2>4. i < j
    <3>1. CASE j \in Elems(carry)
      BY <2>1, <3>1 DEF Placed, Ordered
    <3>2. CASE j \in Held(src[j])
      BY <2>1, <2>2, <3>2 DEF Ordered
    <3> QED BY <2>3, <3>1, <3>2
  <2> QED BY <2>4 DEF Items
<1> QED BY <1>1, Inductive, PTL

\* A delivery and a live batch are later than all that was enqueued of their
\* table.
LEMMA OrderStep ==
  ASSUME IInv, [Next]_vars
  PROVE  KeepsOrder
<1> USE DEF IInv, DataInv
<1>1. CASE \E p \in {"pump", "snap"}, after \in {"free", "snap"} :
             SendGroup(p, after)
  <2>1. /\ sent' = [i \in Items |-> IF i \in Elems(Group) THEN carryTag ELSE sent[i]]
        /\ carry # <<>>
    BY <1>1 DEF SendGroup, Enqueue
  <2>2. Elems(Group) \subseteq Elems(carry)
    BY <2>1, GroupRest, GateAssumption DEF DataOK, Ordered
  <2>3. \A k \in Elems(Group), i \in Items : Sent(i) /\ src[i] = src[k] => i < k
    BY <2>2 DEF Placed, Ordered
  <2> QED BY <2>1, <2>3 DEF KeepsOrder, SameTable, Sent, Items
<1>2. CASE PumpLive
  <2>1. /\ sent' = [i \in Items |-> IF i = item THEN None ELSE sent[i]]
        /\ item = read /\ item # 0 /\ item \in 0..MaxItems /\ Done = read - 1
    BY <1>2 DEF PumpLive, Enqueue, CtrlInv, InHand, PumpOK, Done
  <2>2. \A i \in Items : Sent(i) => i < item
    BY <2>1, GateAssumption DEF Placed, Items, DataOK
  <2> QED BY <2>1, <2>2 DEF KeepsOrder, SameTable, Sent, Items
<1>3. CASE sent' = sent
  BY <1>3 DEF KeepsOrder, Sent
<1>4. CASE ReaderNext \/ Finished \/ UNCHANGED vars
  BY <1>3, <1>4 DEF ReaderNext, Decode, Finished, vars, histVars
<1>5. CASE PumpNext
  BY <1>1, <1>2, <1>3, <1>5
     DEF PumpNext, PumpRead, PumpHold, PumpDrain, PumpDrainSend, PumpDrainFails,
         PumpLiveFails, PumpTake, PumpDue, PumpTick, PumpTickNext, PumpFlush,
         PumpFlushSend, PumpFlushFails, PumpRelease, histVars
<1>6. CASE SnapNext
  BY <1>1, <1>3, <1>6
     DEF SnapNext, SnapBegin, SnapOpen, SnapOpenTake, SnapOpenSend, SnapReady,
         SnapCaughtUp, SnapLost, SnapRedo, SnapFlush, SnapFlushSend, SnapMark,
         SnapEndDrain, SnapCloses, SnapClose, SnapCloseSend, SnapSendFails,
         SnapCloseFails, SnapAborts, SnapReleaseAll, histVars
<1> QED BY <1>4, <1>5, <1>6 DEF Next

\* Source order survives every failure: a batch is enqueued once and never
\* after a later batch of its table.
THEOREM InOrder == Spec => OrderKept
BY Inductive, OrderStep, PTL DEF Spec, OrderKept

=============================================================================
