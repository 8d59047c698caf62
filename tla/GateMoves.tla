----------------------------- MODULE GateMoves ------------------------------
(***************************************************************************)
(* Proofs about Gate for every number of tables, batches and windows and   *)
(* for every bound.                                                        *)
(*                                                                         *)
(* The argument: a batch the pump has taken is in exactly one place, and   *)
(* for each table the places are ordered                                   *)
(*    enqueued < carried by a delivery < accumulator < window < in hand.   *)
(* A window is only opened over an accumulator by the step that goes on to *)
(* send it under the flush lock, and is only sealed when it is empty.      *)
(***************************************************************************)
EXTENDS Gate, SequenceTheorems, TLAPS

Inc(s) == \A m, n \in DOMAIN s : m < n => s[m] < s[n]

\* How many batches have left the pump's hand (the one being judged due has).
Done == IF item = 0 \/ pumpPc = "due" THEN read ELSE read - 1

Held(t) == Elems(accum[t]) \cup Elems(buf[t])

Placed ==
  /\ \A i \in Items : Sent(i) => i <= Done
  /\ \A i \in Elems(carry) : i \in 1..Done /\ src[i] = carryTgt
  /\ \A t \in Targets : \A i \in Held(t) : i \in 1..Done /\ src[i] = t

Ordered ==
  /\ Inc(carry)
  /\ \A t \in Targets : Inc(accum[t]) /\ Inc(buf[t])
  /\ \A i \in Elems(carry), j \in Items :
       Sent(j) /\ src[j] = carryTgt => j < i
  /\ \A t \in Targets : \A i \in Held(t), j \in Items :
       Sent(j) /\ src[j] = t => j < i
  /\ \A i \in Held(carryTgt), j \in Elems(carry) : j < i
  /\ \A t \in Targets : \A i \in Elems(buf[t]), j \in Elems(accum[t]) : j < i

\* Who may hold the flush lock, and what it protects.
Locked ==
  /\ flushMu = "free" => carry = <<>>
  /\ flushMu = "pump" <=> pumpPc \in {"drainSend", "flushSend"}
  /\ flushMu = "snap" => snapPc \in {"openTake", "openSend", "flushSend",
                                     "close", "closeSend"}
  /\ snapPc \in {"openTake", "openSend", "flushSend", "closeSend"}
       => flushMu = "snap"
  /\ flushMu = "snap" /\ snapPc \in {"openTake", "close"} => carry = <<>>

\* What a window and an accumulator hold together.
Windowed ==
  /\ \A t \in Targets : ~open[t] => buf[t] = <<>>
  /\ \A t \in Targets : open[t] /\ accum[t] # <<>>
                          => snapPc = "openTake" /\ tgt = t
  /\ \A t \in Targets \ Staged : accum[t] = <<>>
  /\ carry # <<>> => \/ open[carryTgt] /\ flushMu = "snap"
                     \/ carryTgt \in Staged
                     \/ pumpPc = "drainSend"

\* What the pump has in hand.
InHand ==
  /\ item # 0 => item = read
  /\ pumpPc \in {"hold", "wait", "drain", "drainSend", "live", "take", "due"}
       => item # 0
  /\ pumpPc \in {"idle", "tick", "release", "dead"} => item = 0
  /\ pumpPc = "live" => /\ src[item] \notin Staged
                        /\ carry = <<>> \/ carryTgt # src[item]
  /\ pumpPc \in {"take", "due"} \/ (pumpPc \in {"flush", "flushSend"} /\ item # 0)
       => src[item] \in Staged
  /\ pumpPc \in {"take", "live"} \/ (pumpPc \in {"flush", "flushSend"} /\ item # 0)
       => buf[src[item]] = <<>>

\* Without failures nothing is dropped.
Complete ==
  ~CanFail => \A i \in 1..Done :
                Sent(i) \/ i \in Elems(carry) \/ i \in Held(src[i])

NoFailure ==
  ~CanFail => /\ snapPc \notin {"failed", "dead"}
              /\ pumpPc \notin {"release", "dead"}

\* A window in use has been numbered.
Numbered ==
  snapPc \in {"catchUp", "flush", "flushSend", "mark", "endDrain", "closes"}
    => wid # 0

DataInv == DataOK /\ Placed /\ Ordered /\ Complete
CtrlInv == /\ GateOK /\ PumpOK /\ SnapOK /\ Locked /\ Windowed /\ InHand
           /\ NoFailure /\ Numbered /\ HeldWithinBounds
IInv == DataInv /\ CtrlInv

-----------------------------------------------------------------------------
(* Sequences. *)

\* Appending to a sequence adds one element, at its end.
LEMMA AppendElems ==
  ASSUME NEW S, NEW s \in Seq(S), NEW x \in S
  PROVE  /\ Append(s, x) \in Seq(S)
         /\ Len(Append(s, x)) = Len(s) + 1
         /\ Append(s, x) # <<>>
         /\ Elems(Append(s, x)) = Elems(s) \cup {x}
<1> DEFINE a == Append(s, x)
<1>1. /\ a \in Seq(S) /\ Len(a) = Len(s) + 1 /\ a # <<>>
      /\ a[Len(s) + 1] = x
      /\ \A i \in 1..Len(s) : a[i] = s[i]
  BY AppendProperties
<1>2. DOMAIN s = 1..Len(s) /\ DOMAIN a = 1..(Len(s) + 1) /\ Len(s) \in Nat
  BY <1>1
<1> HIDE DEF a
<1>3. Elems(a) \subseteq Elems(s) \cup {x}
  BY <1>1, <1>2 DEF Elems
<1>4. Elems(s) \cup {x} \subseteq Elems(a)
  BY <1>1, <1>2 DEF Elems
<1> QED
  BY <1>1, <1>3, <1>4 DEF a

\* An increasing sequence stays so when a larger element is appended.
LEMMA AppendInc ==
  ASSUME NEW s \in Seq(Items), NEW x \in Items, Inc(s),
         \A y \in Elems(s) : y < x
  PROVE  Inc(Append(s, x))
BY DEF Elems, Inc, Items

\* The empty sequence has no element.
LEMMA EmptyElems ==
  /\ Elems(<<>>) = {} /\ Inc(<<>>) /\ Len(<<>>) = 0
  /\ <<>> \in Seq(Items)
BY DEF Elems, Inc

\* A delivery splits into the group sent next and the rest, all later.
LEMMA GroupRest ==
  ASSUME GateAssumption, carry \in Seq(Items), carry # <<>>, Inc(carry)
  PROVE  /\ Rest \in Seq(Items) /\ Inc(Rest)
         /\ Elems(carry) = Elems(Group) \cup Elems(Rest)
         /\ \A x \in Elems(Group), y \in Elems(Rest) : x < y
         /\ Elems(Group) \subseteq Items
<1> DEFINE n == GroupLen  g == Group  r == Rest  k == Len(carry)
<1>1. n \in 1..k /\ k \in Nat /\ DOMAIN carry = 1..k
  BY DEF GroupLen, GateAssumption
<1>2. /\ g \in Seq(Items) /\ Len(g) = n
      /\ \A i \in 1..n : g[i] = carry[i]
  BY <1>1, SubSeqProperties DEF Group
<1>3. /\ r \in Seq(Items) /\ Len(r) = k - n
      /\ \A i \in 1..(k - n) : r[i] = carry[n + i]
  <2>1. n + 1 \in 1..(k + 1) /\ k \in (n + 1 - 1)..k
    BY <1>1
  <2>2. /\ r \in Seq(Items)
        /\ Len(r) = IF n + 1 <= k THEN k - (n + 1) + 1 ELSE 0
        /\ \A i \in 1..(k - (n + 1) + 1) : r[i] = carry[n + 1 + i - 1]
    BY <2>1, SubSeqProperties DEF Rest
  <2> HIDE DEF r, k, n
  <2>3. ASSUME NEW i \in 1..(k - n) PROVE r[i] = carry[n + i]
    <3>1. i \in 1..(k - (n + 1) + 1) /\ n + 1 + i - 1 = n + i
      BY <1>1
    <3> QED BY <2>2, <3>1
  <2>4. Len(r) = k - n
    BY <1>1, <2>2
  <2> QED BY <2>2, <2>3, <2>4
<1>4. DOMAIN g = 1..n /\ DOMAIN r = 1..(k - n)
  BY <1>1, <1>2, <1>3
<1> HIDE DEF n, g, r, k
<1>5. \A i \in 1..k : carry[i] \in Items
  BY <1>1 DEF k
<1>6. Inc(r)
  <2> SUFFICES ASSUME NEW i \in 1..(k - n), NEW j \in 1..(k - n), i < j
               PROVE  r[i] < r[j]
    BY <1>4 DEF Inc
  <2>1. n + i \in 1..k /\ n + j \in 1..k /\ n + i < n + j
    BY <1>1
  <2>2. carry[n + i] < carry[n + j]
    BY <1>1, <2>1 DEF Inc
  <2> QED BY <1>3, <2>2
<1>7. \A x \in Elems(g), y \in Elems(r) : x < y
  <2> SUFFICES ASSUME NEW i \in 1..n, NEW j \in 1..(k - n)
               PROVE  g[i] < r[j]
    BY <1>4 DEF Elems
  <2>1. i \in 1..k /\ n + j \in 1..k /\ i < n + j
    BY <1>1
  <2>2. carry[i] < carry[n + j]
    BY <1>1, <2>1 DEF Inc
  <2> QED BY <1>2, <1>3, <2>2
<1>8. Elems(g) \subseteq Elems(carry) /\ Elems(r) \subseteq Elems(carry)
  <2>1. \A i \in 1..n : i \in 1..k /\ g[i] = carry[i]
    BY ONLY <1>1, <1>2
  <2>2. \A i \in 1..(k - n) : n + i \in 1..k /\ r[i] = carry[n + i]
    BY ONLY <1>1, <1>3
  <2> QED BY ONLY <1>1, <1>4, <2>1, <2>2 DEF Elems
<1>9. Elems(carry) \subseteq Elems(g) \cup Elems(r)
  <2> SUFFICES ASSUME NEW i \in 1..k
               PROVE  carry[i] \in Elems(g) \cup Elems(r)
    BY <1>1 DEF Elems
  <2>1. CASE i <= n
    BY <1>1, <1>2, <1>4, <2>1 DEF Elems
  <2>2. CASE i > n
    <3>1. i - n \in 1..(k - n) /\ r[i - n] = carry[i]
      BY <1>1, <1>3, <2>2
    <3> QED BY <1>4, <3>1 DEF Elems
  <2> QED BY <1>1, <2>1, <2>2
<1>10. Elems(g) \subseteq Items
  BY <1>5, <1>1, <1>8 DEF Elems
<1> QED
  BY <1>3, <1>6, <1>7, <1>8, <1>9, <1>10 DEF g, r

-----------------------------------------------------------------------------
(* How the batches move: each lemma is about one kind of step. *)

\* What has left the pump's hand was read, and so decoded.
LEMMA DoneRead ==
  ASSUME DataInv
  PROVE  /\ Done \in Int /\ Done <= read /\ read <= Len(src)
         /\ 1..Done \subseteq Items
BY GateAssumption DEF DataInv, DataOK, Done, Items

\* A step that moves no batch.
LEMMA Still ==
  ASSUME DataInv, UNCHANGED <<src, read, buf, accum, carry, carryTgt, sent>>,
         Done' = Done
  PROVE  DataInv'
BY DEF DataInv, DataOK, Placed, Ordered, Complete, Held, Sent

\* The reader adds a batch past all those the pump has read.
LEMMA Decoded ==
  ASSUME DataInv, NEW t \in Targets, Decode(t), PumpOK
  PROVE  DataInv'
<1> USE GateAssumption
<1>1. /\ src \in Seq(Targets) /\ Len(src) \in Nat /\ read \in 0..Len(src)
      /\ Len(src) < MaxItems /\ src' = Append(src, t)
      /\ UNCHANGED <<read, buf, accum, carry, carryTgt, sent, item, pumpPc>>
  BY DEF DataInv, DataOK, Decode, gateVars, flushVars, pumpVars, histVars
<1>2. /\ src' \in Seq(Targets) /\ Len(src') = Len(src) + 1
      /\ \A i \in 1..Len(src) : src'[i] = src[i]
  BY <1>1, AppendProperties
<1>3. Done' = Done /\ Done <= Len(src) /\ Done \in Int
  BY <1>1 DEF Done, PumpOK
<1>4. DataOK'
  BY <1>1, <1>2 DEF DataInv, DataOK
<1>5. Placed'
  <2>1. Placed
    BY DEF DataInv
  <2> QED BY ONLY <1>1, <1>2, <1>3, <2>1 DEF Placed, Held, Sent
<1>6. Ordered'
  <2>1. \A j \in Items : Sent(j) => src'[j] = src[j]
    BY <1>1, <1>2, <1>3 DEF DataInv, Placed, Items
  <2>2. \A t1 \in Targets : \A i \in Held(t1), j \in Items :
          Sent(j) /\ src'[j] = t1 => j < i
    BY <2>1 DEF DataInv, Ordered
  <2>3. \A i \in Elems(carry), j \in Items : Sent(j) /\ src'[j] = carryTgt => j < i
    BY <2>1 DEF DataInv, Ordered
  <2> QED BY <1>1, <2>2, <2>3 DEF DataInv, Ordered, Held, Sent
<1>7. Complete'
  BY <1>1, <1>2, <1>3 DEF DataInv, Complete, Held, Sent
<1> QED BY <1>4, <1>5, <1>6, <1>7 DEF DataInv

\* A delivery takes what an open window holds; the accumulator is empty.
LEMMA BufTaken ==
  ASSUME DataInv, NEW p, NEW t \in Targets, NEW w, TakeBuf(p, t, w),
         carry = <<>>, accum[t] = <<>>,
         UNCHANGED <<src, read, accum, sent>>, Done' = Done
  PROVE  DataInv'
<1>1. /\ carry' = buf[t] /\ carryTgt' = t
      /\ buf' = [buf EXCEPT ![t] = <<>>]
      /\ buf \in [Targets -> Seq(Items)] /\ accum \in [Targets -> Seq(Items)]
  BY DEF TakeBuf, DataInv, DataOK
<1>2. /\ Elems(<<>>) = {} /\ Inc(<<>>) /\ <<>> \in Seq(Items)
  BY EmptyElems
<1>3. /\ Elems(buf'[t]) = {} /\ Elems(carry) = {} /\ Elems(accum[t]) = {}
      /\ \A u \in Targets \ {t} : buf'[u] = buf[u]
      /\ Inc(buf'[t])
  BY <1>1, <1>2
<1>4. DataOK'
  BY <1>1, <1>2 DEF DataInv, DataOK
<1>5. Placed'
  BY <1>1, <1>3 DEF DataInv, Placed, Held, Sent
<1>6. Ordered'
  BY <1>1, <1>3 DEF DataInv, Ordered, Held, Sent
<1>7. Complete'
  <2> SUFFICES ASSUME ~CanFail, NEW i \in 1..Done
               PROVE  Sent(i) \/ i \in Elems(carry') \/ i \in Held(src[i])'
    BY DEF Complete, Sent
  <2>1. Sent(i) \/ i \in Held(src[i])
    BY <1>3 DEF DataInv, Complete
  <2>2. CASE src[i] = t
    BY <1>1, <1>3, <2>1, <2>2 DEF Held
  <2>3. CASE src[i] # t
    <3>1. buf'[src[i]] = buf[src[i]]
      BY <1>1, <2>3
    <3> QED BY <2>1, <3>1 DEF Held
  <2> QED BY <2>2, <2>3
<1> QED BY <1>4, <1>5, <1>6, <1>7 DEF DataInv

\* A delivery takes an accumulator, older than what the window holds.
LEMMA AccumTaken ==
  ASSUME DataInv, NEW p, NEW t \in Targets, TakeAccum(p, t), carry = <<>>,
         UNCHANGED <<src, read, buf, sent>>, Done' = Done
  PROVE  DataInv'
<1>1. /\ carry' = accum[t] /\ carryTgt' = t
      /\ accum' = [accum EXCEPT ![t] = <<>>]
      /\ buf \in [Targets -> Seq(Items)] /\ accum \in [Targets -> Seq(Items)]
  BY DEF TakeAccum, DataInv, DataOK
<1>2. /\ Elems(<<>>) = {} /\ Inc(<<>>) /\ <<>> \in Seq(Items)
  BY EmptyElems
<1>3. /\ Elems(accum'[t]) = {} /\ Elems(carry) = {}
      /\ \A u \in Targets \ {t} : accum'[u] = accum[u]
      /\ Inc(accum'[t])
  BY <1>1, <1>2
<1>4. DataOK'
  BY <1>1, <1>2 DEF DataInv, DataOK
<1>5. Placed'
  BY <1>1, <1>3 DEF DataInv, Placed, Held, Sent
<1>6. Ordered'
  BY <1>1, <1>3 DEF DataInv, Ordered, Held, Sent
<1>7. Complete'
  <2> SUFFICES ASSUME ~CanFail, NEW i \in 1..Done
               PROVE  Sent(i) \/ i \in Elems(carry') \/ i \in Held(src[i])'
    BY DEF Complete, Sent
  <2>1. Sent(i) \/ i \in Held(src[i])
    BY <1>3 DEF DataInv, Complete
  <2>2. CASE src[i] = t
    BY <1>1, <1>3, <2>1, <2>2 DEF Held
  <2>3. CASE src[i] # t
    <3>1. accum'[src[i]] = accum[src[i]]
      BY <1>1, <2>3
    <3> QED BY <2>1, <3>1 DEF Held
  <2> QED BY <2>2, <2>3
<1> QED BY <1>4, <1>5, <1>6, <1>7 DEF DataInv

\* A group of a delivery is enqueued: the oldest batches not enqueued.
LEMMA GroupSent ==
  ASSUME DataInv, NEW p, NEW after, SendGroup(p, after), carryTag \in Tags,
         UNCHANGED <<src, read, buf, accum>>, Done' = Done
  PROVE  DataInv'
<1>1. /\ carry \in Seq(Items) /\ carry # <<>> /\ Inc(carry)
      /\ carry' = Rest /\ carryTgt' = carryTgt
      /\ sent' = [i \in Items |-> IF i \in Elems(Group) THEN carryTag ELSE sent[i]]
      /\ sent \in [Items -> Tags \cup {Unsent}]
  BY DEF SendGroup, Enqueue, DataInv, DataOK, Ordered
<1>2. /\ Rest \in Seq(Items) /\ Inc(Rest)
      /\ Elems(carry) = Elems(Group) \cup Elems(Rest)
      /\ \A x \in Elems(Group), y \in Elems(Rest) : x < y
      /\ Elems(Group) \subseteq Items
  BY <1>1, GroupRest, GateAssumption
<1>3. \A i \in Items : Sent(i)' <=> (Sent(i) \/ i \in Elems(Group))
  BY <1>1, GateAssumption DEF Sent, Tags, Unsent
<1>4. sent' \in [Items -> Tags \cup {Unsent}]
  BY <1>1
<1>5. DataOK'
  BY <1>1, <1>2, <1>4 DEF DataInv, DataOK
<1>6. Placed'
  BY <1>1, <1>2, <1>3 DEF DataInv, Placed, Held
<1>7. Ordered'
  <2>1. \A i \in Elems(Rest), j \in Items : Sent(j)' /\ src[j] = carryTgt => j < i
    BY <1>2, <1>3 DEF DataInv, Ordered
  <2>2. ASSUME NEW t \in Targets, NEW i \in Held(t), NEW j \in Items,
               Sent(j)', src[j] = t
        PROVE  j < i
    BY <1>2, <1>3, <2>2 DEF DataInv, Placed, Ordered
  <2> QED BY <1>1, <1>2, <2>1, <2>2 DEF DataInv, Ordered, Held
<1>8. Complete'
  BY <1>1, <1>2, <1>3, DoneRead DEF DataInv, Complete, Held
<1> QED BY <1>5, <1>6, <1>7, <1>8 DEF DataInv

\* A failure drops batches: what is left keeps its place and its order.
LEMMA Dropped ==
  ASSUME DataInv, CanFail, UNCHANGED <<src, read, carryTgt, sent>>,
         Done <= Done', Done' \in Int,
         carry' = carry \/ carry' = <<>>,
         buf' \in [Targets -> Seq(Items)], accum' \in [Targets -> Seq(Items)],
         \A t \in Targets : buf'[t] = buf[t] \/ buf'[t] = <<>>,
         \A t \in Targets : accum'[t] = accum[t] \/ accum'[t] = <<>>
  PROVE  DataInv'
<1>1. /\ Elems(<<>>) = {} /\ Inc(<<>>) /\ <<>> \in Seq(Items)
  BY EmptyElems
<1>2. /\ Elems(carry') \subseteq Elems(carry)
      /\ \A t \in Targets : /\ Elems(buf'[t]) \subseteq Elems(buf[t])
                             /\ Elems(accum'[t]) \subseteq Elems(accum[t])
  BY <1>1
<1>3. DataOK'
  BY <1>1 DEF DataInv, DataOK
<1>4. Placed'
  <2>1. \A i \in 1..Done : i \in 1..Done'
    BY DoneRead
  <2>2. \A i \in Items : Sent(i) => i <= Done'
    BY DoneRead DEF DataInv, Placed, Items
  <2> QED BY <1>2, <2>1, <2>2 DEF DataInv, DataOK, Placed, Held, Sent
<1>5. Ordered'
  BY <1>1, <1>2 DEF DataInv, DataOK, Ordered, Held, Sent
<1>6. Complete'
  BY DEF Complete
<1> QED BY <1>3, <1>4, <1>5, <1>6 DEF DataInv

\* The batch in hand, later than all the others, joins its table's window.
LEMMA HandHeld ==
  ASSUME DataInv, NEW t \in Targets, item \in Items, item = read, src[item] = t,
         Done = read - 1, Done' = read,
         buf' = [buf EXCEPT ![t] = Append(@, item)],
         UNCHANGED <<src, read, accum, carry, carryTgt, sent>>
  PROVE  DataInv'
<1>1. buf \in [Targets -> Seq(Items)] /\ buf[t] \in Seq(Items)
  BY DEF DataInv, DataOK
<1>2. /\ buf'[t] \in Seq(Items)
      /\ Elems(buf'[t]) = Elems(buf[t]) \cup {item}
      /\ \A u \in Targets \ {t} : buf'[u] = buf[u]
      /\ buf' \in [Targets -> Seq(Items)]
  BY <1>1, AppendElems
<1>3. read \in Nat /\ \A i \in 1..Done : i < item /\ i \in 1..read
  BY DEF DataInv, DataOK
<1>4. Inc(buf'[t])
  <2>1. \A y \in Elems(buf[t]) : y < item
    BY <1>3 DEF DataInv, Placed, Held
  <2> QED BY <1>1, <2>1, AppendInc DEF DataInv, Ordered
<1>5. DataOK'
  BY <1>2 DEF DataInv, DataOK
<1>6. Placed'
  <2>1. \A i \in Items : Sent(i) => i <= read
    BY <1>3 DEF DataInv, Placed, Items
  <2>2. \A i \in Elems(carry) : i \in 1..read /\ src[i] = carryTgt
    BY <1>3 DEF DataInv, Placed
  <2>3. ASSUME NEW u \in Targets, NEW i \in Held(u)'
        PROVE  i \in 1..read /\ src[i] = u
    <3>1. i \in Held(u) \/ (u = t /\ i = item)
      BY <1>2 DEF Held
    <3>2. CASE i \in Held(u)
      BY <1>3, <3>2 DEF DataInv, Placed
    <3>3. CASE u = t /\ i = item
      BY <1>3, <3>3 DEF Items
    <3> QED BY <3>1, <3>2, <3>3
  <2> QED BY <2>1, <2>2, <2>3 DEF Placed, Sent
<1>7. Ordered'
  <2>1. /\ \A i \in Items : Sent(i) => i < item
        /\ \A i \in Elems(carry) : i < item
        /\ \A i \in Elems(accum[t]) : i < item
    BY <1>3 DEF DataInv, Placed, Held, Items
  <2>2. \A u \in Targets : Inc(accum[u])' /\ Inc(buf[u])'
    BY <1>2, <1>4 DEF DataInv, Ordered
  <2>3. \A u \in Targets : \A i \in Held(u)' : i \in Held(u) \/ (i = item /\ u = t)
    BY <1>2 DEF Held
  <2>4. \A u \in Targets : \A i \in Held(u)', j \in Items :
          Sent(j) /\ src[j] = u => j < i
    BY <2>1, <2>3 DEF DataInv, Ordered
  <2>5. \A i \in Held(carryTgt)', j \in Elems(carry) : j < i
    BY <2>1, <2>3 DEF DataInv, DataOK, Ordered
  <2>6. \A u \in Targets : \A i \in Elems(buf[u])', j \in Elems(accum[u]) : j < i
    BY <1>2, <2>1 DEF DataInv, Ordered
  <2> QED BY <2>2, <2>4, <2>5, <2>6 DEF DataInv, Ordered, Sent
<1>8. Complete'
  <2> SUFFICES ASSUME ~CanFail, NEW i \in 1..read
               PROVE  Sent(i) \/ i \in Elems(carry) \/ i \in Held(src[i])'
    BY DEF Complete, Sent
  <2>1. CASE i = item
    BY <1>2, <2>1 DEF Held
  <2>2. CASE i # item
    <3>1. i \in 1..Done /\ src[i] \in Targets
      <4>1. i \in 1..Done
        BY <1>3, <2>2
      <4>2. i \in 1..Len(src)
        BY DEF DataInv, DataOK
      <4> QED BY <4>1, <4>2 DEF DataInv, DataOK
    <3>2. Elems(buf[src[i]]) \subseteq Elems(buf'[src[i]])
      BY <1>2, <3>1
    <3> QED BY <3>1, <3>2 DEF DataInv, Complete, Held
  <2> QED BY <2>1, <2>2
<1> QED BY <1>5, <1>6, <1>7, <1>8 DEF DataInv

\* The batch in hand, later than all the others, joins its table's accumulator;
\* the window is empty.
LEMMA HandAccumulated ==
  ASSUME DataInv, NEW t \in Targets, item \in Items, item = read, src[item] = t,
         Done = read - 1, Done' = read, buf[t] = <<>>,
         accum' = [accum EXCEPT ![t] = Append(@, item)],
         UNCHANGED <<src, read, buf, carry, carryTgt, sent>>
  PROVE  DataInv'
<1>1. accum \in [Targets -> Seq(Items)] /\ accum[t] \in Seq(Items)
  BY DEF DataInv, DataOK
<1>2. /\ accum'[t] \in Seq(Items)
      /\ Elems(accum'[t]) = Elems(accum[t]) \cup {item}
      /\ \A u \in Targets \ {t} : accum'[u] = accum[u]
      /\ accum' \in [Targets -> Seq(Items)]
  BY <1>1, AppendElems
<1>3. read \in Nat /\ \A i \in 1..Done : i < item /\ i \in 1..read
  BY DEF DataInv, DataOK
<1>4. Inc(accum'[t])
  <2>1. \A y \in Elems(accum[t]) : y < item
    BY <1>3 DEF DataInv, Placed, Held
  <2> QED BY <1>1, <2>1, AppendInc DEF DataInv, Ordered
<1>5. DataOK'
  BY <1>2 DEF DataInv, DataOK
<1>6. Placed'
  <2>1. \A i \in Items : Sent(i) => i <= read
    BY <1>3 DEF DataInv, Placed, Items
  <2>2. \A i \in Elems(carry) : i \in 1..read /\ src[i] = carryTgt
    BY <1>3 DEF DataInv, Placed
  <2>3. ASSUME NEW u \in Targets, NEW i \in Held(u)'
        PROVE  i \in 1..read /\ src[i] = u
    <3>1. i \in Held(u) \/ (u = t /\ i = item)
      BY <1>2 DEF Held
    <3>2. CASE i \in Held(u)
      BY <1>3, <3>2 DEF DataInv, Placed
    <3>3. CASE u = t /\ i = item
      BY <1>3, <3>3 DEF Items
    <3> QED BY <3>1, <3>2, <3>3
  <2> QED BY <2>1, <2>2, <2>3 DEF Placed, Sent
<1>7. Ordered'
  <2>1. /\ \A i \in Items : Sent(i) => i < item
        /\ \A i \in Elems(carry) : i < item
        /\ Elems(buf[t]) = {}
    BY <1>3, EmptyElems DEF DataInv, Placed, Items
  <2>2. \A u \in Targets : Inc(buf[u])' /\ Inc(accum[u])'
    BY <1>2, <1>4 DEF DataInv, Ordered
  <2>3. \A u \in Targets : \A i \in Held(u)' : i \in Held(u) \/ (i = item /\ u = t)
    BY <1>2 DEF Held
  <2>4. \A u \in Targets : \A i \in Held(u)', j \in Items :
          Sent(j) /\ src[j] = u => j < i
    BY <2>1, <2>3 DEF DataInv, Ordered
  <2>5. \A i \in Held(carryTgt)', j \in Elems(carry) : j < i
    BY <2>1, <2>3 DEF DataInv, DataOK, Ordered
  <2>6. \A u \in Targets : \A i \in Elems(buf[u]), j \in Elems(accum[u])' : j < i
    BY <1>2, <2>1 DEF DataInv, Ordered
  <2> QED BY <2>2, <2>4, <2>5, <2>6 DEF DataInv, Ordered, Sent
<1>8. Complete'
  <2> SUFFICES ASSUME ~CanFail, NEW i \in 1..read
               PROVE  Sent(i) \/ i \in Elems(carry) \/ i \in Held(src[i])'
    BY DEF Complete, Sent
  <2>1. CASE i = item
    BY <1>2, <2>1 DEF Held
  <2>2. CASE i # item
    <3>1. i \in 1..Done /\ src[i] \in Targets
      <4>1. i \in 1..Done
        BY <1>3, <2>2
      <4>2. i \in 1..Len(src)
        BY DEF DataInv, DataOK
      <4> QED BY <4>1, <4>2 DEF DataInv, DataOK
    <3>2. Elems(accum[src[i]]) \subseteq Elems(accum'[src[i]])
      BY <1>2, <3>1
    <3> QED BY <3>1, <3>2 DEF DataInv, Complete, Held
  <2> QED BY <2>1, <2>2
<1> QED BY <1>5, <1>6, <1>7, <1>8 DEF DataInv

\* The batch in hand is enqueued; nothing of its table is held before it.
LEMMA HandSent ==
  ASSUME DataInv, item \in Items, item = read, Done = read - 1, Done' = read,
         Enqueue({item}, None), Held(src[item]) = {},
         carry = <<>> \/ carryTgt # src[item],
         UNCHANGED <<src, read, buf, accum, carry, carryTgt>>
  PROVE  DataInv'
<1>1. /\ sent' = [i \in Items |-> IF i = item THEN None ELSE sent[i]]
      /\ sent \in [Items -> Tags \cup {Unsent}]
  BY DEF Enqueue, DataInv, DataOK
<1>2. sent' \in [Items -> Tags \cup {Unsent}]
  BY <1>1, GateAssumption DEF Tags, None
<1>3. \A i \in Items : Sent(i)' <=> (Sent(i) \/ i = item)
  BY <1>1 DEF Sent, Unsent, None
<1>4. read \in Nat /\ \A i \in 1..Done : i < item /\ i \in 1..read
  BY DEF DataInv, DataOK
<1>5. DataOK'
  BY <1>2 DEF DataInv, DataOK
<1>6. Placed'
  <2>1. \A i \in Items : Sent(i)' => i <= read
    BY <1>3, <1>4 DEF DataInv, Placed, Items
  <2>2. \A i \in Elems(carry) : i \in 1..read /\ src[i] = carryTgt
    BY <1>4 DEF DataInv, Placed
  <2>3. \A u \in Targets : \A i \in Held(u) : i \in 1..read /\ src[i] = u
    BY <1>4 DEF DataInv, Placed
  <2> QED BY <2>1, <2>2, <2>3 DEF Placed, Held
<1>7. Ordered'
  <2>1. \A i \in Elems(carry), j \in Items : Sent(j)' /\ src[j] = carryTgt => j < i
    BY <1>3, EmptyElems DEF DataInv, Ordered
  <2>2. \A u \in Targets : \A i \in Held(u), j \in Items :
          Sent(j)' /\ src[j] = u => j < i
    BY <1>3 DEF DataInv, Ordered
  <2> QED BY <2>1, <2>2 DEF DataInv, Ordered, Held
<1>8. Complete'
  <2> SUFFICES ASSUME ~CanFail, NEW i \in 1..read
               PROVE  Sent(i)' \/ i \in Elems(carry) \/ i \in Held(src[i])
    BY DEF Complete, Held
  <2>1. i = item \/ i \in 1..Done
    BY <1>4
  <2>2. i \in Items
    BY <2>1, DoneRead
  <2> QED BY <1>3, <2>1, <2>2 DEF DataInv, Complete
<1> QED BY <1>5, <1>6, <1>7, <1>8 DEF DataInv

=============================================================================
