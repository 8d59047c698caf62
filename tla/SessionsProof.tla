--------------------------- MODULE SessionsProof ---------------------------
(***************************************************************************)
(* Proofs about Sessions, for any number of lives, losses and resets.      *)
(***************************************************************************)
EXTENDS Sessions, TLAPS

IInv == TypeOK /\ OnePublished /\ EpochBehind /\ LostSuperseded

(* A handler is named by its life and its stream, and no two share one. *)
LEMMA HandlerNames ==
    /\ \A g \in Lives : Session(g) \in Handlers /\ Control(g) \in Handlers
    /\ \A g, k \in Lives : Session(g) # Control(k)
    /\ \A g, k \in Lives : Session(g) = Session(k) => g = k
    /\ \A h \in Handlers : \E g \in Lives : h = Session(g) \/ h = Control(g)
BY DEF Handlers, Session, Control

(* No life has number zero. *)
LEMMA NoLifeIsNone == NoLife \notin Lives
BY DEF NoLife, Lives

(* The run starts with nothing attached and every epoch zero. *)
LEMMA InitIInv == Init => IInv
<1> SUFFICES ASSUME Init PROVE IInv
  OBVIOUS
<1>1. TypeOK
  <2>1. 1 \in Lives
    BY SessionsAssumption DEF Lives
  <2>2. QED
    BY <2>1 DEF Init, TypeOK
<1>2. OnePublished
  BY HandlerNames DEF Init, OnePublished, Serving
<1>3. EpochBehind
  BY HandlerNames DEF Init, EpochBehind
<1>4. LostSuperseded
  BY HandlerNames DEF Init, LostSuperseded
<1>5. QED
  BY <1>1, <1>2, <1>3, <1>4 DEF IInv

(* Every step of the handlers, the worker and the supervisor preserves the *)
(* types.                                                                  *)
LEMMA NextTypeOK == TypeOK /\ [Next]_vars => TypeOK'
<1> SUFFICES ASSUME TypeOK, [Next]_vars PROVE TypeOK'
  OBVIOUS
<1>1. CASE Fail
  BY <1>1, SessionsAssumption DEF Fail, TypeOK, Lives, session, super
<1>2. CASE Reconnect
  BY <1>2, SessionsAssumption DEF Reconnect, TypeOK, Lives, session, super
<1>3. ASSUME NEW g \in Lives, Hello(g) PROVE TypeOK'
  BY <1>3, HandlerNames DEF Hello, TypeOK, conn, session, super
<1>4. ASSUME NEW g \in Lives, Claim(g) PROVE TypeOK'
  BY <1>4, HandlerNames DEF Claim, TypeOK, conn, super
<1>5. ASSUME NEW g \in Lives, NoteAttach(g) PROVE TypeOK'
  BY <1>5, HandlerNames DEF NoteAttach, TypeOK, conn, session, super
<1>6. ASSUME NEW g \in Lives, Unpublish(g) PROVE TypeOK'
  BY <1>6, HandlerNames DEF Unpublish, TypeOK, conn, super
<1>7. ASSUME NEW g \in Lives, ControlEnded(g) PROVE TypeOK'
  BY <1>7, HandlerNames DEF ControlEnded, Cancelled, TypeOK, conn, super
<1>8. ASSUME NEW g \in Lives, OpenControl(g) PROVE TypeOK'
  BY <1>8, HandlerNames DEF OpenControl, TypeOK, conn, session, super
<1>9. ASSUME NEW h \in Handlers, Lose(h) PROVE TypeOK'
  BY <1>9 DEF Lose, TypeOK, conn, session, super
<1>10. CASE TickProbe
  BY <1>10 DEF TickProbe, TypeOK, conn, session
<1>11. CASE Judge
  BY <1>11 DEF Judge, TypeOK, conn, session
<1>12. CASE ResetBump
  BY <1>12 DEF ResetBump, TypeOK, conn, session
<1>13. CASE ResetMark
  BY <1>13 DEF ResetMark, TypeOK, conn, session
<1>14. CASE ResetCancel
  BY <1>14 DEF ResetCancel, Cancelled, TypeOK, conn
<1>15. CASE UNCHANGED vars
  BY <1>15 DEF vars, conn, session, super, TypeOK
<1>16. QED
  BY <1>1, <1>2, <1>3, <1>4, <1>5, <1>6, <1>7, <1>8, <1>9, <1>10, <1>11,
     <1>12, <1>13, <1>14, <1>15 DEF Next, Handler, Reset

(* One session is published at a time: it is claimed only when none is,    *)
(* and unpublished by the handler that claimed it.                         *)
LEMMA NextOnePublished ==
    TypeOK /\ OnePublished /\ [Next]_vars => OnePublished'
<1> SUFFICES ASSUME TypeOK, OnePublished, [Next]_vars PROVE OnePublished'
  OBVIOUS
<1>a. ASSUME UNCHANGED <<attached, cancel>>,
             \A k \in Lives : pc'[Session(k)] = pc[Session(k)]
                              \/ ~(Serving(k) \/ Serving(k)')
                              \/ (Serving(k) /\ Serving(k)')
      PROVE  OnePublished'
  BY <1>a DEF OnePublished, Serving, TypeOK
<1>1. CASE Fail
  BY <1>1, <1>a DEF Fail, session
<1>2. CASE Reconnect
  BY <1>2, <1>a DEF Reconnect, session
<1>3. ASSUME NEW g \in Lives, Hello(g) PROVE OnePublished'
  BY <1>3, <1>a, HandlerNames DEF Hello, session, TypeOK, Serving
<1>4. ASSUME NEW g \in Lives, Claim(g) PROVE OnePublished'
  <2>1. CASE attached # NoLife
    BY <1>4, <2>1, <1>a, HandlerNames DEF Claim, TypeOK, Serving
  <2>2. CASE attached = NoLife
    BY <1>4, <2>2, HandlerNames, NoLifeIsNone
       DEF Claim, TypeOK, OnePublished, Serving
  <2>3. QED
    BY <2>1, <2>2
<1>5. ASSUME NEW g \in Lives, NoteAttach(g) PROVE OnePublished'
  BY <1>5, <1>a, HandlerNames DEF NoteAttach, session, TypeOK, Serving
<1>6. ASSUME NEW g \in Lives, Unpublish(g) PROVE OnePublished'
  BY <1>6, HandlerNames, NoLifeIsNone
     DEF Unpublish, TypeOK, OnePublished, Serving
<1>7. ASSUME NEW g \in Lives, ControlEnded(g) PROVE OnePublished'
  BY <1>7, <1>a, HandlerNames DEF ControlEnded, TypeOK
<1>8. ASSUME NEW g \in Lives, OpenControl(g) PROVE OnePublished'
  BY <1>8, <1>a, HandlerNames DEF OpenControl, session, TypeOK
<1>9. ASSUME NEW h \in Handlers, Lose(h) PROVE OnePublished'
  BY <1>9, <1>a, HandlerNames DEF Lose, session, TypeOK, Serving
<1>10. CASE TickProbe
  BY <1>10, <1>a DEF TickProbe, session
<1>11. CASE Judge
  BY <1>11, <1>a DEF Judge, session
<1>12. CASE ResetBump
  BY <1>12, <1>a DEF ResetBump, session
<1>13. CASE ResetMark
  BY <1>13, <1>a DEF ResetMark, session
<1>14. CASE ResetCancel
  BY <1>14 DEF ResetCancel, OnePublished, Serving
<1>15. CASE UNCHANGED vars
  BY <1>15, <1>a DEF vars, session
<1>16. QED
  BY <1>1, <1>2, <1>3, <1>4, <1>5, <1>6, <1>7, <1>8, <1>9, <1>10, <1>11,
     <1>12, <1>13, <1>14, <1>15 DEF Next, Handler, Reset
(* The epochs stay behind the worker's: an Assignment takes the current    *)
(* one, and whoever sets the pending mark before a reset has moved the     *)
(* epoch first, or found it moved since the last session attached.         *)
LEMMA NextEpochBehind == TypeOK /\ EpochBehind /\ [Next]_vars => EpochBehind'
<1> SUFFICES ASSUME TypeOK, EpochBehind, [Next]_vars PROVE EpochBehind'
  OBVIOUS
<1>a. ASSUME UNCHANGED <<ep, epoch, pending, tick, resets>>,
             \A k \in Lives : pc'[Session(k)] \in {"up", "lose"}
                              => pc[Session(k)] \in {"up", "lose"}
      PROVE  EpochBehind'
  BY <1>a DEF EpochBehind
<1>1. CASE Fail
  BY <1>1, <1>a DEF Fail, super
<1>2. CASE Reconnect
  BY <1>2, <1>a DEF Reconnect, super
<1>3. ASSUME NEW g \in Lives, Hello(g) PROVE EpochBehind'
  BY <1>3, HandlerNames DEF Hello, super, TypeOK, EpochBehind
<1>4. ASSUME NEW g \in Lives, Claim(g) PROVE EpochBehind'
  BY <1>4, <1>a, HandlerNames DEF Claim, super, TypeOK
<1>5. ASSUME NEW g \in Lives, NoteAttach(g) PROVE EpochBehind'
  BY <1>5 DEF NoteAttach, super, EpochBehind
<1>6. ASSUME NEW g \in Lives, Unpublish(g) PROVE EpochBehind'
  BY <1>6, <1>a, HandlerNames DEF Unpublish, super, TypeOK
<1>7. ASSUME NEW g \in Lives, ControlEnded(g) PROVE EpochBehind'
  BY <1>7, <1>a, HandlerNames DEF ControlEnded, super, TypeOK
<1>8. ASSUME NEW g \in Lives, OpenControl(g) PROVE EpochBehind'
  BY <1>8, <1>a, HandlerNames DEF OpenControl, super, TypeOK
<1>9. ASSUME NEW h \in Handlers, Lose(h) PROVE EpochBehind'
  <2>1. CASE pending
    BY <1>9, <2>1, HandlerNames DEF Lose, super, TypeOK, EpochBehind
  <2>2. CASE ~pending
    BY <1>9, <2>2 DEF Lose, super, TypeOK, EpochBehind
  <2>3. QED
    BY <2>1, <2>2
<1>10. CASE TickProbe
  BY <1>10 DEF TickProbe, EpochBehind
<1>11. CASE Judge
  BY <1>11 DEF Judge, EpochBehind
<1>12. CASE ResetBump
  BY <1>12 DEF ResetBump, TypeOK, EpochBehind
<1>13. CASE ResetMark
  BY <1>13 DEF ResetMark, TypeOK, EpochBehind
<1>14. CASE ResetCancel
  BY <1>14 DEF ResetCancel, EpochBehind
<1>15. CASE UNCHANGED vars
  BY <1>15, <1>a DEF vars, super
<1>16. QED
  BY <1>1, <1>2, <1>3, <1>4, <1>5, <1>6, <1>7, <1>8, <1>9, <1>10, <1>11,
     <1>12, <1>13, <1>14, <1>15 DEF Next, Handler, Reset

(* A Session reports its loss in the step that makes it "done": the epoch  *)
(* moves in that step, or had moved already.                               *)
LEMMA NextLostSuperseded ==
    TypeOK /\ EpochBehind /\ LostSuperseded /\ [Next]_vars => LostSuperseded'
<1> SUFFICES ASSUME TypeOK, EpochBehind, LostSuperseded, [Next]_vars
             PROVE  LostSuperseded'
  OBVIOUS
<1>a. ASSUME UNCHANGED <<ep, epoch, resets>>,
             \A k \in Lives : pc'[Session(k)] = "done"
                              => pc[Session(k)] = "done"
      PROVE  LostSuperseded'
  BY <1>a DEF LostSuperseded
<1>1. CASE Fail
  BY <1>1, <1>a DEF Fail, super
<1>2. CASE Reconnect
  BY <1>2, <1>a DEF Reconnect, super
<1>3. ASSUME NEW g \in Lives, Hello(g) PROVE LostSuperseded'
  BY <1>3, HandlerNames DEF Hello, super, TypeOK, LostSuperseded
<1>4. ASSUME NEW g \in Lives, Claim(g) PROVE LostSuperseded'
  BY <1>4, <1>a, HandlerNames DEF Claim, super, TypeOK
<1>5. ASSUME NEW g \in Lives, NoteAttach(g) PROVE LostSuperseded'
  BY <1>5, <1>a, HandlerNames DEF NoteAttach, super, TypeOK
<1>6. ASSUME NEW g \in Lives, Unpublish(g) PROVE LostSuperseded'
  BY <1>6, <1>a, HandlerNames DEF Unpublish, super, TypeOK
<1>7. ASSUME NEW g \in Lives, ControlEnded(g) PROVE LostSuperseded'
  BY <1>7, <1>a, HandlerNames DEF ControlEnded, super, TypeOK
<1>8. ASSUME NEW g \in Lives, OpenControl(g) PROVE LostSuperseded'
  BY <1>8, <1>a, HandlerNames DEF OpenControl, super, TypeOK
<1>9. ASSUME NEW h \in Handlers, Lose(h) PROVE LostSuperseded'
  BY <1>9, HandlerNames
     DEF Lose, super, TypeOK, EpochBehind, LostSuperseded
<1>10. CASE TickProbe
  BY <1>10, <1>a DEF TickProbe
<1>11. CASE Judge
  BY <1>11, <1>a DEF Judge
<1>12. CASE ResetBump
  BY <1>12 DEF ResetBump, TypeOK, LostSuperseded
<1>13. CASE ResetMark
  BY <1>13, <1>a DEF ResetMark
<1>14. CASE ResetCancel
  BY <1>14, <1>a DEF ResetCancel
<1>15. CASE UNCHANGED vars
  BY <1>15, <1>a DEF vars, super
<1>16. QED
  BY <1>1, <1>2, <1>3, <1>4, <1>5, <1>6, <1>7, <1>8, <1>9, <1>10, <1>11,
     <1>12, <1>13, <1>14, <1>15 DEF Next, Handler, Reset

(* The invariant holds in every reachable state. *)
THEOREM Inductive == Spec => []IInv
<1>1. Init => IInv
  BY InitIInv
<1>2. IInv /\ [Next]_vars => IInv'
  BY NextTypeOK, NextOnePublished, NextEpochBehind, NextLostSuperseded DEF IInv
<1>3. QED
  BY <1>1, <1>2, PTL DEF Spec

(* However the handlers of a worker's lives interleave, the coordinator    *)
(* serves one at a time, and the session its cancel ends is that one.      *)
THEOREM Exclusive == Spec => []OnePublished
<1>1. IInv => OnePublished
  BY DEF IInv
<1>2. QED
  BY <1>1, Inductive, PTL

(* Until the supervisor resets the worker, a Session that has reported its *)
(* loss never again holds the current epoch.                               *)
THEOREM Superseded == Spec => []LostSuperseded
<1>1. IInv => LostSuperseded
  BY DEF IInv
<1>2. QED
  BY <1>1, Inductive, PTL
=============================================================================
