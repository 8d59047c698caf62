------------------------------ MODULE Sessions ------------------------------
(***************************************************************************)
(* One worker's connection to the coordinator, as the coordinator sees it: *)
(* the Session and Control handlers of its successive lives, each in its   *)
(* own goroutine, the loss they report, and the supervisor's reset.  A     *)
(* life is one RunRemote of the worker: it opens a Session, then a Control *)
(* stream, and a new life starts when the old one's streams are gone,      *)
(* whether or not the coordinator has noticed.  Workers share nothing here *)
(* but the lock, so one is enough.  Coordinator.mu and Watch.mu are held   *)
(* for one action at a time.  The ack timeout is a choice: an attached     *)
(* worker may be found stalled at any tick.  What a return means for the   *)
(* crash count (workerBack) is left out: it ends the run or changes        *)
(* nothing here.                                                           *)
(***************************************************************************)
EXTENDS Integers

CONSTANTS
    MaxLives,     \* lives of the worker
    MaxLosses,    \* lives that end by a fault of their own
    MaxResets     \* resets the supervisor makes

ASSUME SessionsAssumption ==
    MaxLives \in Nat \ {0} /\ MaxLosses \in Nat /\ MaxResets \in Nat

Lives == 1 .. MaxLives

NoLife == 0

(* A handler's goroutine: of life g's Session, or of its Control stream. *)
Session(g) == <<g, "session">>
Control(g) == <<g, "control">>
Handlers == Lives \X {"session", "control"}

VARIABLES
    life,      \* the worker's current life
    losses,    \* lives that ended by a fault of their own
    pc,        \* where each handler is
    ep,        \* the epoch in the Assignment of each life's Session
    epoch,     \* workerState.epoch
    attached,  \* the life whose Session is published: attached, out
    cancel,    \* the life whose session workerState.cancel ends
    control,   \* the life workerState.control belongs to
    cancelled, \* lives whose session context is cancelled
    pending,   \* Watch.pending
    tick,      \* where the supervisor's tick is
    resets     \* resets made

conn == <<life, losses>>
session == <<attached, cancel, cancelled>>
super == <<tick, resets>>
vars == <<conn, pc, ep, epoch, session, control, pending, super>>

Init ==
    /\ life = 1 /\ losses = 0
    /\ pc = [h \in Handlers |-> "idle"]
    /\ ep = [g \in Lives |-> 0]
    /\ epoch = 0
    /\ attached = NoLife /\ cancel = NoLife /\ control = NoLife
    /\ cancelled = {}
    /\ pending = FALSE
    /\ tick = "idle" /\ resets = 0

-----------------------------------------------------------------------------
(* The worker. *)

(* The Session handler of life g returned: the worker's stream is dead. *)
Severed(g) == pc[Session(g)] \in {"lose", "done"}

(* A life is over and the next begins: by a fault of its own. *)
Fail ==
    /\ life < MaxLives /\ losses < MaxLosses
    /\ life' = life + 1 /\ losses' = losses + 1
    /\ UNCHANGED <<pc, ep, epoch, session, control, pending, super>>

(* Or because the coordinator closed its Session: the first stream to die  *)
(* takes the others with it, and Run attaches again.                       *)
Reconnect ==
    /\ life < MaxLives /\ Severed(life)
    /\ life' = life + 1
    /\ UNCHANGED <<losses, pc, ep, epoch, session, control, pending, super>>

-----------------------------------------------------------------------------
(* The Session handler. *)

HelloPrevious(g) ==
    /\ g = life /\ pc[Session(g)] = "idle"
    /\ pc' = [pc EXCEPT ![Session(g)] = "claim"]
    /\ ep' = [ep EXCEPT ![g] = epoch - 1]
    /\ UNCHANGED <<conn, epoch, session, control, pending, super>>

(* The Hello of the current life: the Assignment takes the current epoch.  *)
Hello(g) ==
    /\ g = life /\ pc[Session(g)] = "idle"
    /\ pc' = [pc EXCEPT ![Session(g)] = "claim"]
    /\ ep' = [ep EXCEPT ![g] = epoch]
    /\ UNCHANGED <<conn, epoch, session, control, pending, super>>

ClaimAlways(g) ==
    /\ pc[Session(g)] = "claim"
    /\ pc' = [pc EXCEPT ![Session(g)] = "note"]
    /\ attached' = g /\ cancel' = g
    /\ UNCHANGED <<conn, ep, epoch, control, cancelled, pending, super>>

(* The session is published, unless another is: then it is refused and the *)
(* worker's handshake tries again.                                         *)
Claim(g) ==
    /\ pc[Session(g)] = "claim"
    /\ IF attached # NoLife
         THEN /\ pc' = [pc EXCEPT ![Session(g)] = "idle"]
              /\ UNCHANGED <<attached, cancel>>
         ELSE /\ pc' = [pc EXCEPT ![Session(g)] = "note"]
              /\ attached' = g /\ cancel' = g
    /\ UNCHANGED <<conn, ep, epoch, control, cancelled, pending, super>>

NoteAttachKeeps(g) ==
    /\ pc[Session(g)] = "note"
    /\ pc' = [pc EXCEPT ![Session(g)] = "up"]
    /\ UNCHANGED <<conn, ep, epoch, session, control, pending, super>>

(* onAttach: Watch.NoteAttach. The Assignment is sent only after it. *)
NoteAttach(g) ==
    /\ pc[Session(g)] = "note"
    /\ pc' = [pc EXCEPT ![Session(g)] = "up"]
    /\ pending' = FALSE
    /\ UNCHANGED <<conn, ep, epoch, session, control, super>>

UnpublishOnStream(g) ==
    /\ pc[Session(g)] = "up" /\ g < life
    /\ pc' = [pc EXCEPT ![Session(g)] = "lose"]
    /\ attached' = NoLife /\ cancel' = NoLife
    /\ UNCHANGED <<conn, ep, epoch, cancelled, control, pending, super>>

(* The Session ends, its stream dead or its context cancelled: the first   *)
(* deferred step unpublishes it.                                           *)
Unpublish(g) ==
    /\ pc[Session(g)] = "up"
    /\ g < life \/ g \in cancelled
    /\ pc' = [pc EXCEPT ![Session(g)] = "lose"]
    /\ attached' = NoLife /\ cancel' = NoLife
    /\ UNCHANGED <<conn, ep, epoch, cancelled, control, pending, super>>

-----------------------------------------------------------------------------
(* The Control handler. *)

(* The worker opens Control once it has its Assignment; the handler may    *)
(* install the stream after that life is over.                             *)
OpenControl(g) ==
    /\ pc[Session(g)] \in {"up", "lose", "done"}
    /\ pc[Control(g)] = "idle"
    /\ pc' = [pc EXCEPT ![Control(g)] = "up"]
    /\ control' = g
    /\ UNCHANGED <<conn, ep, epoch, session, pending, super>>

(* The context of the session workerState.cancel belongs to is cancelled. *)
Cancelled == cancelled \cup ({cancel} \ {NoLife})

(* controlEnded: only the handler whose stream is still the worker's acts. *)
ControlEnded(g) ==
    /\ pc[Control(g)] = "up" /\ g < life
    /\ IF control = g
         THEN /\ control' = NoLife
              /\ cancelled' = Cancelled
              /\ pc' = [pc EXCEPT ![Control(g)] = "lose"]
         ELSE /\ pc' = [pc EXCEPT ![Control(g)] = "done"]
              /\ UNCHANGED <<control, cancelled>>
    /\ UNCHANGED <<conn, ep, epoch, attached, cancel, pending, super>>

-----------------------------------------------------------------------------
(* The loss, reported by either handler. *)

LoseByControl(h) ==
    /\ pc[h] = "lose"
    /\ epoch' = IF pending \/ (h[2] = "session" /\ control # NoLife)
                  THEN epoch ELSE epoch + 1
    /\ pending' = TRUE
    /\ pc' = [pc EXCEPT ![h] = "done"]
    /\ UNCHANGED <<conn, ep, session, control, super>>

(* loseWorker: MarkPending decides, under the lock, whether the epoch      *)
(* moves.                                                                  *)
Lose(h) ==
    /\ pc[h] = "lose"
    /\ epoch' = IF pending THEN epoch ELSE epoch + 1
    /\ pending' = TRUE
    /\ pc' = [pc EXCEPT ![h] = "done"]
    /\ UNCHANGED <<conn, ep, session, control, super>>

-----------------------------------------------------------------------------
(* The supervisor's tick. *)

(* The probe, read under Coordinator.mu: only an attached worker can be    *)
(* found stalled.                                                          *)
TickProbe ==
    /\ tick = "idle"
    /\ tick' = IF attached # NoLife THEN "judge" ELSE "idle"
    /\ UNCHANGED <<conn, pc, ep, epoch, session, control, pending, resets>>

(* Watch.Judge, under its own lock: an awaited worker is not reset again,  *)
(* another may be past its ack timeout.                                    *)
Judge ==
    /\ tick = "judge"
    /\ \/ tick' = "idle"
       \/ ~pending /\ resets < MaxResets /\ tick' = "bump"
    /\ UNCHANGED <<conn, pc, ep, epoch, session, control, pending, resets>>

(* resetWorker: the epoch, then the pending mark, then the session. *)
ResetBump ==
    /\ tick = "bump"
    /\ epoch' = epoch + 1
    /\ tick' = "mark"
    /\ resets' = resets + 1
    /\ UNCHANGED <<conn, pc, ep, session, control, pending>>

ResetMark ==
    /\ tick = "mark"
    /\ pending' = TRUE
    /\ tick' = "cancel"
    /\ UNCHANGED <<conn, pc, ep, epoch, session, control, resets>>

ResetCancel ==
    /\ tick = "cancel"
    /\ cancelled' = Cancelled
    /\ cancel' = NoLife
    /\ tick' = "idle"
    /\ UNCHANGED <<conn, pc, ep, epoch, attached, control, pending, resets>>

-----------------------------------------------------------------------------
Handler(g) ==
    \/ Claim(g) \/ NoteAttach(g) \/ Unpublish(g) \/ ControlEnded(g)

Reset == ResetBump \/ ResetMark \/ ResetCancel

Next ==
    \/ Fail \/ Reconnect
    \/ \E g \in Lives : Hello(g) \/ Handler(g) \/ OpenControl(g)
    \/ \E h \in Handlers : Lose(h)
    \/ TickProbe \/ Judge \/ Reset

Spec == Init /\ [][Next]_vars

(* Every goroutine runs, the worker keeps trying to attach, and a worker   *)
(* whose Session is gone attaches again.  It need not open its Control     *)
(* stream, fail, or be found stalled.                                      *)
FairSpec ==
    /\ Spec
    /\ \A g \in Lives : WF_vars(Hello(g)) /\ WF_vars(Handler(g))
    /\ \A h \in Handlers : WF_vars(Lose(h))
    /\ WF_vars(Reconnect) /\ WF_vars(Judge) /\ WF_vars(Reset)

-----------------------------------------------------------------------------
(* Every variable holds a value of its kind. *)
TypeOK ==
    /\ life \in Lives /\ losses \in Nat
    /\ pc \in [Handlers -> {"idle", "claim", "note", "up", "lose", "done"}]
    /\ ep \in [Lives -> Nat] /\ epoch \in Nat
    /\ {attached, cancel, control} \subseteq Lives \cup {NoLife}
    /\ cancelled \subseteq Lives
    /\ pending \in BOOLEAN
    /\ tick \in {"idle", "judge", "bump", "mark", "cancel"}
    /\ resets \in Nat

(* Life g's Session is published: a snapshot may send to it. *)
Serving(g) == pc[Session(g)] \in {"note", "up"}

(* Whatever the order in which the handlers of successive lives run, the   *)
(* coordinator serves one of them at a time, it is the one it records as   *)
(* attached, and the cancel function it keeps is that one's or none: a     *)
(* reset ends the session it finds, never one already gone.                *)
OnePublished ==
    /\ \A g \in Lives : Serving(g) => attached = g
    /\ attached # NoLife => Serving(attached)
    /\ cancel \in {attached, NoLife}

(* Until the supervisor resets the worker, a Session that has reported its *)
(* loss holds a superseded epoch, so a late reply of it is stale, however  *)
(* many streams reported the loss and however late they did.               *)
LostSuperseded ==
    resets = 0 =>
        \A g \in Lives : pc[Session(g)] = "done" => ep[g] < epoch

(* The coordinator that ends a session's Control stream, or resets the     *)
(* worker, ends the Session too, and a worker that keeps trying ends up    *)
(* attached with a session nobody has cancelled, unless the bound on its   *)
(* lives is reached: no handler that lingers refuses it for ever.          *)
Reattaches ==
    <>[](life = MaxLives \/ (Serving(life) /\ life \notin cancelled))

(* What makes the two invariants inductive: the handlers' epochs never     *)
(* exceed the worker's, and until a reset the pending mark means that the  *)
(* epoch has moved past every Session that is up or about to report.       *)
EpochBehind ==
    /\ \A g \in Lives : ep[g] <= epoch
    /\ tick \in {"mark", "cancel"} => resets > 0
    /\ pending /\ resets = 0 =>
          \A g \in Lives : pc[Session(g)] \in {"up", "lose"} => ep[g] < epoch

(* Once every handler of the earlier lives has finished and no reset is    *)
(* under way, a Session that serves the current life, with nothing about   *)
(* to end it, has the current epoch and is not awaited: the Assignment     *)
(* carries the worker's current generation.                                *)
AttachedCurrent ==
    (/\ pc[Session(life)] = "up" /\ life \notin cancelled
     /\ tick \notin {"bump", "mark", "cancel"}
     /\ \A g \in 1 .. life - 1 : /\ pc[Session(g)] \in {"idle", "done"}
                                 /\ pc[Control(g)] \in {"idle", "done"})
    => ep[life] = epoch /\ ~pending
=============================================================================
