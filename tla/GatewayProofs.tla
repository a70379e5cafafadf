----------------------------- MODULE GatewayProofs -----------------------------
(***************************************************************************)
(* Theorems about ToolExecutionGateway for every set of callers, intents   *)
(* and bounds.  Every theorem allows reads of the journal beside the       *)
(* handlers; one that says nothing of an operation after a read has        *)
(* overtaken it says so, and what a theorem assumes of the entry points    *)
(* and the faults is in its statement.                                     *)
(*                                                                         *)
(* The first invariant says that every control record the gateway keeps or *)
(* is about to commit is sound, and that a call in progress only refers to *)
(* records that exist.  The next ones each add one fact of that kind: who  *)
(* holds the lock of an operation, what a blocked record carries, which    *)
(* entry point a call is in where, in which statuses a record may be       *)
(* committed, that what is in memory is the newest durable record, who has *)
(* an idempotency key, and what a cancelled, a stopped and a running       *)
(* operation may look like.  The last two say in which phase of its        *)
(* execution an operation is, by the one call that may write to it, and    *)
(* when its effect may have happened; the refinement of OperationContract  *)
(* follows from them.                                                      *)
(***************************************************************************)
EXTENDS GatewayProperties, SequenceTheorems, TLAPS

Sound(r) ==
    /\ r.status = "none" => r = NoControl
    /\ r.status \in {"succeeded", "blocked", "cancelled", "reconcile_required"}
         => r.lease.state # "active"
    /\ r.status = "blocked" => r.blocked # NotBlocked
    /\ r.status = "reconcile_required" => r.reconcile # "absent"
    /\ IsTerminalOperationStatus(r.status) => r.result = r.status

SoundRecord == {r \in OperationControlRecord : Sound(r)}

SoundCall ==
    [kind    : EntryPoints \cup {"none"},
     pc      : PC,
     intent  : Intents \cup {NoIntent},
     ref     : Nat,
     epoch   : Nat,
     obs     : Observation,
     succ    : SoundRecord,
     after   : PC,
     touched : BOOLEAN,
     halted  : BOOLEAN,
     view    : [Ops -> SoundRecord]]

\* The handler of the call goes on reading the record object it refers to.
Holding == {"queued", "lease", "leased", "prepared", "stop"}

\* The call's operation is known to the gateway.
Handling == Holding \cup {"denied", "execute", "verify", "relock", "settled", "unlock"}

FrameOK(f, cs) ==
    /\ f.pc \notin {"idle", "hydrate"} => f.intent \in Intents
    /\ f.ref # 0 => f.intent \in Intents /\ f.ref <= Len(cs[f.intent.op])
    /\ f.pc \in Handling => cs[f.intent.op] # <<>>
    /\ f.pc \in Holding => f.ref # 0
    /\ f.pc = "accept" => f.ref = 0
    /\ f.pc = "commit" =>
         IF f.after = "submitted" THEN f.ref = 0
         ELSE f.ref # 0 /\ f.after \in Handling \ {"stop"}

IInv ==
    /\ durable \in [Ops -> SoundRecord]
    /\ cells \in [Ops -> Seq(SoundRecord)]
    /\ locks \in [Ops -> Seq(Callers)]
    /\ notifyFailed \in [Ops -> BOOLEAN]
    /\ call \in [Callers -> SoundCall]
    /\ effects \in [Ops -> Nat]
    /\ hydrated \in BOOLEAN
    /\ overtaken \subseteq Ops
    /\ \A c \in Callers : FrameOK(call[c], cells)

-------------------------------------------------------------------------------
(***************************************************************************)
(* Every successor record of a sound record is sound.                      *)
(***************************************************************************)
LEMMA NoControlSound == NoControl \in SoundRecord
  BY DEF SoundRecord, Sound, NoControl, OperationControlRecord, Lease, NoLease,
     Observation, NoObservation, BlockedState, NotBlocked, IsTerminalOperationStatus

LEMMA AcceptedSound ==
  ASSUME NEW i \in Intents
  PROVE  Accepted(i) \in SoundRecord
  BY DEF SoundRecord, Sound, Accepted, NoControl, OperationControlRecord, Lease, NoLease,
     Observation, NoObservation, BlockedState, NotBlocked, IsTerminalOperationStatus,
     OperationStatus

\* The moves that neither rest nor settle: transition() without a settlement.
LEMMA MovesSound ==
  ASSUME NEW r \in SoundRecord
  PROVE  /\ Queued(r) \in SoundRecord
         /\ Leased(r) \in SoundRecord
         /\ Running(r) \in SoundRecord
         /\ CancelRequested(r) \in SoundRecord
         /\ HandVerifying(r) \in SoundRecord
         /\ PermissionDenied(r) \in SoundRecord
         /\ ResumeQueued(r) \in SoundRecord
         /\ ResumeVerifying(r) \in SoundRecord
  <1> USE DEF SoundRecord, Sound, OperationControlRecord, OperationStatus,
              IsTerminalOperationStatus
  <1>1. Queued(r) \in SoundRecord
    BY DEF Queued
  <1>2. LeaseEpoch(r) \in Nat
    BY DEF LeaseEpoch, Lease
  <1>3. Leased(r) \in SoundRecord
    BY <1>2 DEF Leased, Lease
  <1>4. /\ Running(r) \in SoundRecord
        /\ CancelRequested(r) \in SoundRecord
        /\ HandVerifying(r) \in SoundRecord
    BY DEF Running, CancelRequested, HandVerifying
  <1>5. PermissionDenied(r) \in SoundRecord
    BY DEF PermissionDenied
  <1>6. ResumeQueued(r) \in SoundRecord
    BY DEF ResumeQueued, NotBlocked, BlockedState
  <1>7. ResumeVerifying(r) \in SoundRecord
    BY DEF ResumeVerifying, NotBlocked, BlockedState
  <1> QED BY <1>1, <1>3, <1>4, <1>5, <1>6, <1>7

LEMMA ReleasedLease ==
  ASSUME NEW lease \in Lease
  PROVE  /\ ReleaseLease(lease) \in Lease
         /\ ReleaseLease(lease).state # "active"
  BY DEF ReleaseLease, Lease

\* settleCancellation and resolveReconcile.
LEMMA SettlementsSound ==
  ASSUME NEW r \in SoundRecord
  PROVE  /\ \A to \in {"reconcile_required", "cancelled", "failed"},
               effect \in OperationSideEffectState :
              CancelSettled(r, to, effect) \in SoundRecord
         /\ r.status = "reconcile_required" => ReconcileRecovered(r) \in SoundRecord
         /\ ReconcileCancelled(r) \in SoundRecord
         /\ ReconcileFailed(r) \in SoundRecord
  <1> USE DEF SoundRecord, Sound, OperationControlRecord, OperationStatus,
              IsTerminalOperationStatus
  <1>1. ReleaseLease(r.lease) \in Lease /\ ReleaseLease(r.lease).state # "active"
    BY ReleasedLease
  <1>2. ASSUME NEW to \in {"reconcile_required", "cancelled", "failed"},
               NEW effect \in OperationSideEffectState
        PROVE  CancelSettled(r, to, effect) \in SoundRecord
    <2>1. CASE to = "reconcile_required"
      <3>1. CancelSettled(r, to, effect) =
              [r EXCEPT !.status = "reconcile_required", !.invalidated = TRUE,
                        !.lease = ReleaseLease(r.lease), !.reconcile = effect]
        BY <2>1 DEF CancelSettled
      <3> QED BY <1>1, <3>1 DEF OperationSideEffectState
    <2>2. CASE to # "reconcile_required"
      <3>1. CancelSettled(r, to, effect) =
              [r EXCEPT !.status = to, !.invalidated = TRUE,
                        !.lease = ReleaseLease(r.lease), !.result = to]
        BY <2>2 DEF CancelSettled
      <3> QED BY <1>1, <2>2, <3>1
    <2> QED BY <2>1, <2>2
  <1>3. r.status = "reconcile_required" => ReconcileRecovered(r) \in SoundRecord
    BY DEF ReconcileRecovered, NotBlocked, BlockedState, OperationBlockedAfter
  <1>4. ReconcileCancelled(r) \in SoundRecord
    BY <1>1 DEF ReconcileCancelled
  <1>5. ReconcileFailed(r) \in SoundRecord
    BY DEF ReconcileFailed
  <1> QED BY <1>2, <1>3, <1>4, <1>5

\* The terminal emits of the Hand.
LEMMA HandSuccessorsSound ==
  ASSUME NEW r \in SoundRecord, NEW obs \in Observation
  PROVE  /\ \A after \in OperationBlockedAfter, effect \in OperationSideEffectState :
              HandBlocked(r, obs, after, effect) \in SoundRecord
         /\ obs.effect \in OperationSideEffectState => HandReconcile(r, obs) \in SoundRecord
         /\ HandFailed(r, obs) \in SoundRecord
         /\ HandSucceeded(r, obs) \in SoundRecord
  <1> USE DEF SoundRecord, Sound, OperationControlRecord, OperationStatus,
              IsTerminalOperationStatus
  <1>1. ReleaseLease(r.lease) \in Lease /\ ReleaseLease(r.lease).state # "active"
    BY ReleasedLease
  <1>2. ASSUME NEW after \in OperationBlockedAfter, NEW effect \in OperationSideEffectState
        PROVE  HandBlocked(r, obs, after, effect) \in SoundRecord
    BY <1>1 DEF HandBlocked, BlockedState, NotBlocked, OperationBlockedAfter
  <1>3. obs.effect \in OperationSideEffectState => HandReconcile(r, obs) \in SoundRecord
    BY <1>1 DEF HandReconcile, OperationSideEffectState
  <1>4. HandFailed(r, obs) \in SoundRecord
    <2> DEFINE seen == IF obs = NoObservation THEN r.observation ELSE obs
    <2>1. seen \in Observation
      OBVIOUS
    <2>2. HandFailed(r, obs) =
            [r EXCEPT !.status = "failed", !.result = "failed",
                      !.observation = seen, !.lease = ReleaseLease(r.lease)]
      BY DEF HandFailed
    <2> HIDE DEF seen
    <2> QED BY <1>1, <2>1, <2>2
  <1>5. HandSucceeded(r, obs) \in SoundRecord
    BY <1>1 DEF HandSucceeded
  <1> QED BY <1>2, <1>3, <1>4, <1>5

-------------------------------------------------------------------------------
(***************************************************************************)
(* Frames: what a call may become.                                         *)
(***************************************************************************)
LEMMA IdleSound ==
  /\ Idle \in SoundCall
  /\ \A cs : FrameOK(Idle, cs)
  <1>1. NoView \in [Ops -> SoundRecord]
    BY NoControlSound DEF NoView
  <1>2. Idle \in SoundCall
    BY <1>1, NoControlSound
    DEF Idle, SoundCall, PC, EntryPoints, Observation, NoObservation
  <1>3. \A cs : FrameOK(Idle, cs)
    BY DEF Idle, FrameOK, Handling, Holding
  <1> QED BY <1>2, <1>3

LEMMA IntentOp == \A i \in Intents : i.op \in Ops
  BY DEF Ops

LEMMA ReleasedType ==
  ASSUME locks \in [Ops -> Seq(Callers)], NEW c, NEW o \in Ops
  PROVE  Released(c, o) \in [Ops -> Seq(Callers)]
  <1>1. CASE Holds(c, o)
    <2>1. Tail(locks[o]) \in Seq(Callers)
      BY <1>1, HeadTailProperties DEF Holds
    <2> QED BY <1>1, <2>1 DEF Released
  <1>2. CASE ~Holds(c, o)
    BY <1>2 DEF Released
  <1> QED BY <1>1, <1>2

\* What the invariant says of one call.
LEMMA CallFacts ==
  ASSUME IInv, NEW c \in Callers
  PROVE  /\ call[c] \in SoundCall
         /\ FrameOK(call[c], cells)
         /\ call[c].intent \in Intents =>
              /\ call[c].intent.op \in Ops
              /\ cells[call[c].intent.op] \in Seq(SoundRecord)
              /\ cells[call[c].intent.op] # <<>> =>
                   /\ Current(call[c].intent.op) \in SoundRecord
                   /\ Len(cells[call[c].intent.op]) \in Nat \ {0}
              /\ call[c].ref # 0 =>
                   cells[call[c].intent.op][call[c].ref] \in SoundRecord
  <1>1. call[c] \in SoundCall /\ FrameOK(call[c], cells)
    BY DEF IInv
  <1>2. ASSUME call[c].intent \in Intents
        PROVE  /\ call[c].intent.op \in Ops
               /\ cells[call[c].intent.op] \in Seq(SoundRecord)
    BY <1>2, IntentOp DEF IInv
  <1>3. ASSUME NEW s \in Seq(SoundRecord), s # <<>>
        PROVE  s[Len(s)] \in SoundRecord /\ Len(s) \in Nat \ {0}
    BY <1>3
  <1>4. call[c].ref \in Nat
    BY <1>1 DEF SoundCall
  <1>5. call[c].ref # 0 => call[c].ref <= Len(cells[call[c].intent.op])
    BY <1>1 DEF FrameOK
  <1>6. ASSUME call[c].intent \in Intents, call[c].ref # 0
        PROVE  cells[call[c].intent.op][call[c].ref] \in SoundRecord
    BY <1>2, <1>4, <1>5, <1>6
  <1> QED BY <1>1, <1>2, <1>3, <1>6 DEF Current

\* A call moves on to another frame over the same record objects.
LEMMA FrameStep ==
  ASSUME IInv, NEW c \in Callers, NEW f \in SoundCall, FrameOK(f, cells),
         call' = [call EXCEPT ![c] = f], cells' = cells,
         durable' \in [Ops -> SoundRecord], locks' \in [Ops -> Seq(Callers)],
         notifyFailed' \in [Ops -> BOOLEAN], effects' \in [Ops -> Nat],
         hydrated' \in BOOLEAN, overtaken' \subseteq Ops
  PROVE  IInv'
  <1>1. call' \in [Callers -> SoundCall]
    BY DEF IInv
  <1>2. \A d \in Callers : call'[d] = IF d = c THEN f ELSE call[d]
    BY DEF IInv
  <1>3. \A d \in Callers : FrameOK(call'[d], cells')
    BY <1>2 DEF IInv
  <1>4. cells' \in [Ops -> Seq(SoundRecord)]
    BY DEF IInv
  <1> QED BY <1>1, <1>3, <1>4 DEF IInv

\* The handler throws.
LEMMA AbortStep ==
  ASSUME IInv, NEW c \in Callers, Abort(c), cells' = cells,
         durable' \in [Ops -> SoundRecord], notifyFailed' \in [Ops -> BOOLEAN],
         UNCHANGED <<effects, hydrated, overtaken>>
  PROVE  IInv'
  <1>1. locks' \in [Ops -> Seq(Callers)]
    <2>1. CASE call[c].intent = NoIntent
      BY <2>1 DEF Abort, IInv
    <2>2. CASE call[c].intent # NoIntent
      <3>1. call[c].intent.op \in Ops
        BY <2>2, CallFacts DEF SoundCall
      <3> QED BY <2>2, <3>1, ReleasedType DEF Abort, IInv
    <2> QED BY <2>1, <2>2
  <1>2. call' = [call EXCEPT ![c] = Idle]
    BY DEF Abort
  <1>3. effects' \in [Ops -> Nat] /\ hydrated' \in BOOLEAN /\ overtaken' \subseteq Ops
    BY DEF IInv
  <1> QED BY <1>1, <1>2, <1>3, IdleSound, FrameStep

\* A frame whose handler holds a record object of its operation.
GoodFrame(f) ==
    /\ f \in SoundCall
    /\ f.intent \in Intents
    /\ f.ref \in 1 .. Len(cells[f.intent.op])

Op(c) == call[c].intent.op

\* The record object a frame holds.
Held(f) == cells[f.intent.op][f.ref]

\* Two frames of the same call, as far as a handler never changes it.
Same(f, g) ==
    /\ f.kind = g.kind /\ f.intent = g.intent /\ f.view = g.view
    /\ f.touched = g.touched /\ f.halted = g.halted

(***************************************************************************)
(* What the handlers ask commitSuccessor for: over the record its frame fr *)
(* holds, a call asks for the successor succ, to go on at the await after. *)
(***************************************************************************)
AsksUnderLock(c, fr, succ, allow, after) ==
    /\ call[c].pc = "lock" /\ Holds(c, Op(c))
    /\ CanTransitionOperationStatus(Held(fr).status, succ.status)
    /\ \/ /\ call[c].kind = "execute" /\ Held(fr).status = "accepted"
          /\ succ = Queued(Held(fr)) /\ after = "queued" /\ allow = FALSE
       \/ /\ call[c].kind = "resume" /\ Held(fr).status = "blocked"
          /\ \E input \in ResumeInputs : Recovery(Held(fr), input) = "queued"
          /\ succ = ResumeQueued(Held(fr)) /\ after = "lease" /\ allow = FALSE
       \/ /\ call[c].kind = "resume" /\ Held(fr).status = "blocked"
          /\ Held(fr).observation # NoObservation /\ fr.obs = Held(fr).observation
          /\ succ = ResumeVerifying(Held(fr)) /\ after = "verify" /\ allow = FALSE
       \/ /\ call[c].kind = "requestCancel"
          /\ succ = CancelRequested(Held(fr)) /\ after = "unlock" /\ allow = FALSE
       \/ /\ call[c].kind = "resolve" /\ Held(fr).status = "reconcile_required"
          /\ \/ succ = ReconcileRecovered(Held(fr))
             \/ succ = ReconcileCancelled(Held(fr))
             \/ succ = ReconcileFailed(Held(fr))
          /\ after = "unlock" /\ allow = Held(fr).invalidated

AsksInLease(c, fr, succ, allow, after) ==
    /\ fr.ref = call[c].ref /\ allow = FALSE
    /\ CanTransitionOperationStatus(Held(fr).status, succ.status)
    /\ \/ /\ call[c].pc = "lease" /\ fr.epoch = LeaseEpoch(Held(fr))
          /\ succ = Leased(Held(fr)) /\ after = "leased"
       \/ /\ call[c].pc = "lease"
          /\ succ = PermissionDenied(Held(fr)) /\ after = "denied"
       \/ /\ call[c].pc = "leased" /\ fr.epoch = call[c].epoch
          /\ succ = Running(Held(fr)) /\ after = "prepared"

AsksInHand(c, fr, succ, allow, after) ==
    /\ allow = FALSE
    /\ \/ /\ call[c].pc = "execute"
          /\ succ = HandFailed(Held(fr), NoObservation) /\ after = "relock"
       \/ /\ call[c].pc = "execute" /\ fr.obs.effect \in ReportedEffects(c)
          /\ succ = HandVerifying(Held(fr)) /\ after = "verify"
       \/ /\ call[c].pc = "execute" /\ after = "relock"
          /\ \E obs \in Observation :
               /\ obs.effect \in ReportedEffects(c)
               /\ \/ succ = HandBlocked(Held(fr), obs, "execution", obs.effect)
                  \/ succ = HandBlocked(Held(fr), obs, "execution", "possible")
                  \/ succ = HandReconcile(Held(fr), obs)
                  \/ succ = HandFailed(Held(fr), obs)
       \/ /\ call[c].pc = "verify" /\ after = AfterVerify(c)
          /\ \/ succ = HandSucceeded(Held(fr), call[c].obs)
             \/ succ = HandFailed(Held(fr), call[c].obs)
             \/ succ = HandBlocked(Held(fr), call[c].obs, "verification", "possible")

AsksAfterStop(c, fr, succ, allow, after) ==
    /\ call[c].pc = "stop" /\ after = "unlock" /\ allow = TRUE
    /\ Held(fr).status = "cancel_requested"
    /\ \E s \in StopReceipts(Op(c)) :
         succ = CancelSettled(Held(fr), PlanOperationCancellation(s.stopped, s.effect),
                              s.effect)

Asks(c, fr, succ, allow, after) ==
    /\ GoodFrame(fr) /\ Same(fr, call[c])
    /\ \/ AsksUnderLock(c, fr, succ, allow, after)
       \/ AsksInLease(c, fr, succ, allow, after)
       \/ AsksInHand(c, fr, succ, allow, after)
       \/ AsksAfterStop(c, fr, succ, allow, after)

Afters == {"queued", "lease", "leased", "prepared", "denied", "verify", "relock", "unlock"}

\* The call asks, and commitSuccessor drops the successor or goes to commit it.
Asked(c) ==
    /\ \E fr \in SoundCall, succ \in SoundRecord, allow \in BOOLEAN, after \in Afters :
         /\ Asks(c, fr, succ, allow, after)
         /\ CommitSuccessor(c, fr, Held(fr), succ, allow, after)
    /\ UNCHANGED <<durable, cells, locks, notifyFailed, effects, hydrated, overtaken>>

\* The call ends, and gives up the lock if it holds it.
Quits(c) ==
    /\ call' = [call EXCEPT ![c] = Idle]
    /\ \/ locks' = locks
       \/ call[c].intent \in Intents /\ locks' = Released(c, Op(c))
    /\ notifyFailed' \in [Ops -> BOOLEAN]
    /\ UNCHANGED <<durable, cells, effects, hydrated, overtaken>>

\* The other moves of a handler from one await to the next.
Moves(c) ==
    /\ \E f \in SoundCall :
         /\ FrameOK(f, cells) /\ Same(f, call[c]) /\ f.succ = call[c].succ
         /\ call' = [call EXCEPT ![c] = f]
         /\ \/ /\ call[c].pc = "lock" /\ Holds(c, Op(c))
               /\ call[c].kind = "execute" /\ f.pc = "queued"
            \/ /\ call[c].pc = "queued" /\ f.pc = "lease" /\ f.ref = call[c].ref
               /\ Held(call[c]).status = "queued"
            \/ /\ call[c].pc = "lock" /\ Holds(c, Op(c))
               /\ call[c].kind = "settle" /\ f.pc = "stop"
               /\ Current(Op(c)).status = "cancel_requested"
    /\ UNCHANGED <<durable, cells, locks, notifyFailed, effects, hydrated, overtaken>>

LEMMA AbortQuits ==
  ASSUME IInv, NEW c \in Callers, Abort(c), notifyFailed' \in [Ops -> BOOLEAN],
         UNCHANGED <<durable, cells, effects, hydrated, overtaken>>
  PROVE  Quits(c)
  <1>1. call[c].intent \in Intents \cup {NoIntent}
    BY CallFacts DEF SoundCall
  <1> QED BY <1>1 DEF Abort, Quits, Op

LEMMA FrameHolds ==
  ASSUME IInv, NEW fr, GoodFrame(fr)
  PROVE  /\ fr.intent.op \in Ops
         /\ cells[fr.intent.op] \in Seq(SoundRecord)
         /\ cells[fr.intent.op] # <<>>
         /\ Held(fr) \in SoundRecord
  <1>1. fr.intent.op \in Ops /\ cells[fr.intent.op] \in Seq(SoundRecord)
    BY IntentOp DEF IInv, GoodFrame
  <1> QED BY <1>1 DEF GoodFrame, Held

\* transition(): the handler throws, or goes on to commitSuccessor.
LEMMA TransitionAsks ==
  ASSUME IInv, NEW c \in Callers, NEW fr, GoodFrame(fr),
         NEW succ \in SoundRecord, NEW allow \in BOOLEAN, NEW after \in Afters,
         CanTransitionOperationStatus(Held(fr).status, succ.status)
           => Asks(c, fr, succ, allow, after),
         Transition(c, fr, succ, allow, after),
         UNCHANGED <<durable, cells, notifyFailed, effects, hydrated, overtaken>>
  PROVE  Quits(c) \/ Asked(c)
  <1>1. CASE CanTransitionOperationStatus(Held(fr).status, succ.status)
    <2>1. /\ CommitSuccessor(c, fr, Held(fr), succ, allow, after)
          /\ UNCHANGED locks
      BY <1>1 DEF Transition, Held
    <2> QED BY <1>1, <2>1 DEF Asked, GoodFrame
  <1>2. CASE ~CanTransitionOperationStatus(Held(fr).status, succ.status)
    <2>1. Abort(c)
      BY <1>2 DEF Transition, Held
    <2> QED BY <2>1, AbortQuits DEF IInv
  <1> QED BY <1>1, <1>2

\* emit(): likewise, over the record now in the map.
LEMMA EmitAsks ==
  ASSUME IInv, NEW c \in Callers, NEW frame \in SoundCall,
         frame.intent = call[c].intent, Same(frame, call[c]),
         call[c].intent \in Intents, cells[call[c].intent.op] # <<>>,
         NEW succ \in SoundRecord, NEW after \in Afters,
         \A fr : /\ fr.obs = frame.obs
                 /\ Held(fr) = Current(Op(c))
                 => AsksInHand(c, fr, succ, FALSE, after),
         Emit(c, frame, succ, after),
         UNCHANGED <<durable, cells, notifyFailed, effects, hydrated, overtaken>>
  PROVE  Quits(c) \/ Asked(c)
  <1> DEFINE o  == Op(c)
             fr == [frame EXCEPT !.ref = Len(cells[o])]
  <1>1. o \in Ops /\ cells[o] \in Seq(SoundRecord) /\ Len(cells[o]) \in Nat \ {0}
    <2>1. o \in Ops /\ cells[o] \in Seq(SoundRecord)
      BY IntentOp DEF IInv, Op
    <2> QED BY <2>1 DEF Op
  <1>2. /\ fr \in SoundCall /\ fr.intent = call[c].intent /\ fr.ref = Len(cells[o])
        /\ fr.obs = frame.obs /\ Same(fr, call[c])
    BY <1>1 DEF SoundCall, Same
  <1>3. GoodFrame(fr)
    BY <1>1, <1>2 DEF GoodFrame, Op
  <1>4. Held(fr) = Current(o)
    BY <1>2 DEF Held, Current, Op
  <1>5. \/ /\ CommitSuccessor(c, fr, Held(fr), succ, FALSE, after)
           /\ UNCHANGED locks
        \/ Abort(c)
    BY <1>4 DEF Emit, Op
  <1> HIDE DEF fr
  <1>6. Asks(c, fr, succ, FALSE, after)
    BY <1>2, <1>3, <1>4 DEF Asks
  <1>7. CASE CommitSuccessor(c, fr, Held(fr), succ, FALSE, after) /\ UNCHANGED locks
    BY <1>2, <1>6, <1>7 DEF Asked
  <1>8. CASE Abort(c)
    BY <1>8, AbortQuits DEF IInv
  <1> QED BY <1>5, <1>7, <1>8

\* The frame commitSuccessor leaves the call in.
LEMMA AskedFrame ==
  ASSUME IInv, NEW c \in Callers, NEW fr \in SoundCall, NEW succ \in SoundRecord,
         NEW allow \in BOOLEAN, NEW after \in Afters,
         Asks(c, fr, succ, allow, after),
         CommitSuccessor(c, fr, Held(fr), succ, allow, after)
  PROVE  \E f \in SoundCall :
           /\ FrameOK(f, cells) /\ Same(f, call[c])
           /\ call' = [call EXCEPT ![c] = f]
           /\ f.epoch = fr.epoch /\ f.obs = fr.obs
           /\ \/ /\ Fenced(Held(fr), succ.status, allow)
                 /\ f.pc = after /\ f.succ = NoControl /\ f.after = "idle"
                 /\ f.ref = IF after \in {"queued", "lease", "leased", "prepared"}
                            THEN fr.ref ELSE 0
              \/ /\ ~Fenced(Held(fr), succ.status, allow)
                 /\ f.pc = "commit" /\ f.succ = succ /\ f.after = after
                 /\ f.ref = fr.ref
  <1>0. /\ fr.intent.op \in Ops
        /\ cells[fr.intent.op] \in Seq(SoundRecord)
        /\ Len(cells[fr.intent.op]) \in Nat
        /\ cells[fr.intent.op] # <<>>
        /\ fr.intent \in Intents /\ fr.ref \in 1 .. Len(cells[fr.intent.op])
        /\ Same(fr, call[c])
    BY FrameHolds DEF Asks, GoodFrame
  <1>1. CASE Fenced(Held(fr), succ.status, allow)
    <2> DEFINE ref == IF after \in {"queued", "lease", "leased", "prepared"}
                      THEN fr.ref ELSE 0
               f   == [fr EXCEPT !.pc = after, !.succ = NoControl, !.after = "idle",
                                 !.ref = ref]
    <2>1. ref \in Nat /\ ref <= Len(cells[fr.intent.op])
      BY <1>0
    <2>2. call' = [call EXCEPT ![c] = f]
      BY <1>1 DEF CommitSuccessor, Continue
    <2>3. f \in SoundCall
      BY <2>1, NoControlSound DEF SoundCall, PC, Afters
    <2>4. /\ f.pc = after /\ f.succ = NoControl /\ f.after = "idle" /\ f.ref = ref
          /\ f.intent = fr.intent /\ f.epoch = fr.epoch /\ f.obs = fr.obs
          /\ f.kind = fr.kind /\ f.view = fr.view
          /\ f.touched = fr.touched /\ f.halted = fr.halted
      BY DEF SoundCall
    <2> HIDE DEF f
    <2>5. FrameOK(f, cells)
      BY <1>0, <2>1, <2>4 DEF FrameOK, Handling, Holding, Afters
    <2> QED BY <1>0, <1>1, <2>2, <2>3, <2>4, <2>5 DEF Same
  <1>2. CASE ~Fenced(Held(fr), succ.status, allow)
    <2> DEFINE f == [fr EXCEPT !.pc = "commit", !.succ = succ, !.after = after]
    <2>1. call' = [call EXCEPT ![c] = f]
      BY <1>2 DEF CommitSuccessor
    <2>2. f \in SoundCall
      BY DEF SoundCall, PC, Afters
    <2>3. /\ f.pc = "commit" /\ f.succ = succ /\ f.after = after /\ f.ref = fr.ref
          /\ f.intent = fr.intent /\ f.epoch = fr.epoch /\ f.obs = fr.obs
          /\ f.kind = fr.kind /\ f.view = fr.view
          /\ f.touched = fr.touched /\ f.halted = fr.halted
      BY DEF SoundCall
    <2> HIDE DEF f
    <2>4. FrameOK(f, cells)
      BY <1>0, <2>3 DEF FrameOK, Handling, Holding, Afters
    <2> QED BY <1>0, <1>2, <2>1, <2>2, <2>3, <2>4 DEF Same
  <1> QED BY <1>1, <1>2

-------------------------------------------------------------------------------
(***************************************************************************)
(* Every step of a handler quits, moves, asks, or is one of the few        *)
(* actions that change a record, a lock or an effect.                      *)
(***************************************************************************)
\* A handler that has just got the lock of a known operation.
LEMMA AcquiredFrame ==
  ASSUME IInv, NEW c \in Callers, call[c].pc = "lock", Known(call[c].intent.op)
  PROVE  /\ GoodFrame(Frame(c)) /\ Same(Frame(c), call[c])
         /\ Frame(c).obs = call[c].obs /\ Frame(c).epoch = call[c].epoch
         /\ Frame(c).succ = call[c].succ
         /\ Frame(c).intent = call[c].intent
         /\ call[c] \in SoundCall
         /\ Current(Op(c)) \in SoundRecord
         /\ Held(Frame(c)) = Current(Op(c))
  <1> DEFINE n == Len(cells[call[c].intent.op])
  <1>1. call[c] \in SoundCall /\ call[c].intent \in Intents
    BY CallFacts DEF FrameOK
  <1>2. Current(Op(c)) \in SoundRecord /\ n \in Nat \ {0}
    BY <1>1, CallFacts DEF Known, Op
  <1>3. /\ Frame(c) \in SoundCall /\ Frame(c).intent = call[c].intent
        /\ Frame(c).ref = n /\ Same(Frame(c), call[c])
        /\ Frame(c).obs = call[c].obs /\ Frame(c).epoch = call[c].epoch
        /\ Frame(c).succ = call[c].succ
    BY <1>1, <1>2 DEF Frame, SoundCall, Same
  <1> QED BY <1>1, <1>2, <1>3 DEF GoodFrame, Current, Held, Op

\* A handler that goes on with the record object it holds.
LEMMA HeldFrame ==
  ASSUME IInv, NEW c \in Callers, call[c].pc \in Holding
  PROVE  /\ GoodFrame(call[c])
         /\ Held(call[c]) \in SoundRecord
         /\ Same(call[c], call[c])
  <1>1. /\ call[c] \in SoundCall /\ FrameOK(call[c], cells)
        /\ call[c].intent \in Intents /\ call[c].ref # 0
    BY CallFacts DEF FrameOK, Holding
  <1>2. cells[call[c].intent.op] \in Seq(SoundRecord)
    BY <1>1, CallFacts
  <1> QED BY <1>1, <1>2, CallFacts DEF GoodFrame, FrameOK, SoundCall, Held, Same

LEMMA ExecuteCases ==
  ASSUME IInv, NEW c \in Callers
  PROVE  /\ ExecuteLocked(c) => Quits(c) \/ Moves(c) \/ Asked(c)
         /\ ExecuteQueued(c) => Quits(c) \/ Moves(c)
         /\ LeaseGranted(c) => Quits(c) \/ Asked(c)
         /\ LeaseDenied(c) => Quits(c) \/ Asked(c)
         /\ LeaseStarts(c) => Quits(c) \/ Asked(c)
  <1> DEFINE o == Op(c)
  <1>1. ASSUME ExecuteLocked(c) PROVE Quits(c) \/ Moves(c) \/ Asked(c)
    <2>0. /\ GoodFrame(Frame(c)) /\ Same(Frame(c), call[c]) /\ call[c] \in SoundCall
          /\ Frame(c).succ = call[c].succ
          /\ Current(o) \in SoundRecord /\ Held(Frame(c)) = Current(o)
          /\ call[c].pc = "lock" /\ call[c].kind = "execute" /\ Holds(c, o)
      BY <1>1, AcquiredFrame DEF ExecuteLocked, Acquired, Op
    <2>1. CASE Current(o).status = "accepted"
      <3>1. Transition(c, Frame(c), Queued(Current(o)), FALSE, "queued")
        BY <1>1, <2>1 DEF ExecuteLocked, Op
      <3>2. Queued(Current(o)) \in SoundRecord
        BY <2>0, MovesSound
      <3>3. CanTransitionOperationStatus(Held(Frame(c)).status, Queued(Current(o)).status)
              => Asks(c, Frame(c), Queued(Current(o)), FALSE, "queued")
        BY <2>0, <2>1 DEF Asks, AsksUnderLock
      <3>4. UNCHANGED <<durable, cells, notifyFailed, effects, hydrated, overtaken>>
        BY <1>1 DEF ExecuteLocked
      <3> QED BY <2>0, <3>1, <3>2, <3>3, <3>4, TransitionAsks DEF Afters
    <2>2. CASE Current(o).status # "accepted"
      <3> DEFINE f == [Frame(c) EXCEPT !.pc = "queued"]
      <3>1. /\ f \in SoundCall /\ Same(f, call[c]) /\ f.succ = call[c].succ
            /\ f.pc = "queued"
        BY <2>0 DEF GoodFrame, SoundCall, PC, Same
      <3>2. FrameOK(f, cells)
        <4>1. cells[Frame(c).intent.op] \in Seq(SoundRecord)
          BY <2>0, IntentOp DEF GoodFrame, IInv
        <4> QED BY <2>0, <4>1 DEF GoodFrame, SoundCall, FrameOK, Handling, Holding
      <3>3. call' = [call EXCEPT ![c] = f] /\ UNCHANGED locks
        BY <1>1, <2>2 DEF ExecuteLocked, Op
      <3> HIDE DEF f
      <3> QED BY <1>1, <2>0, <3>1, <3>2, <3>3 DEF ExecuteLocked, Moves
    <2> QED BY <2>1, <2>2
  <1>2. ASSUME ExecuteQueued(c) PROVE Quits(c) \/ Moves(c)
    <2>1. CASE Held(call[c]).status = "queued"
      <3> DEFINE f == [call[c] EXCEPT !.pc = "lease"]
      <3>1. call[c] \in SoundCall /\ FrameOK(call[c], cells)
        BY CallFacts
      <3>2. /\ f \in SoundCall /\ Same(f, call[c]) /\ f.succ = call[c].succ
            /\ f.pc = "lease" /\ f.ref = call[c].ref
        BY <3>1 DEF SoundCall, PC, Same
      <3>3. FrameOK(f, cells)
        BY <1>2, <3>1 DEF ExecuteQueued, SoundCall, FrameOK, Handling, Holding
      <3>4. call' = [call EXCEPT ![c] = f] /\ UNCHANGED locks
        BY <1>2, <2>1 DEF ExecuteQueued, Held
      <3> HIDE DEF f
      <3> QED BY <1>2, <2>1, <3>2, <3>3, <3>4 DEF ExecuteQueued, Moves
    <2>2. CASE Held(call[c]).status # "queued"
      BY <1>2, <2>2, AbortQuits DEF ExecuteQueued, IInv, Held
    <2> QED BY <2>1, <2>2
  <1>3. ASSUME LeaseGranted(c) PROVE Quits(c) \/ Asked(c)
    <2> DEFINE r == Held(call[c])
               f == [call[c] EXCEPT !.epoch = LeaseEpoch(r)]
    <2>1. GoodFrame(call[c]) /\ r \in SoundRecord
      BY <1>3, HeldFrame DEF LeaseGranted, Holding
    <2>2. LeaseEpoch(r) \in Nat
      BY <2>1 DEF LeaseEpoch, SoundRecord, OperationControlRecord, Lease
    <2>3. /\ GoodFrame(f) /\ Same(f, call[c]) /\ Held(f) = r
          /\ f.ref = call[c].ref /\ f.epoch = LeaseEpoch(r)
      BY <2>1, <2>2 DEF GoodFrame, SoundCall, Same, Held
    <2>4. Leased(r) \in SoundRecord
      BY <2>1, MovesSound
    <2>5. /\ Transition(c, f, Leased(r), FALSE, "leased") /\ call[c].pc = "lease"
          /\ UNCHANGED <<durable, cells, notifyFailed, effects, hydrated, overtaken>>
      BY <1>3 DEF LeaseGranted, Held
    <2> HIDE DEF f, r
    <2>6. CanTransitionOperationStatus(Held(f).status, Leased(r).status)
            => Asks(c, f, Leased(r), FALSE, "leased")
      BY <2>3, <2>5 DEF Asks, AsksInLease
    <2> QED BY <2>3, <2>4, <2>5, <2>6, TransitionAsks DEF Afters
  <1>4. ASSUME LeaseDenied(c) PROVE Quits(c) \/ Asked(c)
    <2> DEFINE r == Held(call[c])
    <2>1. GoodFrame(call[c]) /\ r \in SoundRecord /\ Same(call[c], call[c])
      BY <1>4, HeldFrame DEF LeaseDenied, Holding
    <2>2. PermissionDenied(r) \in SoundRecord
      BY <2>1, MovesSound
    <2>3. /\ Transition(c, call[c], PermissionDenied(r), FALSE, "denied")
          /\ call[c].pc = "lease"
          /\ UNCHANGED <<durable, cells, notifyFailed, effects, hydrated, overtaken>>
      BY <1>4 DEF LeaseDenied, Held
    <2>4. CanTransitionOperationStatus(r.status, PermissionDenied(r).status)
            => Asks(c, call[c], PermissionDenied(r), FALSE, "denied")
      BY <2>1, <2>3 DEF Asks, AsksInLease
    <2> QED BY <2>1, <2>2, <2>3, <2>4, TransitionAsks DEF Afters
  <1>5. ASSUME LeaseStarts(c) PROVE Quits(c) \/ Asked(c)
    <2> DEFINE r == Held(call[c])
    <2>1. GoodFrame(call[c]) /\ r \in SoundRecord /\ Same(call[c], call[c])
      BY <1>5, HeldFrame DEF LeaseStarts, Holding
    <2>2. Running(r) \in SoundRecord
      BY <2>1, MovesSound
    <2>3. /\ Transition(c, call[c], Running(r), FALSE, "prepared")
          /\ call[c].pc = "leased"
          /\ UNCHANGED <<durable, cells, notifyFailed, effects, hydrated, overtaken>>
      BY <1>5 DEF LeaseStarts, Held
    <2>4. CanTransitionOperationStatus(r.status, Running(r).status)
            => Asks(c, call[c], Running(r), FALSE, "prepared")
      BY <2>1, <2>3 DEF Asks, AsksInLease
    <2> QED BY <2>1, <2>2, <2>3, <2>4, TransitionAsks DEF Afters
  <1> QED BY <1>1, <1>2, <1>3, <1>4, <1>5

\* What an operation in the Hand looks like.
LEMMA HandFacts ==
  ASSUME IInv, NEW c \in Callers, call[c].pc \in {"execute", "verify"}
  PROVE  /\ call[c] \in SoundCall
         /\ call[c].intent \in Intents
         /\ cells[call[c].intent.op] # <<>>
         /\ Current(call[c].intent.op) \in SoundRecord
         /\ call[c].obs \in Observation /\ call[c].epoch \in Nat
  <1>1. /\ call[c] \in SoundCall /\ call[c].intent \in Intents
        /\ cells[call[c].intent.op] # <<>>
    BY CallFacts DEF FrameOK, Handling
  <1> QED BY <1>1, CallFacts DEF SoundCall

LEMMA HandCases ==
  ASSUME IInv, NEW c \in Callers
  PROVE  /\ ExecutorThrows(c) => Quits(c) \/ Asked(c)
         /\ ExecutorReturns(c) => Quits(c) \/ Asked(c)
         /\ VerifierAnswers(c) => Quits(c) \/ Asked(c)
  <1> DEFINE o == Op(c)
             r == Current(o)
  <1>1. ASSUME ExecutorThrows(c) PROVE Quits(c) \/ Asked(c)
    <2>1. /\ call[c] \in SoundCall /\ call[c].intent \in Intents
          /\ cells[call[c].intent.op] # <<>> /\ r \in SoundRecord
      BY <1>1, HandFacts DEF ExecutorThrows, Op
    <2>2. NoObservation \in Observation
      BY DEF NoObservation, Observation
    <2>3. HandFailed(r, NoObservation) \in SoundRecord
      BY <2>1, <2>2, HandSuccessorsSound
    <2>4. \A fr : Held(fr) = r
                  => AsksInHand(c, fr, HandFailed(r, NoObservation), FALSE, "relock")
      BY <1>1 DEF ExecutorThrows, AsksInHand
    <2>5. /\ Emit(c, call[c], HandFailed(r, NoObservation), "relock")
          /\ UNCHANGED <<durable, cells, notifyFailed, effects, hydrated, overtaken>>
      BY <1>1 DEF ExecutorThrows, Op
    <2> QED BY <2>1, <2>3, <2>4, <2>5, EmitAsks DEF Afters, Same
  <1>2. ASSUME ExecutorReturns(c) PROVE Quits(c) \/ Asked(c)
    <2>1. /\ call[c] \in SoundCall /\ call[c].intent \in Intents
          /\ cells[call[c].intent.op] # <<>> /\ call[c].pc = "execute"
          /\ r \in SoundRecord /\ call[c].epoch \in Nat
      BY <1>2, HandFacts DEF ExecutorReturns, Op
    <2>2. PICK effect \in ReportedEffects(c) :
            LET obs   == [epoch |-> call[c].epoch, effect |-> effect]
                stale == [obs EXCEPT !.epoch = @ + 1]
                frame == [call[c] EXCEPT !.obs = obs]
            IN  \/ Emit(c, frame, HandVerifying(r), "verify")
                \/ Emit(c, frame, HandBlocked(r, obs, "execution", effect), "relock")
                \/ Emit(c, frame, HandReconcile(r, obs), "relock")
                \/ Emit(c, frame, HandFailed(r, obs), "relock")
                \/ Emit(c, frame, HandBlocked(r, stale, "execution", "possible"), "relock")
      BY <1>2 DEF ExecutorReturns, Op
    <2> DEFINE obs   == [epoch |-> call[c].epoch, effect |-> effect]
               stale == [obs EXCEPT !.epoch = @ + 1]
               frame == [call[c] EXCEPT !.obs = obs]
    <2>3. effect \in OperationSideEffectState /\ "possible" \in OperationSideEffectState
      BY DEF ReportedEffects, OperationSideEffectState
    <2>4. /\ obs \in Observation /\ obs.effect = effect
          /\ stale \in Observation /\ stale.effect = effect
      BY <2>1, <2>3 DEF Observation
    <2>5. /\ frame \in SoundCall /\ frame.intent = call[c].intent
          /\ Same(frame, call[c]) /\ frame.obs = obs
      BY <2>1, <2>4 DEF SoundCall, Same
    <2>6. UNCHANGED <<durable, cells, notifyFailed, effects, hydrated, overtaken>>
      BY <1>2 DEF ExecutorReturns
    <2>7. PICK succ, after :
            /\ Emit(c, frame, succ, after)
            /\ \/ succ = HandVerifying(r) /\ after = "verify"
               \/ /\ after = "relock"
                  /\ \/ succ = HandBlocked(r, obs, "execution", obs.effect)
                     \/ succ = HandReconcile(r, obs)
                     \/ succ = HandFailed(r, obs)
                     \/ succ = HandBlocked(r, stale, "execution", "possible")
      BY <2>2, <2>4
    <2> HIDE DEF obs, stale, frame
    <2>8. succ \in SoundRecord /\ after \in Afters
      BY <2>1, <2>3, <2>4, <2>7, MovesSound, HandSuccessorsSound
      DEF OperationBlockedAfter, Afters
    <2>9. ASSUME NEW fr, fr.obs = frame.obs, Held(fr) = r
          PROVE  AsksInHand(c, fr, succ, FALSE, after)
      <3>1. CASE succ = HandVerifying(r) /\ after = "verify"
        BY <2>1, <2>4, <2>5, <2>9, <3>1 DEF AsksInHand
      <3>2. CASE after = "relock" /\ ~(succ = HandVerifying(r) /\ after = "verify")
        BY <2>1, <2>4, <2>7, <2>9, <3>2 DEF AsksInHand
      <3> QED BY <2>7, <3>1, <3>2
    <2> QED BY <2>1, <2>5, <2>6, <2>7, <2>8, <2>9, EmitAsks
  <1>3. ASSUME VerifierAnswers(c) PROVE Quits(c) \/ Asked(c)
    <2> DEFINE obs == call[c].obs
    <2>1. /\ call[c] \in SoundCall /\ call[c].intent \in Intents
          /\ cells[call[c].intent.op] # <<>> /\ call[c].pc = "verify"
          /\ r \in SoundRecord /\ obs \in Observation
      BY <1>3, HandFacts DEF VerifierAnswers, Op
    <2>2. /\ HandSucceeded(r, obs) \in SoundRecord
          /\ HandFailed(r, obs) \in SoundRecord
          /\ HandBlocked(r, obs, "verification", "possible") \in SoundRecord
      BY <2>1, HandSuccessorsSound DEF OperationBlockedAfter, OperationSideEffectState
    <2>3. AfterVerify(c) \in Afters
      BY DEF AfterVerify, Afters
    <2>4. PICK succ \in SoundRecord :
            /\ Emit(c, call[c], succ, AfterVerify(c))
            /\ \/ succ = HandSucceeded(r, obs)
               \/ succ = HandFailed(r, obs)
               \/ succ = HandBlocked(r, obs, "verification", "possible")
      BY <1>3, <2>2 DEF VerifierAnswers, Op
    <2>5. \A fr : Held(fr) = r => AsksInHand(c, fr, succ, FALSE, AfterVerify(c))
      BY <2>1, <2>4 DEF AsksInHand
    <2>6. UNCHANGED <<durable, cells, notifyFailed, effects, hydrated, overtaken>>
      BY <1>3 DEF VerifierAnswers
    <2> QED BY <2>1, <2>3, <2>4, <2>5, <2>6, EmitAsks DEF Same
  <1> QED BY <1>1, <1>2, <1>3

LEMMA RecoveryCases ==
  ASSUME IInv, NEW c \in Callers
  PROVE  /\ ResumeLocked(c) => Quits(c) \/ Asked(c)
         /\ RequestCancelLocked(c) => Quits(c) \/ Asked(c)
         /\ SettleLocked(c) => Quits(c) \/ Moves(c)
         /\ StopSettled(c) => Quits(c) \/ Asked(c)
         /\ ResolveLocked(c) => Quits(c) \/ Asked(c)
  <1> DEFINE o == Op(c)
             r == Current(o)
  <1>0. ASSUME call[c].pc = "lock", Known(call[c].intent.op)
        PROVE  /\ GoodFrame(Frame(c)) /\ Same(Frame(c), call[c])
               /\ Held(Frame(c)) = r /\ r \in SoundRecord
               /\ Frame(c).succ = call[c].succ
    BY <1>0, AcquiredFrame
  <1>1. ASSUME ResumeLocked(c) PROVE Quits(c) \/ Asked(c)
    <2> DEFINE e == IF r.lease.state = "absent" THEN r.observation.epoch
                    ELSE r.lease.epoch
               v == [Frame(c) EXCEPT !.obs = r.observation, !.epoch = e]
    <2>1. /\ GoodFrame(Frame(c)) /\ Same(Frame(c), call[c])
          /\ Held(Frame(c)) = r /\ r \in SoundRecord
          /\ ResumeQueued(r) \in SoundRecord /\ ResumeVerifying(r) \in SoundRecord
          /\ call[c].pc = "lock" /\ Holds(c, o) /\ call[c].kind = "resume"
      BY <1>0, <1>1, MovesSound DEF ResumeLocked, Acquired, Op
    <2>2. r.observation \in Observation /\ e \in Nat
      BY <2>1 DEF SoundRecord, OperationControlRecord, Lease, Observation
    <2> HIDE DEF e
    <2>3. /\ GoodFrame(v) /\ Same(v, call[c]) /\ Held(v) = r /\ v.obs = r.observation
      BY <2>1, <2>2 DEF GoodFrame, SoundCall, Same, Held
    <2>4. UNCHANGED <<durable, cells, notifyFailed, effects, hydrated, overtaken>>
      BY <1>1 DEF ResumeLocked
    <2>5. \/ Abort(c)
          \/ /\ r.status = "blocked"
             /\ \E input \in ResumeInputs : Recovery(r, input) = "queued"
             /\ Transition(c, Frame(c), ResumeQueued(r), FALSE, "lease")
          \/ /\ r.status = "blocked" /\ r.observation # NoObservation
             /\ Transition(c, v, ResumeVerifying(r), FALSE, "verify")
      BY <1>1 DEF ResumeLocked, Op, e
    <2> HIDE DEF v
    <2>6. CASE Abort(c)
      BY <2>4, <2>6, AbortQuits DEF IInv
    <2>7. CASE /\ r.status = "blocked"
               /\ \E input \in ResumeInputs : Recovery(r, input) = "queued"
               /\ Transition(c, Frame(c), ResumeQueued(r), FALSE, "lease")
      <3>1. CanTransitionOperationStatus(Held(Frame(c)).status, ResumeQueued(r).status)
              => Asks(c, Frame(c), ResumeQueued(r), FALSE, "lease")
        BY <2>1, <2>7 DEF Asks, AsksUnderLock
      <3> QED BY <2>1, <2>4, <2>7, <3>1, TransitionAsks DEF Afters
    <2>8. CASE /\ r.status = "blocked" /\ r.observation # NoObservation
               /\ Transition(c, v, ResumeVerifying(r), FALSE, "verify")
      <3>1. CanTransitionOperationStatus(Held(v).status, ResumeVerifying(r).status)
              => Asks(c, v, ResumeVerifying(r), FALSE, "verify")
        BY <2>1, <2>3, <2>8 DEF Asks, AsksUnderLock
      <3> QED BY <2>1, <2>3, <2>4, <2>8, <3>1, TransitionAsks DEF Afters
    <2> QED BY <2>5, <2>6, <2>7, <2>8
  <1>2. ASSUME RequestCancelLocked(c) PROVE Quits(c) \/ Asked(c)
    <2>1. /\ GoodFrame(Frame(c)) /\ Same(Frame(c), call[c])
          /\ Held(Frame(c)) = r /\ r \in SoundRecord /\ CancelRequested(r) \in SoundRecord
          /\ call[c].pc = "lock" /\ Holds(c, o) /\ call[c].kind = "requestCancel"
      BY <1>0, <1>2, MovesSound DEF RequestCancelLocked, Acquired, Op
    <2>2. /\ Transition(c, Frame(c), CancelRequested(r), FALSE, "unlock")
          /\ UNCHANGED <<durable, cells, notifyFailed, effects, hydrated, overtaken>>
      BY <1>2 DEF RequestCancelLocked, Op
    <2>3. CanTransitionOperationStatus(Held(Frame(c)).status, CancelRequested(r).status)
            => Asks(c, Frame(c), CancelRequested(r), FALSE, "unlock")
      BY <2>1 DEF Asks, AsksUnderLock
    <2> QED BY <2>1, <2>2, <2>3, TransitionAsks DEF Afters
  <1>3. ASSUME SettleLocked(c) PROVE Quits(c) \/ Moves(c)
    <2>1. CASE r.status = "cancel_requested"
      <3> DEFINE f == [Frame(c) EXCEPT !.pc = "stop", !.epoch = r.epoch]
      <3>1. /\ GoodFrame(Frame(c)) /\ Same(Frame(c), call[c]) /\ r \in SoundRecord
            /\ Frame(c).succ = call[c].succ
            /\ call[c].pc = "lock" /\ Holds(c, o) /\ call[c].kind = "settle"
        BY <1>0, <1>3 DEF SettleLocked, Acquired, Op
      <3>2. r.epoch \in Nat
        BY <3>1 DEF SoundRecord, OperationControlRecord
      <3>3. f \in SoundCall /\ Same(f, call[c]) /\ f.succ = call[c].succ /\ f.pc = "stop"
        BY <3>1, <3>2 DEF GoodFrame, SoundCall, PC, Same
      <3>4. FrameOK(f, cells)
        <4>1. cells[Frame(c).intent.op] \in Seq(SoundRecord)
          BY <3>1, IntentOp DEF GoodFrame, IInv
        <4> QED BY <3>1, <4>1 DEF GoodFrame, SoundCall, FrameOK, Handling, Holding
      <3>5. call' = [call EXCEPT ![c] = f] /\ UNCHANGED locks
        BY <1>3, <2>1 DEF SettleLocked, Op
      <3> HIDE DEF f
      <3> QED BY <1>3, <2>1, <3>1, <3>3, <3>4, <3>5 DEF SettleLocked, Moves
    <2>2. CASE r.status # "cancel_requested"
      BY <1>3, <2>2, AbortQuits DEF SettleLocked, IInv, Op
    <2> QED BY <2>1, <2>2
  <1>4. ASSUME StopSettled(c) PROVE Quits(c) \/ Asked(c)
    <2> DEFINE h == Held(call[c])
    <2>1. GoodFrame(call[c]) /\ h \in SoundRecord /\ Same(call[c], call[c])
      BY <1>4, HeldFrame DEF StopSettled, Holding
    <2>2. CASE Abort(c)
      BY <1>4, <2>2, AbortQuits DEF StopSettled, IInv
    <2>3. ASSUME NEW s \in StopReceipts(o), h.status = "cancel_requested",
                 Transition(c, call[c],
                            CancelSettled(h, PlanOperationCancellation(s.stopped, s.effect),
                                          s.effect), TRUE, "unlock")
          PROVE  Quits(c) \/ Asked(c)
      <3> DEFINE to   == PlanOperationCancellation(s.stopped, s.effect)
                 succ == CancelSettled(h, to, s.effect)
      <3>1. /\ s.effect \in OperationSideEffectState
            /\ to \in {"reconcile_required", "cancelled", "failed"}
        BY DEF StopReceipts, PlanOperationCancellation
      <3>2. succ \in SoundRecord
        BY <2>1, <3>1, SettlementsSound
      <3>3. Asks(c, call[c], succ, TRUE, "unlock")
        BY <1>4, <2>1, <2>3 DEF StopSettled, Asks, AsksAfterStop
      <3> HIDE DEF succ
      <3> QED BY <1>4, <2>1, <2>3, <3>2, <3>3, TransitionAsks DEF StopSettled, Afters, succ
    <2> QED BY <1>4, <2>2, <2>3 DEF StopSettled, Held, Op
  <1>5. ASSUME ResolveLocked(c) PROVE Quits(c) \/ Asked(c)
    <2>1. /\ GoodFrame(Frame(c)) /\ Same(Frame(c), call[c])
          /\ Held(Frame(c)) = r /\ r \in SoundRecord
          /\ call[c].pc = "lock" /\ Holds(c, o) /\ call[c].kind = "resolve"
          /\ UNCHANGED <<durable, cells, notifyFailed, effects, hydrated, overtaken>>
      BY <1>0, <1>5 DEF ResolveLocked, Acquired, Op
    <2>2. r.invalidated \in BOOLEAN
      BY <2>1 DEF SoundRecord, OperationControlRecord
    <2>3. CASE Abort(c)
      BY <2>1, <2>3, AbortQuits DEF IInv
    <2>4. ASSUME NEW succ \in SoundRecord, r.status = "reconcile_required",
                 \/ succ = ReconcileRecovered(r)
                 \/ succ = ReconcileCancelled(r)
                 \/ succ = ReconcileFailed(r),
                 Transition(c, Frame(c), succ, r.invalidated, "unlock")
          PROVE  Quits(c) \/ Asked(c)
      <3>1. CanTransitionOperationStatus(Held(Frame(c)).status, succ.status)
              => Asks(c, Frame(c), succ, r.invalidated, "unlock")
        BY <2>1, <2>4 DEF Asks, AsksUnderLock
      <3> QED BY <2>1, <2>2, <2>4, <3>1, TransitionAsks DEF Afters
    <2>5. \/ Abort(c)
          \/ /\ r.status = "reconcile_required"
             /\ \/ Transition(c, Frame(c), ReconcileRecovered(r), r.invalidated, "unlock")
                \/ Transition(c, Frame(c), ReconcileCancelled(r), r.invalidated, "unlock")
                \/ Transition(c, Frame(c), ReconcileFailed(r), r.invalidated, "unlock")
      BY <1>5 DEF ResolveLocked, PlanReconcileRequiredResolution, ReconcileOutcome, Op
    <2> QED BY <2>1, <2>3, <2>4, <2>5, SettlementsSound
  <1> QED BY <1>1, <1>2, <1>3, <1>4, <1>5

\* The executor is invoked: the lock is released, the Hand runs without it.
Invokes(c) ==
    /\ call[c].pc = "prepared"
    /\ locks' = Released(c, Op(c))
    /\ call' = [call EXCEPT ![c] = [@ EXCEPT !.pc = "execute", !.ref = 0]]
    /\ notifyFailed' \in [Ops -> BOOLEAN]
    /\ UNCHANGED <<durable, cells, effects, hydrated, overtaken>>

\* Everything a call in progress may do.
LEMMA StepCases ==
  ASSUME IInv, NEW c \in Callers, Step(c)
  PROVE  \/ Quits(c) \/ Moves(c) \/ Asked(c)
         \/ AdmitGranted(c) \/ Commit(c) \/ CommitUnacknowledged(c)
         \/ Invokes(c) \/ Relock(c) \/ Hydrate(c)
  <1>1. ASSUME AdmitRejected(c) \/ CommitRefused(c) \/ OperationMissing(c)
               \/ StopReceiptInvalid(c)
        PROVE  Quits(c)
    BY <1>1, AbortQuits
    DEF AdmitRejected, CommitRefused, OperationMissing, StopReceiptInvalid, IInv
  <1>2. ASSUME Submitted(c) PROVE Quits(c)
    BY <1>2 DEF Submitted, Quits, IInv
  <1>3. ASSUME Unlock(c) PROVE Quits(c)
    <2>1. notifyFailed' \in [Ops -> BOOLEAN]
      BY <1>3 DEF Unlock, IInv
    <2> QED BY <1>3, <2>1, AbortQuits DEF Unlock
  <1>4. ASSUME Invoke(c) PROVE Quits(c) \/ Invokes(c)
    <2>1. notifyFailed' \in [Ops -> BOOLEAN]
      BY <1>4 DEF Invoke, IInv
    <2>2. call[c].intent \in Intents
      BY <1>4, CallFacts DEF Invoke, FrameOK
    <2>3. CASE notifyFailed[Op(c)]
      BY <1>4, <2>1, <2>2, <2>3 DEF Invoke, Quits, Op
    <2>4. CASE ~notifyFailed[Op(c)]
      BY <1>4, <2>1, <2>4 DEF Invoke, Invokes, Op
    <2> QED BY <2>3, <2>4
  <1> QED BY <1>1, <1>2, <1>3, <1>4, ExecuteCases, HandCases, RecoveryCases DEF Step

LEMMA HandlerSteps ==
  ASSUME IInv, NEW c \in Callers
  PROVE  /\ Quits(c) => IInv'
         /\ Moves(c) => IInv'
         /\ Asked(c) => IInv'
         /\ Invokes(c) => IInv'
         /\ Relock(c) => IInv'
         /\ ExecutorEffect(c) => IInv'
         /\ ExecutorStops(c) => IInv'
  <1> DEFINE o == Op(c)
  <1>1. ASSUME Quits(c) PROVE IInv'
    <2>1. locks' \in [Ops -> Seq(Callers)]
      BY <1>1, IntentOp, ReleasedType DEF Quits, IInv, Op
    <2> QED BY <1>1, <2>1, IdleSound, FrameStep DEF Quits, IInv
  <1>2. ASSUME Moves(c) PROVE IInv'
    BY <1>2, FrameStep DEF Moves, IInv
  <1>3. ASSUME Asked(c) PROVE IInv'
    <2>1. PICK f \in SoundCall : FrameOK(f, cells) /\ call' = [call EXCEPT ![c] = f]
      BY <1>3, AskedFrame DEF Asked
    <2> QED BY <1>3, <2>1, FrameStep DEF Asked, IInv
  <1>4. ASSUME Invokes(c) PROVE IInv'
    <2> DEFINE f == [call[c] EXCEPT !.pc = "execute", !.ref = 0]
    <2>1. /\ call[c] \in SoundCall /\ FrameOK(call[c], cells)
          /\ call[c].intent \in Intents /\ o \in Ops /\ cells[o] # <<>>
      BY <1>4, CallFacts DEF Invokes, FrameOK, Handling, Holding, Op
    <2>2. f \in SoundCall /\ f.pc = "execute" /\ f.ref = 0 /\ f.intent = call[c].intent
      BY <2>1 DEF SoundCall, PC
    <2>5. FrameOK(f, cells)
      BY <2>1, <2>2 DEF FrameOK, Handling, Holding, Op
    <2>3. locks' \in [Ops -> Seq(Callers)]
      BY <1>4, <2>1, ReleasedType DEF Invokes, IInv
    <2>4. call' = [call EXCEPT ![c] = f]
      BY <1>4 DEF Invokes
    <2> HIDE DEF f
    <2> QED BY <1>4, <2>2, <2>3, <2>4, <2>5, FrameStep DEF Invokes, IInv
  <1>5. ASSUME Relock(c) PROVE IInv'
    <2> DEFINE f == [call[c] EXCEPT !.pc = "settled"]
    <2>1. /\ call[c] \in SoundCall /\ FrameOK(call[c], cells)
          /\ call[c].intent \in Intents /\ o \in Ops
      BY <1>5, CallFacts DEF Relock, FrameOK, Op
    <2>2. f \in SoundCall /\ FrameOK(f, cells)
      BY <1>5, <2>1 DEF Relock, SoundCall, PC, FrameOK, Handling, Holding, Op
    <2>3. locks' \in [Ops -> Seq(Callers)]
      <3>1. Append(locks[o], c) \in Seq(Callers)
        BY <2>1 DEF IInv
      <3> QED BY <1>5, <3>1 DEF Relock, IInv, Op
    <2> QED BY <1>5, <2>2, <2>3, FrameStep DEF Relock, IInv
  <1>6. ASSUME ExecutorEffect(c) PROVE IInv'
    <2> DEFINE f == [call[c] EXCEPT !.touched = TRUE]
    <2>1. f \in SoundCall /\ FrameOK(f, cells)
      BY CallFacts DEF SoundCall, FrameOK
    <2>2. effects' \in [Ops -> Nat]
      <3> DEFINE n == IF effects[o] < 2 THEN effects[o] + 1 ELSE effects[o]
      <3>1. call[c].intent \in Intents /\ o \in Ops
        BY <1>6, CallFacts DEF ExecutorEffect, FrameOK, Op
      <3>2. n \in Nat
        BY <3>1 DEF IInv
      <3>3. effects' = [effects EXCEPT ![o] = n]
        BY <1>6 DEF ExecutorEffect, Op
      <3> HIDE DEF n
      <3> QED BY <3>2, <3>3 DEF IInv
    <2> QED BY <1>6, <2>1, <2>2, FrameStep DEF ExecutorEffect, IInv
  <1>7. ASSUME ExecutorStops(c) PROVE IInv'
    <2> DEFINE f == [call[c] EXCEPT !.halted = TRUE]
    <2>1. f \in SoundCall /\ FrameOK(f, cells)
      BY CallFacts DEF SoundCall, FrameOK
    <2> QED BY <1>7, <2>1, FrameStep DEF ExecutorStops, IInv
  <1> QED BY <1>1, <1>2, <1>3, <1>4, <1>5, <1>6, <1>7

-------------------------------------------------------------------------------
(***************************************************************************)
(* One lemma per group of actions: each preserves the invariant.           *)
(***************************************************************************)
LEMMA SubmitSteps ==
  ASSUME IInv, NEW c \in Callers
  PROVE  /\ \A i \in Intents : Submit(c, i) => IInv'
         /\ AdmitGranted(c) => IInv'
         /\ AdmitRejected(c) => IInv'
         /\ Submitted(c) => IInv'
  <1>1. ASSUME NEW i \in Intents, Submit(c, i) PROVE IInv'
    <2> DEFINE f == [Idle EXCEPT !.kind = "submit", !.pc = "accept", !.intent = i]
    <2>1. f \in SoundCall
      BY IdleSound DEF SoundCall, PC, EntryPoints
    <2>2. FrameOK(f, cells)
      BY DEF Idle, FrameOK, Handling, Holding
    <2> QED BY <1>1, <2>1, <2>2, FrameStep DEF Submit, IInv
  <1>2. ASSUME AdmitGranted(c) PROVE IInv'
    <2> DEFINE f == [call[c] EXCEPT !.pc = "commit", !.after = "submitted",
                                    !.succ = Accepted(call[c].intent)]
    <2>1. call[c].intent \in Intents /\ call[c].ref = 0 /\ call[c] \in SoundCall
      BY <1>2, CallFacts DEF AdmitGranted, FrameOK
    <2>2. f \in SoundCall
      BY <2>1, AcceptedSound DEF SoundCall, PC
    <2>3. FrameOK(f, cells)
      BY <2>1 DEF SoundCall, FrameOK, Handling, Holding
    <2> QED BY <1>2, <2>2, <2>3, FrameStep DEF AdmitGranted, IInv
  <1>3. ASSUME AdmitRejected(c) PROVE IInv'
    BY <1>3, AbortStep DEF AdmitRejected, IInv
  <1>4. ASSUME Submitted(c) PROVE IInv'
    BY <1>4, IdleSound, FrameStep DEF Submitted, IInv
  <1> QED BY <1>1, <1>2, <1>3, <1>4

\* Record objects are replaced or added, never taken away from a call.
LEMMA FrameKept ==
  ASSUME NEW f \in SoundCall, NEW cs, NEW ds, FrameOK(f, cs),
         f.intent \in Intents =>
           /\ cs[f.intent.op] # <<>> => ds[f.intent.op] # <<>>
           /\ f.ref # 0 /\ f.ref <= Len(cs[f.intent.op]) => f.ref <= Len(ds[f.intent.op])
  PROVE  FrameOK(f, ds)
  BY DEF FrameOK, Handling, Holding

LEMMA PublishedType ==
  ASSUME IInv, NEW c, NEW o \in Ops, NEW r \in SoundRecord
  PROVE  /\ Published(c, o, r) \in Seq(SoundRecord)
         /\ Published(c, o, r) # <<>>
         /\ Referenced(o, c) => Len(Published(c, o, r)) = Len(cells[o]) + 1
  <1>1. cells[o] \in Seq(SoundRecord)
    BY DEF IInv
  <1> QED BY <1>1, AppendProperties DEF Published

\* Other calls keep their objects when one is published for an operation.
LEMMA PublishedKeeps ==
  ASSUME IInv, NEW c \in Callers, NEW d \in Callers \ {c}, NEW ds,
         \A o \in Ops : \/ ds[o] = cells[o]
                        \/ \E r \in SoundRecord : ds[o] = Published(c, o, r)
  PROVE  FrameOK(call[d], ds)
  <1>1. call[d] \in SoundCall /\ FrameOK(call[d], cells)
    BY CallFacts
  <1>2. CASE call[d].intent \notin Intents
    BY <1>1, <1>2, FrameKept
  <1>3. CASE call[d].intent \in Intents
    <2> DEFINE o == call[d].intent.op
    <2>1. o \in Ops /\ cells[o] \in Seq(SoundRecord)
      BY <1>3, CallFacts
    <2>2. CASE ds[o] = cells[o]
      BY <1>1, <2>2, FrameKept
    <2>3. ASSUME NEW r \in SoundRecord, ds[o] = Published(c, o, r)
          PROVE  FrameOK(call[d], ds)
      <3>1. ds[o] # <<>>
        BY <2>1, <2>3, PublishedType
      <3>2. ASSUME call[d].ref # 0, call[d].ref <= Len(cells[o])
            PROVE  call[d].ref <= Len(ds[o])
        <4>1. Referenced(o, c)
          BY <1>3, <3>2, IntentsAssumption DEF Referenced, CallsOn
        <4>2. Len(ds[o]) = Len(cells[o]) + 1 /\ Len(cells[o]) \in Nat
          BY <2>1, <2>3, <4>1, PublishedType
        <4>3. call[d].ref \in Nat
          BY <1>1 DEF SoundCall
        <4> QED BY <3>2, <4>2, <4>3
      <3> QED BY <1>1, <3>1, <3>2, FrameKept
    <2> QED BY <2>1, <2>2, <2>3
  <1> QED BY <1>2, <1>3

LEMMA CommitSteps ==
  ASSUME IInv, NEW c \in Callers
  PROVE  /\ Commit(c) => IInv'
         /\ CommitRefused(c) => IInv'
         /\ CommitUnacknowledged(c) => IInv'
  <1> DEFINE o    == call[c].intent.op
             succ == call[c].succ
             f    == Continue(call[c], call[c].after)
  <1>0. ASSUME call[c].pc = "commit"
        PROVE  /\ call[c] \in SoundCall /\ FrameOK(call[c], cells)
               /\ call[c].intent \in Intents /\ o \in Ops
               /\ succ \in SoundRecord
               /\ cells[o] \in Seq(SoundRecord)
               /\ [durable EXCEPT ![o] = succ] \in [Ops -> SoundRecord]
    <2>1. call[c] \in SoundCall /\ FrameOK(call[c], cells) /\ call[c].intent \in Intents
      BY <1>0, CallFacts DEF FrameOK
    <2>2. o \in Ops /\ cells[o] \in Seq(SoundRecord)
      BY <2>1, CallFacts
    <2>3. succ \in SoundRecord
      BY <2>1 DEF SoundCall
    <2> QED BY <2>1, <2>2, <2>3 DEF IInv
  <1>1. ASSUME Commit(c) PROVE IInv'
    <2>0. /\ call[c].pc = "commit"
          /\ durable' = [durable EXCEPT ![o] = succ]
          /\ cells' = IF call[c].ref = 0
                      THEN [cells EXCEPT ![o] = Published(c, o, succ)]
                      ELSE [cells EXCEPT ![o][call[c].ref] = succ]
          /\ call' = [call EXCEPT ![c] = f]
          /\ notifyFailed' \in [Ops -> BOOLEAN]
          /\ UNCHANGED <<locks, effects, hydrated, overtaken>>
      <3>1. [notifyFailed EXCEPT ![o] = TRUE] \in [Ops -> BOOLEAN]
        BY DEF IInv
      <3> QED BY <1>1, <3>1 DEF Commit, IInv
    <2>1. f \in SoundCall
      <3> DEFINE ref == IF call[c].after \in {"queued", "lease", "leased", "prepared"}
                        THEN call[c].ref ELSE 0
      <3>1. ref \in Nat /\ call[c].after \in PC /\ "idle" \in PC
        BY <1>0, <2>0 DEF SoundCall, PC
      <3>2. f = [call[c] EXCEPT !.pc = call[c].after, !.succ = NoControl,
                                !.after = "idle", !.ref = ref]
        BY DEF Continue
      <3> HIDE DEF ref
      <3> QED BY <1>0, <2>0, <3>1, <3>2, NoControlSound DEF SoundCall
    <2>2. /\ call' \in [Callers -> SoundCall]
          /\ \A d \in Callers : call'[d] = IF d = c THEN f ELSE call[d]
      BY <2>0, <2>1 DEF IInv
    <2>3. CASE call[c].ref = 0
      <3>1. cells' = [cells EXCEPT ![o] = Published(c, o, succ)]
        BY <2>0, <2>3
      <3>2. cells' \in [Ops -> Seq(SoundRecord)]
        <4>1. Published(c, o, succ) \in Seq(SoundRecord)
          BY <1>0, <2>0, PublishedType
        <4> QED BY <1>0, <2>0, <3>1, <4>1 DEF IInv
      <3>3. \A p \in Ops : \/ cells'[p] = cells[p]
                           \/ \E r \in SoundRecord : cells'[p] = Published(c, p, r)
        BY <1>0, <2>0, <3>1 DEF IInv
      <3>4. ASSUME NEW d \in Callers \ {c} PROVE FrameOK(call[d], cells')
        BY <3>3, PublishedKeeps
      <3>5. FrameOK(f, cells')
        <4>1. call[c].after = "submitted"
          BY <1>0, <2>0, <2>3 DEF FrameOK
        <4>2. f.pc = "submitted" /\ f.ref = 0 /\ f.intent = call[c].intent
          BY <1>0, <2>0, <4>1 DEF Continue, SoundCall
        <4> QED BY <1>0, <2>0, <4>2 DEF FrameOK, Handling, Holding
      <3> QED BY <1>0, <2>0, <2>2, <3>2, <3>4, <3>5 DEF IInv
    <2>4. CASE call[c].ref # 0
      <3> DEFINE ref == call[c].ref
      <3>1. cells' = [cells EXCEPT ![o] = [cells[o] EXCEPT ![ref] = succ]]
        BY <2>0, <2>4
      <3>2. ref \in 1 .. Len(cells[o]) /\ Len(cells[o]) \in Nat
        BY <1>0, <2>0, <2>4 DEF FrameOK, SoundCall
      <3>3. /\ [cells[o] EXCEPT ![ref] = succ] \in Seq(SoundRecord)
            /\ Len([cells[o] EXCEPT ![ref] = succ]) = Len(cells[o])
        BY <1>0, <2>0, <3>2, ExceptSeq
      <3>4. cells' \in [Ops -> Seq(SoundRecord)]
        BY <1>0, <2>0, <3>1, <3>3 DEF IInv
      <3>5. \A p \in Ops : Len(cells'[p]) = Len(cells[p])
        BY <1>0, <2>0, <3>1, <3>3 DEF IInv
      <3>6. ASSUME NEW p \in Ops, cells[p] # <<>> PROVE cells'[p] # <<>>
        <4>1. cells[p] \in Seq(SoundRecord) /\ cells'[p] \in Seq(SoundRecord)
          BY <3>4 DEF IInv
        <4> QED BY <3>5, <3>6, <4>1
      <3>7. ASSUME NEW d \in Callers PROVE FrameOK(call[d], cells')
        BY <3>5, <3>6, CallFacts, FrameKept
      <3>8. FrameOK(f, cells')
        <4>1. /\ call[c].after \in Handling \ {"stop"}
              /\ FrameOK(call[c], cells')
          BY <1>0, <2>0, <2>4, <3>7 DEF FrameOK
        <4>2. cells'[o] # <<>>
          <5>1. cells[o] # <<>>
            BY <1>0, <2>0, <3>2
          <5> QED BY <1>0, <2>0, <3>6, <5>1
        <4>3. /\ f.pc = call[c].after /\ f.intent = call[c].intent
              /\ f.ref \in {0, ref}
              /\ f.pc \in {"queued", "lease", "leased", "prepared"} => f.ref = ref
          BY <1>0, <2>0 DEF Continue, SoundCall
        <4> QED BY <1>0, <2>0, <2>4, <4>1, <4>2, <4>3 DEF FrameOK, Handling, Holding
      <3> QED BY <1>0, <2>0, <2>2, <3>4, <3>7, <3>8 DEF IInv
    <2> QED BY <2>3, <2>4
  <1>2. ASSUME CommitRefused(c) PROVE IInv'
    BY <1>2, AbortStep DEF CommitRefused, IInv
  <1>3. ASSUME CommitUnacknowledged(c) PROVE IInv'
    <2>1. durable' \in [Ops -> SoundRecord]
      BY <1>0, <1>3 DEF CommitUnacknowledged
    <2> QED BY <1>3, <2>1, AbortStep DEF CommitUnacknowledged, IInv
  <1> QED BY <1>1, <1>2, <1>3

LEMMA LockSteps ==
  ASSUME IInv, NEW c \in Callers
  PROVE  /\ \A i \in Intents, kind \in LockedKinds : StartLocked(c, kind, i) => IInv'
         /\ OperationMissing(c) => IInv'
         /\ Unlock(c) => IInv'
  <1>1. ASSUME NEW i \in Intents, NEW kind \in LockedKinds, StartLocked(c, kind, i)
        PROVE  IInv'
    <2> DEFINE f == [Idle EXCEPT !.kind = kind, !.pc = "lock", !.intent = i]
    <2>1. f \in SoundCall
      BY IdleSound DEF SoundCall, PC, EntryPoints, LockedKinds
    <2>2. FrameOK(f, cells)
      BY DEF Idle, FrameOK, Handling, Holding
    <2>3. locks' \in [Ops -> Seq(Callers)]
      <3>1. locks[i.op] \in Seq(Callers)
        BY IntentOp DEF IInv
      <3>2. Append(locks[i.op], c) \in Seq(Callers)
        BY <3>1
      <3> QED BY <1>1, <3>2 DEF StartLocked, IInv
    <2> QED BY <1>1, <2>1, <2>2, <2>3, FrameStep DEF StartLocked, IInv
  <1>2. ASSUME OperationMissing(c) PROVE IInv'
    BY <1>2, AbortStep DEF OperationMissing, IInv
  <1>3. ASSUME Unlock(c) PROVE IInv'
    <2>1. notifyFailed' \in [Ops -> BOOLEAN]
      BY <1>3 DEF Unlock, IInv
    <2> QED BY <1>3, <2>1, AbortStep DEF Unlock, IInv
  <1> QED BY <1>1, <1>2, <1>3

\* A handler that has just got the lock of a known operation.
LEMMA ReadSteps ==
  ASSUME IInv, NEW c \in Callers
  PROVE  /\ ReadControl(c) => IInv'
         /\ Hydrate(c) => IInv'
  <1>1. ASSUME ReadControl(c) PROVE IInv'
    <2> DEFINE f == [Idle EXCEPT !.kind = "readControl", !.pc = "hydrate", !.view = durable]
    <2>1. f \in SoundCall
      BY IdleSound DEF SoundCall, PC, EntryPoints, IInv
    <2>2. FrameOK(f, cells)
      BY DEF Idle, FrameOK, Handling, Holding
    <2> QED BY <1>1, <2>1, <2>2, FrameStep DEF ReadControl, IInv
  <1>2. ASSUME Hydrate(c) PROVE IInv'
    <2>1. /\ cells' = [o \in Ops |-> IF call[c].view[o].status = "none" THEN cells[o]
                                     ELSE Published(c, o, call[c].view[o])]
          /\ call' = [call EXCEPT ![c] = Idle]
          /\ hydrated' = TRUE
          /\ overtaken' \subseteq Ops
          /\ UNCHANGED <<durable, locks, notifyFailed, effects>>
      BY <1>2 DEF Hydrate, IInv
    <2>2. \A o \in Ops : call[c].view[o] \in SoundRecord
      BY CallFacts DEF SoundCall
    <2>3. ASSUME NEW o \in Ops
          PROVE  /\ cells'[o] \in Seq(SoundRecord)
                 /\ \/ cells'[o] = cells[o]
                    \/ \E r \in SoundRecord : cells'[o] = Published(c, o, r)
      BY <2>1, <2>2, PublishedType DEF IInv
    <2>4. cells' \in [Ops -> Seq(SoundRecord)]
      BY <2>1, <2>3
    <2>5. call' \in [Callers -> SoundCall]
      BY <2>1, IdleSound DEF IInv
    <2>6. ASSUME NEW d \in Callers PROVE FrameOK(call'[d], cells')
      <3>1. CASE d = c
        BY <2>1, <3>1, IdleSound DEF IInv
      <3>2. CASE d # c
        BY <2>1, <2>3, <3>2, PublishedKeeps DEF IInv
      <3> QED BY <3>1, <3>2
    <2> QED BY <2>1, <2>4, <2>5, <2>6 DEF IInv
  <1> QED BY <1>1, <1>2

LEMMA CrashStep ==
  ASSUME IInv, Crash
  PROVE  IInv'
  <1>1. \A o \in Ops : <<>> \in Seq(SoundRecord) /\ <<>> \in Seq(Callers)
    OBVIOUS
  <1>2. /\ cells' \in [Ops -> Seq(SoundRecord)]
        /\ locks' \in [Ops -> Seq(Callers)]
        /\ notifyFailed' \in [Ops -> BOOLEAN]
        /\ call' \in [Callers -> SoundCall]
        /\ hydrated' \in BOOLEAN
    BY <1>1, IdleSound DEF Crash
  <1>3. \A c \in Callers : FrameOK(call'[c], cells')
    BY IdleSound DEF Crash
  <1> QED BY <1>2, <1>3 DEF Crash, IInv

LEMMA StutterStep ==
  ASSUME IInv, UNCHANGED vars
  PROVE  IInv'
  BY DEF IInv, vars, FrameOK

\* The invariant holds of every reachable state, whatever calls are made, in
\* whatever interleaving, and whatever the journal and the process suffer.
THEOREM InvariantHolds == Spec => []IInv
  <1>1. Init => IInv
    <2> SUFFICES ASSUME Init PROVE IInv
      OBVIOUS
    <2>1. /\ durable \in [Ops -> SoundRecord]
          /\ call \in [Callers -> SoundCall]
          /\ \A c \in Callers : FrameOK(call[c], cells)
      BY NoControlSound, IdleSound DEF Init
    <2>2. <<>> \in Seq(SoundRecord) /\ <<>> \in Seq(Callers)
      OBVIOUS
    <2> QED BY <2>1, <2>2 DEF Init, IInv
  <1>2. IInv /\ [Next]_vars => IInv'
    <2> SUFFICES ASSUME IInv, [Next]_vars PROVE IInv'
      OBVIOUS
    <2>1. ASSUME NEW c \in Callers,
                 \/ \E i \in Intents : Submit(c, i)
                 \/ \E i \in Intents, kind \in LockedKinds : StartLocked(c, kind, i)
                 \/ ReadControl(c) \/ Step(c)
                 \/ ExecutorEffect(c) \/ ExecutorStops(c)
          PROVE  IInv'
      BY <2>1, StepCases, HandlerSteps, SubmitSteps, CommitSteps, LockSteps, ReadSteps
    <2>2. CASE Crash
      BY <2>2, CrashStep
    <2>3. CASE UNCHANGED vars
      BY <2>3, StutterStep
    <2> QED BY <2>1, <2>2, <2>3 DEF Next
  <1> QED BY <1>1, <1>2, PTL DEF Spec

-------------------------------------------------------------------------------
\* Every variable keeps its type: no interleaving makes a handler read a
\* record that is not there (gateway.ts requireOperation and its callers).
THEOREM TypeCorrect == Spec => []TypeOK
  <1>1. SoundCall \subseteq CallState
    <2>1. SoundRecord \subseteq OperationControlRecord
      BY DEF SoundRecord
    <2> QED BY <2>1 DEF SoundCall, CallState
  <1>2. IInv => TypeOK
    <2> SUFFICES ASSUME IInv PROVE TypeOK
      OBVIOUS
    <2>1. SoundRecord \subseteq OperationControlRecord
      BY DEF SoundRecord
    <2>2. \A o \in Ops : cells[o] \in Seq(OperationControlRecord)
      <3> SUFFICES ASSUME NEW o \in Ops PROVE cells[o] \in Seq(OperationControlRecord)
        OBVIOUS
      <3>1. cells[o] \in Seq(SoundRecord)
        BY DEF IInv
      <3> QED BY <2>1, <3>1
    <2>3. cells \in [Ops -> Seq(OperationControlRecord)]
      BY <2>2 DEF IInv
    <2>4. durable \in [Ops -> OperationControlRecord]
      BY <2>1 DEF IInv
    <2>5. call \in [Callers -> CallState]
      BY <1>1 DEF IInv
    <2> QED BY <2>3, <2>4, <2>5 DEF IInv, TypeOK
  <1> QED BY <1>2, InvariantHolds, PTL

\* No operation rests with an active lease (applySettlement,
\* settleCancellation and resolveReconcile release it on every path).
THEOREM LeaseReleased == Spec => []LeaseReleasedAtRest
  <1>1. IInv => LeaseReleasedAtRest
    BY DEF IInv, SoundRecord, Sound, LeaseReleasedAtRest
  <1> QED BY <1>1, InvariantHolds, PTL

\* What a recovery call reads is durable together with the status that calls
\* for it (applySettlement and transition build one record, committed once).
THEOREM RecoveryState == Spec => []RecoveryStateIsDurable
  <1>1. IInv => RecoveryStateIsDurable
    BY DEF IInv, SoundRecord, Sound, RecoveryStateIsDurable
  <1> QED BY <1>1, InvariantHolds, PTL

-------------------------------------------------------------------------------
(***************************************************************************)
(* The frame each step leaves its call in.                                 *)
(***************************************************************************)
Turn(c, f) ==
    /\ f \in SoundCall
    /\ \A d \in Callers : call'[d] = IF d = c THEN f ELSE call[d]

\* Two frames that read the same observation under the same epoch.
Alike(f, g) ==
    /\ Same(f, g) /\ f.epoch = g.epoch /\ f.obs = g.obs /\ f.succ = g.succ

LEMMA TurnBy ==
  ASSUME IInv, NEW c \in Callers, NEW f \in SoundCall, call' = [call EXCEPT ![c] = f]
  PROVE  Turn(c, f)
  BY DEF IInv, Turn

LEMMA StartTurns ==
  ASSUME IInv, NEW c \in Callers
  PROVE  /\ \A i \in Intents : Submit(c, i) =>
              \E f : /\ Turn(c, f)
                     /\ f.kind = "submit" /\ f.pc = "accept" /\ f.intent = i
                     /\ f.succ = NoControl /\ f.view = NoView
         /\ \A i \in Intents, kind \in LockedKinds : StartLocked(c, kind, i) =>
              \E f : /\ Turn(c, f)
                     /\ f.kind = kind /\ f.pc = "lock" /\ f.intent = i
                     /\ f.succ = NoControl /\ f.view = NoView
         /\ ReadControl(c) =>
              \E f : /\ Turn(c, f)
                     /\ f.kind = "readControl" /\ f.pc = "hydrate" /\ f.intent = NoIntent
                     /\ f.succ = NoControl /\ f.view = durable
  <1>0. Idle \in SoundCall
    BY IdleSound
  <1>1. ASSUME NEW i \in Intents, Submit(c, i)
        PROVE  \E f : /\ Turn(c, f)
                      /\ f.kind = "submit" /\ f.pc = "accept" /\ f.intent = i
                      /\ f.succ = NoControl /\ f.view = NoView
    <2> DEFINE f == [Idle EXCEPT !.kind = "submit", !.pc = "accept", !.intent = i]
    <2>1. f \in SoundCall
      BY <1>0 DEF SoundCall, PC, EntryPoints
    <2>2. /\ f.kind = "submit" /\ f.pc = "accept" /\ f.intent = i
          /\ f.succ = NoControl /\ f.view = NoView
      BY DEF Idle
    <2>3. Turn(c, f)
      BY <1>1, <2>1, TurnBy DEF Submit
    <2> QED BY <2>2, <2>3
  <1>2. ASSUME NEW i \in Intents, NEW kind \in LockedKinds, StartLocked(c, kind, i)
        PROVE  \E f : /\ Turn(c, f)
                      /\ f.kind = kind /\ f.pc = "lock" /\ f.intent = i
                      /\ f.succ = NoControl /\ f.view = NoView
    <2> DEFINE f == [Idle EXCEPT !.kind = kind, !.pc = "lock", !.intent = i]
    <2>1. f \in SoundCall
      BY <1>0 DEF SoundCall, PC, EntryPoints, LockedKinds
    <2>2. /\ f.kind = kind /\ f.pc = "lock" /\ f.intent = i
          /\ f.succ = NoControl /\ f.view = NoView
      BY DEF Idle
    <2>3. Turn(c, f)
      BY <1>2, <2>1, TurnBy DEF StartLocked
    <2> QED BY <2>2, <2>3
  <1>3. ASSUME ReadControl(c)
        PROVE  \E f : /\ Turn(c, f)
                      /\ f.kind = "readControl" /\ f.pc = "hydrate" /\ f.intent = NoIntent
                      /\ f.succ = NoControl /\ f.view = durable
    <2> DEFINE f == [Idle EXCEPT !.kind = "readControl", !.pc = "hydrate", !.view = durable]
    <2>1. f \in SoundCall
      BY <1>0 DEF SoundCall, PC, EntryPoints, IInv
    <2>2. /\ f.kind = "readControl" /\ f.pc = "hydrate" /\ f.intent = NoIntent
          /\ f.succ = NoControl /\ f.view = durable
      BY DEF Idle
    <2>3. Turn(c, f)
      BY <1>3, <2>1, TurnBy DEF ReadControl
    <2> QED BY <2>2, <2>3
  <1> QED BY <1>1, <1>2, <1>3

LEMMA CallTurns ==
  ASSUME IInv, NEW c \in Callers
  PROVE  /\ AdmitGranted(c) =>
              \E f : /\ Turn(c, f) /\ Same(f, call[c])
                     /\ f.pc = "commit" /\ f.after = "submitted"
                     /\ f.succ = Accepted(call[c].intent)
         /\ Commit(c) =>
              \E f : /\ Turn(c, f) /\ Same(f, call[c])
                     /\ f.epoch = call[c].epoch /\ f.obs = call[c].obs
                     /\ f.pc = call[c].after /\ f.succ = NoControl /\ f.after = "idle"
         /\ Invokes(c) =>
              \E f : /\ Turn(c, f) /\ Alike(f, call[c])
                     /\ f.pc = "execute" /\ f.after = call[c].after
         /\ Relock(c) =>
              \E f : /\ Turn(c, f) /\ Alike(f, call[c])
                     /\ f.pc = "settled" /\ f.after = call[c].after
         /\ ExecutorEffect(c) =>
              \E f : /\ Turn(c, f)
                     /\ f = [call[c] EXCEPT !.touched = TRUE] /\ call[c].pc = "execute"
         /\ ExecutorStops(c) =>
              \E f : /\ Turn(c, f)
                     /\ f = [call[c] EXCEPT !.halted = TRUE] /\ call[c].pc = "execute"
         /\ Quits(c) \/ CommitUnacknowledged(c) \/ Hydrate(c) => Turn(c, Idle)
  <1>0. call[c] \in SoundCall /\ FrameOK(call[c], cells)
    BY CallFacts
  <1>1. ASSUME AdmitGranted(c)
        PROVE  \E f : /\ Turn(c, f) /\ Same(f, call[c])
                      /\ f.pc = "commit" /\ f.after = "submitted"
                      /\ f.succ = Accepted(call[c].intent)
    <2> DEFINE f == [call[c] EXCEPT !.pc = "commit", !.after = "submitted",
                                    !.succ = Accepted(call[c].intent)]
    <2>1. f \in SoundCall
      BY <1>0, <1>1, AcceptedSound DEF AdmitGranted, FrameOK, SoundCall, PC
    <2>2. /\ Same(f, call[c]) /\ f.pc = "commit" /\ f.after = "submitted"
          /\ f.succ = Accepted(call[c].intent)
      BY <1>0 DEF SoundCall, Same
    <2>3. Turn(c, f)
      BY <1>1, <2>1, TurnBy DEF AdmitGranted
    <2> QED BY <2>2, <2>3
  <1>2. ASSUME Commit(c)
        PROVE  \E f : /\ Turn(c, f) /\ Same(f, call[c])
                      /\ f.epoch = call[c].epoch /\ f.obs = call[c].obs
                      /\ f.pc = call[c].after /\ f.succ = NoControl /\ f.after = "idle"
    <2> DEFINE ref == IF call[c].after \in {"queued", "lease", "leased", "prepared"}
                      THEN call[c].ref ELSE 0
               f   == [call[c] EXCEPT !.pc = call[c].after, !.succ = NoControl,
                                      !.after = "idle", !.ref = ref]
    <2>1. ref \in Nat /\ call[c].after \in PC /\ "idle" \in PC
      BY <1>0 DEF SoundCall, PC
    <2> HIDE DEF ref
    <2>2. f \in SoundCall
      BY <1>0, <2>1, NoControlSound DEF SoundCall
    <2>3. /\ Same(f, call[c]) /\ f.epoch = call[c].epoch /\ f.obs = call[c].obs
          /\ f.pc = call[c].after /\ f.succ = NoControl /\ f.after = "idle"
      BY <1>0 DEF SoundCall, Same
    <2>4. Turn(c, f)
      BY <1>2, <2>2, TurnBy DEF Commit, Continue, ref
    <2> QED BY <2>3, <2>4
  <1>3. ASSUME Invokes(c)
        PROVE  \E f : /\ Turn(c, f) /\ Alike(f, call[c])
                      /\ f.pc = "execute" /\ f.after = call[c].after
    <2> DEFINE f == [call[c] EXCEPT !.pc = "execute", !.ref = 0]
    <2>1. /\ f \in SoundCall /\ Alike(f, call[c])
          /\ f.pc = "execute" /\ f.after = call[c].after
      BY <1>0 DEF SoundCall, PC, Same, Alike
    <2>2. Turn(c, f)
      BY <1>3, <2>1, TurnBy DEF Invokes
    <2> QED BY <2>1, <2>2
  <1>4. ASSUME Relock(c)
        PROVE  \E f : /\ Turn(c, f) /\ Alike(f, call[c])
                      /\ f.pc = "settled" /\ f.after = call[c].after
    <2> DEFINE f == [call[c] EXCEPT !.pc = "settled"]
    <2>1. /\ f \in SoundCall /\ Alike(f, call[c])
          /\ f.pc = "settled" /\ f.after = call[c].after
      BY <1>0 DEF SoundCall, PC, Same, Alike
    <2>2. Turn(c, f)
      BY <1>4, <2>1, TurnBy DEF Relock
    <2> QED BY <2>1, <2>2
  <1>5. ASSUME ExecutorEffect(c)
        PROVE  \E f : /\ Turn(c, f)
                      /\ f = [call[c] EXCEPT !.touched = TRUE] /\ call[c].pc = "execute"
    <2>1. [call[c] EXCEPT !.touched = TRUE] \in SoundCall
      BY <1>0 DEF SoundCall
    <2> QED BY <1>5, <2>1, TurnBy DEF ExecutorEffect
  <1>6. ASSUME ExecutorStops(c)
        PROVE  \E f : /\ Turn(c, f)
                      /\ f = [call[c] EXCEPT !.halted = TRUE] /\ call[c].pc = "execute"
    <2>1. [call[c] EXCEPT !.halted = TRUE] \in SoundCall
      BY <1>0 DEF SoundCall
    <2> QED BY <1>6, <2>1, TurnBy DEF ExecutorStops
  <1>7. ASSUME Quits(c) \/ CommitUnacknowledged(c) \/ Hydrate(c) PROVE Turn(c, Idle)
    <2>1. call' = [call EXCEPT ![c] = Idle]
      BY <1>7 DEF Quits, CommitUnacknowledged, Hydrate, Abort
    <2> QED BY <2>1, IdleSound, TurnBy
  <1> QED BY <1>1, <1>2, <1>3, <1>4, <1>5, <1>6, <1>7

-------------------------------------------------------------------------------
(***************************************************************************)
(* The operation lock: between taking it and releasing it a handler is at  *)
(* the head of the queue of its operation (withOperationLock).             *)
(***************************************************************************)
GuardedAt == {"queued", "lease", "leased", "prepared", "denied", "stop", "unlock"}

Guarded(f) == f.pc \in GuardedAt \/ (f.pc = "commit" /\ f.after \in GuardedAt)

LockInv == \A c \in Callers : Guarded(call[c]) => Holds(c, Op(c))

LEMMA GuardedOp ==
  ASSUME IInv, NEW c \in Callers, Guarded(call[c])
  PROVE  call[c].intent \in Intents /\ Op(c) \in Ops
  BY CallFacts, IntentOp DEF FrameOK, Guarded, GuardedAt, Op

\* What another call does to the queue leaves the holder at its head.
LEMMA LockKept ==
  ASSUME IInv, NEW o \in Ops, NEW d \in Callers, NEW c \in Callers \ {d}, Holds(d, o),
         \/ locks' = locks
         \/ \E p \in Ops : locks' = Released(c, p)
         \/ \E p \in Ops : locks' = [locks EXCEPT ![p] = Append(@, c)]
  PROVE  locks'[o] # <<>> /\ Head(locks'[o]) = d
  <1>0. locks[o] \in Seq(Callers) /\ locks[o] # <<>> /\ Head(locks[o]) = d
    BY DEF IInv, Holds
  <1>1. CASE locks' = locks
    BY <1>0, <1>1
  <1>2. ASSUME NEW p \in Ops, locks' = Released(c, p)
        PROVE  locks'[o] # <<>> /\ Head(locks'[o]) = d
    <2>1. CASE p = o
      BY <1>0, <1>2, <2>1 DEF Released, Holds, IInv
    <2>2. CASE p # o
      BY <1>0, <1>2, <2>2 DEF Released, IInv
    <2> QED BY <2>1, <2>2
  <1>3. ASSUME NEW p \in Ops, locks' = [locks EXCEPT ![p] = Append(@, c)]
        PROVE  locks'[o] # <<>> /\ Head(locks'[o]) = d
    <2>1. CASE p = o
      <3>1. locks'[o] = Append(locks[o], c)
        BY <1>3, <2>1 DEF IInv
      <3> QED BY <1>0, <3>1, AppendProperties
    <2>2. CASE p # o
      BY <1>0, <1>3, <2>2 DEF IInv
    <2> QED BY <2>1, <2>2
  <1> QED BY <1>1, <1>2, <1>3

\* A step of c that leaves it in frame f, guarded only if c holds the lock.
LEMMA LockTurn ==
  ASSUME IInv, LockInv, NEW c \in Callers, NEW f, Turn(c, f),
         \/ locks' = locks
         \/ \E p \in Ops : locks' = Released(c, p)
         \/ \E p \in Ops : locks' = [locks EXCEPT ![p] = Append(@, c)],
         Guarded(f) => f.intent = call[c].intent /\ Holds(c, Op(c)) /\ locks' = locks
  PROVE  LockInv'
  <1> SUFFICES ASSUME NEW d \in Callers, Guarded(call'[d])
               PROVE  /\ locks'[call'[d].intent.op] # <<>>
                      /\ Head(locks'[call'[d].intent.op]) = d
    BY DEF LockInv, Holds, Op
  <1>1. CASE d = c
    BY <1>1 DEF Turn, Op, Holds
  <1>2. CASE d # c
    <2>1. call'[d] = call[d]
      BY <1>2 DEF Turn
    <2>2. Holds(d, Op(d)) /\ Op(d) \in Ops
      BY <2>1, GuardedOp DEF LockInv
    <2> QED BY <1>2, <2>1, <2>2, LockKept DEF Op
  <1> QED BY <1>1, <1>2

LEMMA IdleUnguarded == ~Guarded(Idle)
  BY DEF Guarded, GuardedAt, Idle

LEMMA LockStep ==
  ASSUME IInv, LockInv, [Next]_vars
  PROVE  LockInv'
  <1>1. ASSUME NEW c \in Callers,
               \/ \E i \in Intents : Submit(c, i)
               \/ \E i \in Intents, kind \in LockedKinds : StartLocked(c, kind, i)
               \/ ReadControl(c)
        PROVE  LockInv'
    <2>1. PICK f : Turn(c, f) /\ f.pc \in {"accept", "lock", "hydrate"}
      BY <1>1, StartTurns
    <2>2. \/ locks' = locks
          \/ \E p \in Ops : locks' = [locks EXCEPT ![p] = Append(@, c)]
      BY <1>1, IntentOp DEF Submit, StartLocked, ReadControl
    <2> QED BY <2>1, <2>2, LockTurn DEF Guarded, GuardedAt
  <1>2. ASSUME NEW c \in Callers, Quits(c) \/ CommitUnacknowledged(c) \/ Hydrate(c)
        PROVE  LockInv'
    <2>1. Turn(c, Idle)
      BY <1>2, CallTurns
    <2>2. locks' = locks \/ \E p \in Ops : locks' = Released(c, p)
      <3>1. call[c].pc = "commit" => call[c].intent \in Intents
        BY CallFacts DEF FrameOK
      <3> QED BY <1>2, <3>1, IntentOp
              DEF Quits, CommitUnacknowledged, Hydrate, Abort, Op
    <2> QED BY <2>1, <2>2, LockTurn, IdleUnguarded
  <1>3. ASSUME NEW c \in Callers,
               \/ AdmitGranted(c) \/ Invokes(c) \/ Relock(c)
               \/ ExecutorEffect(c) \/ ExecutorStops(c)
        PROVE  LockInv'
    <2>1. call[c] \in SoundCall /\ (call[c].pc \in {"accept", "prepared", "relock"} =>
                                      call[c].intent \in Intents)
      BY CallFacts DEF FrameOK
    <2>2. PICK f : Turn(c, f) /\ ~Guarded(f)
      BY <1>3, <2>1, CallTurns DEF Guarded, GuardedAt, SoundCall
    <2>3. \/ locks' = locks
          \/ \E p \in Ops : locks' = Released(c, p)
          \/ \E p \in Ops : locks' = [locks EXCEPT ![p] = Append(@, c)]
      BY <1>3, <2>1, IntentOp
      DEF AdmitGranted, Invokes, Relock, ExecutorEffect, ExecutorStops, Op
    <2> QED BY <2>2, <2>3, LockTurn
  <1>4. ASSUME NEW c \in Callers, Commit(c)
        PROVE  LockInv'
    <2>1. PICK f : Turn(c, f) /\ Same(f, call[c]) /\ f.pc = call[c].after
      BY <1>4, CallTurns
    <2>2. call[c].pc = "commit" /\ locks' = locks
      BY <1>4 DEF Commit
    <2>3. call[c].after # "commit"
      BY <2>2, CallFacts DEF FrameOK, Handling, Holding
    <2>4. Guarded(f) => Holds(c, Op(c))
      BY <2>1, <2>2, <2>3 DEF Guarded, LockInv
    <2> QED BY <2>1, <2>2, <2>4, LockTurn DEF Same
  <1>5. ASSUME NEW c \in Callers, Moves(c)
        PROVE  LockInv'
    <2>1. PICK f \in SoundCall :
            /\ call' = [call EXCEPT ![c] = f] /\ Same(f, call[c])
            /\ (call[c].pc = "lock" /\ Holds(c, Op(c))) \/ call[c].pc = "queued"
      BY <1>5 DEF Moves
    <2>2. Holds(c, Op(c))
      BY <2>1 DEF LockInv, Guarded, GuardedAt
    <2>3. Turn(c, f) /\ locks' = locks
      BY <1>5, <2>1, TurnBy DEF Moves
    <2> QED BY <2>1, <2>2, <2>3, LockTurn DEF Same
  <1>6. ASSUME NEW c \in Callers, Asked(c)
        PROVE  LockInv'
    <2>1. PICK fr \in SoundCall, succ \in SoundRecord, allow \in BOOLEAN, after \in Afters :
            /\ Asks(c, fr, succ, allow, after)
            /\ CommitSuccessor(c, fr, Held(fr), succ, allow, after)
      BY <1>6 DEF Asked
    <2>2. PICK f \in SoundCall :
            /\ call' = [call EXCEPT ![c] = f] /\ Same(f, call[c])
            /\ f.pc = after \/ (f.pc = "commit" /\ f.after = after)
      BY <2>1, AskedFrame
    <2>3. Turn(c, f) /\ locks' = locks
      BY <1>6, <2>2, TurnBy DEF Asked
    <2>4. after \in GuardedAt => Holds(c, Op(c))
      <3>1. CASE AsksUnderLock(c, fr, succ, allow, after)
        BY <3>1 DEF AsksUnderLock
      <3>2. CASE AsksInLease(c, fr, succ, allow, after)
                 \/ AsksAfterStop(c, fr, succ, allow, after)
        BY <3>2 DEF AsksInLease, AsksAfterStop, LockInv, Guarded, GuardedAt
      <3>3. CASE AsksInHand(c, fr, succ, allow, after)
        BY <3>3 DEF AsksInHand, AfterVerify, GuardedAt, Op
      <3> QED BY <2>1, <3>1, <3>2, <3>3 DEF Asks
    <2>5. Guarded(f) => Holds(c, Op(c))
      BY <2>2, <2>4 DEF Guarded, Afters, GuardedAt
    <2> QED BY <2>2, <2>3, <2>5, LockTurn DEF Same
  <1>7. CASE Crash
    BY <1>7, IdleUnguarded DEF Crash, LockInv
  <1>8. CASE UNCHANGED vars
    BY <1>8 DEF vars, LockInv, Holds, Op
  <1> QED BY <1>1, <1>2, <1>3, <1>4, <1>5, <1>6, <1>7, <1>8, StepCases DEF Next

LEMMA LockHolds == Spec => []LockInv
  <1>1. Init => LockInv
    BY IdleUnguarded DEF Init, LockInv
  <1>2. IInv /\ LockInv /\ [Next]_vars => LockInv'
    BY LockStep
  <1> QED BY <1>1, <1>2, InvariantHolds, PTL DEF Spec

-------------------------------------------------------------------------------
(***************************************************************************)
(* Properties of single records.  A set R of records that holds the first  *)
(* records and every successor a handler is let through to commit holds    *)
(* every record the journal, the map, a call or a read in progress has.    *)
(***************************************************************************)
Records(R) ==
    /\ \A o \in Ops : durable[o] \in R
    /\ \A o \in Ops : \A n \in 1 .. Len(cells[o]) : cells[o][n] \in R
    /\ \A c \in Callers : call[c].succ \in R /\ \A o \in Ops : call[c].view[o] \in R

LEMMA PublishedRecords ==
  ASSUME IInv, NEW R, NEW c \in Callers, NEW o \in Ops,
         \A n \in 1 .. Len(cells[o]) : cells[o][n] \in R,
         NEW r \in SoundRecord, r \in R
  PROVE  \A n \in 1 .. Len(Published(c, o, r)) : Published(c, o, r)[n] \in R
  <1>1. cells[o] \in Seq(SoundRecord)
    BY DEF IInv
  <1>2. CASE Referenced(o, c)
    <2>1. Published(c, o, r) = Append(cells[o], r)
      BY <1>2 DEF Published
    <2>2. SUFFICES ASSUME NEW n \in 1 .. Len(cells[o]) + 1
                   PROVE  Append(cells[o], r)[n] \in R
      BY <1>1, <2>1, AppendProperties
    <2>3. CASE n = Len(cells[o]) + 1
      BY <1>1, <2>3, AppendProperties
    <2>4. CASE n # Len(cells[o]) + 1
      <3>1. n \in 1 .. Len(cells[o])
        BY <1>1, <2>4
      <3>2. Append(cells[o], r)[n] = cells[o][n]
        BY <1>1, <3>1, AppendProperties
      <3> QED BY <3>1, <3>2
    <2> QED BY <2>3, <2>4
  <1>3. CASE ~Referenced(o, c)
    BY <1>3 DEF Published
  <1> QED BY <1>2, <1>3

\* A step of c that neither commits nor publishes.
LEMMA RecordTurn ==
  ASSUME IInv, NEW R, Records(R), NEW c \in Callers, NEW f, Turn(c, f),
         UNCHANGED <<durable, cells>>, f.succ \in R, \A o \in Ops : f.view[o] \in R
  PROVE  Records(R)'
  BY DEF Turn, Records

\* A commit: the successor of c becomes the newest record of its operation.
LEMMA RecordCommit ==
  ASSUME IInv, NEW R, Records(R), NEW c \in Callers, NoControl \in R,
         Commit(c) \/ CommitUnacknowledged(c)
  PROVE  Records(R)'
  <1> DEFINE o    == Op(c)
             succ == call[c].succ
  <1>0. /\ call[c].pc = "commit" /\ call[c] \in SoundCall /\ FrameOK(call[c], cells)
        /\ call[c].intent \in Intents /\ o \in Ops /\ succ \in SoundRecord /\ succ \in R
        /\ cells[o] \in Seq(SoundRecord)
        /\ durable' = [durable EXCEPT ![o] = succ]
    <2>1. /\ call[c].pc = "commit" /\ durable' = [durable EXCEPT ![o] = succ]
      BY DEF Commit, CommitUnacknowledged, Op
    <2> QED BY <2>1, CallFacts DEF FrameOK, SoundCall, Records, Op
  <1>1. \A p \in Ops : durable'[p] \in R
    BY <1>0 DEF IInv, Records
  <1>2. \A d \in Callers : call'[d].succ \in R /\ \A p \in Ops : call'[d].view[p] \in R
    <2>1. PICK f : /\ Turn(c, f) /\ f.succ = NoControl
                   /\ f.view = call[c].view \/ f.view = NoView
      BY CallTurns DEF Idle, Same
    <2>2. \A p \in Ops : f.view[p] \in R
      BY <2>1 DEF Records, NoView
    <2> QED BY <2>1, <2>2 DEF Turn, Records
  <1>3. \A p \in Ops : \A n \in 1 .. Len(cells'[p]) : cells'[p][n] \in R
    <2>1. CASE cells' = cells
      BY <2>1 DEF Records
    <2>2. CASE cells' = [cells EXCEPT ![o] = Published(c, o, succ)]
      BY <1>0, <2>2, PublishedRecords DEF Records, IInv
    <2>3. CASE call[c].ref # 0 /\ cells' = [cells EXCEPT ![o][call[c].ref] = succ]
      <3>1. cells' = [cells EXCEPT ![o] = [cells[o] EXCEPT ![call[c].ref] = succ]]
        BY <2>3
      <3>2. call[c].ref \in 1 .. Len(cells[o]) /\ Len(cells[o]) \in Nat
        BY <1>0, <2>3 DEF FrameOK, SoundCall, Op
      <3>3. /\ Len([cells[o] EXCEPT ![call[c].ref] = succ]) = Len(cells[o])
            /\ \A n \in 1 .. Len(cells[o]) :
                 [cells[o] EXCEPT ![call[c].ref] = succ][n]
                   = IF n = call[c].ref THEN succ ELSE cells[o][n]
        BY <1>0, <3>2, ExceptSeq
      <3>4. \A p \in Ops : cells'[p] = IF p = o THEN [cells[o] EXCEPT ![call[c].ref] = succ]
                                       ELSE cells[p]
        BY <1>0, <3>1 DEF IInv
      <3> QED BY <1>0, <3>3, <3>4 DEF Records
    <2>4. \/ cells' = cells
          \/ cells' = [cells EXCEPT ![o] = Published(c, o, succ)]
          \/ call[c].ref # 0 /\ cells' = [cells EXCEPT ![o][call[c].ref] = succ]
      BY DEF Commit, CommitUnacknowledged, Op
    <2> QED BY <2>1, <2>2, <2>3, <2>4
  <1> QED BY <1>1, <1>2, <1>3 DEF Records

LEMMA RecordHydrate ==
  ASSUME IInv, NEW R, Records(R), NEW c \in Callers, NoControl \in R, Hydrate(c)
  PROVE  Records(R)'
  <1>1. /\ cells' = [o \in Ops |-> IF call[c].view[o].status = "none" THEN cells[o]
                                   ELSE Published(c, o, call[c].view[o])]
        /\ durable' = durable
    BY DEF Hydrate
  <1>2. \A o \in Ops : call[c].view[o] \in SoundRecord /\ call[c].view[o] \in R
    BY CallFacts DEF SoundCall, Records
  <1>3. \A o \in Ops : \A n \in 1 .. Len(cells'[o]) : cells'[o][n] \in R
    BY <1>1, <1>2, PublishedRecords DEF Records
  <1>4. Turn(c, Idle)
    BY CallTurns
  <1>5. Idle.succ \in R /\ \A o \in Ops : Idle.view[o] \in R
    BY DEF Idle, NoView
  <1> QED BY <1>1, <1>3, <1>4, <1>5 DEF Turn, Records

LEMMA RecordsStep ==
  ASSUME IInv, NEW R, Records(R), NoControl \in R, \A i \in Intents : Accepted(i) \in R,
         \A c \in Callers, fr \in SoundCall, succ \in SoundRecord, allow \in BOOLEAN,
            after \in Afters :
              /\ Asks(c, fr, succ, allow, after)
              /\ Held(fr) \in R
              /\ ~Fenced(Held(fr), succ.status, allow)
              => succ \in R,
         [Next]_vars
  PROVE  Records(R)'
  <1>0. \A o \in Ops : NoView[o] \in R
    BY DEF NoView
  <1>1. ASSUME NEW c \in Callers,
               \/ \E i \in Intents : Submit(c, i)
               \/ \E i \in Intents, kind \in LockedKinds : StartLocked(c, kind, i)
               \/ ReadControl(c)
        PROVE  Records(R)'
    <2>1. PICK f : Turn(c, f) /\ f.succ = NoControl /\ (f.view = NoView \/ f.view = durable)
      BY <1>1, StartTurns
    <2>2. UNCHANGED <<durable, cells>>
      BY <1>1 DEF Submit, StartLocked, ReadControl
    <2> QED BY <1>0, <2>1, <2>2, RecordTurn DEF Records
  <1>2. ASSUME NEW c \in Callers, AdmitGranted(c)
        PROVE  Records(R)'
    <2>1. PICK f : Turn(c, f) /\ Same(f, call[c]) /\ f.succ = Accepted(call[c].intent)
      BY <1>2, CallTurns
    <2>2. call[c].intent \in Intents /\ UNCHANGED <<durable, cells>>
      BY <1>2, CallFacts DEF AdmitGranted, FrameOK
    <2>3. f.succ \in R /\ \A o \in Ops : f.view[o] \in R
      BY <2>1, <2>2 DEF Same, Records
    <2> QED BY <2>1, <2>2, <2>3, RecordTurn
  <1>3. ASSUME NEW c \in Callers, Quits(c)
        PROVE  Records(R)'
    <2>1. Turn(c, Idle) /\ UNCHANGED <<durable, cells>>
      BY <1>3, CallTurns DEF Quits
    <2>2. Idle.succ \in R /\ \A o \in Ops : Idle.view[o] \in R
      BY <1>0 DEF Idle
    <2> QED BY <2>1, <2>2, RecordTurn
  <1>4. ASSUME NEW c \in Callers,
               Invokes(c) \/ Relock(c) \/ ExecutorEffect(c) \/ ExecutorStops(c)
        PROVE  Records(R)'
    <2>1. PICK f : Turn(c, f) /\ f.succ = call[c].succ /\ f.view = call[c].view
      BY <1>4, CallTurns, CallFacts DEF Alike, Same, SoundCall
    <2>2. UNCHANGED <<durable, cells>>
      BY <1>4 DEF Invokes, Relock, ExecutorEffect, ExecutorStops
    <2> QED BY <2>1, <2>2, RecordTurn DEF Records
  <1>5. ASSUME NEW c \in Callers, Moves(c)
        PROVE  Records(R)'
    <2>1. PICK f \in SoundCall : call' = [call EXCEPT ![c] = f] /\ f.view = call[c].view
                                 /\ f.succ = call[c].succ
      BY <1>5 DEF Moves, Same
    <2>2. Turn(c, f) /\ UNCHANGED <<durable, cells>>
      BY <1>5, <2>1, TurnBy DEF Moves
    <2> QED BY <2>1, <2>2, RecordTurn DEF Records
  <1>6. ASSUME NEW c \in Callers, Asked(c)
        PROVE  Records(R)'
    <2>1. PICK fr \in SoundCall, succ \in SoundRecord, allow \in BOOLEAN, after \in Afters :
            /\ Asks(c, fr, succ, allow, after)
            /\ CommitSuccessor(c, fr, Held(fr), succ, allow, after)
      BY <1>6 DEF Asked
    <2>2. Held(fr) \in R
      <3>1. GoodFrame(fr) /\ fr.intent.op \in Ops
        BY <2>1, FrameHolds DEF Asks
      <3> QED BY <3>1 DEF GoodFrame, Held, Records
    <2>3. PICK f \in SoundCall :
            /\ call' = [call EXCEPT ![c] = f] /\ Same(f, call[c])
            /\ \/ f.succ = NoControl
               \/ ~Fenced(Held(fr), succ.status, allow) /\ f.succ = succ
      BY <2>1, AskedFrame
    <2>4. Turn(c, f) /\ UNCHANGED <<durable, cells>>
      BY <1>6, <2>3, TurnBy DEF Asked
    <2>5. f.succ \in R
      BY <2>1, <2>2, <2>3
    <2> QED BY <2>3, <2>4, <2>5, RecordTurn DEF Same, Records
  <1>7. CASE Crash
    BY <1>0, <1>7 DEF Crash, Records, Idle
  <1>8. CASE UNCHANGED vars
    BY <1>8 DEF vars, Records
  <1> QED BY <1>1, <1>2, <1>3, <1>4, <1>5, <1>6, <1>7, <1>8, StepCases, RecordCommit,
             RecordHydrate DEF Next

LEMMA RecordsInit ==
  ASSUME NEW R, NoControl \in R, Init
  PROVE  Records(R)
  BY DEF Init, Records, Idle, NoView

\* An operation that may still run is not invalidated: only a stop settlement
\* invalidates, and the fence lets no call bring an invalidated record back.
FreshRecord ==
    {r \in SoundRecord :
       r.status \in {"accepted", "queued", "leased", "running"} => ~r.invalidated}

LEMMA FreshHolds == Spec => []Records(FreshRecord)
  <1>1. NoControl \in FreshRecord /\ \A i \in Intents : Accepted(i) \in FreshRecord
    BY NoControlSound, AcceptedSound DEF FreshRecord, NoControl, Accepted
  <1>2. ASSUME IInv, NEW c \in Callers, NEW fr \in SoundCall, NEW succ \in SoundRecord,
               NEW allow \in BOOLEAN, NEW after \in Afters,
               Asks(c, fr, succ, allow, after), Held(fr) \in FreshRecord,
               ~Fenced(Held(fr), succ.status, allow)
        PROVE  succ \in FreshRecord
    <2> DEFINE r == Held(fr)
    <2>0. r \in SoundRecord
      BY <1>2 DEF FreshRecord
    <2> HIDE DEF r
    <2>1. CASE allow = FALSE
      <3>1. ~r.invalidated
        BY <1>2, <2>1 DEF Fenced, r
      <3> USE <2>0, <3>1 DEF SoundRecord, OperationControlRecord
      <3>2. CASE AsksUnderLock(c, fr, succ, allow, after)
        <4>1. succ.invalidated = r.invalidated
          BY <3>2 DEF AsksUnderLock, r, Queued, ResumeQueued, ResumeVerifying,
             CancelRequested, ReconcileRecovered, ReconcileCancelled, ReconcileFailed
        <4> QED BY <3>1, <4>1 DEF FreshRecord
      <3>3. CASE AsksInLease(c, fr, succ, allow, after)
        <4>1. succ.invalidated = r.invalidated
          BY <3>3 DEF AsksInLease, r, Leased, PermissionDenied, Running
        <4> QED BY <3>1, <4>1 DEF FreshRecord
      <3>4. CASE AsksInHand(c, fr, succ, allow, after)
        <4>1. succ.invalidated = r.invalidated
          BY <3>4 DEF AsksInHand, r, HandFailed, HandVerifying, HandBlocked,
             HandReconcile, HandSucceeded
        <4> QED BY <3>1, <4>1 DEF FreshRecord
      <3> QED BY <1>2, <2>1, <3>2, <3>3, <3>4 DEF Asks, AsksAfterStop
    <2>2. CASE allow = TRUE
      <3>1. succ.status \in {"blocked", "cancelled", "failed", "reconcile_required"}
        <4>1. CASE AsksUnderLock(c, fr, succ, allow, after)
          BY <2>0, <2>2, <4>1 DEF AsksUnderLock, ReconcileRecovered, ReconcileCancelled,
             ReconcileFailed, SoundRecord, OperationControlRecord, r
        <4>2. CASE AsksAfterStop(c, fr, succ, allow, after)
          BY <2>0, <4>2 DEF AsksAfterStop, CancelSettled, PlanOperationCancellation,
             SoundRecord, OperationControlRecord, r
        <4> QED BY <1>2, <2>2, <4>1, <4>2 DEF Asks, AsksInLease, AsksInHand
      <3> QED BY <3>1 DEF FreshRecord
    <2> QED BY <2>1, <2>2
  <1>3. Init => Records(FreshRecord)
    BY <1>1, RecordsInit
  <1>4. IInv /\ Records(FreshRecord) /\ [Next]_vars => Records(FreshRecord)'
    BY <1>1, <1>2, RecordsStep
  <1> QED BY <1>3, <1>4, InvariantHolds, PTL DEF Spec

-------------------------------------------------------------------------------
(***************************************************************************)
(* Every record that blocks or waits for a reconcile carries what the      *)
(* executor was observed to do, unless a stop settlement put it there and  *)
(* invalidated it; and the lease of a record has its epoch.                *)
(***************************************************************************)
RecoverableRecord ==
    {r \in SoundRecord :
       /\ r.lease.state # "absent" => r.lease.epoch = r.epoch
       /\ r.status \in {"blocked", "reconcile_required"} /\ ~r.invalidated
            => r.observation # NoObservation}

\* A call about to verify has an observation to verify.
Observes(f) ==
    f.pc = "verify" \/ (f.pc = "commit" /\ f.after = "verify") => f.obs # NoObservation

RecoverInv == Records(RecoverableRecord) /\ \A c \in Callers : Observes(call[c])

\* The executor reports an effect, if only as possible.
LEMMA ReportedObservation ==
  ASSUME NEW c, NEW obs, obs.effect \in ReportedEffects(c)
  PROVE  obs # NoObservation
  BY DEF ReportedEffects, NoObservation

\* A step that leaves its call in a frame that observes.
LEMMA ObservesTurn ==
  ASSUME RecoverInv, NEW c \in Callers, NEW f, Turn(c, f), Observes(f)
  PROVE  \A d \in Callers : Observes(call'[d])
  BY DEF Turn, RecoverInv

LEMMA ObservesStep ==
  ASSUME IInv, RecoverInv, [Next]_vars
  PROVE  \A d \in Callers : Observes(call'[d])
  <1>0. Observes(Idle)
    BY DEF Observes, Idle
  <1>1. ASSUME NEW c \in Callers,
               \/ \E i \in Intents : Submit(c, i)
               \/ \E i \in Intents, kind \in LockedKinds : StartLocked(c, kind, i)
               \/ ReadControl(c)
        PROVE  \A d \in Callers : Observes(call'[d])
    <2>1. PICK f : Turn(c, f) /\ f.pc \in {"accept", "lock", "hydrate"}
      BY <1>1, StartTurns
    <2> QED BY <2>1, ObservesTurn DEF Observes
  <1>2. ASSUME NEW c \in Callers, Quits(c) \/ CommitUnacknowledged(c) \/ Hydrate(c)
        PROVE  \A d \in Callers : Observes(call'[d])
    BY <1>0, <1>2, CallTurns, ObservesTurn
  <1>3. ASSUME NEW c \in Callers,
               \/ AdmitGranted(c) \/ Invokes(c) \/ Relock(c)
               \/ ExecutorEffect(c) \/ ExecutorStops(c)
        PROVE  \A d \in Callers : Observes(call'[d])
    <2>1. PICK f : /\ Turn(c, f)
                   /\ f.pc # "verify" /\ ~(f.pc = "commit" /\ f.after = "verify")
      BY <1>3, CallTurns, CallFacts DEF SoundCall
    <2> QED BY <2>1, ObservesTurn DEF Observes
  <1>4. ASSUME NEW c \in Callers, Commit(c)
        PROVE  \A d \in Callers : Observes(call'[d])
    <2>1. PICK f : Turn(c, f) /\ f.pc = call[c].after /\ f.obs = call[c].obs
      BY <1>4, CallTurns
    <2>2. call[c].pc = "commit" /\ call[c].after # "commit"
      BY <1>4, CallFacts DEF Commit, FrameOK, Handling, Holding
    <2> QED BY <2>1, <2>2, ObservesTurn DEF Observes, RecoverInv
  <1>5. ASSUME NEW c \in Callers, Moves(c)
        PROVE  \A d \in Callers : Observes(call'[d])
    <2>1. PICK f \in SoundCall :
            call' = [call EXCEPT ![c] = f] /\ f.pc \in {"queued", "lease", "stop"}
      BY <1>5 DEF Moves
    <2> QED BY <2>1, TurnBy, ObservesTurn DEF Observes
  <1>6. ASSUME NEW c \in Callers, Asked(c)
        PROVE  \A d \in Callers : Observes(call'[d])
    <2>1. PICK fr \in SoundCall, succ \in SoundRecord, allow \in BOOLEAN, after \in Afters :
            /\ Asks(c, fr, succ, allow, after)
            /\ CommitSuccessor(c, fr, Held(fr), succ, allow, after)
      BY <1>6 DEF Asked
    <2>2. PICK f \in SoundCall :
            /\ call' = [call EXCEPT ![c] = f] /\ f.obs = fr.obs
            /\ f.pc = after \/ (f.pc = "commit" /\ f.after = after)
      BY <2>1, AskedFrame
    <2>3. after = "verify" => fr.obs # NoObservation
      BY <2>1, ReportedObservation
      DEF Asks, AsksUnderLock, AsksInLease, AsksInHand, AsksAfterStop, AfterVerify
    <2> QED BY <2>2, <2>3, TurnBy, ObservesTurn DEF Observes, Afters
  <1>7. CASE Crash
    BY <1>0, <1>7 DEF Crash
  <1>8. CASE UNCHANGED vars
    BY <1>8 DEF vars, RecoverInv
  <1> QED BY <1>1, <1>2, <1>3, <1>4, <1>5, <1>6, <1>7, <1>8, StepCases DEF Next

\* The lease of a successor still has the epoch of its record.
LEMMA LeaseKept ==
  ASSUME NEW r \in SoundRecord, r.lease.state # "absent" => r.lease.epoch = r.epoch
  PROVE  LET lease == ReleaseLease(r.lease) IN lease.state # "absent" => lease.epoch = r.epoch
  BY DEF ReleaseLease, SoundRecord, OperationControlRecord, Lease

LEMMA RecoverableLease ==
  ASSUME IInv, NEW c \in Callers, NEW fr \in SoundCall,
         NEW succ \in SoundRecord, NEW allow \in BOOLEAN, NEW after \in Afters,
         Asks(c, fr, succ, allow, after), Held(fr) \in RecoverableRecord
  PROVE  succ.lease.state # "absent" => succ.lease.epoch = succ.epoch
  <1> DEFINE r == Held(fr)
  <1>0. r \in SoundRecord /\ (r.lease.state # "absent" => r.lease.epoch = r.epoch)
    BY DEF RecoverableRecord
  <1> HIDE DEF r
  <1>1. LET lease == ReleaseLease(r.lease) IN lease.state # "absent" => lease.epoch = r.epoch
    BY <1>0, LeaseKept
  <1> USE DEF SoundRecord, OperationControlRecord
  <1>2. CASE /\ succ.lease = r.lease \/ succ.lease = ReleaseLease(r.lease)
             /\ succ.epoch = r.epoch
    BY <1>0, <1>1, <1>2
  <1>3. CASE succ = Leased(r)
    BY <1>0, <1>3 DEF Leased
  <1>4. \/ succ = Leased(r)
        \/ /\ succ.lease = r.lease \/ succ.lease = ReleaseLease(r.lease)
           /\ succ.epoch = r.epoch
    <2>1. CASE AsksUnderLock(c, fr, succ, allow, after)
      BY <1>0, <2>1 DEF AsksUnderLock, r, Queued, ResumeQueued, ResumeVerifying,
         CancelRequested, ReconcileRecovered, ReconcileCancelled, ReconcileFailed
    <2>2. CASE AsksInLease(c, fr, succ, allow, after)
      BY <1>0, <2>2 DEF AsksInLease, r, PermissionDenied, Running
    <2>3. CASE AsksInHand(c, fr, succ, allow, after)
      BY <1>0, <2>3 DEF AsksInHand, r, HandFailed, HandVerifying, HandBlocked,
         HandReconcile, HandSucceeded
    <2>4. CASE AsksAfterStop(c, fr, succ, allow, after)
      BY <1>0, <2>4 DEF AsksAfterStop, r, CancelSettled
    <2> QED BY <2>1, <2>2, <2>3, <2>4 DEF Asks
  <1> QED BY <1>2, <1>3, <1>4

LEMMA RecoverableSuccessor ==
  ASSUME IInv, RecoverInv, NEW c \in Callers, NEW fr \in SoundCall,
         NEW succ \in SoundRecord, NEW allow \in BOOLEAN, NEW after \in Afters,
         Asks(c, fr, succ, allow, after), Held(fr) \in RecoverableRecord,
         ~Fenced(Held(fr), succ.status, allow)
  PROVE  succ \in RecoverableRecord
  <1> DEFINE r == Held(fr)
  <1>0. /\ r \in SoundRecord /\ Observes(call[c])
        /\ r.status \in {"blocked", "reconcile_required"} /\ ~r.invalidated
             => r.observation # NoObservation
        /\ allow = FALSE => ~r.invalidated
    BY DEF RecoverableRecord, RecoverInv, Fenced
  <1>l. succ.lease.state # "absent" => succ.lease.epoch = succ.epoch
    BY RecoverableLease
  <1>s. SUFFICES (succ.status \in {"blocked", "reconcile_required"} /\ ~succ.invalidated)
                   => succ.observation # NoObservation
    BY <1>l DEF RecoverableRecord
  <1> HIDE DEF r
  <1> USE DEF SoundRecord, OperationControlRecord
  <1>1. CASE AsksUnderLock(c, fr, succ, allow, after)
    BY <1>0, <1>1 DEF AsksUnderLock, r, Queued, ResumeQueued, CancelRequested,
       ResumeVerifying, ReconcileRecovered, ReconcileCancelled, ReconcileFailed
  <1>2. CASE AsksInLease(c, fr, succ, allow, after)
    BY <1>0, <1>2 DEF AsksInLease, r, Leased, PermissionDenied, Running
  <1>3. CASE AsksInHand(c, fr, succ, allow, after)
    <2>1. CASE call[c].pc = "verify"
      BY <1>0, <1>3, <2>1 DEF AsksInHand, r, Observes, HandFailed, HandBlocked, HandSucceeded
    <2>2. CASE call[c].pc # "verify"
      <3>1. \/ succ = HandVerifying(r)
            \/ \E obs \in Observation : succ = HandFailed(r, obs)
            \/ \E obs \in Observation : \E after2, effect2 :
                 /\ obs # NoObservation
                 /\ succ = HandBlocked(r, obs, after2, effect2) \/ succ = HandReconcile(r, obs)
        <4>1. NoObservation \in Observation
          BY DEF NoObservation, Observation
        <4> QED BY <1>3, <2>2, <4>1, ReportedObservation DEF AsksInHand, r
      <3>2. CASE succ = HandVerifying(r)
        BY <1>0, <3>2 DEF HandVerifying
      <3>3. CASE \E obs \in Observation : succ = HandFailed(r, obs)
        BY <1>0, <3>3 DEF HandFailed
      <3>4. ASSUME NEW obs \in Observation, NEW after2, NEW effect2, obs # NoObservation,
                   succ = HandBlocked(r, obs, after2, effect2) \/ succ = HandReconcile(r, obs)
            PROVE  succ.observation # NoObservation
        BY <1>0, <3>4 DEF HandBlocked, HandReconcile
      <3> QED BY <3>1, <3>2, <3>3, <3>4
    <2> QED BY <2>1, <2>2
  <1>4. CASE AsksAfterStop(c, fr, succ, allow, after)
    BY <1>0, <1>4 DEF AsksAfterStop, r, CancelSettled
  <1> QED BY <1>1, <1>2, <1>3, <1>4 DEF Asks

\* Whatever is called, and whatever the journal and the process suffer, a
\* blocked operation whose execution no stop has invalidated has an observation
\* to verify and a lease of its own epoch, so resume can always move it
\* (gateway.ts resume; hand-runtime.ts settle).
THEOREM BlockedCanResume == Spec => []BlockedIsResumable
  <1>0. NoControl \in RecoverableRecord /\ \A i \in Intents : Accepted(i) \in RecoverableRecord
    BY NoControlSound, AcceptedSound DEF RecoverableRecord, NoControl, Accepted, NoLease
  <1>1. Init => RecoverInv
    <2>1. Init => \A c \in Callers : Observes(call[c])
      BY DEF Init, Observes, Idle
    <2> QED BY <1>0, <2>1, RecordsInit DEF RecoverInv
  <1>2. IInv /\ RecoverInv /\ [Next]_vars => RecoverInv'
    <2> SUFFICES ASSUME IInv, RecoverInv, [Next]_vars PROVE RecoverInv'
      OBVIOUS
    <2>1. \A c \in Callers, fr \in SoundCall, succ \in SoundRecord, allow \in BOOLEAN,
             after \in Afters :
            /\ Asks(c, fr, succ, allow, after)
            /\ Held(fr) \in RecoverableRecord
            /\ ~Fenced(Held(fr), succ.status, allow)
            => succ \in RecoverableRecord
      BY RecoverableSuccessor
    <2>2. Records(RecoverableRecord)'
      BY <1>0, <2>1, RecordsStep DEF RecoverInv
    <2> QED BY <2>2, ObservesStep DEF RecoverInv
  <1>3. RecoverInv => BlockedIsResumable
    BY DEF RecoverInv, Records, RecoverableRecord, BlockedIsResumable
  <1> QED BY <1>1, <1>2, <1>3, InvariantHolds, PTL DEF Spec

-------------------------------------------------------------------------------
(***************************************************************************)
(* Without requestCancel nothing is ever cancelling or invalidated.        *)
(***************************************************************************)
StandingRecord == {r \in SoundRecord : r.status # "cancel_requested" /\ ~r.invalidated}

Stands(f) == f.kind # "requestCancel" /\ f.pc # "stop"

StandInv == Records(StandingRecord) /\ \A c \in Callers : Stands(call[c])

LEMMA StandsTurn ==
  ASSUME StandInv, NEW c \in Callers, NEW f, Turn(c, f), Stands(f)
  PROVE  \A d \in Callers : Stands(call'[d])
  BY DEF Turn, StandInv

LEMMA StandsStep ==
  ASSUME "requestCancel" \notin Calls, IInv, StandInv, [Next]_vars
  PROVE  \A d \in Callers : Stands(call'[d])
  <1>0. Stands(Idle)
    BY DEF Stands, Idle
  <1>1. ASSUME NEW c \in Callers,
               \/ \E i \in Intents : Submit(c, i)
               \/ \E i \in Intents, kind \in LockedKinds : StartLocked(c, kind, i)
               \/ ReadControl(c)
        PROVE  \A d \in Callers : Stands(call'[d])
    <2>1. CASE \E i \in Intents : Submit(c, i)
      BY <2>1, StartTurns, StandsTurn DEF Stands
    <2>2. ASSUME NEW i \in Intents, NEW kind \in LockedKinds, StartLocked(c, kind, i)
          PROVE  \A d \in Callers : Stands(call'[d])
      <3>1. PICK f : Turn(c, f) /\ f.kind = kind /\ f.pc = "lock"
        BY <2>2, StartTurns
      <3>2. kind # "requestCancel"
        BY <2>2 DEF StartLocked
      <3> QED BY <3>1, <3>2, StandsTurn DEF Stands
    <2>3. CASE ReadControl(c)
      BY <2>3, StartTurns, StandsTurn DEF Stands
    <2> QED BY <1>1, <2>1, <2>2, <2>3
  <1>2. ASSUME NEW c \in Callers, Quits(c) \/ CommitUnacknowledged(c) \/ Hydrate(c)
        PROVE  \A d \in Callers : Stands(call'[d])
    BY <1>0, <1>2, CallTurns, StandsTurn
  <1>3. ASSUME NEW c \in Callers,
               \/ AdmitGranted(c) \/ Invokes(c) \/ Relock(c)
               \/ ExecutorEffect(c) \/ ExecutorStops(c)
        PROVE  \A d \in Callers : Stands(call'[d])
    <2>1. Stands(call[c]) /\ call[c] \in SoundCall
      BY CallFacts DEF StandInv
    <2>2. PICK f : Turn(c, f) /\ f.kind = call[c].kind /\ f.pc # "stop"
      BY <1>3, <2>1, CallTurns DEF Alike, Same, SoundCall
    <2> QED BY <2>1, <2>2, StandsTurn DEF Stands
  <1>4. ASSUME NEW c \in Callers, Commit(c)
        PROVE  \A d \in Callers : Stands(call'[d])
    <2>1. PICK f : Turn(c, f) /\ Same(f, call[c]) /\ f.pc = call[c].after
      BY <1>4, CallTurns
    <2>2. call[c].pc = "commit" /\ call[c].after # "stop"
      BY <1>4, CallFacts DEF Commit, FrameOK, Handling, Holding
    <2> QED BY <2>1, <2>2, StandsTurn DEF Stands, Same, StandInv
  <1>5. ASSUME NEW c \in Callers, Moves(c)
        PROVE  \A d \in Callers : Stands(call'[d])
    <2>0. call[c].pc = "lock" => call[c].intent \in Intents /\ Op(c) \in Ops
      BY CallFacts, IntentOp DEF FrameOK, Op
    <2>1. PICK f \in SoundCall :
            /\ call' = [call EXCEPT ![c] = f] /\ Same(f, call[c]) /\ FrameOK(f, cells)
            /\ \/ f.pc \in {"queued", "lease"}
               \/ call[c].pc = "lock" /\ f.pc = "stop" /\ Current(Op(c)).status = "cancel_requested"
      BY <1>5 DEF Moves
    <2>2. f.pc # "stop"
      <3> SUFFICES ASSUME f.pc = "stop" PROVE FALSE
        OBVIOUS
      <3>1. cells[Op(c)] # <<>> /\ cells[Op(c)] \in Seq(SoundRecord)
        BY <2>0, <2>1 DEF FrameOK, Handling, Holding, Same, Op, IInv
      <3>2. Current(Op(c)) \in StandingRecord
        BY <2>0, <2>1, <3>1 DEF StandInv, Records, Current
      <3> QED BY <2>1, <3>2 DEF StandingRecord
    <2> QED BY <2>1, <2>2, TurnBy, StandsTurn DEF Stands, Same, StandInv
  <1>6. ASSUME NEW c \in Callers, Asked(c)
        PROVE  \A d \in Callers : Stands(call'[d])
    <2>1. PICK fr \in SoundCall, succ \in SoundRecord, allow \in BOOLEAN, after \in Afters :
            /\ Asks(c, fr, succ, allow, after)
            /\ CommitSuccessor(c, fr, Held(fr), succ, allow, after)
      BY <1>6 DEF Asked
    <2>2. PICK f \in SoundCall :
            call' = [call EXCEPT ![c] = f] /\ Same(f, call[c]) /\ f.pc \in {after, "commit"}
      BY <2>1, AskedFrame
    <2> QED BY <2>2, TurnBy, StandsTurn DEF Stands, Same, StandInv, Afters
  <1>7. CASE Crash
    BY <1>0, <1>7 DEF Crash
  <1>8. CASE UNCHANGED vars
    BY <1>8 DEF vars, StandInv
  <1> QED BY <1>1, <1>2, <1>3, <1>4, <1>5, <1>6, <1>7, <1>8, StepCases DEF Next

LEMMA StandingSuccessor ==
  ASSUME StandInv, NEW c \in Callers, NEW fr \in SoundCall,
         NEW succ \in SoundRecord, NEW allow \in BOOLEAN, NEW after \in Afters,
         Asks(c, fr, succ, allow, after), Held(fr) \in StandingRecord
  PROVE  succ \in StandingRecord
  <1> DEFINE r == Held(fr)
  <1>0. r \in SoundRecord /\ r \in StandingRecord /\ Stands(call[c])
    BY DEF StandingRecord, StandInv
  <1> HIDE DEF r
  <1> USE DEF SoundRecord, OperationControlRecord
  <1>1. CASE AsksUnderLock(c, fr, succ, allow, after)
    BY <1>0, <1>1 DEF AsksUnderLock, r, Stands, StandingRecord, Queued, ResumeQueued,
       ResumeVerifying, ReconcileRecovered, ReconcileCancelled, ReconcileFailed
  <1>2. CASE AsksInLease(c, fr, succ, allow, after)
    BY <1>0, <1>2 DEF AsksInLease, r, StandingRecord, Leased, PermissionDenied, Running
  <1>3. CASE AsksInHand(c, fr, succ, allow, after)
    <2>1. succ.invalidated = r.invalidated /\ succ.status # "cancel_requested"
      BY <1>0, <1>3 DEF AsksInHand, r, HandFailed, HandVerifying, HandBlocked,
         HandReconcile, HandSucceeded
    <2> QED BY <1>0, <2>1 DEF StandingRecord
  <1>4. CASE AsksAfterStop(c, fr, succ, allow, after)
    BY <1>0, <1>4 DEF AsksAfterStop, Stands
  <1> QED BY <1>1, <1>2, <1>3, <1>4 DEF Asks

LEMMA StandsHold ==
  ASSUME "requestCancel" \notin Calls
  PROVE  Spec => []StandInv
  <1>1. NoControl \in StandingRecord /\ \A i \in Intents : Accepted(i) \in StandingRecord
    BY NoControlSound, AcceptedSound DEF StandingRecord, NoControl, Accepted
  <1>2. Init => StandInv
    <2>1. Init => \A c \in Callers : Stands(call[c])
      BY DEF Init, Stands, Idle
    <2> QED BY <1>1, <2>1, RecordsInit DEF StandInv
  <1>3. IInv /\ StandInv /\ [Next]_vars => StandInv'
    <2> SUFFICES ASSUME IInv, StandInv, [Next]_vars PROVE StandInv'
      OBVIOUS
    <2>1. Records(StandingRecord)'
      <3>1. \A c \in Callers, fr \in SoundCall, succ \in SoundRecord, allow \in BOOLEAN,
               after \in Afters :
              /\ Asks(c, fr, succ, allow, after)
              /\ Held(fr) \in StandingRecord
              /\ ~Fenced(Held(fr), succ.status, allow)
              => succ \in StandingRecord
        BY StandingSuccessor
      <3> QED BY <1>1, <3>1, RecordsStep DEF StandInv
    <2> QED BY <2>1, StandsStep DEF StandInv
  <1> QED BY <1>2, <1>3, InvariantHolds, PTL DEF Spec

-------------------------------------------------------------------------------
(***************************************************************************)
(* Which entry point a call is in where, and which calls exclude one       *)
(* another: the acceptances of one key, the executions of one operation.   *)
(***************************************************************************)
\* The call awaits at a point of S, or commits to go on there.
At(f, S) == f.pc \in S \/ (f.pc = "commit" /\ f.after \in S)

Submitting == {"accept", "submitted"}

\* From the lease to the snapshot of the operation the Hand worked on.
Handing == {"queued", "lease", "leased", "prepared", "denied", "execute", "verify",
            "relock", "settled"}

CallOK(f) ==
    /\ f.kind \in Calls \cup {"none"}
    /\ f.kind = "none" <=> f.pc = "idle"
    /\ f.kind = "readControl" <=> f.pc = "hydrate"
    /\ f.kind = "submit" <=> At(f, Submitting)
    /\ f.pc = "commit" => f.succ.status # "none" /\ f.after \in Afters \cup {"submitted"}
    /\ f.pc = "commit" /\ f.after = "submitted" => f.succ = Accepted(f.intent)
    /\ At(f, Handing) => f.kind \in {"execute", "resume"}
    /\ f.pc = "stop" => f.kind = "settle"

\* Two calls that may be in progress together.
Apart(f, g) ==
    /\ f.kind = "submit" /\ g.kind = "submit" => f.intent.key # g.intent.key
    /\ f.kind = "execute" /\ g.kind = "execute" => f.intent.op # g.intent.op

CallInv ==
    /\ \A c \in Callers : CallOK(call[c])
    /\ \A c, d \in Callers : c # d => Apart(call[c], call[d])

\* A step that leaves its call in a frame of the same entry point and intent.
LEMMA CallTurn ==
  ASSUME CallInv, NEW c \in Callers, NEW f, Turn(c, f), CallOK(f),
         f.kind = "none" \/ (f.kind = call[c].kind /\ f.intent = call[c].intent)
  PROVE  CallInv'
  <1>1. \A d \in Callers : CallOK(call'[d])
    BY DEF Turn, CallInv
  <1>2. \A d, e \in Callers : d # e => Apart(call'[d], call'[e])
    BY DEF Turn, CallInv, Apart
  <1> QED BY <1>1, <1>2 DEF CallInv

LEMMA IdleCall == CallOK(Idle) /\ Idle.kind = "none"
  BY DEF CallOK, Idle, At, Submitting, Handing

LEMMA StartCalls ==
  ASSUME IInv, CallInv, NEW c \in Callers,
         \/ \E i \in Intents : Submit(c, i)
         \/ \E i \in Intents, kind \in LockedKinds : StartLocked(c, kind, i)
         \/ ReadControl(c)
  PROVE  CallInv'
  <1>1. ASSUME NEW i \in Intents, Submit(c, i) PROVE CallInv'
    <2>1. PICK f : Turn(c, f) /\ f.kind = "submit" /\ f.pc = "accept" /\ f.intent = i
      BY <1>1, StartTurns
    <2>2. CallOK(f)
      BY <1>1, <2>1 DEF Submit, CallOK, At, Submitting, Handing
    <2>3. \A d \in Callers : d # c => Apart(f, call[d]) /\ Apart(call[d], f)
      BY <1>1, <2>1 DEF Submit, KeyPending, Apart
    <2>4. \A d \in Callers : CallOK(call'[d])
      BY <2>1, <2>2 DEF Turn, CallInv
    <2>5. \A d, e \in Callers : d # e => Apart(call'[d], call'[e])
      BY <2>1, <2>3 DEF Turn, CallInv
    <2> QED BY <2>4, <2>5 DEF CallInv
  <1>2. ASSUME NEW i \in Intents, NEW kind \in LockedKinds, StartLocked(c, kind, i)
        PROVE  CallInv'
    <2>1. PICK f : Turn(c, f) /\ f.kind = kind /\ f.pc = "lock" /\ f.intent = i
      BY <1>2, StartTurns
    <2>2. CallOK(f)
      BY <1>2, <2>1 DEF StartLocked, LockedKinds, CallOK, At, Submitting, Handing
    <2>3. \A d \in Callers : call[d].kind = "execute" => call[d].intent # NoIntent
      <3>1. \A d \in Callers : call[d].kind = "execute"
              => call[d].pc # "idle" /\ call[d].pc # "hydrate"
        BY DEF CallInv, CallOK
      <3> QED BY <3>1, CallFacts, IntentsAssumption DEF FrameOK
    <2>4. \A d \in Callers : d # c => Apart(f, call[d]) /\ Apart(call[d], f)
      BY <1>2, <2>1, <2>3 DEF StartLocked, LockedKinds, Executing, CallsOn, Apart
    <2>5. \A d \in Callers : CallOK(call'[d])
      BY <2>1, <2>2 DEF Turn, CallInv
    <2>6. \A d, e \in Callers : d # e => Apart(call'[d], call'[e])
      BY <2>1, <2>4 DEF Turn, CallInv
    <2> QED BY <2>5, <2>6 DEF CallInv
  <1>3. ASSUME ReadControl(c) PROVE CallInv'
    <2>1. PICK f : Turn(c, f) /\ f.kind = "readControl" /\ f.pc = "hydrate"
      BY <1>3, StartTurns
    <2>2. CallOK(f)
      BY <1>3, <2>1 DEF ReadControl, CallOK, At, Submitting, Handing
    <2>3. \A d \in Callers : CallOK(call'[d])
      BY <2>1, <2>2 DEF Turn, CallInv
    <2>4. \A d, e \in Callers : d # e => Apart(call'[d], call'[e])
      BY <2>1 DEF Turn, CallInv, Apart
    <2> QED BY <2>3, <2>4 DEF CallInv
  <1> QED BY <1>1, <1>2, <1>3

\* Every successor asked for has a status, and is asked for by the right call.
LEMMA AskedCall ==
  ASSUME IInv, NEW c \in Callers, CallOK(call[c]), NEW fr \in SoundCall,
         NEW succ \in SoundRecord, NEW allow \in BOOLEAN, NEW after \in Afters,
         Asks(c, fr, succ, allow, after)
  PROVE  /\ succ.status # "none"
         /\ call[c].pc \in {"lock", "lease", "leased", "execute", "verify", "stop"}
         /\ after \in Handing => call[c].kind \in {"execute", "resume"}
  <1>0. Held(fr) \in SoundRecord
    BY FrameHolds DEF Asks
  <1>1. succ.status # "none"
    <2> USE <1>0 DEF SoundRecord, OperationControlRecord
    <2>1. CASE AsksUnderLock(c, fr, succ, allow, after)
      BY <2>1 DEF AsksUnderLock, Queued, ResumeQueued, ResumeVerifying, CancelRequested,
         ReconcileRecovered, ReconcileCancelled, ReconcileFailed
    <2>2. CASE AsksInLease(c, fr, succ, allow, after)
      BY <2>2 DEF AsksInLease, Leased, PermissionDenied, Running
    <2>3. CASE AsksInHand(c, fr, succ, allow, after)
      BY <2>3 DEF AsksInHand, HandFailed, HandVerifying, HandBlocked, HandReconcile,
         HandSucceeded
    <2>4. CASE AsksAfterStop(c, fr, succ, allow, after)
      BY <2>4 DEF AsksAfterStop, CancelSettled, PlanOperationCancellation
    <2> QED BY <2>1, <2>2, <2>3, <2>4 DEF Asks
  <1>2. call[c].pc \in {"lock", "lease", "leased", "execute", "verify", "stop"}
    BY DEF Asks, AsksUnderLock, AsksInLease, AsksInHand, AsksAfterStop
  <1>3. after \in Handing => call[c].kind \in {"execute", "resume"}
    <2>1. CASE AsksUnderLock(c, fr, succ, allow, after)
      BY <2>1 DEF AsksUnderLock, Handing
    <2>2. CASE AsksInLease(c, fr, succ, allow, after)
      BY <2>2 DEF AsksInLease, CallOK, At, Handing
    <2>3. CASE AsksInHand(c, fr, succ, allow, after)
      BY <2>3 DEF AsksInHand, CallOK, At, Handing
    <2>4. CASE AsksAfterStop(c, fr, succ, allow, after)
      BY <2>4 DEF AsksAfterStop, Handing
    <2> QED BY <2>1, <2>2, <2>3, <2>4 DEF Asks
  <1> QED BY <1>1, <1>2, <1>3

LEMMA CallStep ==
  ASSUME IInv, CallInv, [Next]_vars
  PROVE  CallInv'
  <1>1. ASSUME NEW c \in Callers, AdmitGranted(c) PROVE CallInv'
    <2>1. PICK f : /\ Turn(c, f) /\ Same(f, call[c])
                   /\ f.pc = "commit" /\ f.after = "submitted"
                   /\ f.succ = Accepted(call[c].intent)
      BY <1>1, CallTurns
    <2>2. CallOK(call[c]) /\ call[c].pc = "accept"
      BY <1>1 DEF AdmitGranted, CallInv
    <2>3. CallOK(f)
      BY <2>1, <2>2 DEF CallOK, At, Submitting, Handing, Same, Accepted, NoControl
    <2> QED BY <2>1, <2>3, CallTurn DEF Same
  <1>2. ASSUME NEW c \in Callers, Commit(c) PROVE CallInv'
    <2>1. PICK f : Turn(c, f) /\ Same(f, call[c]) /\ f.pc = call[c].after
      BY <1>2, CallTurns
    <2>2. CallOK(call[c]) /\ call[c].pc = "commit"
      BY <1>2 DEF Commit, CallInv
    <2>3. call[c].after = "submitted" \/ call[c].after \in Handling \ {"stop"}
      BY <2>2, CallFacts DEF FrameOK
    <2>4. CallOK(f)
      BY <2>1, <2>2, <2>3 DEF CallOK, At, Submitting, Handing, Same, Handling, Holding
    <2> QED BY <2>1, <2>4, CallTurn DEF Same
  <1>3. ASSUME NEW c \in Callers,
               Invokes(c) \/ Relock(c) \/ ExecutorEffect(c) \/ ExecutorStops(c)
        PROVE  CallInv'
    <2>0. CallOK(call[c]) /\ call[c].pc \in {"prepared", "relock", "execute"}
          /\ call[c] \in SoundCall
      BY <1>3, CallFacts DEF Invokes, Relock, ExecutorEffect, ExecutorStops, CallInv
    <2>1. PICK f : /\ Turn(c, f) /\ f.kind = call[c].kind /\ f.intent = call[c].intent
                   /\ f.pc \in {"execute", "settled"}
      BY <1>3, <2>0, CallTurns DEF Alike, Same, SoundCall
    <2>2. CallOK(f)
      BY <2>0, <2>1 DEF CallOK, At, Submitting, Handing
    <2> QED BY <2>1, <2>2, CallTurn
  <1>4. ASSUME NEW c \in Callers, Quits(c) \/ CommitUnacknowledged(c) \/ Hydrate(c)
        PROVE  CallInv'
    BY <1>4, CallTurns, IdleCall, CallTurn
  <1>5. ASSUME NEW c \in Callers, Moves(c) PROVE CallInv'
    <2>1. PICK f \in SoundCall :
            /\ call' = [call EXCEPT ![c] = f] /\ Same(f, call[c])
            /\ \/ call[c].pc = "lock" /\ call[c].kind = "execute" /\ f.pc = "queued"
               \/ call[c].pc = "queued" /\ f.pc = "lease"
               \/ call[c].pc = "lock" /\ call[c].kind = "settle" /\ f.pc = "stop"
      BY <1>5 DEF Moves
    <2>2. CallOK(f)
      <3>1. CallOK(call[c])
        BY DEF CallInv
      <3> QED BY <2>1, <3>1 DEF CallOK, At, Submitting, Handing, Same
    <2> QED BY <2>1, <2>2, TurnBy, CallTurn DEF Same
  <1>6. ASSUME NEW c \in Callers, Asked(c) PROVE CallInv'
    <2>1. PICK fr \in SoundCall, succ \in SoundRecord, allow \in BOOLEAN, after \in Afters :
            /\ Asks(c, fr, succ, allow, after)
            /\ CommitSuccessor(c, fr, Held(fr), succ, allow, after)
      BY <1>6 DEF Asked
    <2>2. PICK f \in SoundCall :
            /\ call' = [call EXCEPT ![c] = f] /\ Same(f, call[c])
            /\ f.pc = after \/ (f.pc = "commit" /\ f.after = after /\ f.succ = succ)
      BY <2>1, AskedFrame
    <2>3. CallOK(call[c])
      BY DEF CallInv
    <2>4. /\ succ.status # "none"
          /\ call[c].pc \in {"lock", "lease", "leased", "execute", "verify", "stop"}
          /\ after \in Handing => call[c].kind \in {"execute", "resume"}
      BY <2>1, <2>3, AskedCall
    <2>5. CallOK(f)
      BY <2>2, <2>3, <2>4 DEF CallOK, At, Submitting, Handing, Same, Afters
    <2> QED BY <2>2, <2>5, TurnBy, CallTurn DEF Same
  <1>7. CASE Crash
    <2>1. \A c \in Callers : call'[c] = Idle
      BY <1>7 DEF Crash
    <2> QED BY <2>1, IdleCall DEF CallInv, Apart
  <1>8. CASE UNCHANGED vars
    BY <1>8 DEF vars, CallInv
  <1> QED BY <1>1, <1>2, <1>3, <1>4, <1>5, <1>6, <1>7, <1>8, StartCalls, StepCases DEF Next

LEMMA CallsHold == Spec => []CallInv
  <1>1. Init => CallInv
    <2>1. Init => \A c \in Callers : call[c] = Idle
      BY DEF Init
    <2> QED BY <2>1, IdleCall DEF CallInv, Apart
  <1>2. IInv /\ CallInv /\ [Next]_vars => CallInv'
    BY CallStep
  <1> QED BY <1>1, <1>2, InvariantHolds, PTL DEF Spec

\* A submission in progress that is not committed yet.
Pending(f) == f.pc = "accept" \/ (f.pc = "commit" /\ f.after = "submitted")

\* The steps that change neither the journal nor the map.
LEMMA QuietSteps ==
  ASSUME IInv, CallInv, NEW c \in Callers,
         \/ Quits(c) \/ Moves(c) \/ Asked(c) \/ AdmitGranted(c)
         \/ Invokes(c) \/ Relock(c) \/ ExecutorEffect(c) \/ ExecutorStops(c)
  PROVE  /\ UNCHANGED <<durable, cells, hydrated, overtaken>>
         /\ \E f : /\ Turn(c, f) /\ f.pc # "hydrate"
                   /\ \/ f = Idle
                      \/ /\ call[c].pc # "idle"
                         /\ f.kind = call[c].kind /\ f.intent = call[c].intent
                   /\ Pending(f) => Pending(call[c])
  <1>1. UNCHANGED <<durable, cells, hydrated, overtaken>>
    BY DEF Quits, Moves, Asked, AdmitGranted, Invokes, Relock, ExecutorEffect, ExecutorStops
  <1> DEFINE Quiet(f) == /\ Turn(c, f) /\ f.pc # "hydrate"
                         /\ \/ f = Idle
                            \/ /\ call[c].pc # "idle"
                               /\ f.kind = call[c].kind /\ f.intent = call[c].intent
                         /\ Pending(f) => Pending(call[c])
  <1>2. CASE Quits(c)
    <2>1. Turn(c, Idle)
      BY <1>2, CallTurns
    <2> QED BY <1>1, <2>1 DEF Idle, Pending
  <1>3. CASE Moves(c)
    <2>1. PICK f \in SoundCall :
            /\ call' = [call EXCEPT ![c] = f] /\ Same(f, call[c])
            /\ f.pc \in {"queued", "lease", "stop"} /\ call[c].pc # "idle"
      BY <1>3 DEF Moves
    <2>2. Quiet(f)
      BY <2>1, TurnBy DEF Pending, Same
    <2> QED BY <1>1, <2>2
  <1>4. CASE Asked(c)
    <2>1. PICK fr \in SoundCall, succ \in SoundRecord, allow \in BOOLEAN, after \in Afters :
            /\ Asks(c, fr, succ, allow, after)
            /\ CommitSuccessor(c, fr, Held(fr), succ, allow, after)
      BY <1>4 DEF Asked
    <2>2. PICK f \in SoundCall :
            /\ call' = [call EXCEPT ![c] = f] /\ Same(f, call[c])
            /\ f.pc = after \/ (f.pc = "commit" /\ f.after = after)
      BY <2>1, AskedFrame
    <2>3. call[c].pc # "idle"
      BY <2>1, AskedCall DEF CallInv
    <2>4. Quiet(f)
      BY <2>2, <2>3, TurnBy DEF Pending, Same, Afters
    <2> QED BY <1>1, <2>4
  <1>5. CASE AdmitGranted(c)
    <2>1. PICK f : Turn(c, f) /\ Same(f, call[c]) /\ f.pc = "commit"
      BY <1>5, CallTurns
    <2>2. Quiet(f)
      BY <1>5, <2>1 DEF AdmitGranted, Pending, Same
    <2> QED BY <1>1, <2>2
  <1>6. CASE Invokes(c) \/ Relock(c) \/ ExecutorEffect(c) \/ ExecutorStops(c)
    <2>1. PICK f : /\ Turn(c, f) /\ f.kind = call[c].kind /\ f.intent = call[c].intent
                   /\ f.pc \in {"execute", "settled"}
      BY <1>6, CallTurns, CallFacts DEF Alike, Same, SoundCall
    <2>2. call[c].pc # "idle"
      BY <1>6 DEF Invokes, Relock, ExecutorEffect, ExecutorStops
    <2>3. Quiet(f)
      BY <2>1, <2>2 DEF Pending
    <2> QED BY <1>1, <2>3
  <1> QED BY <1>2, <1>3, <1>4, <1>5, <1>6

\* What a commit assigns, and the object it assigns it to.
LEMMA CommitFacts ==
  ASSUME IInv, CallInv, NEW c \in Callers, Commit(c)
  PROVE  /\ call[c].pc = "commit" /\ call[c] \in SoundCall /\ CallOK(call[c])
         /\ call[c].intent \in Intents /\ Op(c) \in Ops
         /\ cells[Op(c)] \in Seq(SoundRecord)
         /\ call[c].succ \in SoundRecord /\ call[c].succ.status # "none"
         /\ JournalAccepts(durable[Op(c)], call[c].succ)
         /\ \A p \in Ops : durable'[p] = IF p = Op(c) THEN call[c].succ ELSE durable[p]
         /\ Pending(call[c]) =>
              /\ call[c].ref = 0 /\ call[c].kind = "submit"
              /\ call[c].succ = Accepted(call[c].intent)
              /\ call[c].succ.intent = call[c].intent
              /\ cells' = [cells EXCEPT ![Op(c)] = Published(c, Op(c), call[c].succ)]
         /\ ~Pending(call[c]) =>
              /\ call[c].ref \in 1 .. Len(cells[Op(c)])
              /\ cells' = [cells EXCEPT ![Op(c)] =
                             [cells[Op(c)] EXCEPT ![call[c].ref] = call[c].succ]]
         /\ hydrated' = hydrated /\ locks' = locks /\ effects' = effects
  <1>1. /\ call[c].pc = "commit" /\ call[c] \in SoundCall /\ FrameOK(call[c], cells)
        /\ CallOK(call[c])
    BY CallFacts DEF Commit, CallInv
  <1>2. /\ call[c].intent \in Intents /\ Op(c) \in Ops
        /\ cells[Op(c)] \in Seq(SoundRecord) /\ Len(cells[Op(c)]) \in Nat
    BY <1>1, CallFacts DEF FrameOK, Op
  <1>3. call[c].succ \in SoundRecord /\ call[c].ref \in Nat
    BY <1>1 DEF SoundCall
  <1>4. Pending(call[c]) =>
              /\ call[c].ref = 0 /\ call[c].kind = "submit"
              /\ call[c].succ = Accepted(call[c].intent)
              /\ call[c].succ.intent = call[c].intent
    BY <1>1 DEF Pending, FrameOK, CallOK, At, Submitting, Accepted, NoControl
  <1>5. ~Pending(call[c]) => call[c].ref \in 1 .. Len(cells[Op(c)])
    BY <1>1, <1>2, <1>3 DEF Pending, FrameOK, Op
  <1>6. \A p \in Ops : durable'[p] = IF p = Op(c) THEN call[c].succ ELSE durable[p]
    BY <1>2 DEF Commit, IInv, Op
  <1>7. JournalAccepts(durable[Op(c)], call[c].succ)
        /\ hydrated' = hydrated /\ locks' = locks /\ effects' = effects
    BY DEF Commit, Op
  <1>8. call[c].succ.status # "none"
    BY <1>1 DEF CallOK
  <1>9. cells' = IF call[c].ref = 0
                 THEN [cells EXCEPT ![Op(c)] = Published(c, Op(c), call[c].succ)]
                 ELSE [cells EXCEPT ![Op(c)] =
                         [cells[Op(c)] EXCEPT ![call[c].ref] = call[c].succ]]
    BY DEF Commit, Op
  <1>10. Pending(call[c]) =>
           cells' = [cells EXCEPT ![Op(c)] = Published(c, Op(c), call[c].succ)]
    BY <1>4, <1>9
  <1>11. ~Pending(call[c]) =>
           cells' = [cells EXCEPT ![Op(c)] =
                         [cells[Op(c)] EXCEPT ![call[c].ref] = call[c].succ]]
    BY <1>2, <1>5, <1>9
  <1> QED BY <1>1, <1>2, <1>3, <1>4, <1>5, <1>6, <1>7, <1>8, <1>10, <1>11

\* Nobody holds an object of an operation the map does not know.
LEMMA UnknownUnreferenced ==
  ASSUME IInv, NEW c, NEW o \in Ops, ~Known(o)
  PROVE  ~Referenced(o, c)
  <1> SUFFICES ASSUME NEW d \in CallsOn(o), call[d].ref # 0 PROVE FALSE
    BY DEF Referenced
  <1>1. call[d].intent.op = o /\ d \in Callers
    BY DEF CallsOn
  <1>2. call[d].ref \in Nat /\ call[d].ref <= Len(cells[o])
    BY <1>1, CallFacts DEF FrameOK, SoundCall
  <1> QED BY <1>2 DEF Known

\* Every object the map ever published has been committed, or read as such.
StatusInv == \A o \in Ops : \A n \in 1 .. Len(cells[o]) : cells[o][n].status # "none"

LEMMA StatusStep ==
  ASSUME IInv, CallInv, StatusInv, [Next]_vars
  PROVE  StatusInv'
  <1> DEFINE R == {r \in SoundRecord : r.status # "none"}
  <1>0. \A o \in Ops : /\ cells[o] \in Seq(SoundRecord)
                       /\ \A n \in 1 .. Len(cells[o]) : cells[o][n] \in R
    <2> SUFFICES ASSUME NEW o \in Ops
                 PROVE  /\ cells[o] \in Seq(SoundRecord)
                        /\ \A n \in 1 .. Len(cells[o]) : cells[o][n] \in R
      OBVIOUS
    <2>1. cells[o] \in Seq(SoundRecord)
      BY DEF IInv
    <2>2. \A n \in 1 .. Len(cells[o]) : cells[o][n] \in SoundRecord
      BY <2>1
    <2> QED BY <2>1, <2>2 DEF StatusInv
  <1>1. ASSUME NEW c \in Callers, Commit(c) PROVE StatusInv'
    <2> DEFINE o    == Op(c)
               succ == call[c].succ
    <2>0. o \in Ops /\ succ \in R
      BY <1>1, CommitFacts
    <2>1. CASE Pending(call[c])
      <3>1. cells' = [cells EXCEPT ![o] = Published(c, o, succ)]
        BY <1>1, <2>1, CommitFacts
      <3>2. \A n \in 1 .. Len(Published(c, o, succ)) : Published(c, o, succ)[n] \in R
        BY <1>0, <2>0, PublishedRecords
      <3>3. \A p \in Ops : cells'[p] = IF p = o THEN Published(c, o, succ) ELSE cells[p]
        BY <2>0, <3>1 DEF IInv
      <3> QED BY <1>0, <3>2, <3>3 DEF StatusInv
    <2>2. CASE ~Pending(call[c])
      <3> DEFINE s == [cells[o] EXCEPT ![call[c].ref] = succ]
      <3>1. call[c].ref \in 1 .. Len(cells[o]) /\ cells' = [cells EXCEPT ![o] = s]
        BY <1>1, <2>2, CommitFacts
      <3>2. Len(s) = Len(cells[o]) /\ \A n \in 1 .. Len(s) : s[n] \in R
        BY <1>0, <2>0, <3>1, ExceptSeq
      <3>3. \A p \in Ops : cells'[p] = IF p = o THEN s ELSE cells[p]
        BY <2>0, <3>1 DEF IInv
      <3> QED BY <1>0, <3>2, <3>3 DEF StatusInv
    <2> QED BY <2>1, <2>2
  <1>2. ASSUME NEW c \in Callers, Hydrate(c) PROVE StatusInv'
    <2>1. cells' = [o \in Ops |-> IF call[c].view[o].status = "none" THEN cells[o]
                                  ELSE Published(c, o, call[c].view[o])]
      BY <1>2 DEF Hydrate
    <2>2. \A o \in Ops : call[c].view[o] \in SoundRecord
      BY CallFacts DEF SoundCall
    <2>3. ASSUME NEW o \in Ops, NEW n \in 1 .. Len(cells'[o])
          PROVE  cells'[o][n] \in R
      <3>1. CASE call[c].view[o].status = "none"
        BY <1>0, <2>1, <2>3, <3>1
      <3>2. CASE call[c].view[o].status # "none"
        BY <1>0, <2>1, <2>2, <2>3, <3>2, PublishedRecords
      <3> QED BY <3>1, <3>2
    <2> QED BY <2>3 DEF StatusInv
  <1>3. ASSUME NEW c \in Callers,
               \/ Quits(c) \/ Moves(c) \/ Asked(c) \/ AdmitGranted(c)
               \/ Invokes(c) \/ Relock(c) \/ ExecutorEffect(c) \/ ExecutorStops(c)
        PROVE  StatusInv'
    <2>1. cells' = cells
      BY <1>3, QuietSteps
    <2> QED BY <2>1 DEF StatusInv
  <1>4. ASSUME NEW c \in Callers,
               \/ \E i \in Intents : Submit(c, i)
               \/ \E i \in Intents, kind \in LockedKinds : StartLocked(c, kind, i)
               \/ ReadControl(c) \/ CommitUnacknowledged(c)
        PROVE  StatusInv'
    BY <1>4 DEF Submit, StartLocked, ReadControl, CommitUnacknowledged, StatusInv
  <1>5. CASE Crash
    <2>1. \A o \in Ops : Len(cells'[o]) = 0
      BY <1>5 DEF Crash
    <2> QED BY <2>1 DEF StatusInv
  <1>6. CASE UNCHANGED vars
    BY <1>6 DEF vars, StatusInv
  <1> QED BY <1>1, <1>2, <1>3, <1>4, <1>5, <1>6, StepCases DEF Next

LEMMA StatusHolds == Spec => []StatusInv
  <1>1. Init => StatusInv
    <2>1. Init => \A o \in Ops : Len(cells[o]) = 0
      BY DEF Init
    <2> QED BY <2>1 DEF StatusInv
  <1>2. IInv /\ CallInv /\ StatusInv /\ [Next]_vars => StatusInv'
    BY StatusStep
  <1> QED BY <1>1, <1>2, InvariantHolds, CallsHold, PTL DEF Spec

\* The object a handler reads has a status of the lifecycle.
LEMMA HeldStatus ==
  ASSUME IInv, StatusInv, NEW fr, GoodFrame(fr)
  PROVE  Held(fr).status \in OperationStatus
  <1>1. Held(fr) \in SoundRecord /\ fr.intent.op \in Ops
    BY FrameHolds
  <1>2. Held(fr).status # "none"
    BY <1>1 DEF StatusInv, GoodFrame, Held
  <1> QED BY <1>1, <1>2 DEF SoundRecord, OperationControlRecord

\* Where the moves of a handler may come from.
LEMMA TransitionTable ==
  ASSUME NEW from \in OperationStatus
  PROVE  /\ CanTransitionOperationStatus(from, "running") => from = "leased"
         /\ CanTransitionOperationStatus(from, "leased") => from = "queued"
         /\ CanTransitionOperationStatus(from, "queued") => from \in {"accepted", "blocked"}
  BY DEF OperationStatus, CanTransitionOperationStatus, OPERATION_STATUS_TRANSITIONS,
     OPERATION_STATUS_LIFECYCLE, CanTransitionLifecycle, WORK_TRANSITIONS

-------------------------------------------------------------------------------
(***************************************************************************)
(* Without lost acknowledgements there is one object per operation, and it *)
(* is the head of the durable chain, until a read overtakes the operation: *)
(* a submission commits for an operation the map does not know or for one  *)
(* the journal refuses, whoever holds an object holds the only one, and a  *)
(* read that overtakes nothing puts back what is there.                    *)
(***************************************************************************)
CacheInv ==
    /\ \A o \in Ops \ overtaken :
         Known(o) => cells[o] = <<durable[o]>> /\ durable[o].status # "none"
    /\ \A c \in Callers : Pending(call[c]) /\ Op(c) \notin overtaken /\ Known(Op(c)) =>
         durable[Op(c)].intent # call[c].intent

LEMMA PendingOp ==
  ASSUME IInv, NEW c \in Callers, Pending(call[c])
  PROVE  call[c].intent \in Intents /\ Op(c) \in Ops
  BY CallFacts, IntentOp DEF Pending, FrameOK, Op

\* A step that changes neither the journal nor the map.
LEMMA CacheTurn ==
  ASSUME CacheInv, NEW c \in Callers, NEW f, Turn(c, f),
         UNCHANGED <<durable, cells, overtaken>>,
         Pending(f) => \/ ~Known(f.intent.op)
                       \/ Pending(call[c]) /\ f.intent = call[c].intent
  PROVE  CacheInv'
  <1>1. \A d \in Callers :
          Pending(call'[d]) /\ call'[d].intent.op \notin overtaken /\ Known(call'[d].intent.op)
            => durable[call'[d].intent.op].intent # call'[d].intent
    BY DEF Turn, CacheInv, Op
  <1>2. \A d \in Callers : Pending(call'[d]) /\ Op(d)' \notin overtaken' /\ Known(Op(d))' =>
          durable'[Op(d)'].intent # call'[d].intent
    BY <1>1 DEF Known, Op
  <1>3. \A o \in Ops \ overtaken' :
          Known(o)' => cells'[o] = <<durable'[o]>> /\ durable'[o].status # "none"
    BY DEF CacheInv, Known
  <1> QED BY <1>2, <1>3 DEF CacheInv, Pending, Op, Known

LEMMA CacheStart ==
  ASSUME IInv, CallInv, CacheInv, NEW c \in Callers,
         \/ \E i \in Intents : Submit(c, i)
         \/ \E i \in Intents, kind \in LockedKinds : StartLocked(c, kind, i)
         \/ ReadControl(c)
  PROVE  CacheInv'
  <1>0. UNCHANGED <<durable, cells, overtaken>>
    BY DEF Submit, StartLocked, ReadControl
  <1>1. ASSUME NEW i \in Intents, Submit(c, i) PROVE CacheInv'
    <2>1. PICK f : Turn(c, f) /\ f.pc = "accept" /\ f.intent = i
      BY <1>1, StartTurns
    <2>2. ~Known(i.op)
      BY <1>1 DEF Submit
    <2> QED BY <1>0, <2>1, <2>2, CacheTurn
  <1>2. ASSUME \/ \E i \in Intents, kind \in LockedKinds : StartLocked(c, kind, i)
               \/ ReadControl(c)
        PROVE  CacheInv'
    <2>1. PICK f : Turn(c, f) /\ f.pc \in {"lock", "hydrate"}
      BY <1>2, StartTurns
    <2> QED BY <1>0, <2>1, CacheTurn DEF Pending
  <1> QED BY <1>1, <1>2

\* A commit replaces the only object, or publishes the first one.
LEMMA CacheCommit ==
  ASSUME IInv, CallInv, CacheInv, NEW c \in Callers, Commit(c)
  PROVE  CacheInv'
  <1> DEFINE o    == Op(c)
             succ == call[c].succ
  <1>0. /\ call[c].pc = "commit" /\ o \in Ops /\ succ.status # "none"
        /\ JournalAccepts(durable[o], succ)
        /\ \A p \in Ops : durable'[p] = IF p = o THEN succ ELSE durable[p]
    BY CommitFacts
  <1>t. overtaken' = overtaken
    BY DEF Commit
  <1>1. Pending(call[c]) /\ o \notin overtaken => ~Known(o)
    <2> SUFFICES ASSUME Pending(call[c]), o \notin overtaken, Known(o) PROVE FALSE
      OBVIOUS
    <2>2. succ.intent = call[c].intent
      BY CommitFacts
    <2>3. durable[o].intent = succ.intent
      BY <1>0 DEF JournalAccepts, CacheInv
    <2> QED BY <2>2, <2>3 DEF CacheInv
  <1>2. ~Pending(call[c]) /\ o \notin overtaken =>
          call[c].ref = 1 /\ Known(o) /\ cells[o] = <<durable[o]>>
    <2> SUFFICES ASSUME ~Pending(call[c]), o \notin overtaken
                 PROVE  call[c].ref = 1 /\ Known(o) /\ cells[o] = <<durable[o]>>
      OBVIOUS
    <2>1. call[c].ref \in 1 .. Len(cells[o]) /\ cells[o] \in Seq(SoundRecord)
      BY CommitFacts
    <2>2. Known(o)
      BY <2>1 DEF Known
    <2>3. cells[o] = <<durable[o]>> /\ Len(<<durable[o]>>) = 1
      BY <1>0, <2>2 DEF CacheInv
    <2> QED BY <2>1, <2>2, <2>3
  <1>3. /\ \A p \in Ops : p # o => cells'[p] = cells[p]
        /\ o \notin overtaken => cells'[o] = <<succ>>
    <2>0. o \in DOMAIN cells
      BY <1>0 DEF IInv
    <2>1. CASE Pending(call[c])
      <3>1. o \notin overtaken => Published(c, o, succ) = <<succ>>
        BY <1>0, <1>1, <2>1, UnknownUnreferenced DEF Published
      <3>2. cells' = [cells EXCEPT ![o] = Published(c, o, succ)]
        BY <2>1, CommitFacts
      <3> QED BY <2>0, <3>1, <3>2
    <2>2. CASE ~Pending(call[c])
      <3>1. o \notin overtaken => [cells[o] EXCEPT ![call[c].ref] = succ] = <<succ>>
        BY <1>2, <2>2
      <3>2. cells' = [cells EXCEPT ![o] = [cells[o] EXCEPT ![call[c].ref] = succ]]
        BY <2>2, CommitFacts
      <3> QED BY <2>0, <3>1, <3>2
    <2> QED BY <2>1, <2>2
  <1>4. \A p \in Ops \ overtaken' :
          Known(p)' => cells'[p] = <<durable'[p]>> /\ durable'[p].status # "none"
    BY <1>0, <1>t, <1>3 DEF CacheInv, Known
  <1>5. PICK f : Turn(c, f) /\ Same(f, call[c]) /\ f.pc = call[c].after
    BY CallTurns
  <1>6. ~Pending(f)
    BY <1>0, <1>5, CallFacts DEF FrameOK, Pending, Handling, Holding
  <1>7. ASSUME NEW d \in Callers, Pending(call'[d]), Op(d)' \notin overtaken', Known(Op(d))'
        PROVE  durable'[Op(d)'].intent # call'[d].intent
    <2>1. d # c /\ call'[d] = call[d] /\ Pending(call[d]) /\ Op(d)' = Op(d)
          /\ Op(d) \notin overtaken
      BY <1>t, <1>5, <1>6, <1>7 DEF Turn, Op
    <2>2. CASE Op(d) # o
      <3>1. Op(d) \in Ops
        BY <2>1, PendingOp
      <3>2. durable'[Op(d)] = durable[Op(d)] /\ Known(Op(d))
        BY <1>0, <1>3, <1>7, <2>1, <2>2, <3>1 DEF Known
      <3> QED BY <2>1, <3>2 DEF CacheInv
    <2>3. CASE Op(d) = o
      <3>1. durable'[o] = succ
        BY <1>0
      <3>2. CASE Pending(call[c])
        <4>1. succ.intent = call[c].intent
          BY <3>2, CommitFacts
        <4>2. call[c].kind = "submit" /\ call[d].kind = "submit"
          BY <2>1, <3>2 DEF Pending, CallInv, CallOK, At, Submitting
        <4>3. call[c].intent.key # call[d].intent.key
          BY <2>1, <4>2 DEF CallInv, Apart
        <4> QED BY <2>1, <2>3, <3>1, <4>1, <4>3
      <3>3. CASE ~Pending(call[c])
        <4>1. durable[o].status # "none" /\ durable[o].intent # call[d].intent
          BY <1>0, <1>2, <2>1, <2>3, <3>3 DEF CacheInv
        <4> QED BY <1>0, <2>1, <2>3, <3>1, <4>1 DEF JournalAccepts
      <3> QED BY <3>2, <3>3
    <2> QED BY <2>2, <2>3
  <1> QED BY <1>4, <1>7 DEF CacheInv, Pending, Op

\* What a read does to an operation it does not overtake.
LEMMA HydrateKeeps ==
  ASSUME IInv, CacheInv, NEW c \in Callers, Hydrate(c),
         NEW o \in Ops, o \notin overtaken'
  PROVE  /\ o \notin overtaken /\ durable' = durable
         /\ Known(o) => cells'[o] = cells[o]
         /\ Known(o)' => cells'[o] = <<durable[o]>> /\ durable[o].status # "none"
         /\ call[c].view[o].status = "none" => cells'[o] = cells[o]
         /\ call[c].view[o].status # "none" =>
              /\ call[c].view[o] = durable[o]
              /\ \A d \in CallsOn(o) : call[d].kind = "submit" => call[d].pc = "submitted"
  <1>1. /\ durable' = durable
        /\ cells'[o] = IF call[c].view[o].status = "none" THEN cells[o]
                       ELSE Published(c, o, call[c].view[o])
        /\ overtaken' = overtaken \cup {p \in Ops : Overtakes(c, p)}
    BY DEF Hydrate
  <1>2. o \notin overtaken /\ ~Overtakes(c, o)
    BY <1>1
  <1>3. CASE call[c].view[o].status = "none"
    BY <1>1, <1>2, <1>3 DEF CacheInv, Known
  <1>4. CASE call[c].view[o].status # "none"
    <2>1. /\ call[c].view[o] = durable[o] /\ ~Referenced(o, c)
          /\ \A d \in CallsOn(o) : call[d].kind = "submit" => call[d].pc = "submitted"
      BY <1>2, <1>4 DEF Overtakes
    <2>2. cells'[o] = <<durable[o]>> /\ durable[o].status # "none"
      BY <1>1, <1>4, <2>1 DEF Published
    <2>3. Known(o) => cells[o] = <<durable[o]>>
      BY <1>2 DEF CacheInv
    <2> QED BY <1>1, <1>2, <1>4, <2>1, <2>2, <2>3
  <1> QED BY <1>3, <1>4

LEMMA CacheHydrate ==
  ASSUME IInv, CallInv, CacheInv, NEW c \in Callers, Hydrate(c)
  PROVE  CacheInv'
  <1>1. \A o \in Ops \ overtaken' :
          Known(o)' => cells'[o] = <<durable'[o]>> /\ durable'[o].status # "none"
    BY HydrateKeeps
  <1>2. Turn(c, Idle) /\ ~Pending(Idle)
    BY CallTurns DEF Pending, Idle
  <1>3. ASSUME NEW d \in Callers, Pending(call'[d]), Op(d)' \notin overtaken', Known(Op(d))'
        PROVE  durable'[Op(d)'].intent # call'[d].intent
    <2>1. d # c /\ call'[d] = call[d] /\ Pending(call[d]) /\ Op(d)' = Op(d)
      BY <1>2, <1>3 DEF Turn, Op
    <2>2. call[d].intent \in Intents /\ Op(d) \in Ops
      BY <2>1, PendingOp
    <2>3. call[d].kind = "submit" /\ call[d].pc # "submitted" /\ d \in CallsOn(Op(d))
      BY <2>1, <2>2, IntentsAssumption
      DEF Pending, CallInv, CallOK, At, Submitting, CallsOn, Op
    <2>4. /\ Op(d) \notin overtaken /\ durable' = durable
          /\ cells'[Op(d)] = cells[Op(d)]
      BY <1>3, <2>1, <2>2, <2>3, HydrateKeeps
    <2>5. Known(Op(d))
      BY <1>3, <2>1, <2>4 DEF Known
    <2> QED BY <2>1, <2>4, <2>5 DEF CacheInv
  <1> QED BY <1>1, <1>3 DEF CacheInv, Pending, Op

LEMMA CacheStep ==
  ASSUME "lostAck" \notin Faults, IInv, CallInv, CacheInv, [Next]_vars
  PROVE  CacheInv'
  <1>1. ASSUME NEW c \in Callers,
               \/ Quits(c) \/ Moves(c) \/ Asked(c) \/ AdmitGranted(c)
               \/ Invokes(c) \/ Relock(c) \/ ExecutorEffect(c) \/ ExecutorStops(c)
        PROVE  CacheInv'
    <2>1. PICK f : /\ Turn(c, f)
                   /\ f = Idle \/ (call[c].pc # "idle" /\ f.intent = call[c].intent)
                   /\ Pending(f) => Pending(call[c])
      BY <1>1, QuietSteps
    <2>2. UNCHANGED <<durable, cells, overtaken>>
      BY <1>1, QuietSteps
    <2>3. ~Pending(Idle)
      BY DEF Idle, Pending
    <2> QED BY <2>1, <2>2, <2>3, CacheTurn
  <1>2. CASE Crash
    <2>1. (\A c \in Callers : call'[c] = Idle) /\ \A o \in Ops : cells'[o] = <<>>
      BY <1>2 DEF Crash
    <2>2. ~Pending(Idle)
      BY DEF Idle, Pending
    <2> QED BY <2>1, <2>2 DEF CacheInv, Known, Pending
  <1>3. CASE UNCHANGED vars
    BY <1>3 DEF vars, CacheInv, Known, Pending, Op
  <1>4. \A c \in Callers : ~CommitUnacknowledged(c)
    BY DEF CommitUnacknowledged
  <1> QED BY <1>1, <1>2, <1>3, <1>4, CacheStart, CacheCommit,
             CacheHydrate, StepCases DEF Next

LEMMA CacheHolds ==
  ASSUME "lostAck" \notin Faults
  PROVE  Spec => []CacheInv
  <1>1. Init => CacheInv
    BY DEF Init, CacheInv, Known, Pending, Idle
  <1>2. IInv /\ CallInv /\ CacheInv /\ [Next]_vars => CacheInv'
    BY CacheStep
  <1> QED BY <1>1, <1>2, InvariantHolds, CallsHold, PTL DEF Spec

\* Without lost acknowledgements, the record the gateway serves is the head of
\* the durable chain until a read overtakes the operation, whatever commits the
\* journal refuses, whatever is cancelled, whichever reads run beside the
\* handlers and whenever the process dies (gateway.ts commitSuccessor,
\* publishCommitted, hydrate).
THEOREM CacheIsJournal ==
  ASSUME "lostAck" \notin Faults
  PROVE  Spec => []CacheMatchesJournal
  <1>1. IInv /\ CacheInv => CacheMatchesJournal
    <2> SUFFICES ASSUME IInv, CacheInv, NEW o \in Ops \ overtaken, Known(o)
                 PROVE  Current(o) = durable[o]
      BY DEF CacheMatchesJournal
    <2>1. cells[o] = <<durable[o]>> /\ Len(<<durable[o]>>) = 1
      BY DEF CacheInv
    <2> QED BY <2>1 DEF Current
  <1> QED BY <1>1, CacheHolds, InvariantHolds, PTL

-------------------------------------------------------------------------------
(***************************************************************************)
(* When a process reads control before it submits and no acknowledgement   *)
(* is lost, the map knows every durable operation under its own intent, so *)
(* a submission that found its key free commits the first record of it.    *)
(***************************************************************************)
Admitted(o) == durable[o].status # "none"

KeyInv ==
    /\ \A o \in Ops : \A n \in 1 .. Len(cells[o]) :
         Admitted(o) /\ cells[o][n].intent = durable[o].intent
    /\ hydrated => \A o \in Ops : Admitted(o) => Known(o)
    /\ \A c \in Callers : call[c].kind = "submit" => hydrated
    /\ \A c \in Callers : call[c].pc = "hydrate" => \A o \in Ops :
         /\ call[c].view[o].status # "none" =>
              Admitted(o) /\ call[c].view[o].intent = durable[o].intent
         /\ ~hydrated /\ Admitted(o) => call[c].view[o].status # "none"
    /\ \A c \in Callers : Pending(call[c]) =>
         \A o \in Ops : Admitted(o) => durable[o].intent.key # call[c].intent.key
    /\ OneOperationPerKey

LEMMA KeyTurn ==
  ASSUME CallInv, KeyInv, NEW c \in Callers, NEW f, Turn(c, f),
         UNCHANGED <<durable, cells, hydrated, overtaken>>,
         f.kind = "submit" => hydrated,
         f.pc = "hydrate" => f.view = durable,
         Pending(f) => \/ Pending(call[c]) /\ f.intent = call[c].intent
                       \/ \A o \in Ops : Admitted(o) => durable[o].intent.key # f.intent.key
  PROVE  KeyInv'
  <1>1. \A d \in Callers : call'[d].kind = "submit" => hydrated
    BY DEF Turn, KeyInv
  <1>2. \A d \in Callers : call'[d].pc = "hydrate" => \A o \in Ops :
         /\ call'[d].view[o].status # "none" =>
              Admitted(o) /\ call'[d].view[o].intent = durable[o].intent
         /\ ~hydrated /\ Admitted(o) => call'[d].view[o].status # "none"
    BY DEF Turn, KeyInv, Admitted
  <1>3. \A d \in Callers : Pending(call'[d]) =>
         \A o \in Ops : Admitted(o) => durable[o].intent.key # call'[d].intent.key
    BY DEF Turn, KeyInv
  <1>4. OneOperationPerKey'
    BY DEF KeyInv, OneOperationPerKey
  <1>5. \A o \in Ops : \A n \in 1 .. Len(cells'[o]) :
         Admitted(o)' /\ cells'[o][n].intent = durable'[o].intent
    BY DEF KeyInv, Admitted
  <1>6. hydrated' => \A o \in Ops : Admitted(o)' => Known(o)'
    BY DEF KeyInv, Admitted, Known
  <1> QED BY <1>1, <1>2, <1>3, <1>4, <1>5, <1>6 DEF KeyInv, Admitted, Pending

LEMMA KeyStart ==
  ASSUME HydrateFirst, IInv, CallInv, KeyInv, NEW c \in Callers,
         \/ \E i \in Intents : Submit(c, i)
         \/ \E i \in Intents, kind \in LockedKinds : StartLocked(c, kind, i)
         \/ ReadControl(c)
  PROVE  KeyInv'
  <1>0. UNCHANGED <<durable, cells, hydrated, overtaken>>
    BY DEF Submit, StartLocked, ReadControl
  <1>1. ASSUME NEW i \in Intents, Submit(c, i) PROVE KeyInv'
    <2>1. PICK f : Turn(c, f) /\ f.pc = "accept" /\ f.intent = i
      BY <1>1, StartTurns
    <2>2. hydrated /\ ~KeyBound(i.key)
      BY <1>1 DEF Submit
    <2>3. ASSUME NEW o \in Ops, Admitted(o) PROVE durable[o].intent.key # i.key
      <3>1. Known(o) /\ cells[o] \in Seq(SoundRecord)
        BY <2>2, <2>3 DEF KeyInv, IInv
      <3>2. Len(cells[o]) \in 1 .. Len(cells[o])
        BY <3>1 DEF Known
      <3>3. Current(o).intent = durable[o].intent
        BY <3>2 DEF KeyInv, Current
      <3> QED BY <2>2, <3>1, <3>3 DEF KeyBound
    <2> QED BY <1>0, <2>1, <2>2, <2>3, KeyTurn
  <1>2. ASSUME NEW i \in Intents, NEW kind \in LockedKinds, StartLocked(c, kind, i)
        PROVE  KeyInv'
    <2>1. PICK f : Turn(c, f) /\ f.pc = "lock" /\ f.kind # "submit"
      BY <1>2, StartTurns DEF LockedKinds
    <2> QED BY <1>0, <2>1, KeyTurn DEF Pending
  <1>3. ASSUME ReadControl(c) PROVE KeyInv'
    <2>1. PICK f : /\ Turn(c, f) /\ f.pc = "hydrate" /\ f.view = durable
                   /\ f.kind = "readControl"
      BY <1>3, StartTurns
    <2> QED BY <1>0, <2>1, KeyTurn DEF Pending
  <1> QED BY <1>1, <1>2, <1>3

\* A first commit admits an operation under a key no other operation has; any
\* other commit keeps the intent of its operation.
LEMMA KeyCommit ==
  ASSUME IInv, CallInv, KeyInv, NEW c \in Callers, Commit(c)
  PROVE  KeyInv'
  <1> DEFINE o    == Op(c)
             succ == call[c].succ
  <1>0. /\ o \in Ops /\ succ.status # "none" /\ succ \in SoundRecord
        /\ cells[o] \in Seq(SoundRecord) /\ JournalAccepts(durable[o], succ)
        /\ \A p \in Ops : durable'[p] = IF p = o THEN succ ELSE durable[p]
        /\ hydrated' = hydrated
    BY CommitFacts
  <1>1. PICK f : Turn(c, f) /\ Same(f, call[c]) /\ f.pc = call[c].after
    BY CallTurns
  <1>2. ~Pending(f) /\ f.pc # "hydrate"
    BY <1>1, CommitFacts, CallFacts DEF FrameOK, Pending, Handling, Holding
  <1>3. \A d \in Callers : call'[d].kind = "submit" => hydrated
    BY <1>1 DEF Turn, Same, KeyInv
  <1>4. hydrated' => \A p \in Ops : Admitted(p)' => Known(p)'
    <2> SUFFICES ASSUME hydrated, NEW p \in Ops, Admitted(p)' PROVE cells'[p] # <<>>
      BY <1>0 DEF Known
    <2>1. CASE p # o
      <3>1. cells'[p] = cells[p]
        BY <1>0, <2>1, CommitFacts DEF IInv
      <3> QED BY <1>0, <2>1, <3>1 DEF KeyInv, Admitted, Known
    <2>2. CASE p = o /\ Pending(call[c])
      <3>1. cells'[o] = Published(c, o, succ)
        BY <1>0, <2>2, CommitFacts DEF IInv
      <3>2. Append(cells[o], succ) # <<>>
        BY <1>0, AppendProperties
      <3> QED BY <2>2, <3>1, <3>2 DEF Published
    <2>3. CASE p = o /\ ~Pending(call[c])
      <3>1. /\ call[c].ref \in 1 .. Len(cells[o])
            /\ cells'[o] = [cells[o] EXCEPT ![call[c].ref] = succ]
        BY <1>0, <2>3, CommitFacts DEF IInv
      <3> QED BY <1>0, <2>3, <3>1, ExceptSeq
    <2> QED BY <2>1, <2>2, <2>3
  <1>5. CASE Pending(call[c])
    <2>0. /\ succ.intent = call[c].intent /\ call[c].kind = "submit"
          /\ cells' = [cells EXCEPT ![o] = Published(c, o, succ)]
      BY <1>5, CommitFacts
    <2>1. ~Admitted(o)
      BY <1>0, <1>5, <2>0 DEF KeyInv, JournalAccepts, Admitted
    <2>2. ~Known(o)
      <3>1. cells[o] # <<>> => 1 \in 1 .. Len(cells[o])
        BY <1>0
      <3> QED BY <1>0, <2>1, <3>1 DEF KeyInv, Known
    <2>3. cells' = [cells EXCEPT ![o] = <<succ>>]
      BY <1>0, <2>0, <2>2, UnknownUnreferenced DEF Published
    <2>4. \A p \in Ops : \A n \in 1 .. Len(cells'[p]) :
           Admitted(p)' /\ cells'[p][n].intent = durable'[p].intent
      <3> SUFFICES ASSUME NEW p \in Ops, NEW n \in 1 .. Len(cells'[p])
                   PROVE  Admitted(p)' /\ cells'[p][n].intent = durable'[p].intent
        OBVIOUS
      <3>1. CASE p = o
        <4>1. cells'[o] = <<succ>> /\ Len(<<succ>>) = 1
          BY <1>0, <2>3 DEF IInv
        <4> QED BY <1>0, <3>1, <4>1 DEF Admitted
      <3>2. CASE p # o
        <4>1. cells'[p] = cells[p]
          BY <1>0, <2>3, <3>2 DEF IInv
        <4> QED BY <1>0, <3>2, <4>1 DEF KeyInv, Admitted
      <3> QED BY <3>1, <3>2
    <2>5. hydrated
      BY <2>0 DEF KeyInv
    <2>6. \A d \in Callers : call'[d].pc = "hydrate" => \A p \in Ops :
         /\ call'[d].view[p].status # "none" =>
              Admitted(p)' /\ call'[d].view[p].intent = durable'[p].intent
         /\ ~hydrated' /\ Admitted(p)' => call'[d].view[p].status # "none"
      BY <1>0, <1>1, <1>2, <2>1, <2>5 DEF Turn, KeyInv, Admitted
    <2>7. \A d \in Callers : Pending(call'[d]) =>
         \A p \in Ops : Admitted(p)' => durable'[p].intent.key # call'[d].intent.key
      <3> SUFFICES ASSUME NEW d \in Callers, Pending(call'[d]), NEW p \in Ops, Admitted(p)'
                   PROVE  durable'[p].intent.key # call'[d].intent.key
        OBVIOUS
      <3>1. d # c /\ call'[d] = call[d] /\ Pending(call[d])
        BY <1>1, <1>2 DEF Turn
      <3>2. call[d].kind = "submit"
        BY <3>1 DEF Pending, CallInv, CallOK, At, Submitting
      <3>3. call[c].intent.key # call[d].intent.key
        BY <2>0, <3>1, <3>2 DEF CallInv, Apart
      <3> QED BY <1>0, <2>0, <3>1, <3>3 DEF KeyInv, Admitted
    <2>8. OneOperationPerKey'
      <3> SUFFICES ASSUME NEW p \in Ops, NEW q \in Ops,
                          durable'[p].status # "none", durable'[q].status # "none",
                          durable'[p].intent.key = durable'[q].intent.key
                   PROVE  p = q
        BY DEF OneOperationPerKey
      <3> QED BY <1>0, <1>5, <2>0 DEF KeyInv, Admitted, OneOperationPerKey
    <2> QED BY <1>0, <1>3, <1>4, <2>4, <2>6, <2>7, <2>8 DEF KeyInv, Admitted, Pending
  <1>6. CASE ~Pending(call[c])
    <2>0. /\ call[c].ref \in 1 .. Len(cells[o])
          /\ cells' = [cells EXCEPT ![o] = [cells[o] EXCEPT ![call[c].ref] = succ]]
      BY <1>6, CommitFacts
    <2>1. Admitted(o) /\ succ.intent = durable[o].intent
      BY <1>0, <2>0 DEF KeyInv, JournalAccepts, Admitted
    <2>2. \A p \in Ops : /\ Admitted(p)' <=> Admitted(p)
                         /\ durable'[p].intent = durable[p].intent
      BY <1>0, <2>1 DEF Admitted
    <2>3. \A p \in Ops : \A n \in 1 .. Len(cells'[p]) :
           Admitted(p) /\ cells'[p][n].intent = durable[p].intent
      <3> SUFFICES ASSUME NEW p \in Ops, NEW n \in 1 .. Len(cells'[p])
                   PROVE  Admitted(p) /\ cells'[p][n].intent = durable[p].intent
        OBVIOUS
      <3>1. CASE p = o
        <4>1. cells'[o] = [cells[o] EXCEPT ![call[c].ref] = succ]
          BY <1>0, <2>0 DEF IInv
        <4>2. /\ Len(cells'[o]) = Len(cells[o])
              /\ cells'[o][n] = IF n = call[c].ref THEN succ ELSE cells[o][n]
          BY <1>0, <2>0, <3>1, <4>1, ExceptSeq
        <4> QED BY <2>1, <3>1, <4>2 DEF KeyInv
      <3>2. CASE p # o
        <4>1. cells'[p] = cells[p]
          BY <1>0, <2>0, <3>2 DEF IInv
        <4> QED BY <4>1 DEF KeyInv
      <3> QED BY <3>1, <3>2
    <2>4. \A d \in Callers : call'[d].pc = "hydrate" => \A p \in Ops :
         /\ call'[d].view[p].status # "none" =>
              Admitted(p) /\ call'[d].view[p].intent = durable[p].intent
         /\ ~hydrated /\ Admitted(p) => call'[d].view[p].status # "none"
      BY <1>1, <1>2 DEF Turn, KeyInv
    <2>5. \A d \in Callers : Pending(call'[d]) =>
         \A p \in Ops : Admitted(p) => durable[p].intent.key # call'[d].intent.key
      BY <1>1, <1>2 DEF Turn, KeyInv
    <2>6. OneOperationPerKey'
      BY <2>2 DEF OneOperationPerKey, KeyInv, Admitted
    <2> QED BY <1>0, <1>3, <1>4, <2>2, <2>3, <2>4, <2>5, <2>6 DEF KeyInv, Pending
  <1> QED BY <1>5, <1>6

LEMMA KeyHydrate ==
  ASSUME IInv, KeyInv, NEW c \in Callers, Hydrate(c)
  PROVE  KeyInv'
  <1>1. /\ call[c].pc = "hydrate" /\ durable' = durable /\ hydrated' = TRUE
        /\ cells' = [o \in Ops |-> IF call[c].view[o].status = "none" THEN cells[o]
                                   ELSE Published(c, o, call[c].view[o])]
    BY DEF Hydrate
  <1>2. Turn(c, Idle) /\ Idle.kind = "none" /\ Idle.pc = "idle"
    BY CallTurns DEF Idle
  <1>3. \A o \in Ops : cells[o] \in Seq(SoundRecord) /\ call[c].view[o] \in SoundRecord
    BY CallFacts DEF IInv, SoundCall
  <1>4. \A o \in Ops : \A n \in 1 .. Len(cells'[o]) :
         Admitted(o) /\ cells'[o][n].intent = durable[o].intent
    <2> SUFFICES ASSUME NEW o \in Ops, NEW n \in 1 .. Len(cells'[o])
                 PROVE  Admitted(o) /\ cells'[o][n].intent = durable[o].intent
      OBVIOUS
    <2>1. CASE call[c].view[o].status = "none"
      BY <1>1, <2>1 DEF KeyInv
    <2>2. CASE call[c].view[o].status # "none"
      <3> DEFINE R == {r \in SoundRecord : r.intent = durable[o].intent}
      <3>1. Admitted(o) /\ call[c].view[o] \in R
        BY <1>1, <1>3, <2>2 DEF KeyInv
      <3>2. \A m \in 1 .. Len(cells[o]) : cells[o][m] \in R
        BY <1>3 DEF KeyInv
      <3>3. cells'[o] = Published(c, o, call[c].view[o])
        BY <1>1, <2>2
      <3>4. cells'[o][n] \in R
        BY <1>3, <3>1, <3>2, <3>3, PublishedRecords
      <3> QED BY <3>1, <3>4
    <2> QED BY <2>1, <2>2
  <1>5. \A o \in Ops : Admitted(o) => cells'[o] # <<>>
    <2> SUFFICES ASSUME NEW o \in Ops, Admitted(o) PROVE cells'[o] # <<>>
      OBVIOUS
    <2>1. CASE call[c].view[o].status = "none"
      BY <1>1, <2>1 DEF KeyInv, Known
    <2>2. CASE call[c].view[o].status # "none"
      <3>1. cells'[o] = Published(c, o, call[c].view[o])
        BY <1>1, <2>2
      <3> QED BY <1>3, <3>1 DEF Published
    <2> QED BY <2>1, <2>2
  <1>6. \A d \in Callers : call'[d].pc = "hydrate" => \A o \in Ops :
         call'[d].view[o].status # "none" =>
              Admitted(o) /\ call'[d].view[o].intent = durable[o].intent
    BY <1>2 DEF Turn, KeyInv
  <1>7. \A d \in Callers : Pending(call'[d]) =>
         \A o \in Ops : Admitted(o) => durable[o].intent.key # call'[d].intent.key
    BY <1>2 DEF Turn, KeyInv, Pending
  <1>8. OneOperationPerKey'
    BY <1>1 DEF OneOperationPerKey, KeyInv
  <1> QED BY <1>1, <1>4, <1>5, <1>6, <1>7, <1>8 DEF KeyInv, Admitted, Known, Pending

LEMMA KeyStep ==
  ASSUME HydrateFirst, "lostAck" \notin Faults, IInv, CallInv, KeyInv, [Next]_vars
  PROVE  KeyInv'
  <1>1. ASSUME NEW c \in Callers,
               \/ Quits(c) \/ Moves(c) \/ Asked(c) \/ AdmitGranted(c)
               \/ Invokes(c) \/ Relock(c) \/ ExecutorEffect(c) \/ ExecutorStops(c)
        PROVE  KeyInv'
    <2>1. PICK f : /\ Turn(c, f) /\ f.pc # "hydrate"
                   /\ f = Idle \/ (f.kind = call[c].kind /\ f.intent = call[c].intent)
                   /\ Pending(f) => Pending(call[c])
      BY <1>1, QuietSteps
    <2>2. UNCHANGED <<durable, cells, hydrated, overtaken>>
      BY <1>1, QuietSteps
    <2>3. ~Pending(Idle) /\ Idle.kind # "submit"
      BY DEF Idle, Pending
    <2>4. f.kind = "submit" => hydrated
      BY <2>1, <2>3 DEF KeyInv
    <2> QED BY <2>1, <2>2, <2>3, <2>4, KeyTurn
  <1>2. CASE Crash
    <2>1. /\ \A c \in Callers : call'[c] = Idle
          /\ \A o \in Ops : cells'[o] = <<>>
          /\ durable' = durable /\ hydrated' = FALSE
      BY <1>2 DEF Crash
    <2>2. OneOperationPerKey'
      BY <2>1 DEF OneOperationPerKey, KeyInv
    <2>3. \A o \in Ops : Len(cells'[o]) = 0
      BY <2>1
    <2> QED BY <2>1, <2>2, <2>3 DEF KeyInv, Pending, Idle
  <1>3. CASE UNCHANGED vars
    <2>1. OneOperationPerKey'
      BY <1>3 DEF OneOperationPerKey, KeyInv, vars
    <2> QED BY <1>3, <2>1 DEF vars, KeyInv, Known, Pending, Admitted
  <1>4. \A c \in Callers : ~CommitUnacknowledged(c)
    BY DEF CommitUnacknowledged
  <1> QED BY <1>1, <1>2, <1>3, <1>4, KeyStart, KeyCommit, KeyHydrate, StepCases DEF Next

LEMMA KeysHold ==
  ASSUME HydrateFirst, "lostAck" \notin Faults
  PROVE  Spec => []KeyInv
  <1>1. Init => KeyInv
    <2>1. Init => OneOperationPerKey
      BY DEF Init, OneOperationPerKey, NoControl
    <2>2. Init => \A o \in Ops : Len(cells[o]) = 0
      BY DEF Init
    <2>3. Init => \A c \in Callers : call[c].kind = "none" /\ call[c].pc = "idle"
      BY DEF Init, Idle
    <2> QED BY <2>1, <2>2, <2>3 DEF Init, KeyInv, Pending
  <1>2. IInv /\ CallInv /\ KeyInv /\ [Next]_vars => KeyInv'
    BY KeyStep
  <1> QED BY <1>1, <1>2, InvariantHolds, CallsHold, PTL DEF Spec

\* When every process reads control before its first submission and no
\* acknowledgement is lost, two admitted operations have different keys: over any
\* interleaving of submissions, reads under calls, refused commits and crashes
\* (gateway.ts submit, idempotency and pendingSubmissions maps).
THEOREM OneKeyOneOperation ==
  ASSUME HydrateFirst, "lostAck" \notin Faults
  PROVE  Spec => []OneOperationPerKey
  <1>1. KeyInv => OneOperationPerKey
    BY DEF KeyInv
  <1> QED BY <1>1, KeysHold, PTL

-------------------------------------------------------------------------------
(***************************************************************************)
(* "cancelled" is only committed for an operation that has had no effect   *)
(* and whose executors are stopped, under the lock that a call about to    *)
(* invoke an executor holds too; only a reconcile is told otherwise.       *)
(***************************************************************************)
Halting(o) ==
    /\ effects[o] = 0
    /\ \A c \in CallsOn(o) : call[c].pc = "execute" => call[c].halted

CancelOK(f) ==
    /\ f.pc = "prepared" => durable[f.intent.op].status # "cancelled"
    /\ f.pc = "commit" /\ f.after = "prepared" => f.succ.status = "running"
    /\ f.pc = "commit" /\ f.succ.status = "cancelled" =>
         f.after = "unlock" /\ Halting(f.intent.op)

CancelInv ==
    /\ \A o \in Ops : durable[o].status = "cancelled" => Halting(o)
    /\ \A c \in Callers : CancelOK(call[c])

\* A frame that runs no executor its call did not run before.
Restful(f, g) ==
    f.pc = "execute" => g.pc = "execute" /\ f.intent = g.intent /\ (g.halted => f.halted)

LEMMA HaltingKept ==
  ASSUME NEW c \in Callers, NEW f, Turn(c, f), effects' = effects, Restful(f, call[c]),
         NEW o, Halting(o)
  PROVE  Halting(o)'
  <1> SUFFICES ASSUME NEW d \in Callers, call'[d].intent # NoIntent,
                      call'[d].intent.op = o, call'[d].pc = "execute"
               PROVE  call'[d].halted
    BY DEF Halting, CallsOn
  <1>1. CASE d = c
    BY <1>1 DEF Turn, Restful, Halting, CallsOn
  <1>2. CASE d # c
    BY <1>2 DEF Turn, Halting, CallsOn
  <1> QED BY <1>1, <1>2

\* What is left to show of a step, once no operation at rest is woken up.
LEMMA CancelNext ==
  ASSUME \A o : (\/ o \in Ops /\ durable'[o].status = "cancelled"
                 \/ \E d \in Callers : /\ call'[d].pc = "commit"
                                       /\ call'[d].succ.status = "cancelled"
                                       /\ call'[d].intent.op = o)
                => Halting(o)',
         \A d \in Callers :
           /\ call'[d].pc = "prepared" => durable'[call'[d].intent.op].status # "cancelled"
           /\ call'[d].pc = "commit" /\ call'[d].after = "prepared"
                => call'[d].succ.status = "running"
           /\ call'[d].pc = "commit" /\ call'[d].succ.status = "cancelled"
                => call'[d].after = "unlock"
  PROVE  CancelInv'
  BY DEF CancelInv, CancelOK, Halting, CallsOn

\* A step that neither commits nor touches the world outside.
LEMMA CancelTurn ==
  ASSUME IInv, CancelInv, NEW c \in Callers, NEW f, Turn(c, f),
         UNCHANGED <<durable, effects>>, Restful(f, call[c]), CancelOK(f)
  PROVE  CancelInv'
  <1>1. \A o : Halting(o) => Halting(o)'
    BY HaltingKept
  <1>2. \A d \in Callers : CancelOK(call'[d])
    BY DEF Turn, CancelInv
  <1>3. \A o : (\/ o \in Ops /\ durable'[o].status = "cancelled"
                \/ \E d \in Callers : /\ call'[d].pc = "commit"
                                      /\ call'[d].succ.status = "cancelled"
                                      /\ call'[d].intent.op = o)
               => Halting(o)
    BY <1>2 DEF CancelOK, CancelInv
  <1> QED BY <1>1, <1>2, <1>3, CancelNext DEF CancelOK

LEMMA IdleCancel == CancelOK(Idle) /\ \A g : Restful(Idle, g)
  BY DEF CancelOK, Restful, Idle

\* Two calls that hold the lock of one operation are the same call.
LEMMA OneGuard ==
  ASSUME LockInv, NEW c \in Callers, NEW d \in Callers,
         Guarded(call[c]), Guarded(call[d]), Op(c) = Op(d)
  PROVE  c = d
  BY DEF LockInv, Holds

LEMMA CancelCommit ==
  ASSUME IInv, LockInv, CallInv, CancelInv, NEW c \in Callers, NEW f, Turn(c, f),
         f = Idle \/ (Same(f, call[c]) /\ f.pc = call[c].after),
         call[c].pc = "commit", effects' = effects,
         durable' = [durable EXCEPT ![Op(c)] = call[c].succ]
  PROVE  CancelInv'
  <1>0. /\ call[c].intent \in Intents /\ Op(c) \in Ops
        /\ call[c].after \in Afters \cup {"submitted"}
    BY CallFacts, IntentOp DEF FrameOK, Op, CallInv, CallOK
  <1>1. \A o \in Ops : durable'[o] = IF o = Op(c) THEN call[c].succ ELSE durable[o]
    BY <1>0 DEF IInv
  <1>2. f.pc # "execute" /\ f.pc # "commit" /\ Restful(f, call[c])
    BY <1>0 DEF Restful, Idle, Afters
  <1>3. \A o : Halting(o) => Halting(o)'
    BY <1>2, HaltingKept
  <1>4. CancelOK(call[c])
    BY DEF CancelInv
  <1>5. \A o \in Ops : durable'[o].status = "cancelled" => Halting(o)'
    BY <1>1, <1>3, <1>4 DEF CancelInv, CancelOK, Op
  <1>6. ASSUME NEW d \in Callers, call'[d].pc = "commit"
        PROVE  /\ call'[d].after = "prepared" => call'[d].succ.status = "running"
               /\ call'[d].succ.status = "cancelled" =>
                    call'[d].after = "unlock" /\ Halting(call'[d].intent.op)
    <2>1. call'[d] = call[d]
      BY <1>2, <1>6 DEF Turn
    <2> QED BY <1>6, <2>1 DEF CancelInv, CancelOK
  <1>7. ASSUME NEW d \in Callers, call'[d].pc = "prepared"
        PROVE  durable'[call'[d].intent.op].status # "cancelled"
    <2>1. CASE d = c
      <3>1. call'[d] = f /\ f.intent = call[c].intent /\ call[c].after = "prepared"
        BY <1>7, <2>1 DEF Turn, Idle, Same
      <3>2. call[c].succ.status = "running"
        BY <1>4, <3>1 DEF CancelOK
      <3> QED BY <1>0, <1>1, <3>1, <3>2 DEF Op
    <2>2. CASE d # c
      <3>1. call'[d] = call[d] /\ call[d].pc = "prepared"
        BY <1>7, <2>2 DEF Turn
      <3>2. Op(d) \in Ops /\ durable[Op(d)].status # "cancelled" /\ Guarded(call[d])
        BY <3>1, GuardedOp DEF Guarded, GuardedAt, CancelInv, CancelOK, Op
      <3>3. Op(d) = Op(c) => call[c].succ.status # "cancelled"
        <4>1. call[c].succ.status = "cancelled" => Guarded(call[c])
          BY <1>4 DEF CancelOK, Guarded, GuardedAt
        <4> QED BY <2>2, <3>2, <4>1, OneGuard
      <3> QED BY <1>1, <3>1, <3>2, <3>3 DEF Op
    <2> QED BY <2>1, <2>2
  <1>8. \A o : (\E d \in Callers : /\ call'[d].pc = "commit"
                                   /\ call'[d].succ.status = "cancelled"
                                   /\ call'[d].intent.op = o) => Halting(o)'
    BY <1>3, <1>6
  <1> QED BY <1>5, <1>6, <1>7, <1>8, CancelNext

\* A stopped operation without an effect is the only one that is cancelled.
LEMMA CancelAsked ==
  ASSUME "resolve" \notin Calls, IInv, CallInv, StatusInv, Records(FreshRecord), CancelInv,
         NEW c \in Callers, Asked(c)
  PROVE  CancelInv'
  <1>1. PICK fr \in SoundCall, succ \in SoundRecord, allow \in BOOLEAN, after \in Afters :
          /\ Asks(c, fr, succ, allow, after)
          /\ CommitSuccessor(c, fr, Held(fr), succ, allow, after)
    BY DEF Asked
  <1>2. PICK f \in SoundCall :
          /\ call' = [call EXCEPT ![c] = f] /\ Same(f, call[c])
          /\ \/ Fenced(Held(fr), succ.status, allow) /\ f.pc = after
             \/ f.pc = "commit" /\ f.succ = succ /\ f.after = after
    BY <1>1, AskedFrame
  <1>3. /\ GoodFrame(fr) /\ fr.intent = call[c].intent /\ fr.intent.op \in Ops
        /\ Held(fr) \in FreshRecord /\ Held(fr) \in SoundRecord
        /\ Held(fr).status \in OperationStatus
    <2>1. GoodFrame(fr) /\ fr.intent = call[c].intent
      BY <1>1 DEF Asks, Same
    <2>2. fr.intent.op \in Ops /\ Held(fr) \in SoundRecord
      BY <2>1, FrameHolds
    <2>3. Held(fr) \in FreshRecord
      BY <2>1, <2>2 DEF GoodFrame, Held, Records
    <2> QED BY <2>1, <2>2, <2>3, HeldStatus
  <1>4. after = "prepared" =>
          succ.status = "running" /\ ~Fenced(Held(fr), succ.status, allow)
    <2> SUFFICES ASSUME after = "prepared"
                 PROVE  succ.status = "running" /\ ~Fenced(Held(fr), succ.status, allow)
      OBVIOUS
    <2>1. /\ succ = Running(Held(fr))
          /\ CanTransitionOperationStatus(Held(fr).status, succ.status)
      BY <1>1 DEF Asks, AsksUnderLock, AsksInLease, AsksInHand, AsksAfterStop, AfterVerify
    <2>2. succ.status = "running"
      BY <1>3, <2>1 DEF Running, SoundRecord, OperationControlRecord
    <2>3. Held(fr).status = "leased" /\ ~Held(fr).invalidated
      BY <1>3, <2>1, <2>2, TransitionTable DEF FreshRecord
    <2> QED BY <2>2, <2>3 DEF Fenced
  <1>5. succ.status = "cancelled" => after = "unlock" /\ Halting(Op(c))
    <2> USE <1>3 DEF SoundRecord, OperationControlRecord
    <2>1. CASE AsksUnderLock(c, fr, succ, allow, after)
      <3>1. call[c].kind # "resolve"
        BY DEF CallInv, CallOK
      <3> QED BY <2>1, <3>1 DEF AsksUnderLock, Queued, ResumeQueued, ResumeVerifying,
                 CancelRequested
    <2>2. CASE AsksInLease(c, fr, succ, allow, after)
      BY <2>2 DEF AsksInLease, Leased, PermissionDenied, Running
    <2>3. CASE AsksInHand(c, fr, succ, allow, after)
      BY <2>3 DEF AsksInHand, HandFailed, HandVerifying, HandBlocked, HandReconcile,
         HandSucceeded
    <2>4. CASE AsksAfterStop(c, fr, succ, allow, after)
      <3>1. PICK s \in StopReceipts(Op(c)) :
              succ = CancelSettled(Held(fr), PlanOperationCancellation(s.stopped, s.effect),
                                   s.effect)
        BY <2>4 DEF AsksAfterStop
      <3>2. succ.status = PlanOperationCancellation(s.stopped, s.effect)
        BY <3>1 DEF CancelSettled
      <3>3. succ.status = "cancelled" => s.stopped /\ s.effect = "none"
        BY <3>2 DEF PlanOperationCancellation, StopReceipts, OperationSideEffectState
      <3> QED BY <2>4, <3>3 DEF AsksAfterStop, StopReceipts, Halting
    <2> QED BY <1>1, <2>1, <2>2, <2>3, <2>4 DEF Asks
  <1>6. Restful(f, call[c]) /\ CancelOK(f)
    BY <1>2, <1>4, <1>5 DEF Restful, CancelOK, Same, Afters, Op
  <1>7. Turn(c, f) /\ UNCHANGED <<durable, effects>>
    BY <1>2, TurnBy DEF Asked
  <1> QED BY <1>6, <1>7, CancelTurn

LEMMA CancelHand ==
  ASSUME IInv, LockInv, CancelInv, NEW c \in Callers,
         Invokes(c) \/ Relock(c) \/ ExecutorEffect(c) \/ ExecutorStops(c)
  PROVE  CancelInv'
  <1>0. call[c] \in SoundCall /\ FrameOK(call[c], cells)
    BY CallFacts
  <1>1. CASE Relock(c)
    <2>1. PICK f : Turn(c, f) /\ f.pc = "settled"
      BY <1>1, CallTurns
    <2> QED BY <1>1, <2>1, CancelTurn DEF Relock, Restful, CancelOK
  <1>2. CASE ExecutorStops(c)
    <2>1. PICK f : Turn(c, f) /\ f = [call[c] EXCEPT !.halted = TRUE] /\ call[c].pc = "execute"
      BY <1>2, CallTurns
    <2>2. f.pc = "execute" /\ f.intent = call[c].intent /\ f.halted
      BY <1>0, <2>1 DEF SoundCall
    <2> QED BY <1>2, <2>1, <2>2, CancelTurn DEF ExecutorStops, Restful, CancelOK
  <1>3. CASE ExecutorEffect(c)
    <2>1. PICK f : Turn(c, f) /\ f = [call[c] EXCEPT !.touched = TRUE] /\ call[c].pc = "execute"
      BY <1>3, CallTurns
    <2>2. /\ f.pc = "execute" /\ f.intent = call[c].intent /\ f.halted = call[c].halted
          /\ f.intent \in Intents /\ Op(c) \in Ops /\ ~call[c].halted
          /\ c \in CallsOn(Op(c)) /\ durable' = durable
      BY <1>0, <1>3, <2>1, IntentOp, IntentsAssumption
      DEF SoundCall, FrameOK, ExecutorEffect, Op, CallsOn
    <2>3. ~Halting(Op(c))
      BY <2>1, <2>2 DEF Halting
    <2>4. \A o \in Ops : o # Op(c) => effects'[o] = effects[o]
      BY <1>3 DEF ExecutorEffect, IInv, Op
    <2>5. ASSUME NEW o \in Ops, Halting(o) PROVE Halting(o)'
      <3>1. o # Op(c) /\ effects'[o] = 0
        BY <2>3, <2>4, <2>5 DEF Halting
      <3> SUFFICES ASSUME NEW d \in Callers, call'[d].intent # NoIntent,
                          call'[d].intent.op = o, call'[d].pc = "execute"
                   PROVE  call'[d].halted
        BY <3>1 DEF Halting, CallsOn
      <3>2. d # c /\ call'[d] = call[d]
        BY <2>1, <2>2, <3>1 DEF Turn, Op
      <3> QED BY <2>5, <3>2 DEF Halting, CallsOn
    <2>6. \A d \in Callers : CancelOK(call'[d])
      BY <2>1, <2>2 DEF Turn, CancelInv, CancelOK
    <2>7. \A d \in Callers : call'[d].pc = "commit" => call'[d].intent.op \in Ops
      BY <2>1, <2>2, CallFacts, IntentOp DEF Turn, FrameOK
    <2>8. \A o : (\/ o \in Ops /\ durable'[o].status = "cancelled"
                  \/ \E d \in Callers : /\ call'[d].pc = "commit"
                                        /\ call'[d].succ.status = "cancelled"
                                        /\ call'[d].intent.op = o)
                 => o \in Ops /\ Halting(o)
      BY <2>2, <2>6, <2>7 DEF CancelOK, CancelInv
    <2> QED BY <2>2, <2>5, <2>6, <2>8, CancelNext DEF CancelOK
  <1>4. CASE Invokes(c)
    <2>1. PICK f : Turn(c, f) /\ Alike(f, call[c]) /\ f.pc = "execute"
      BY <1>4, CallTurns
    <2>2. /\ call[c].pc = "prepared" /\ Guarded(call[c]) /\ f.intent = call[c].intent
          /\ UNCHANGED <<durable, effects>>
      BY <1>4, <2>1 DEF Invokes, Guarded, GuardedAt, Alike, Same
    <2>3. ASSUME NEW o, o # Op(c), Halting(o) PROVE Halting(o)'
      <3> SUFFICES ASSUME NEW d \in Callers, call'[d].intent # NoIntent,
                          call'[d].intent.op = o, call'[d].pc = "execute"
                   PROVE  call'[d].halted
        BY <2>2, <2>3 DEF Halting, CallsOn
      <3>1. d # c /\ call'[d] = call[d]
        BY <2>1, <2>2, <2>3 DEF Turn, Op
      <3> QED BY <2>3, <3>1 DEF Halting, CallsOn
    <2>4. durable[Op(c)].status # "cancelled"
      BY <2>2 DEF CancelInv, CancelOK, Op
    <2>5. \A d \in Callers : call'[d].pc \in {"commit", "prepared"} =>
            d # c /\ call'[d] = call[d] /\ CancelOK(call[d])
      BY <2>1 DEF Turn, CancelInv
    <2>6. ASSUME NEW d \in Callers, call'[d].pc = "commit", call'[d].succ.status = "cancelled"
          PROVE  call'[d].intent.op # Op(c) /\ Halting(call'[d].intent.op)
      <3>1. d # c /\ call'[d] = call[d] /\ CancelOK(call[d]) /\ call[d].pc = "commit"
            /\ call[d].succ.status = "cancelled"
        BY <2>5, <2>6
      <3>2. Guarded(call[d]) /\ Halting(Op(d))
        BY <3>1 DEF CancelOK, Guarded, GuardedAt, Op
      <3> QED BY <2>2, <3>1, <3>2, OneGuard DEF Op
    <2>7. \A o : (\/ o \in Ops /\ durable'[o].status = "cancelled"
                  \/ \E d \in Callers : /\ call'[d].pc = "commit"
                                        /\ call'[d].succ.status = "cancelled"
                                        /\ call'[d].intent.op = o)
                 => o # Op(c) /\ Halting(o)
      BY <2>2, <2>4, <2>6 DEF CancelInv
    <2> QED BY <2>2, <2>3, <2>5, <2>7, CancelNext DEF CancelOK
  <1> QED BY <1>1, <1>2, <1>3, <1>4

LEMMA CancelStep ==
  ASSUME "resolve" \notin Calls, IInv, LockInv, CallInv, StatusInv, Records(FreshRecord),
         CancelInv, [Next]_vars
  PROVE  CancelInv'
  <1>1. ASSUME NEW c \in Callers,
               \/ \E i \in Intents : Submit(c, i)
               \/ \E i \in Intents, kind \in LockedKinds : StartLocked(c, kind, i)
               \/ ReadControl(c)
        PROVE  CancelInv'
    <2>1. PICK f : Turn(c, f) /\ f.pc \in {"accept", "lock", "hydrate"}
      BY <1>1, StartTurns
    <2>2. UNCHANGED <<durable, effects>>
      BY <1>1 DEF Submit, StartLocked, ReadControl
    <2> QED BY <2>1, <2>2, CancelTurn DEF Restful, CancelOK
  <1>2. ASSUME NEW c \in Callers, Quits(c) \/ Hydrate(c) PROVE CancelInv'
    <2>1. Turn(c, Idle) /\ UNCHANGED <<durable, effects>>
      BY <1>2, CallTurns DEF Quits, Hydrate
    <2> QED BY <2>1, IdleCancel, CancelTurn
  <1>3. ASSUME NEW c \in Callers, AdmitGranted(c) PROVE CancelInv'
    <2>1. PICK f : Turn(c, f) /\ f.pc = "commit" /\ f.after = "submitted"
                   /\ f.succ = Accepted(call[c].intent)
      BY <1>3, CallTurns
    <2>2. f.succ.status = "accepted"
      BY <2>1 DEF Accepted, NoControl
    <2> QED BY <1>3, <2>1, <2>2, CancelTurn DEF AdmitGranted, Restful, CancelOK
  <1>4. ASSUME NEW c \in Callers, Moves(c) PROVE CancelInv'
    <2>1. PICK f \in SoundCall : call' = [call EXCEPT ![c] = f]
                                 /\ f.pc \in {"queued", "lease", "stop"}
      BY <1>4 DEF Moves
    <2>2. Turn(c, f) /\ UNCHANGED <<durable, effects>>
      BY <1>4, <2>1, TurnBy DEF Moves
    <2> QED BY <2>1, <2>2, CancelTurn DEF Restful, CancelOK
  <1>5. ASSUME NEW c \in Callers, Commit(c) PROVE CancelInv'
    <2>1. PICK f : Turn(c, f) /\ Same(f, call[c]) /\ f.pc = call[c].after
      BY <1>5, CallTurns
    <2> QED BY <1>5, <2>1, CancelCommit DEF Commit, Op
  <1>6. ASSUME NEW c \in Callers, CommitUnacknowledged(c) PROVE CancelInv'
    <2>1. Turn(c, Idle)
      BY <1>6, CallTurns
    <2> QED BY <1>6, <2>1, CancelCommit DEF CommitUnacknowledged, Op
  <1>7. CASE Crash
    <2>1. (\A c \in Callers : call'[c] = Idle) /\ UNCHANGED <<durable, effects>>
      BY <1>7 DEF Crash
    <2> QED BY <2>1 DEF CancelInv, CancelOK, Halting, CallsOn, Idle
  <1>8. CASE UNCHANGED vars
    BY <1>8 DEF vars, CancelInv, CancelOK, Halting, CallsOn
  <1> QED BY <1>1, <1>2, <1>3, <1>4, <1>5, <1>6, <1>7, <1>8, CancelAsked, CancelHand,
             StepCases DEF Next

\* While no reconcile is resolved, a cancelled operation had no external
\* effect and never will: the receipt that cancels it says so of a stopped
\* executor, and no call holds the lock that could invoke another, however
\* stale the object a call holds is and whatever commit or acknowledgement is
\* lost (gateway.ts settleCancellation, requestCancel; commitSuccessor).
THEOREM CancelledUntouched ==
  ASSUME "resolve" \notin Calls
  PROVE  Spec => []CancelledIsUntouched
  <1>1. Init => CancelInv
    BY DEF Init, CancelInv, CancelOK, NoControl, Idle
  <1>2. /\ IInv /\ LockInv /\ CallInv /\ StatusInv /\ Records(FreshRecord) /\ CancelInv
        /\ [Next]_vars
        => CancelInv'
    BY CancelStep
  <1>3. CancelInv => CancelledIsUntouched
    BY DEF CancelInv, CancelledIsUntouched, Halting
  <1> QED BY <1>1, <1>2, <1>3, InvariantHolds, LockHolds, CallsHold, StatusHolds, FreshHolds,
             PTL DEF Spec

-------------------------------------------------------------------------------
(***************************************************************************)
(* A record with the mark of a stop is only committed under the lock that  *)
(* a call about to invoke the executor holds, and no call prepares the     *)
(* invocation over such a record.                                          *)
(***************************************************************************)
StopOK(f) ==
    /\ f.pc = "prepared" => ~durable[f.intent.op].invalidated
    /\ f.pc = "commit" /\ f.succ.invalidated => f.after = "unlock"

StopInv == \A c \in Callers : StopOK(call[c])

\* A step that does not commit.
LEMMA StopTurn ==
  ASSUME StopInv, NEW c \in Callers, NEW f, Turn(c, f), durable' = durable, StopOK(f)
  PROVE  StopInv'
  BY DEF StopInv, StopOK, Turn

LEMMA StopAsked ==
  ASSUME IInv, CallInv, StatusInv, Records(FreshRecord), StopInv,
         NEW c \in Callers, Asked(c)
  PROVE  StopInv'
  <1>1. PICK fr \in SoundCall, succ \in SoundRecord, allow \in BOOLEAN, after \in Afters :
          /\ Asks(c, fr, succ, allow, after)
          /\ CommitSuccessor(c, fr, Held(fr), succ, allow, after)
    BY DEF Asked
  <1>2. PICK f \in SoundCall :
          /\ call' = [call EXCEPT ![c] = f]
          /\ \/ Fenced(Held(fr), succ.status, allow) /\ f.pc = after
             \/ /\ ~Fenced(Held(fr), succ.status, allow)
                /\ f.pc = "commit" /\ f.succ = succ /\ f.after = after
    BY <1>1, AskedFrame
  <1> DEFINE r == Held(fr)
  <1>3. r \in FreshRecord /\ r \in SoundRecord /\ r.status \in OperationStatus
    <2>1. GoodFrame(fr)
      BY <1>1 DEF Asks
    <2>2. fr.intent.op \in Ops /\ r \in SoundRecord
      BY <2>1, FrameHolds
    <2>3. r \in FreshRecord
      BY <2>1, <2>2 DEF GoodFrame, Held, Records
    <2> QED BY <2>1, <2>2, <2>3, HeldStatus
  <1>4. after = "prepared" => ~Fenced(r, succ.status, allow)
    <2> SUFFICES ASSUME after = "prepared" PROVE ~Fenced(r, succ.status, allow)
      OBVIOUS
    <2>1. succ = Running(r) /\ CanTransitionOperationStatus(r.status, succ.status)
      BY <1>1 DEF Asks, AsksUnderLock, AsksInLease, AsksInHand, AsksAfterStop, AfterVerify
    <2> HIDE DEF r
    <2>2. succ.status = "running"
      BY <1>3, <2>1 DEF Running, SoundRecord, OperationControlRecord
    <2>3. r.status = "leased" /\ ~r.invalidated
      BY <1>3, <2>1, <2>2, TransitionTable DEF FreshRecord
    <2> QED BY <2>3 DEF Fenced
  <1>5. ~Fenced(r, succ.status, allow) /\ after # "unlock" => ~succ.invalidated
    <2> SUFFICES ASSUME ~Fenced(r, succ.status, allow), after # "unlock"
                 PROVE  ~succ.invalidated
      OBVIOUS
    <2>1. allow = FALSE
      BY <1>1 DEF Asks, AsksUnderLock, AsksInLease, AsksInHand, AsksAfterStop
    <2>2. ~r.invalidated
      BY <2>1 DEF Fenced
    <2>3. succ.invalidated = r.invalidated
      <3> HIDE DEF r
      <3> USE <1>3 DEF SoundRecord, OperationControlRecord
      <3>1. CASE AsksUnderLock(c, fr, succ, allow, after)
        BY <3>1 DEF AsksUnderLock, r, Queued, ResumeQueued, ResumeVerifying,
           CancelRequested, ReconcileRecovered, ReconcileCancelled, ReconcileFailed
      <3>2. CASE AsksInLease(c, fr, succ, allow, after)
        BY <3>2 DEF AsksInLease, r, Leased, PermissionDenied, Running
      <3>3. CASE AsksInHand(c, fr, succ, allow, after)
        BY <3>3 DEF AsksInHand, r, HandFailed, HandVerifying, HandBlocked, HandReconcile,
           HandSucceeded
      <3>4. CASE AsksAfterStop(c, fr, succ, allow, after)
        BY <2>1, <3>4 DEF AsksAfterStop
      <3> QED BY <1>1, <3>1, <3>2, <3>3, <3>4 DEF Asks
    <2> QED BY <2>2, <2>3
  <1>6. StopOK(f)
    BY <1>2, <1>4, <1>5 DEF StopOK, Afters
  <1>7. Turn(c, f) /\ durable' = durable
    BY <1>2, TurnBy DEF Asked
  <1> QED BY <1>6, <1>7, StopTurn

LEMMA StopCommit ==
  ASSUME IInv, LockInv, CallInv, StopInv, NEW c \in Callers,
         Commit(c) \/ CommitUnacknowledged(c)
  PROVE  StopInv'
  <1>1. /\ call[c].pc = "commit" /\ Op(c) \in Ops
        /\ call[c].after \in Afters \cup {"submitted"}
        /\ durable' = [durable EXCEPT ![Op(c)] = call[c].succ]
    <2>1. /\ call[c].pc = "commit"
          /\ durable' = [durable EXCEPT ![Op(c)] = call[c].succ]
      BY DEF Commit, CommitUnacknowledged, Op
    <2> QED BY <2>1, CallFacts, IntentOp DEF FrameOK, Op, CallInv, CallOK
  <1>2. \A o \in Ops : durable'[o] = IF o = Op(c) THEN call[c].succ ELSE durable[o]
    BY <1>1 DEF IInv
  <1>3. PICK f : /\ Turn(c, f)
                 /\ f.pc = "idle" \/ (f.pc = call[c].after /\ f.intent = call[c].intent)
    <2>1. Idle.pc = "idle"
      BY DEF Idle
    <2> QED BY <2>1, CallTurns DEF Same
  <1>4. f.pc # "commit"
    BY <1>1, <1>3 DEF Afters
  <1>5. ASSUME NEW d \in Callers, call'[d].pc = "prepared"
        PROVE  ~durable'[call'[d].intent.op].invalidated
    <2>1. CASE d = c
      <3>1. call'[d].intent.op = Op(c) /\ call[c].after = "prepared"
        BY <1>3, <1>5, <2>1 DEF Turn, Op
      <3>2. ~call[c].succ.invalidated
        BY <1>1, <3>1 DEF StopInv, StopOK
      <3> QED BY <1>1, <1>2, <3>1, <3>2
    <2>2. CASE d # c
      <3>1. call'[d] = call[d] /\ call[d].pc = "prepared"
        BY <1>3, <1>5, <2>2 DEF Turn
      <3>2. Op(d) \in Ops /\ ~durable[Op(d)].invalidated /\ Guarded(call[d])
        BY <3>1, GuardedOp DEF Guarded, GuardedAt, StopInv, StopOK, Op
      <3>3. call[c].succ.invalidated => Guarded(call[c])
        BY <1>1 DEF StopInv, StopOK, Guarded, GuardedAt
      <3>4. Op(d) = Op(c) => ~call[c].succ.invalidated
        BY <2>2, <3>2, <3>3, OneGuard
      <3> QED BY <1>2, <3>1, <3>2, <3>4 DEF Op
    <2> QED BY <2>1, <2>2
  <1>6. ASSUME NEW d \in Callers, call'[d].pc = "commit", call'[d].succ.invalidated
        PROVE  call'[d].after = "unlock"
    <2>1. call'[d] = call[d]
      BY <1>3, <1>4, <1>6 DEF Turn
    <2> QED BY <1>6, <2>1 DEF StopInv, StopOK
  <1> QED BY <1>5, <1>6 DEF StopInv, StopOK

LEMMA StopStep ==
  ASSUME IInv, LockInv, CallInv, StatusInv, Records(FreshRecord), StopInv, [Next]_vars
  PROVE  StopInv'
  <1>1. ASSUME NEW c \in Callers,
               \/ \E i \in Intents : Submit(c, i)
               \/ \E i \in Intents, kind \in LockedKinds : StartLocked(c, kind, i)
               \/ ReadControl(c)
        PROVE  StopInv'
    <2>1. PICK f : Turn(c, f) /\ f.pc \in {"accept", "lock", "hydrate"}
      BY <1>1, StartTurns
    <2>2. durable' = durable
      BY <1>1 DEF Submit, StartLocked, ReadControl
    <2> QED BY <2>1, <2>2, StopTurn DEF StopOK
  <1>2. ASSUME NEW c \in Callers, Quits(c) \/ Hydrate(c) PROVE StopInv'
    <2>1. Turn(c, Idle) /\ durable' = durable
      BY <1>2, CallTurns DEF Quits, Hydrate
    <2>2. Idle.pc = "idle"
      BY DEF Idle
    <2> QED BY <2>1, <2>2, StopTurn DEF StopOK
  <1>3. ASSUME NEW c \in Callers, AdmitGranted(c) PROVE StopInv'
    <2>1. PICK f : Turn(c, f) /\ f.pc = "commit" /\ f.succ = Accepted(call[c].intent)
      BY <1>3, CallTurns
    <2>2. ~f.succ.invalidated /\ durable' = durable
      BY <1>3, <2>1 DEF Accepted, NoControl, AdmitGranted
    <2> QED BY <2>1, <2>2, StopTurn DEF StopOK
  <1>4. ASSUME NEW c \in Callers,
               Invokes(c) \/ Relock(c) \/ ExecutorEffect(c) \/ ExecutorStops(c)
        PROVE  StopInv'
    <2>1. PICK f : Turn(c, f) /\ f.pc \in {"execute", "settled"}
      BY <1>4, CallTurns, CallFacts DEF SoundCall
    <2>2. durable' = durable
      BY <1>4 DEF Invokes, Relock, ExecutorEffect, ExecutorStops
    <2> QED BY <2>1, <2>2, StopTurn DEF StopOK
  <1>5. ASSUME NEW c \in Callers, Moves(c) PROVE StopInv'
    <2>1. PICK f \in SoundCall : call' = [call EXCEPT ![c] = f]
                                 /\ f.pc \in {"queued", "lease", "stop"}
      BY <1>5 DEF Moves
    <2>2. Turn(c, f) /\ durable' = durable
      BY <1>5, <2>1, TurnBy DEF Moves
    <2> QED BY <2>1, <2>2, StopTurn DEF StopOK
  <1>6. CASE Crash
    <2>1. \A c \in Callers : call'[c] = Idle
      BY <1>6 DEF Crash
    <2>2. Idle.pc = "idle"
      BY DEF Idle
    <2> QED BY <2>1, <2>2 DEF StopInv, StopOK
  <1>7. CASE UNCHANGED vars
    BY <1>7 DEF vars, StopInv, StopOK
  <1> QED BY <1>1, <1>2, <1>3, <1>4, <1>5, <1>6, <1>7, StopAsked, StopCommit, StepCases
          DEF Next

\* Only the step that releases the lock starts an executor.
LEMMA InvokesStarts ==
  ASSUME IInv, CallInv, [Next]_vars, NEW c \in Callers,
         call[c].pc # "execute", call'[c].pc = "execute"
  PROVE  Invokes(c)
  <1>1. ASSUME NEW d \in Callers,
               \/ \E i \in Intents : Submit(d, i)
               \/ \E i \in Intents, kind \in LockedKinds : StartLocked(d, kind, i)
               \/ ReadControl(d)
        PROVE  FALSE
    <2>1. PICK f : Turn(d, f) /\ f.pc \in {"accept", "lock", "hydrate"}
      BY <1>1, StartTurns
    <2> QED BY <2>1 DEF Turn
  <1>2. ASSUME NEW d \in Callers, Quits(d) \/ Hydrate(d) \/ CommitUnacknowledged(d)
        PROVE  FALSE
    <2>1. Turn(d, Idle) /\ Idle.pc = "idle"
      BY <1>2, CallTurns DEF Idle
    <2> QED BY <2>1 DEF Turn
  <1>3. ASSUME NEW d \in Callers, AdmitGranted(d) \/ Relock(d) PROVE FALSE
    <2>1. PICK f : Turn(d, f) /\ f.pc \in {"commit", "settled"}
      BY <1>3, CallTurns
    <2> QED BY <2>1 DEF Turn
  <1>4. ASSUME NEW d \in Callers, ExecutorEffect(d) \/ ExecutorStops(d) PROVE FALSE
    <2>1. PICK f : Turn(d, f) /\ call[d].pc = "execute"
      BY <1>4, CallTurns
    <2> QED BY <2>1 DEF Turn
  <1>5. ASSUME NEW d \in Callers, Moves(d) PROVE FALSE
    <2>1. PICK f \in SoundCall : call' = [call EXCEPT ![d] = f]
                                 /\ f.pc \in {"queued", "lease", "stop"}
      BY <1>5 DEF Moves
    <2> QED BY <2>1, TurnBy DEF Turn
  <1>6. ASSUME NEW d \in Callers, Asked(d) PROVE FALSE
    <2>1. PICK fr \in SoundCall, succ \in SoundRecord, allow \in BOOLEAN, after \in Afters :
            /\ Asks(d, fr, succ, allow, after)
            /\ CommitSuccessor(d, fr, Held(fr), succ, allow, after)
      BY <1>6 DEF Asked
    <2>2. PICK f \in SoundCall : call' = [call EXCEPT ![d] = f] /\ f.pc \in {"commit", after}
      BY <2>1, AskedFrame
    <2> QED BY <2>2, TurnBy DEF Turn, Afters
  <1>7. ASSUME NEW d \in Callers, Commit(d) PROVE FALSE
    <2>1. PICK f : Turn(d, f) /\ f.pc = call[d].after
      BY <1>7, CallTurns
    <2>2. call[d].after \in Afters \cup {"submitted"}
      BY <1>7 DEF Commit, CallInv, CallOK
    <2> QED BY <2>1, <2>2 DEF Turn, Afters
  <1>8. ASSUME NEW d \in Callers, Invokes(d) PROVE Invokes(c)
    <2>1. PICK f : Turn(d, f)
      BY <1>8, CallTurns
    <2>2. d = c
      BY <2>1 DEF Turn
    <2> QED BY <1>8, <2>2
  <1>9. CASE Crash
    <2>1. call'[c].pc = "idle"
      BY <1>9 DEF Crash, Idle
    <2> QED BY <2>1
  <1>10. CASE UNCHANGED vars
    BY <1>10 DEF vars
  <1> QED BY <1>1, <1>2, <1>3, <1>4, <1>5, <1>6, <1>7, <1>8, <1>9, <1>10, StepCases DEF Next

\* Whatever is called, and whatever the journal and the process suffer, no
\* executor is invoked while the durable record of its operation carries the
\* mark of a settled stop (gateway.ts leaseAndPrepare, settleCancellation).
THEOREM StoppedStaysStopped == Spec => StoppedNeverRuns
  <1>1. Init => StopInv
    <2>1. Init => \A c \in Callers : call[c].pc = "idle"
      BY DEF Init, Idle
    <2> QED BY <2>1 DEF StopInv, StopOK
  <1>2. /\ IInv /\ LockInv /\ CallInv /\ StatusInv /\ Records(FreshRecord) /\ StopInv
        /\ [Next]_vars
        => StopInv'
    BY StopStep
  <1>3. IInv /\ CallInv /\ StopInv /\ [Next]_vars =>
          [\A c \in Callers :
             call[c].pc # "execute" /\ call'[c].pc = "execute" =>
               ~durable[call[c].intent.op].invalidated]_vars
    BY InvokesStarts DEF Invokes, StopInv, StopOK
  <1> QED BY <1>1, <1>2, <1>3, InvariantHolds, LockHolds, CallsHold, StatusHolds, FreshHolds,
             PTL DEF Spec, StoppedNeverRuns

-------------------------------------------------------------------------------
(***************************************************************************)
(* The executor's fence: from the commit of a lease to the invocation, the *)
(* durable record carries the lease of the call, as long as no other call  *)
(* commits for the operation.                                              *)
(***************************************************************************)
OwnLease(f) == [epoch |-> f.epoch, state |-> "active"]

FenceOK(f, r) ==
    /\ f.pc = "leased" /\ r.status = "leased" => r.lease = OwnLease(f)
    /\ f.pc = "prepared" => r.status = "running" /\ r.lease = OwnLease(f)
    /\ f.pc = "commit" /\ f.after = "leased" => f.succ.lease = OwnLease(f)
    /\ f.pc = "commit" /\ f.after = "prepared" =>
         f.succ.status = "running" /\ f.succ.lease = OwnLease(f)

FenceInv == \A c \in Callers : Op(c) \notin overtaken => FenceOK(call[c], durable[Op(c)])

\* No other call commits for an operation between its lease and its run.
SoleWriter ==
    \A c, d \in Callers :
        /\ Op(c) \notin overtaken
        /\ At(call[c], {"leased", "prepared"})
        /\ call[d].pc = "commit" /\ JournalAccepts(durable[Op(d)], call[d].succ)
        /\ Op(c) = Op(d)
        => c = d

LEMMA FenceTurn ==
  ASSUME FenceInv, NEW c \in Callers, NEW f, Turn(c, f), durable' = durable,
         overtaken \subseteq overtaken',
         f.intent.op \notin overtaken => FenceOK(f, durable[f.intent.op])
  PROVE  FenceInv'
  <1>1. \A d \in Callers : call'[d].intent.op \notin overtaken =>
          FenceOK(call'[d], durable'[call'[d].intent.op])
    BY DEF Turn, FenceInv, Op
  <1> QED BY <1>1 DEF FenceInv, Op

\* What a read has overtaken stays so.
LEMMA OvertakenGrows ==
  ASSUME IInv, [Next]_vars
  PROVE  overtaken \subseteq overtaken'
  <1>1. ASSUME NEW c \in Callers, Step(c) PROVE overtaken \subseteq overtaken'
    BY <1>1, StepCases
    DEF Quits, Moves, Asked, AdmitGranted, Commit, CommitUnacknowledged, Invokes, Relock, Hydrate
  <1>2. ASSUME NEW c \in Callers,
               \/ \E i \in Intents : Submit(c, i)
               \/ \E i \in Intents, kind \in LockedKinds : StartLocked(c, kind, i)
               \/ ReadControl(c) \/ ExecutorEffect(c) \/ ExecutorStops(c)
        PROVE  overtaken \subseteq overtaken'
    BY <1>2 DEF Submit, StartLocked, ReadControl, ExecutorEffect, ExecutorStops
  <1> QED BY <1>1, <1>2 DEF Next, Crash, vars

\* The record a handler reads is the durable one.
LEMMA HeldIsDurable ==
  ASSUME IInv, CacheInv, NEW fr, GoodFrame(fr), fr.intent.op \notin overtaken
  PROVE  Held(fr) = durable[fr.intent.op] /\ Known(fr.intent.op)
  <1>1. fr.intent.op \in Ops /\ Known(fr.intent.op)
    BY FrameHolds DEF Known
  <1>2. cells[fr.intent.op] = <<durable[fr.intent.op]>> /\ fr.ref \in 1 .. Len(cells[fr.intent.op])
    BY <1>1 DEF CacheInv, GoodFrame
  <1>3. fr.ref = 1
    BY <1>2
  <1> QED BY <1>1, <1>2, <1>3 DEF Held

LEMMA FenceAsked ==
  ASSUME IInv, CallInv, StatusInv, Records(FreshRecord), CacheInv, FenceInv,
         NEW c \in Callers, Asked(c)
  PROVE  FenceInv'
  <1>1. PICK fr \in SoundCall, succ \in SoundRecord, allow \in BOOLEAN, after \in Afters :
          /\ Asks(c, fr, succ, allow, after)
          /\ CommitSuccessor(c, fr, Held(fr), succ, allow, after)
    BY DEF Asked
  <1>2. PICK f \in SoundCall :
          /\ call' = [call EXCEPT ![c] = f] /\ Same(f, call[c]) /\ f.epoch = fr.epoch
          /\ \/ Fenced(Held(fr), succ.status, allow) /\ f.pc = after
             \/ f.pc = "commit" /\ f.succ = succ /\ f.after = after
    BY <1>1, AskedFrame
  <1>t. Turn(c, f) /\ f.intent.op = Op(c) /\ UNCHANGED <<durable, overtaken>>
    BY <1>2, TurnBy DEF Asked, Same, Op
  <1>s. SUFFICES ASSUME Op(c) \notin overtaken PROVE FenceInv'
    BY <1>t, FenceTurn
  <1> DEFINE r == Held(fr)
  <1>3. /\ fr.intent = call[c].intent /\ r = durable[Op(c)]
        /\ r \in FreshRecord /\ r \in SoundRecord /\ r.status \in OperationStatus
    <2>1. GoodFrame(fr) /\ fr.intent = call[c].intent
      BY <1>1 DEF Asks, Same
    <2>2. fr.intent.op \in Ops /\ r \in SoundRecord
      BY <2>1, FrameHolds
    <2>3. r \in FreshRecord
      BY <2>1, <2>2 DEF GoodFrame, Held, Records
    <2> QED BY <1>s, <2>1, <2>2, <2>3, HeldStatus, HeldIsDurable DEF Op
  <1>4. CASE after \notin {"leased", "prepared"}
    <2>1. FenceOK(f, durable[f.intent.op])
      BY <1>2, <1>4 DEF FenceOK, Afters
    <2> QED BY <1>t, <2>1, FenceTurn
  <1>5. CASE after = "leased"
    <2>1. /\ fr.epoch = LeaseEpoch(r) /\ succ = Leased(r) /\ allow = FALSE
          /\ CanTransitionOperationStatus(r.status, succ.status)
      BY <1>1, <1>5 DEF Asks, AsksUnderLock, AsksInLease, AsksInHand, AsksAfterStop, AfterVerify
    <2> HIDE DEF r
    <2>2. succ.status = "leased" /\ succ.lease = [epoch |-> LeaseEpoch(r), state |-> "active"]
      BY <1>3, <2>1 DEF Leased, SoundRecord, OperationControlRecord
    <2>3. r.status = "queued" /\ ~r.invalidated
      BY <1>3, <2>1, <2>2, TransitionTable DEF FreshRecord
    <2>4. ~Fenced(r, succ.status, allow)
      BY <2>1, <2>3 DEF Fenced
    <2>5. FenceOK(f, durable[f.intent.op])
      BY <1>2, <1>5, <2>1, <2>2, <2>4 DEF FenceOK, OwnLease, r
    <2> QED BY <1>t, <2>5, FenceTurn
  <1>6. CASE after = "prepared"
    <2>1. /\ fr.epoch = call[c].epoch /\ call[c].pc = "leased"
          /\ succ = Running(r) /\ allow = FALSE
          /\ CanTransitionOperationStatus(r.status, succ.status)
      BY <1>1, <1>6 DEF Asks, AsksUnderLock, AsksInLease, AsksInHand, AsksAfterStop, AfterVerify
    <2> HIDE DEF r
    <2>2. succ.status = "running" /\ succ.lease = r.lease
      BY <1>3, <2>1 DEF Running, SoundRecord, OperationControlRecord
    <2>3. r.status = "leased" /\ ~r.invalidated
      BY <1>3, <2>1, <2>2, TransitionTable DEF FreshRecord
    <2>4. ~Fenced(r, succ.status, allow)
      BY <2>1, <2>3 DEF Fenced
    <2>5. r.lease = OwnLease(call[c])
      BY <1>s, <1>3, <2>1, <2>3 DEF FenceInv, FenceOK
    <2>6. FenceOK(f, durable[f.intent.op])
      BY <1>2, <1>6, <2>1, <2>2, <2>4, <2>5 DEF FenceOK, OwnLease, r
    <2> QED BY <1>t, <2>6, FenceTurn
  <1> QED BY <1>4, <1>5, <1>6

LEMMA FenceCommit ==
  ASSUME IInv, CallInv, FenceInv, SoleWriter, NEW c \in Callers, Commit(c)
  PROVE  FenceInv'
  <1>0. /\ call[c].pc = "commit" /\ Op(c) \in Ops
        /\ JournalAccepts(durable[Op(c)], call[c].succ)
        /\ \A p \in Ops : durable'[p] = IF p = Op(c) THEN call[c].succ ELSE durable[p]
    BY CommitFacts
  <1>1. PICK f : Turn(c, f) /\ Same(f, call[c]) /\ f.epoch = call[c].epoch
                 /\ f.pc = call[c].after
    BY CallTurns
  <1>t. overtaken' = overtaken
    BY DEF Commit
  <1>2. /\ call[c].after \in Afters \cup {"submitted"}
        /\ Op(c) \notin overtaken => FenceOK(call[c], durable[Op(c)])
    BY <1>0 DEF CallInv, CallOK, FenceInv
  <1>3. ASSUME NEW d \in Callers, call'[d].intent.op \notin overtaken
        PROVE  FenceOK(call'[d], durable'[call'[d].intent.op])
    <2>1. CASE d = c
      <3>1. call'[d] = f /\ f.intent.op = Op(c)
        BY <1>1, <2>1 DEF Turn, Same, Op
      <3> QED BY <1>0, <1>1, <1>2, <1>3, <3>1 DEF FenceOK, OwnLease, Afters
    <2>2. CASE d # c
      <3>1. /\ call'[d] = call[d] /\ Op(d) \notin overtaken
            /\ FenceOK(call[d], durable[Op(d)])
        BY <1>1, <1>3, <2>2 DEF Turn, FenceInv, Op
      <3>2. CASE call[d].pc \in {"leased", "prepared"}
        <4>1. Op(d) # Op(c)
          BY <1>0, <2>2, <3>1, <3>2 DEF SoleWriter, At
        <4>2. Op(d) \in Ops
          BY <3>2, CallFacts, IntentOp DEF FrameOK, Op
        <4> QED BY <1>0, <3>1, <4>1, <4>2 DEF Op
      <3>3. CASE call[d].pc \notin {"leased", "prepared"}
        BY <3>1, <3>3 DEF FenceOK
      <3> QED BY <3>2, <3>3
    <2> QED BY <2>1, <2>2
  <1> QED BY <1>t, <1>3 DEF FenceInv, Op

LEMMA FenceStep ==
  ASSUME "lostAck" \notin Faults, IInv, CallInv, StatusInv, Records(FreshRecord), CacheInv,
         SoleWriter, FenceInv, [Next]_vars
  PROVE  FenceInv'
  <1>0. overtaken \subseteq overtaken'
    BY OvertakenGrows
  <1>1. ASSUME NEW c \in Callers,
               \/ \E i \in Intents : Submit(c, i)
               \/ \E i \in Intents, kind \in LockedKinds : StartLocked(c, kind, i)
               \/ ReadControl(c)
        PROVE  FenceInv'
    <2>1. PICK f : Turn(c, f) /\ f.pc \in {"accept", "lock", "hydrate"}
      BY <1>1, StartTurns
    <2>2. durable' = durable
      BY <1>1 DEF Submit, StartLocked, ReadControl
    <2> QED BY <1>0, <2>1, <2>2, FenceTurn DEF FenceOK
  <1>2. ASSUME NEW c \in Callers, Quits(c) \/ Hydrate(c) PROVE FenceInv'
    <2>1. Turn(c, Idle) /\ durable' = durable
      BY <1>2, CallTurns DEF Quits, Hydrate
    <2>2. Idle.pc = "idle"
      BY DEF Idle
    <2> QED BY <1>0, <2>1, <2>2, FenceTurn DEF FenceOK
  <1>3. ASSUME NEW c \in Callers,
               AdmitGranted(c) \/ Invokes(c) \/ Relock(c) \/ ExecutorEffect(c) \/ ExecutorStops(c)
        PROVE  FenceInv'
    <2>1. PICK f : /\ Turn(c, f)
                   /\ f.pc \in {"execute", "settled"} \/ (f.pc = "commit" /\ f.after = "submitted")
      BY <1>3, CallTurns, CallFacts DEF SoundCall
    <2>2. durable' = durable
      BY <1>3 DEF AdmitGranted, Invokes, Relock, ExecutorEffect, ExecutorStops
    <2> QED BY <1>0, <2>1, <2>2, FenceTurn DEF FenceOK
  <1>4. ASSUME NEW c \in Callers, Moves(c) PROVE FenceInv'
    <2>1. PICK f \in SoundCall : call' = [call EXCEPT ![c] = f]
                                 /\ f.pc \in {"queued", "lease", "stop"}
      BY <1>4 DEF Moves
    <2>2. Turn(c, f) /\ durable' = durable
      BY <1>4, <2>1, TurnBy DEF Moves
    <2> QED BY <1>0, <2>1, <2>2, FenceTurn DEF FenceOK
  <1>5. CASE Crash
    <2>1. \A c \in Callers : call'[c] = Idle
      BY <1>5 DEF Crash
    <2>2. Idle.pc = "idle"
      BY DEF Idle
    <2> QED BY <2>1, <2>2 DEF FenceInv, FenceOK
  <1>6. CASE UNCHANGED vars
    BY <1>6 DEF vars, FenceInv, Op
  <1>7. \A c \in Callers : ~CommitUnacknowledged(c)
    BY DEF CommitUnacknowledged
  <1> QED BY <1>1, <1>2, <1>3, <1>4, <1>5, <1>6, <1>7, FenceAsked, FenceCommit, StepCases
          DEF Next

\* The executor starts under the lease its call holds.
LEMMA FenceGuards ==
  ASSUME IInv, CallInv, FenceInv, [Next]_vars, NEW c \in Callers,
         call[c].pc # "execute", call'[c].pc = "execute", Op(c) \notin overtaken
  PROVE  /\ durable[call[c].intent.op].status = "running"
         /\ durable[call[c].intent.op].lease = [epoch |-> call'[c].epoch, state |-> "active"]
  <1>1. Invokes(c)
    BY InvokesStarts
  <1>2. PICK f : Turn(c, f) /\ Alike(f, call[c])
    BY <1>1, CallTurns
  <1>3. call'[c].epoch = call[c].epoch /\ call[c].pc = "prepared"
    BY <1>1, <1>2 DEF Turn, Alike, Invokes
  <1> QED BY <1>3 DEF FenceInv, FenceOK, OwnLease, Op

\* A call that commits for an operation the map knows is not a submission.
LEMMA CommitsKnown ==
  ASSUME IInv, CallInv, CacheInv, NEW d \in Callers, call[d].pc = "commit",
         JournalAccepts(durable[Op(d)], call[d].succ), Known(Op(d)), Op(d) \notin overtaken
  PROVE  ~Pending(call[d])
  <1> SUFFICES ASSUME Pending(call[d]) PROVE FALSE
    OBVIOUS
  <1>1. call[d].succ.intent = call[d].intent /\ Op(d) \in Ops
    BY CallFacts, IntentOp
    DEF Pending, CallInv, CallOK, Accepted, NoControl, FrameOK, Op
  <1> QED BY <1>1 DEF CacheInv, JournalAccepts

\* Without resume the Hand of an operation belongs to its only execution.
LEMMA ExecutionWrites ==
  ASSUME "resume" \notin Calls, IInv, LockInv, CallInv, CacheInv
  PROVE  SoleWriter
  <1> SUFFICES ASSUME NEW c \in Callers, NEW d \in Callers, Op(c) \notin overtaken,
                      At(call[c], {"leased", "prepared"}), call[d].pc = "commit",
                      JournalAccepts(durable[Op(d)], call[d].succ), Op(c) = Op(d)
               PROVE  c = d
    BY DEF SoleWriter
  <1>1. Guarded(call[c]) /\ call[c].kind = "execute"
    BY DEF At, Guarded, GuardedAt, CallInv, CallOK, Handing
  <1>2. Known(Op(c))
    <2>1. CASE call[c].pc \in {"leased", "prepared"}
      BY <2>1, CallFacts DEF FrameOK, Handling, Holding, Known, Op
    <2>2. CASE call[c].pc = "commit" /\ call[c].after \in {"leased", "prepared"}
      <3>1. /\ call[c].ref # 0 /\ call[c].ref \in Nat /\ call[c].ref <= Len(cells[Op(c)])
            /\ cells[Op(c)] \in Seq(SoundRecord)
        BY <2>2, CallFacts DEF FrameOK, SoundCall, Op
      <3> QED BY <3>1 DEF Known
    <2> QED BY <2>1, <2>2 DEF At
  <1>3. ~Pending(call[d]) /\ call[d].after \in Afters
    BY <1>2, CommitsKnown DEF CallInv, CallOK, Pending
  <1>4. CASE call[d].after \in GuardedAt
    BY <1>1, <1>4, OneGuard DEF Guarded
  <1>5. CASE call[d].after \notin GuardedAt
    <2>1. call[d].kind = "execute"
      BY <1>3, <1>5 DEF CallInv, CallOK, At, Handing, Afters, GuardedAt
    <2> QED BY <1>1, <2>1 DEF CallInv, Apart, Op
  <1> QED BY <1>4, <1>5

LEMMA FenceInit == Init => FenceInv
  BY DEF Init, FenceInv, FenceOK, Idle

\* Without resume and lost acknowledgements, an executor is only invoked under
\* its own durable lease of a running operation, although cancellations, crashes
\* and refused commits may fall between the lease and the invocation (gateway.ts
\* leaseAndPrepare; hand-runtime.ts run), until a read overtakes the operation.
THEOREM ExecutionIsFenced ==
  ASSUME "resume" \notin Calls, "lostAck" \notin Faults
  PROVE  Spec => ExecutorFence
  <1>1. /\ IInv /\ LockInv /\ CallInv /\ StatusInv /\ Records(FreshRecord) /\ CacheInv
        /\ FenceInv /\ [Next]_vars
        => FenceInv'
    BY ExecutionWrites, FenceStep
  <1>2. IInv /\ CallInv /\ FenceInv /\ [Next]_vars =>
          [\A c \in Callers :
             call[c].pc # "execute" /\ call'[c].pc = "execute" =>
               LET o == call[c].intent.op IN
               o \notin overtaken =>
                 /\ durable[o].status = "running"
                 /\ durable[o].lease = [epoch |-> call'[c].epoch, state |-> "active"]]_vars
    BY FenceGuards DEF Op
  <1> QED BY <1>1, <1>2, FenceInit, InvariantHolds, LockHolds, CallsHold, StatusHolds, FreshHolds,
             CacheHolds, PTL DEF Spec, ExecutorFence

\* Without resume the executor or verifier of an operation never runs twice at
\* a time, whatever else is called and whatever fails: execute finds the call
\* that runs it in the executions map (gateway.ts execute).
THEOREM ExecutionIsAlone ==
  ASSUME "resume" \notin Calls
  PROVE  Spec => []OneHandPerOperation
  <1>1. IInv /\ CallInv => OneHandPerOperation
    <2> SUFFICES ASSUME CallInv, NEW o \in Ops, NEW c \in Callers, NEW d \in Callers,
                        InHand(c, o), InHand(d, o)
                 PROVE  c = d
      BY DEF OneHandPerOperation
    <2>1. ASSUME NEW e \in Callers, InHand(e, o)
          PROVE  call[e].kind = "execute" /\ call[e].intent.op = o
      BY <2>1 DEF InHand, CallsOn, CallInv, CallOK, At, Handing
    <2> QED BY <2>1 DEF CallInv, Apart
  <1> QED BY <1>1, InvariantHolds, CallsHold, PTL

-------------------------------------------------------------------------------
(***************************************************************************)
(* Without requestCancel one call at a time writes an operation: every     *)
(* call between its first successor and the release of the Hand finds the  *)
(* durable status it left, and a status only a lock holder takes up keeps  *)
(* every other call out.                                                   *)
(***************************************************************************)
Committing(f) == f.pc = "commit" /\ f.after # "submitted"

Writing(f) == f.pc \in {"lease", "leased", "prepared", "execute", "verify"} \/ Committing(f)

\* A commit on the way to `after` takes the durable status `from` to `to`.
Passes(after, from, to) ==
    \/ after = "queued"   /\ from = "accepted" /\ to = "queued"
    \/ after = "lease"    /\ from = "blocked"  /\ to = "queued"
    \/ after = "leased"   /\ from = "queued"   /\ to = "leased"
    \/ after = "denied"   /\ from = "queued"   /\ to = "failed"
    \/ after = "prepared" /\ from = "leased"   /\ to = "running"
    \/ after = "verify"   /\ from \in {"running", "blocked"} /\ to = "verifying"
    \/ after = "relock"   /\ from = "running"  /\ to \in {"blocked", "failed", "reconcile_required"}
    \/ after \in {"relock", "unlock"} /\ from = "verifying"
                                      /\ to \in {"succeeded", "failed", "blocked"}
    \/ after = "unlock"   /\ from = "reconcile_required" /\ to \in {"blocked", "failed", "cancelled"}

\* Only a lease moves to a fresh epoch.
Dates(after, from, to) == to = from \/ (after = "leased" /\ to = from + 1)

StageOK(f, r) ==
    /\ f.pc = "lease" => r.status = "queued"
    /\ f.pc = "leased" => r.status = "leased"
    /\ f.pc \in {"prepared", "execute"} => r.status = "running"
    /\ f.pc = "verify" => r.status = "verifying"
    /\ Committing(f) => /\ Passes(f.after, r.status, f.succ.status)
                        /\ Dates(f.after, r.epoch, f.succ.epoch)

\* A commit that takes up a blocked operation to verify it holds the lock.
TakesUp(f, r) == f.pc = "commit" /\ f.after = "verify" /\ r.status = "blocked"

PhaseInv ==
    /\ \A c \in Callers : Op(c) \notin overtaken =>
         /\ StageOK(call[c], durable[Op(c)])
         /\ TakesUp(call[c], durable[Op(c)]) => Holds(c, Op(c))
    /\ \A c, d \in Callers :
         /\ Op(c) \notin overtaken /\ Op(c) = Op(d)
         /\ Writing(call[c]) /\ Writing(call[d])
         => c = d

\* Nobody else writes the operation of c.
Alone(c) == \A d \in Callers : d # c => ~(Writing(call[d]) /\ Op(d) = Op(c))

LocksMove(c) ==
    \/ locks' = locks
    \/ \E p \in Ops : locks' = Released(c, p)
    \/ \E p \in Ops : locks' = [locks EXCEPT ![p] = Append(@, c)]

LEMMA WriterKnown ==
  ASSUME IInv, CallInv, NEW c \in Callers, Writing(call[c])
  PROVE  call[c].intent \in Intents /\ Op(c) \in Ops /\ Known(Op(c))
  <1>1. /\ call[c].intent \in Intents /\ Op(c) \in Ops /\ call[c] \in SoundCall
        /\ cells[Op(c)] \in Seq(SoundRecord) /\ FrameOK(call[c], cells)
    BY CallFacts DEF Writing, Committing, FrameOK, Op
  <1>2. CASE Committing(call[c])
    <2>1. /\ call[c].ref # 0 /\ call[c].ref \in Nat /\ call[c].ref <= Len(cells[Op(c)])
      BY <1>1, <1>2 DEF Committing, FrameOK, SoundCall, Op
    <2> QED BY <1>1, <2>1 DEF Known
  <1>3. CASE ~Committing(call[c])
    BY <1>1, <1>3 DEF Writing, FrameOK, Handling, Holding, Known, Op
  <1> QED BY <1>1, <1>2, <1>3

\* What is left to show of a step, once the calls that go on are known.
LEMMA PhaseNext ==
  ASSUME IInv, CallInv, PhaseInv, NEW c \in Callers, NEW f, Turn(c, f), LocksMove(c),
         overtaken \subseteq overtaken',
         f.intent.op \notin overtaken =>
           /\ StageOK(f, durable'[f.intent.op])
           /\ TakesUp(f, durable'[f.intent.op]) =>
                Holds(c, Op(c)) /\ f.intent = call[c].intent /\ locks' = locks
           /\ Writing(f) => f.intent = call[c].intent /\ (Writing(call[c]) \/ Alone(c)),
         \A d \in Callers : d # c /\ Op(d) \notin overtaken /\ Writing(call[d]) =>
            durable'[Op(d)] = durable[Op(d)]
  PROVE  PhaseInv'
  <1>1. ASSUME NEW d \in Callers, call'[d].intent.op \notin overtaken
        PROVE  StageOK(call'[d], durable'[call'[d].intent.op])
    <2>1. CASE d = c
      BY <1>1, <2>1 DEF Turn
    <2>2. CASE d # c /\ Writing(call[d])
      BY <1>1, <2>2 DEF Turn, PhaseInv, Op
    <2>3. CASE d # c /\ ~Writing(call[d])
      BY <2>3 DEF Turn, StageOK, Writing
    <2> QED BY <2>1, <2>2, <2>3
  <1>2. ASSUME NEW d \in Callers, call'[d].intent.op \notin overtaken,
               TakesUp(call'[d], durable'[call'[d].intent.op])
        PROVE  /\ locks'[call'[d].intent.op] # <<>>
               /\ Head(locks'[call'[d].intent.op]) = d
    <2>1. CASE d = c
      BY <1>2, <2>1 DEF Turn, Holds, Op
    <2>2. CASE d # c
      <3>1. call'[d] = call[d] /\ Writing(call[d])
        BY <1>2, <2>2 DEF Turn, TakesUp, Writing, Committing
      <3>2. Op(d) \in Ops /\ Holds(d, Op(d))
        BY <1>2, <2>2, <3>1, WriterKnown DEF PhaseInv, Op
      <3> QED BY <2>2, <3>1, <3>2, LockKept DEF LocksMove, Op
    <2> QED BY <2>1, <2>2
  <1>3. ASSUME NEW d \in Callers, NEW e \in Callers, d # e,
               call'[d].intent.op \notin overtaken,
               Writing(call'[d]), Writing(call'[e])
        PROVE  call'[d].intent.op # call'[e].intent.op
    <2>1. CASE d # c /\ e # c
      BY <1>3, <2>1 DEF Turn, PhaseInv, Op
    <2>2. CASE d = c
      BY <1>3, <2>2 DEF Turn, PhaseInv, Op, Alone
    <2>3. CASE e = c
      BY <1>3, <2>3 DEF Turn, PhaseInv, Op, Alone
    <2> QED BY <2>1, <2>2, <2>3
  <1> QED BY <1>1, <1>2, <1>3 DEF PhaseInv, Op, Holds

\* A step that commits nothing.
LEMMA PhaseTurn ==
  ASSUME IInv, CallInv, PhaseInv, NEW c \in Callers, NEW f, Turn(c, f), LocksMove(c),
         durable' = durable, overtaken \subseteq overtaken', ~Committing(f),
         f.intent.op \notin overtaken =>
           /\ StageOK(f, durable[f.intent.op])
           /\ Writing(f) => f.intent = call[c].intent /\ (Writing(call[c]) \/ Alone(c))
  PROVE  PhaseInv'
  <1>1. ~TakesUp(f, durable'[f.intent.op])
    BY DEF TakesUp, Committing
  <1> QED BY <1>1, PhaseNext

\* Whoever writes an operation that only a lock holder takes up holds the lock.
LEMMA LockedAlone ==
  ASSUME LockInv, PhaseInv, NEW c \in Callers, Holds(c, Op(c)), Op(c) \notin overtaken,
         durable[Op(c)].status \in {"accepted", "queued", "blocked", "reconcile_required"}
  PROVE  Alone(c)
  <1> SUFFICES ASSUME NEW d \in Callers, Writing(call[d]), Op(d) = Op(c)
               PROVE  d = c
    BY DEF Alone
  <1>1. StageOK(call[d], durable[Op(c)])
    BY DEF PhaseInv
  <1>2. Guarded(call[d]) \/ TakesUp(call[d], durable[Op(c)])
    BY <1>1 DEF StageOK, Writing, Committing, Passes, Guarded, GuardedAt, TakesUp
  <1>3. Holds(d, Op(c))
    BY <1>2 DEF LockInv, PhaseInv
  <1> QED BY <1>3 DEF Holds

\* A handler asks for the move its phase allows, and is let through.
LEMMA PhaseAsks ==
  ASSUME "requestCancel" \notin Calls, IInv, LockInv, CallInv, StatusInv, CacheInv,
         StandInv, PhaseInv, NEW c \in Callers, Op(c) \notin overtaken, NEW fr \in SoundCall,
         NEW succ \in SoundRecord, NEW allow \in BOOLEAN, NEW after \in Afters,
         Asks(c, fr, succ, allow, after)
  PROVE  /\ Held(fr) = durable[Op(c)] /\ fr.intent = call[c].intent
         /\ Passes(after, Held(fr).status, succ.status)
         /\ Dates(after, Held(fr).epoch, succ.epoch)
         /\ ~Fenced(Held(fr), succ.status, allow)
         /\ after = "verify" /\ Held(fr).status = "blocked" => Holds(c, Op(c))
         /\ Writing(call[c]) \/ Alone(c)
  <1> DEFINE r == Held(fr)
  <1>0. /\ r = durable[Op(c)] /\ fr.intent = call[c].intent
        /\ r \in SoundRecord /\ r \in StandingRecord /\ r.status \in OperationStatus
        /\ Stands(call[c]) /\ CallOK(call[c]) /\ StageOK(call[c], r)
    <2>1. GoodFrame(fr) /\ fr.intent = call[c].intent
      BY DEF Asks, Same
    <2>2. fr.intent.op \in Ops /\ r \in SoundRecord
      BY <2>1, FrameHolds
    <2>3. r \in StandingRecord
      BY <2>1, <2>2 DEF GoodFrame, Held, StandInv, Records
    <2>4. r = durable[Op(c)]
      BY <2>1, HeldIsDurable DEF Op
    <2> QED BY <2>1, <2>2, <2>3, <2>4, HeldStatus DEF StandInv, CallInv, PhaseInv
  <1> HIDE DEF r
  <1>1. r.status # "cancelled" => ~Fenced(r, succ.status, allow)
    BY <1>0 DEF StandingRecord, Fenced
  <1> USE DEF SoundRecord, OperationControlRecord
  <1>2. CASE AsksUnderLock(c, fr, succ, allow, after)
    <2>1. /\ Passes(after, r.status, succ.status) /\ succ.epoch = r.epoch
          /\ r.status \in {"accepted", "blocked", "reconcile_required"}
      BY <1>0, <1>2 DEF AsksUnderLock, r, Passes, CallOK, Queued, ResumeQueued,
         ResumeVerifying, ReconcileRecovered, ReconcileCancelled, ReconcileFailed
    <2>2. Holds(c, Op(c)) /\ Alone(c)
      BY <1>0, <1>2, <2>1, LockedAlone DEF AsksUnderLock
    <2> QED BY <1>0, <1>1, <2>1, <2>2 DEF Dates, r
  <1>3. CASE AsksInLease(c, fr, succ, allow, after)
    <2>1. /\ Passes(after, r.status, succ.status)
          /\ r.status \in {"queued", "leased"} /\ Writing(call[c]) /\ after # "verify"
      BY <1>0, <1>3 DEF AsksInLease, r, Passes, StageOK, Writing, Leased, PermissionDenied,
         Running
    <2>2. Dates(after, r.epoch, succ.epoch)
      BY <1>0, <1>3 DEF AsksInLease, r, Dates, Leased, LeaseEpoch, PermissionDenied, Running
    <2> QED BY <1>0, <1>1, <2>1, <2>2 DEF r
  <1>4. CASE AsksInHand(c, fr, succ, allow, after)
    <2>1. /\ Writing(call[c]) /\ r.status \in {"running", "verifying"}
          /\ call[c].pc = "execute" => r.status = "running"
          /\ call[c].pc = "verify" => r.status = "verifying"
      BY <1>0, <1>4 DEF AsksInHand, StageOK, Writing
    <2>2. succ.epoch = r.epoch
      BY <1>0, <1>4 DEF AsksInHand, r, HandFailed, HandVerifying, HandBlocked, HandReconcile,
         HandSucceeded
    <2>3. Passes(after, r.status, succ.status)
      BY <1>0, <1>4, <2>1 DEF AsksInHand, r, Passes, AfterVerify, HandFailed, HandVerifying,
         HandBlocked, HandReconcile, HandSucceeded
    <2> QED BY <1>0, <1>1, <2>1, <2>2, <2>3 DEF Dates, r
  <1>5. CASE AsksAfterStop(c, fr, succ, allow, after)
    BY <1>0, <1>5 DEF AsksAfterStop, Stands
  <1> QED BY <1>2, <1>3, <1>4, <1>5 DEF Asks

LEMMA PhaseCommit ==
  ASSUME IInv, CallInv, CacheInv, KeyInv, PhaseInv, NEW c \in Callers, Commit(c)
  PROVE  PhaseInv'
  <1>0. /\ call[c].pc = "commit" /\ Op(c) \in Ops /\ CallOK(call[c])
        /\ JournalAccepts(durable[Op(c)], call[c].succ) /\ locks' = locks
        /\ \A p \in Ops : durable'[p] = IF p = Op(c) THEN call[c].succ ELSE durable[p]
    BY CommitFacts
  <1>t. overtaken' = overtaken
    BY DEF Commit
  <1>1. PICK f : Turn(c, f) /\ Same(f, call[c]) /\ f.pc = call[c].after
    BY CallTurns
  <1>2. /\ call[c].after \in Afters \cup {"submitted"}
        /\ f.intent = call[c].intent /\ ~Committing(f)
        /\ ~TakesUp(f, durable'[f.intent.op]) /\ LocksMove(c)
    BY <1>0, <1>1 DEF CallOK, Same, Committing, TakesUp, Afters, LocksMove
  <1>3. CASE Pending(call[c])
    <2>1. Op(c) \notin overtaken => ~Known(Op(c))
      BY <1>0, <1>3, CommitsKnown
    <2>2. f.pc = "submitted"
      BY <1>0, <1>1, <1>3 DEF Pending
    <2>3. StageOK(f, durable'[f.intent.op]) /\ ~Writing(f)
      BY <2>2 DEF StageOK, Writing, Committing
    <2>4. \A d \in Callers : d # c /\ Op(d) \notin overtaken /\ Writing(call[d]) =>
            durable'[Op(d)] = durable[Op(d)]
      BY <1>0, <2>1, WriterKnown
    <2> QED BY <1>t, <1>1, <1>2, <2>3, <2>4, PhaseNext
  <1>4. CASE ~Pending(call[c])
    <2>1. Committing(call[c]) /\ Writing(call[c])
      BY <1>0, <1>4 DEF Pending, Committing, Writing
    <2>2. Op(c) \notin overtaken =>
            Passes(call[c].after, durable[Op(c)].status, call[c].succ.status)
      BY <2>1 DEF PhaseInv, StageOK
    <2>3. f.intent.op \notin overtaken => StageOK(f, durable'[f.intent.op])
      BY <1>0, <1>1, <1>2, <2>2 DEF StageOK, Passes, Op, Committing
    <2>4. \A d \in Callers : d # c /\ Op(d) \notin overtaken /\ Writing(call[d]) =>
            durable'[Op(d)] = durable[Op(d)]
      BY <1>0, <2>1, WriterKnown DEF PhaseInv
    <2> QED BY <1>t, <1>1, <1>2, <2>1, <2>3, <2>4, PhaseNext
  <1> QED BY <1>3, <1>4

LEMMA PhaseAsked ==
  ASSUME "requestCancel" \notin Calls, IInv, LockInv, CallInv, StatusInv, CacheInv,
         StandInv, PhaseInv, NEW c \in Callers, Asked(c)
  PROVE  PhaseInv'
  <1>1. PICK fr \in SoundCall, succ \in SoundRecord, allow \in BOOLEAN, after \in Afters :
          /\ Asks(c, fr, succ, allow, after)
          /\ CommitSuccessor(c, fr, Held(fr), succ, allow, after)
    BY DEF Asked
  <1>t. overtaken' = overtaken /\ UNCHANGED <<durable, locks>> /\ LocksMove(c)
    BY DEF Asked, LocksMove
  <1>d. \A d \in Callers : d # c /\ Op(d) \notin overtaken /\ Writing(call[d]) =>
          durable'[Op(d)] = durable[Op(d)]
    BY <1>t
  <1>s. SUFFICES ASSUME Op(c) \notin overtaken PROVE PhaseInv'
    <2>1. PICK f \in SoundCall : call' = [call EXCEPT ![c] = f] /\ Same(f, call[c])
      BY <1>1, AskedFrame
    <2>2. Turn(c, f) /\ f.intent.op = Op(c)
      BY <2>1, TurnBy DEF Same, Op
    <2> QED BY <1>t, <1>d, <2>2, PhaseNext
  <1>2. /\ Held(fr) = durable[Op(c)] /\ fr.intent = call[c].intent
        /\ Passes(after, Held(fr).status, succ.status)
        /\ Dates(after, Held(fr).epoch, succ.epoch)
        /\ ~Fenced(Held(fr), succ.status, allow)
        /\ after = "verify" /\ Held(fr).status = "blocked" => Holds(c, Op(c))
        /\ Writing(call[c]) \/ Alone(c)
    BY <1>1, <1>s, PhaseAsks
  <1>3. PICK f \in SoundCall :
          /\ call' = [call EXCEPT ![c] = f] /\ Same(f, call[c])
          /\ f.pc = "commit" /\ f.succ = succ /\ f.after = after
    BY <1>1, <1>2, AskedFrame
  <1>4. Turn(c, f)
    BY <1>3, TurnBy
  <1>5. /\ f.intent = call[c].intent
        /\ StageOK(f, durable'[f.intent.op])
        /\ TakesUp(f, durable'[f.intent.op]) => Holds(c, Op(c))
    BY <1>t, <1>2, <1>3 DEF StageOK, TakesUp, Same, Op, Committing
  <1> QED BY <1>t, <1>d, <1>2, <1>4, <1>5, PhaseNext

LEMMA PhaseMoves ==
  ASSUME IInv, LockInv, CallInv, CacheInv, PhaseInv, NEW c \in Callers, Moves(c)
  PROVE  PhaseInv'
  <1>1. PICK f \in SoundCall :
          /\ call' = [call EXCEPT ![c] = f] /\ Same(f, call[c])
          /\ \/ f.pc \in {"queued", "stop"}
             \/ call[c].pc = "queued" /\ f.pc = "lease" /\ Held(call[c]).status = "queued"
    BY DEF Moves
  <1>2. UNCHANGED <<durable, locks, overtaken>> /\ Turn(c, f) /\ LocksMove(c)
        /\ f.intent = call[c].intent
    BY <1>1, TurnBy DEF Moves, LocksMove, Same
  <1>3. CASE f.pc \in {"queued", "stop"}
    BY <1>2, <1>3, PhaseTurn DEF Writing, Committing, StageOK
  <1>4. CASE call[c].pc = "queued" /\ f.pc = "lease" /\ Held(call[c]).status = "queued"
    <2>1. Op(c) \notin overtaken => Held(call[c]) = durable[Op(c)]
      BY <1>4, HeldFrame, HeldIsDurable DEF Holding, Op
    <2>2. Holds(c, Op(c))
      BY <1>4 DEF LockInv, Guarded, GuardedAt
    <2>3. Op(c) \notin overtaken => Alone(c)
      BY <1>4, <2>1, <2>2, LockedAlone
    <2> QED BY <1>2, <1>4, <2>1, <2>3, PhaseTurn DEF Writing, Committing, StageOK, Op
  <1> QED BY <1>1, <1>3, <1>4

LEMMA PhaseStep ==
  ASSUME "requestCancel" \notin Calls, "lostAck" \notin Faults, IInv, LockInv, CallInv,
         StatusInv, CacheInv, KeyInv, StandInv, PhaseInv, [Next]_vars
  PROVE  PhaseInv'
  <1>0. overtaken \subseteq overtaken'
    BY OvertakenGrows
  <1>1. ASSUME NEW c \in Callers,
               \/ \E i \in Intents : Submit(c, i)
               \/ \E i \in Intents, kind \in LockedKinds : StartLocked(c, kind, i)
               \/ ReadControl(c)
        PROVE  PhaseInv'
    <2>1. PICK f : Turn(c, f) /\ f.pc \in {"accept", "lock", "hydrate"}
      BY <1>1, StartTurns
    <2>2. durable' = durable /\ LocksMove(c)
      BY <1>1, IntentOp DEF Submit, StartLocked, ReadControl, LocksMove
    <2> QED BY <1>0, <2>1, <2>2, PhaseTurn DEF Writing, Committing, StageOK
  <1>2. ASSUME NEW c \in Callers, Quits(c) \/ Hydrate(c) PROVE PhaseInv'
    <2>1. Turn(c, Idle) /\ durable' = durable
      BY <1>2, CallTurns DEF Quits, Hydrate
    <2>2. LocksMove(c)
      BY <1>2, IntentOp DEF Quits, Hydrate, LocksMove, Op
    <2>3. Idle.pc = "idle"
      BY DEF Idle
    <2> QED BY <1>0, <2>1, <2>2, <2>3, PhaseTurn DEF Writing, Committing, StageOK
  <1>3. ASSUME NEW c \in Callers, AdmitGranted(c) PROVE PhaseInv'
    <2>1. PICK f : Turn(c, f) /\ f.pc = "commit" /\ f.after = "submitted"
      BY <1>3, CallTurns
    <2> QED BY <1>0, <1>3, <2>1, PhaseTurn DEF AdmitGranted, LocksMove, Writing, Committing, StageOK
  <1>4. ASSUME NEW c \in Callers,
               Invokes(c) \/ Relock(c) \/ ExecutorEffect(c) \/ ExecutorStops(c)
        PROVE  PhaseInv'
    <2>1. PICK f : /\ Turn(c, f) /\ f.intent = call[c].intent
                   /\ \/ f.pc = "settled"
                      \/ f.pc = "execute" /\ call[c].pc \in {"prepared", "execute"}
      <3>1. CASE Invokes(c)
        <4>1. PICK f : Turn(c, f) /\ Alike(f, call[c]) /\ f.pc = "execute"
          BY <3>1, CallTurns
        <4>2. call[c].pc = "prepared" /\ f.intent = call[c].intent
          BY <3>1, <4>1 DEF Invokes, Alike, Same
        <4> QED BY <4>1, <4>2
      <3>2. CASE Relock(c)
        BY <3>2, CallTurns DEF Alike, Same
      <3>3. CASE ExecutorEffect(c) \/ ExecutorStops(c)
        <4>1. PICK f : /\ Turn(c, f) /\ call[c].pc = "execute"
                       /\ \/ f = [call[c] EXCEPT !.touched = TRUE]
                          \/ f = [call[c] EXCEPT !.halted = TRUE]
          BY <3>3, CallTurns
        <4>2. f.intent = call[c].intent /\ f.pc = "execute"
          BY <4>1, CallFacts DEF SoundCall
        <4> QED BY <4>1, <4>2
      <3> QED BY <1>4, <3>1, <3>2, <3>3
    <2>2. durable' = durable
      BY <1>4 DEF Invokes, Relock, ExecutorEffect, ExecutorStops
    <2>3. LocksMove(c)
      <3>1. call[c].intent \in Intents
        BY <1>4, CallFacts DEF Invokes, Relock, ExecutorEffect, ExecutorStops, FrameOK
      <3> QED BY <1>4, <3>1, IntentOp
              DEF Invokes, Relock, ExecutorEffect, ExecutorStops, LocksMove, Op
    <2>4. /\ f.intent.op \notin overtaken => StageOK(f, durable[f.intent.op])
          /\ ~Committing(f)
          /\ Writing(f) => Writing(call[c])
      BY <2>1 DEF PhaseInv, StageOK, Committing, Writing, Op
    <2> QED BY <1>0, <2>1, <2>2, <2>3, <2>4, PhaseTurn
  <1>5. CASE Crash
    <2>1. \A c \in Callers : call'[c] = Idle
      BY <1>5 DEF Crash
    <2>2. Idle.pc = "idle"
      BY DEF Idle
    <2> QED BY <2>1, <2>2 DEF PhaseInv, StageOK, TakesUp, Writing, Committing
  <1>6. CASE UNCHANGED vars
    BY <1>6 DEF vars, PhaseInv, Op, Holds
  <1>7. \A c \in Callers : ~CommitUnacknowledged(c)
    BY DEF CommitUnacknowledged
  <1> QED BY <1>1, <1>2, <1>3, <1>4, <1>5, <1>6, <1>7, PhaseCommit, PhaseAsked, PhaseMoves,
             StepCases DEF Next

LEMMA PhasesHold ==
  ASSUME "requestCancel" \notin Calls, HydrateFirst, "lostAck" \notin Faults
  PROVE  Spec => []PhaseInv
  <1>1. Init => PhaseInv
    <2>1. Init => \A c \in Callers : call[c].pc = "idle"
      BY DEF Init, Idle
    <2> QED BY <2>1 DEF PhaseInv, StageOK, TakesUp, Writing, Committing
  <1>2. /\ IInv /\ LockInv /\ CallInv /\ StatusInv /\ CacheInv /\ KeyInv /\ StandInv
        /\ PhaseInv /\ [Next]_vars
        => PhaseInv'
    BY PhaseStep
  <1> QED BY <1>1, <1>2, InvariantHolds, LockHolds, CallsHold, StatusHolds, CacheHolds,
             KeysHold, StandsHold, PTL DEF Spec

\* Without requestCancel and lost acknowledgements, and with a read before the
\* first submission of a process, the executor or verifier of an operation that
\* no read has overtaken never runs twice at a time although resume, which
\* nothing deduplicates, may run with executions, reconciles, reads, crashes
\* and refused commits: the second call finds a status it does not take up, or
\* waits for the lock of the first (gateway.ts execute, resume).
THEOREM OneHand ==
  ASSUME "requestCancel" \notin Calls, HydrateFirst, "lostAck" \notin Faults
  PROVE  Spec => []OneHandPerOperation
  <1>1. PhaseInv => OneHandPerOperation
    BY DEF PhaseInv, OneHandPerOperation, InHand, CallsOn, Writing, Committing, Op
  <1> QED BY <1>1, PhasesHold, PTL

\* Under the same assumptions, and until a read overtakes the operation, it is
\* invoked under its own durable lease of a running operation, although resume
\* and execute may compete for it (gateway.ts leaseAndPrepare).
THEOREM ResumedExecutionIsFenced ==
  ASSUME "requestCancel" \notin Calls, HydrateFirst, "lostAck" \notin Faults
  PROVE  Spec => ExecutorFence
  <1>1. IInv /\ CallInv /\ CacheInv /\ PhaseInv => SoleWriter
    <2> SUFFICES ASSUME IInv, CallInv, CacheInv, PhaseInv, NEW c \in Callers, NEW d \in Callers,
                        Op(c) \notin overtaken,
                        At(call[c], {"leased", "prepared"}), call[d].pc = "commit",
                        JournalAccepts(durable[Op(d)], call[d].succ), Op(c) = Op(d)
                 PROVE  c = d
      BY DEF SoleWriter
    <2>1. Writing(call[c])
      BY DEF At, Writing, Committing
    <2>2. Writing(call[d])
      BY <2>1, WriterKnown, CommitsKnown DEF Pending, Writing, Committing
    <2> QED BY <2>1, <2>2 DEF PhaseInv
  <1>2. /\ IInv /\ CallInv /\ StatusInv /\ Records(FreshRecord) /\ CacheInv /\ PhaseInv
        /\ FenceInv /\ [Next]_vars
        => FenceInv'
    BY <1>1, FenceStep
  <1>3. IInv /\ CallInv /\ FenceInv /\ [Next]_vars =>
          [\A c \in Callers :
             call[c].pc # "execute" /\ call'[c].pc = "execute" =>
               LET o == call[c].intent.op IN
               o \notin overtaken =>
                 /\ durable[o].status = "running"
                 /\ durable[o].lease = [epoch |-> call'[c].epoch, state |-> "active"]]_vars
    BY FenceGuards DEF Op
  <1> QED BY <1>2, <1>3, FenceInit, InvariantHolds, CallsHold, StatusHolds, FreshHolds,
             CacheHolds, PhasesHold, PTL DEF Spec, ExecutorFence

-------------------------------------------------------------------------------
(***************************************************************************)
(* The external effect: a record that lets an operation run again, or that *)
(* reports no effect, is only durable while there was none.  A resume is   *)
(* trusted when it overrides the side effect state, so the override "none" *)
(* is excluded.                                                            *)
(***************************************************************************)
Truthful(r, e) ==
    /\ r.status \in {"none", "accepted", "queued", "leased"} => e = 0
    /\ r.status = "blocked" /\ r.blocked.effect = "none" => e = 0
    /\ r.status = "reconcile_required" /\ r.reconcile = "none" => e = 0

Tells(f, e) ==
    /\ Committing(f) => Truthful(f.succ, e)
    /\ f.pc = "prepared" => e = 0
    /\ f.pc = "execute" /\ ~f.touched => e = 0

EffectInv ==
    /\ \A o \in Ops \ overtaken : Truthful(durable[o], effects[o]) /\ effects[o] <= 1
    /\ \A c \in Callers : Op(c) \notin overtaken => Tells(call[c], effects[Op(c)])

\* A step that neither commits nor performs an effect.
LEMMA EffectTurn ==
  ASSUME EffectInv, NEW c \in Callers, NEW f, Turn(c, f),
         UNCHANGED <<durable, effects>>, overtaken \subseteq overtaken',
         f.intent.op \notin overtaken => Tells(f, effects[f.intent.op])
  PROVE  EffectInv'
  <1>1. \A d \in Callers : call'[d].intent.op \notin overtaken =>
          Tells(call'[d], effects[call'[d].intent.op])
    BY DEF EffectInv, Turn, Op
  <1> QED BY <1>1 DEF EffectInv, Op

\* What the Hand's settlements say.
LEMMA HandFields ==
  ASSUME NEW r \in SoundRecord, NEW obs
  PROVE  /\ \A after, effect : /\ HandBlocked(r, obs, after, effect).status = "blocked"
                               /\ HandBlocked(r, obs, after, effect).blocked.effect = effect
         /\ HandReconcile(r, obs).status = "reconcile_required"
         /\ HandReconcile(r, obs).reconcile = obs.effect
         /\ HandFailed(r, obs).status = "failed"
         /\ HandSucceeded(r, obs).status = "succeeded"
         /\ HandVerifying(r).status = "verifying"
  <1> USE DEF SoundRecord, OperationControlRecord
  <1>1. ASSUME NEW after, NEW effect
        PROVE  /\ HandBlocked(r, obs, after, effect).status = "blocked"
               /\ HandBlocked(r, obs, after, effect).blocked.effect = effect
    BY DEF HandBlocked
  <1>2. /\ HandReconcile(r, obs).status = "reconcile_required"
        /\ HandReconcile(r, obs).reconcile = obs.effect
    BY DEF HandReconcile
  <1>3. /\ HandFailed(r, obs).status = "failed"
        /\ HandSucceeded(r, obs).status = "succeeded"
        /\ HandVerifying(r).status = "verifying"
    BY DEF HandFailed, HandSucceeded, HandVerifying
  <1> QED BY <1>1, <1>2, <1>3

\* What a handler asks for is truthful.
LEMMA EffectAsks ==
  ASSUME "requestCancel" \notin Calls, \A input \in ResumeInputs : input.effect # "none",
         IInv, LockInv, CallInv, StatusInv, CacheInv, StandInv, PhaseInv, EffectInv,
         NEW c \in Callers, Op(c) \notin overtaken, NEW fr \in SoundCall,
         NEW succ \in SoundRecord, NEW allow \in BOOLEAN, NEW after \in Afters,
         Asks(c, fr, succ, allow, after)
  PROVE  Truthful(succ, effects[Op(c)])
  <1> DEFINE r == Held(fr)
             e == effects[Op(c)]
  <1>0. /\ r \in SoundRecord /\ Truthful(r, e) /\ Tells(call[c], e)
        /\ StageOK(call[c], r)
    <2>1. GoodFrame(fr) /\ fr.intent.op = Op(c) /\ Held(fr) = durable[Op(c)]
      BY PhaseAsks DEF Asks, Op
    <2>2. Op(c) \in Ops /\ r \in SoundRecord
      BY <2>1, FrameHolds
    <2> QED BY <2>1, <2>2 DEF EffectInv, PhaseInv
  <1> SUFFICES Truthful(succ, e)
    OBVIOUS
  <1> HIDE DEF r, e
  <1>5. \A obs : /\ \A a, x : /\ HandBlocked(r, obs, a, x).status = "blocked"
                              /\ HandBlocked(r, obs, a, x).blocked.effect = x
                 /\ HandReconcile(r, obs).status = "reconcile_required"
                 /\ HandReconcile(r, obs).reconcile = obs.effect
                 /\ HandFailed(r, obs).status = "failed"
                 /\ HandSucceeded(r, obs).status = "succeeded"
                 /\ HandVerifying(r).status = "verifying"
    BY <1>0, HandFields
  <1> USE DEF SoundRecord, OperationControlRecord
  <1>1. CASE AsksUnderLock(c, fr, succ, allow, after)
    <2>1. CASE succ = Queued(r) /\ r.status = "accepted"
      BY <1>0, <2>1 DEF Truthful, Queued
    <2>2. CASE /\ succ = ResumeQueued(r) /\ r.status = "blocked"
               /\ \E input \in ResumeInputs : Recovery(r, input) = "queued"
      <3>1. r.blocked.effect = "none"
        BY <2>2 DEF Recovery, PlanBlockedRecovery, Overridden
      <3> QED BY <1>0, <2>2, <3>1 DEF Truthful, ResumeQueued
    <2>3. CASE succ = ResumeVerifying(r) \/ succ = CancelRequested(r)
      BY <1>0, <2>3 DEF Truthful, ResumeVerifying, CancelRequested
    <2>4. CASE /\ r.status = "reconcile_required"
               /\ \/ succ = ReconcileRecovered(r)
                  \/ succ = ReconcileCancelled(r)
                  \/ succ = ReconcileFailed(r)
      <3>1. CASE succ = ReconcileRecovered(r)
        <4>1. succ.status = "blocked" /\ succ.blocked.effect = r.reconcile
          BY <1>0, <3>1 DEF ReconcileRecovered
        <4> QED BY <1>0, <2>4, <4>1 DEF Truthful
      <3>2. CASE succ = ReconcileCancelled(r) \/ succ = ReconcileFailed(r)
        <4>1. succ.status \in {"cancelled", "failed"}
          BY <1>0, <3>2 DEF ReconcileCancelled, ReconcileFailed
        <4> QED BY <4>1 DEF Truthful
      <3> QED BY <2>4, <3>1, <3>2
    <2> QED BY <1>1, <2>1, <2>2, <2>3, <2>4 DEF AsksUnderLock, r
  <1>2. CASE AsksInLease(c, fr, succ, allow, after)
    <2>1. CASE call[c].pc = "lease" /\ succ = Leased(r)
      BY <1>0, <2>1 DEF Truthful, Leased, StageOK
    <2>2. CASE succ = PermissionDenied(r) \/ succ = Running(r)
      BY <1>0, <2>2 DEF Truthful, PermissionDenied, Running
    <2> QED BY <1>2, <2>1, <2>2 DEF AsksInLease, r
  <1>3. CASE AsksInHand(c, fr, succ, allow, after)
    <2>1. call[c].pc = "execute" /\ "none" \in ReportedEffects(c) => e = 0
      BY <1>0 DEF ReportedEffects, Tells
    <2>2. CASE \/ \E obs \in Observation : succ = HandFailed(r, obs)
               \/ succ = HandVerifying(r)
               \/ succ = HandFailed(r, NoObservation)
               \/ succ = HandSucceeded(r, call[c].obs)
               \/ succ = HandFailed(r, call[c].obs)
               \/ succ = HandBlocked(r, call[c].obs, "verification", "possible")
      <3>1. \/ succ.status \in {"failed", "verifying", "succeeded"}
            \/ succ.status = "blocked" /\ succ.blocked.effect = "possible"
        BY <1>5, <2>2
      <3> QED BY <3>1 DEF Truthful
    <2>3. CASE /\ call[c].pc = "execute"
               /\ \E obs \in Observation :
                    /\ obs.effect \in ReportedEffects(c)
                    /\ \/ succ = HandBlocked(r, obs, "execution", obs.effect)
                       \/ succ = HandBlocked(r, obs, "execution", "possible")
                       \/ succ = HandReconcile(r, obs)
      <3>1. PICK obs \in Observation :
              /\ obs.effect \in ReportedEffects(c)
              /\ \/ succ = HandBlocked(r, obs, "execution", obs.effect)
                 \/ succ = HandBlocked(r, obs, "execution", "possible")
                 \/ succ = HandReconcile(r, obs)
        BY <2>3
      <3>2. \/ succ.status = "blocked" /\ succ.blocked.effect \in {obs.effect, "possible"}
            \/ succ.status = "reconcile_required" /\ succ.reconcile = obs.effect
        BY <1>5, <3>1
      <3> QED BY <2>1, <2>3, <3>1, <3>2 DEF Truthful
    <2> QED BY <1>3, <2>2, <2>3 DEF AsksInHand, r
  <1>4. CASE AsksAfterStop(c, fr, succ, allow, after)
    BY <1>0, <1>4 DEF AsksAfterStop, Truthful, CancelSettled, PlanOperationCancellation, r
  <1> QED BY <1>1, <1>2, <1>3, <1>4 DEF Asks

LEMMA EffectAsked ==
  ASSUME "requestCancel" \notin Calls, \A input \in ResumeInputs : input.effect # "none",
         IInv, LockInv, CallInv, StatusInv, CacheInv, StandInv, PhaseInv, EffectInv,
         NEW c \in Callers, Asked(c)
  PROVE  EffectInv'
  <1>1. PICK fr \in SoundCall, succ \in SoundRecord, allow \in BOOLEAN, after \in Afters :
          /\ Asks(c, fr, succ, allow, after)
          /\ CommitSuccessor(c, fr, Held(fr), succ, allow, after)
    BY DEF Asked
  <1>t. UNCHANGED <<durable, effects, overtaken>>
    BY DEF Asked
  <1>s. SUFFICES ASSUME Op(c) \notin overtaken PROVE EffectInv'
    <2>1. PICK f \in SoundCall : call' = [call EXCEPT ![c] = f] /\ Same(f, call[c])
      BY <1>1, AskedFrame
    <2>2. Turn(c, f) /\ f.intent.op = Op(c)
      BY <2>1, TurnBy DEF Same, Op
    <2> QED BY <1>t, <2>2, EffectTurn
  <1>2. Truthful(succ, effects[Op(c)]) /\ ~Fenced(Held(fr), succ.status, allow)
    BY <1>s, <1>1, EffectAsks, PhaseAsks
  <1>3. PICK f \in SoundCall :
          /\ call' = [call EXCEPT ![c] = f] /\ Same(f, call[c])
          /\ f.pc = "commit" /\ f.succ = succ /\ f.after = after
    BY <1>1, <1>2, AskedFrame
  <1>4. Turn(c, f)
    BY <1>3, TurnBy
  <1>5. Tells(f, effects[f.intent.op])
    BY <1>2, <1>3 DEF Tells, Same, Op
  <1> QED BY <1>t, <1>4, <1>5, EffectTurn

LEMMA EffectCommit ==
  ASSUME IInv, CallInv, KeyInv, PhaseInv, EffectInv, NEW c \in Callers, Commit(c)
  PROVE  EffectInv'
  <1>0. /\ call[c].pc = "commit" /\ Op(c) \in Ops /\ CallOK(call[c])
        /\ JournalAccepts(durable[Op(c)], call[c].succ) /\ effects' = effects
        /\ \A p \in Ops : durable'[p] = IF p = Op(c) THEN call[c].succ ELSE durable[p]
    BY CommitFacts
  <1>1. PICK f : Turn(c, f) /\ Same(f, call[c]) /\ f.pc = call[c].after
    BY CallTurns
  <1>2. f.pc \in Afters \cup {"submitted"} /\ f.intent.op = Op(c)
    BY <1>0, <1>1 DEF CallOK, Same, Op
  <1>t. overtaken' = overtaken
    BY DEF Commit
  <1>3. ASSUME Op(c) \notin overtaken
        PROVE  /\ Truthful(call[c].succ, effects[Op(c)])
               /\ f.pc = "prepared" => effects[Op(c)] = 0
    <2>1. CASE Pending(call[c])
      <3>1. ~Admitted(Op(c))
        <4>1. call[c].succ.intent = call[c].intent
          BY <2>1, CommitFacts
        <4> QED BY <1>0, <2>1, <4>1 DEF KeyInv, JournalAccepts, Admitted, Op
      <3>2. effects[Op(c)] = 0
        BY <1>0, <1>3, <3>1 DEF EffectInv, Truthful, Admitted
      <3> QED BY <3>2 DEF Truthful
    <2>2. CASE ~Pending(call[c])
      <3>1. Committing(call[c])
        BY <1>0, <2>2 DEF Pending, Committing
      <3>2. f.pc = "prepared" => durable[Op(c)].status = "leased"
        BY <1>1, <1>3, <3>1 DEF PhaseInv, StageOK, Passes
      <3> QED BY <1>0, <1>3, <3>1, <3>2 DEF EffectInv, Tells, Truthful
    <2> QED BY <2>1, <2>2
  <1>4. f.intent.op \notin overtaken => Tells(f, effects[f.intent.op])
    BY <1>2, <1>3 DEF Tells, Committing, Afters
  <1>5. \A d \in Callers : call'[d].intent.op \notin overtaken =>
          Tells(call'[d], effects[call'[d].intent.op])
    BY <1>1, <1>4 DEF EffectInv, Turn, Op
  <1> QED BY <1>0, <1>t, <1>3, <1>5 DEF EffectInv, Op

\* The executor's effect: it is the operation's first.
LEMMA EffectPerformed ==
  ASSUME IInv, PhaseInv, EffectInv, NEW c \in Callers, ExecutorEffect(c)
  PROVE  /\ Op(c) \in Ops /\ UNCHANGED <<durable, overtaken>>
         /\ \A o \in Ops : o # Op(c) => effects'[o] = effects[o]
         /\ Op(c) \notin overtaken =>
              durable[Op(c)].status = "running" /\ effects[Op(c)] = 0 /\ effects'[Op(c)] = 1
         /\ EffectInv'
  <1>0. /\ call[c].pc = "execute" /\ ~call[c].touched /\ UNCHANGED <<durable, overtaken>>
        /\ call[c].intent \in Intents /\ Op(c) \in Ops /\ call[c] \in SoundCall
    BY CallFacts, IntentOp DEF ExecutorEffect, FrameOK, Op
  <1>1. Op(c) \notin overtaken => durable[Op(c)].status = "running" /\ effects[Op(c)] = 0
    BY <1>0 DEF PhaseInv, StageOK, EffectInv, Tells
  <1>2. /\ \A o \in Ops : o # Op(c) => effects'[o] = effects[o]
        /\ Op(c) \notin overtaken => effects'[Op(c)] = 1
    BY <1>0, <1>1 DEF ExecutorEffect, IInv, Op
  <1>3. PICK f : Turn(c, f) /\ f = [call[c] EXCEPT !.touched = TRUE]
    BY CallTurns
  <1>4. f.pc = "execute" /\ f.touched
    BY <1>0, <1>3 DEF SoundCall
  <1>5. ASSUME NEW d \in Callers, call'[d].intent.op \notin overtaken
        PROVE  Tells(call'[d], effects'[call'[d].intent.op])
    <2>1. CASE d = c
      BY <1>3, <1>4, <2>1 DEF Turn, Tells, Committing
    <2>2. CASE d # c /\ Writing(call[d])
      <3>1. Op(d) # Op(c) /\ call'[d] = call[d] /\ Op(d) \notin overtaken
        BY <1>0, <1>3, <1>5, <2>2 DEF PhaseInv, Turn, Writing, Op
      <3>2. Op(d) \in Ops
        <4>1. call[d].pc \notin {"idle", "hydrate"}
          BY <2>2 DEF Writing, Committing
        <4> QED BY <4>1, CallFacts, IntentOp DEF FrameOK, Op
      <3> QED BY <1>2, <3>1, <3>2 DEF EffectInv, Op
    <2>3. CASE d # c /\ ~Writing(call[d])
      BY <1>3, <2>3 DEF Turn, Tells, Writing
    <2> QED BY <2>1, <2>2, <2>3
  <1>6. EffectInv'
    <2>1. \A o \in Ops \ overtaken : Truthful(durable[o], effects'[o]) /\ effects'[o] <= 1
      BY <1>0, <1>1, <1>2 DEF EffectInv, Truthful
    <2> QED BY <1>0, <1>5, <2>1 DEF EffectInv, Op
  <1> QED BY <1>0, <1>1, <1>2, <1>6

LEMMA EffectStep ==
  ASSUME "requestCancel" \notin Calls, "lostAck" \notin Faults,
         \A input \in ResumeInputs : input.effect # "none",
         IInv, LockInv, CallInv, StatusInv, CacheInv, KeyInv, StandInv, PhaseInv,
         EffectInv, [Next]_vars
  PROVE  EffectInv'
  <1>0. overtaken \subseteq overtaken'
    BY OvertakenGrows
  <1>1. ASSUME NEW c \in Callers,
               \/ \E i \in Intents : Submit(c, i)
               \/ \E i \in Intents, kind \in LockedKinds : StartLocked(c, kind, i)
               \/ ReadControl(c)
        PROVE  EffectInv'
    <2>1. PICK f : Turn(c, f) /\ f.pc \in {"accept", "lock", "hydrate"}
      BY <1>1, StartTurns
    <2>2. UNCHANGED <<durable, effects>>
      BY <1>1 DEF Submit, StartLocked, ReadControl
    <2> QED BY <1>0, <2>1, <2>2, EffectTurn DEF Tells, Committing
  <1>2. ASSUME NEW c \in Callers, Quits(c) \/ Hydrate(c) PROVE EffectInv'
    <2>1. Turn(c, Idle) /\ UNCHANGED <<durable, effects>>
      BY <1>2, CallTurns DEF Quits, Hydrate
    <2>2. Idle.pc = "idle"
      BY DEF Idle
    <2> QED BY <1>0, <2>1, <2>2, EffectTurn DEF Tells, Committing
  <1>3. ASSUME NEW c \in Callers, AdmitGranted(c) \/ Relock(c) PROVE EffectInv'
    <2>1. PICK f : /\ Turn(c, f)
                   /\ (f.pc = "commit" /\ f.after = "submitted") \/ f.pc = "settled"
      BY <1>3, CallTurns
    <2>2. UNCHANGED <<durable, effects>>
      BY <1>3 DEF AdmitGranted, Relock
    <2> QED BY <1>0, <2>1, <2>2, EffectTurn DEF Tells, Committing
  <1>4. ASSUME NEW c \in Callers, Moves(c) PROVE EffectInv'
    <2>1. PICK f \in SoundCall : /\ call' = [call EXCEPT ![c] = f]
                                 /\ f.pc \in {"queued", "lease", "stop"}
      BY <1>4 DEF Moves
    <2>2. UNCHANGED <<durable, effects>> /\ Turn(c, f)
      BY <1>4, <2>1, TurnBy DEF Moves
    <2> QED BY <1>0, <2>1, <2>2, EffectTurn DEF Tells, Committing
  <1>5. ASSUME NEW c \in Callers, Invokes(c) PROVE EffectInv'
    <2>1. PICK f : Turn(c, f) /\ f.pc = "execute" /\ f.intent = call[c].intent
      BY <1>5, CallTurns DEF Alike, Same
    <2>2. UNCHANGED <<durable, effects>> /\ (Op(c) \notin overtaken => effects[Op(c)] = 0)
      BY <1>5 DEF Invokes, EffectInv, Tells
    <2> QED BY <1>0, <2>1, <2>2, EffectTurn DEF Tells, Committing, Op
  <1>6. ASSUME NEW c \in Callers, ExecutorStops(c) PROVE EffectInv'
    <2>1. PICK f : Turn(c, f) /\ f = [call[c] EXCEPT !.halted = TRUE] /\ call[c].pc = "execute"
      BY <1>6, CallTurns
    <2>2. f.pc = "execute" /\ f.touched = call[c].touched /\ f.intent = call[c].intent
      BY <2>1, CallFacts DEF SoundCall
    <2>3. /\ UNCHANGED <<durable, effects>>
          /\ Op(c) \notin overtaken => Tells(call[c], effects[Op(c)])
      BY <1>6 DEF ExecutorStops, EffectInv
    <2> QED BY <1>0, <2>1, <2>2, <2>3, EffectTurn DEF Tells, Committing, Op
  <1>7. CASE Crash
    <2>1. (\A c \in Callers : call'[c] = Idle) /\ UNCHANGED <<durable, effects, overtaken>>
      BY <1>7 DEF Crash
    <2>2. Idle.pc = "idle"
      BY DEF Idle
    <2> QED BY <2>1, <2>2 DEF EffectInv, Tells, Committing
  <1>8. CASE UNCHANGED vars
    BY <1>8 DEF vars, EffectInv, Op
  <1>9. \A c \in Callers : ~CommitUnacknowledged(c)
    BY DEF CommitUnacknowledged
  <1> QED BY <1>1, <1>2, <1>3, <1>4, <1>5, <1>6, <1>7, <1>8, <1>9, EffectCommit,
             EffectAsked, EffectPerformed, StepCases DEF Next

LEMMA EffectsHold ==
  ASSUME "requestCancel" \notin Calls, HydrateFirst, "lostAck" \notin Faults,
         \A input \in ResumeInputs : input.effect # "none"
  PROVE  Spec => []EffectInv
  <1>1. Init => EffectInv
    <2>1. Init => /\ \A c \in Callers : call[c].pc = "idle"
                  /\ \A o \in Ops : durable[o].status = "none" /\ effects[o] = 0
      BY DEF Init, Idle, NoControl
    <2> QED BY <2>1 DEF EffectInv, Truthful, Tells, Committing
  <1>2. /\ IInv /\ LockInv /\ CallInv /\ StatusInv /\ CacheInv /\ KeyInv /\ StandInv
        /\ PhaseInv /\ EffectInv /\ [Next]_vars
        => EffectInv'
    BY EffectStep
  <1> QED BY <1>1, <1>2, InvariantHolds, LockHolds, CallsHold, StatusHolds, CacheHolds,
             KeysHold, StandsHold, PhasesHold, PTL DEF Spec

\* Without requestCancel and lost acknowledgements, with a read before the
\* first submission of a process, and as long as no resume overrides the
\* recorded effect with "none": whatever executions, resumes, reconciles, reads,
\* refused commits and crashes do to an operation that no read has overtaken,
\* its external effect happens at most once, for an operation that may have had
\* it is only verified again (gateway.ts leaseAndPrepare, resume;
\* planBlockedRecovery).
THEOREM EffectOnce ==
  ASSUME "requestCancel" \notin Calls, HydrateFirst, "lostAck" \notin Faults,
         \A input \in ResumeInputs : input.effect # "none"
  PROVE  Spec => []EffectAtMostOnce
  <1>1. EffectInv => EffectAtMostOnce
    BY DEF EffectInv, EffectAtMostOnce
  <1> QED BY <1>1, EffectsHold, PTL

-------------------------------------------------------------------------------
(***************************************************************************)
(* The newest durable records and the effects implement the contract: a    *)
(* commit of an acceptance admits, a commit of a lease leases, every other *)
(* commit moves along the lifecycle table, and the executor performs.      *)
(***************************************************************************)
LEMMA PassesReach ==
  ASSUME NEW after, NEW from, NEW to, Passes(after, from, to)
  PROVE  IF after = "leased"
         THEN from = "queued" /\ to = "leased"
         ELSE /\ from # "none" /\ to \in OperationStatus \ {"leased", "settling"}
              /\ Contract!Reaches(from, to)
  BY DEF Passes, OperationStatus, Contract!Reaches,
     CanTransitionOperationStatus, OPERATION_STATUS_TRANSITIONS,
     OPERATION_STATUS_LIFECYCLE, CanTransitionLifecycle, WORK_TRANSITIONS,
     Contract!CanTransitionOperationStatus, Contract!OPERATION_STATUS_TRANSITIONS,
     Contract!OPERATION_STATUS_LIFECYCLE, Contract!CanTransitionLifecycle,
     Contract!WORK_TRANSITIONS

\* Nothing the contract sees changes of an operation that a read has overtaken.
LEMMA OvertakenStutters ==
  ASSUME NEW o \in overtaken, overtaken' = overtaken,
         \A p \in Ops : p # o => durable'[p] = durable[p] /\ effects'[p] = effects[p]
  PROVE  UNCHANGED Contract!vars
  <1>1. ASSUME NEW p \in Ops
        PROVE  /\ (IF p \in overtaken' THEN "void" ELSE durable'[p].status)
                    = (IF p \in overtaken THEN "void" ELSE durable[p].status)
               /\ (IF p \in overtaken' THEN 0 ELSE durable'[p].epoch)
                    = (IF p \in overtaken THEN 0 ELSE durable[p].epoch)
    BY <1>1
  <1>2. ASSUME NEW p \in Ops
        PROVE  (p \notin overtaken' /\ effects'[p] > 0) = (p \notin overtaken /\ effects[p] > 0)
    <2>1. CASE p = o
      BY <2>1, Zenon
    <2>2. CASE p # o
      BY <2>2, Zenon
    <2> QED BY <2>1, <2>2
  <1>3. [p \in Ops |-> p \notin overtaken' /\ effects'[p] > 0]
          = [p \in Ops |-> p \notin overtaken /\ effects[p] > 0]
    BY <1>2, Zenon
  <1>4. /\ [p \in Ops |-> IF p \in overtaken' THEN "void" ELSE durable'[p].status]
             = [p \in Ops |-> IF p \in overtaken THEN "void" ELSE durable[p].status]
        /\ [p \in Ops |-> IF p \in overtaken' THEN 0 ELSE durable'[p].epoch]
             = [p \in Ops |-> IF p \in overtaken THEN 0 ELSE durable[p].epoch]
    BY <1>1
  <1> QED BY <1>3, <1>4, Zenon DEF Contract!vars

\* The contract's step on the operation a commit writes.
LEMMA CommitRefines ==
  ASSUME IInv, CallInv, CacheInv, KeyInv, PhaseInv, EffectInv, NEW c \in Callers, Commit(c)
  PROVE  Contract!Next \/ UNCHANGED Contract!vars
  <1> DEFINE succ == call[c].succ
  <1> SUFFICES ASSUME NEW o \in Ops, o = Op(c)
               PROVE  Contract!Next \/ UNCHANGED Contract!vars
    BY CommitFacts
  <1>0. /\ call[c].pc = "commit" /\ CallOK(call[c])
        /\ JournalAccepts(durable[o], succ) /\ effects' = effects
        /\ \A p \in Ops : durable'[p] = IF p = o THEN succ ELSE durable[p]
    BY CommitFacts
  <1>t. overtaken' = overtaken
    BY DEF Commit
  <1>s. SUFFICES ASSUME o \notin overtaken PROVE Contract!Next
    BY <1>0, <1>t, OvertakenStutters
  <1>1. /\ [p \in Ops |-> IF p \in overtaken' THEN "void" ELSE durable'[p].status] =
             [[p \in Ops |-> IF p \in overtaken THEN "void" ELSE durable[p].status]
                EXCEPT ![o] = succ.status]
        /\ [p \in Ops |-> IF p \in overtaken' THEN 0 ELSE durable'[p].epoch] =
             [[p \in Ops |-> IF p \in overtaken THEN 0 ELSE durable[p].epoch]
                EXCEPT ![o] = succ.epoch]
        /\ [p \in Ops |-> p \notin overtaken' /\ effects'[p] > 0]
             = [p \in Ops |-> p \notin overtaken /\ effects[p] > 0]
    <2> HIDE DEF succ
    <2> QED BY <1>0, <1>t, <1>s
  <1>2. CASE Pending(call[c])
    <2>1. succ = Accepted(call[c].intent) /\ succ.intent = call[c].intent
      BY <1>0, <1>2, CommitFacts
    <2>2. succ.status = "accepted" /\ succ.epoch = 1
      BY <2>1 DEF Accepted, NoControl
    <2>3. durable[o].status = "none"
      BY <1>0, <1>2, <2>1 DEF KeyInv, JournalAccepts, Admitted, Op
    <2>4. Contract!Accept(o)
      <3> HIDE DEF succ
      <3> QED BY <1>s, <1>1, <2>2, <2>3 DEF Contract!Accept
    <2> QED BY <2>4 DEF Contract!Next
  <1>3. CASE ~Pending(call[c])
    <2>1. /\ Passes(call[c].after, durable[o].status, succ.status)
          /\ Dates(call[c].after, durable[o].epoch, succ.epoch)
          /\ Truthful(durable[o], effects[o]) /\ effects[o] \in Nat
      BY <1>0, <1>s, <1>3 DEF Pending, PhaseInv, StageOK, Committing, EffectInv, IInv
    <2>2. CASE call[c].after = "leased"
      <3>1. durable[o].status = "queued" /\ succ.status = "leased"
        BY <2>1, <2>2, PassesReach
      <3>2. succ.epoch \in {durable[o].epoch, durable[o].epoch + 1} /\ ~(effects[o] > 0)
        BY <2>1, <3>1 DEF Dates, Truthful
      <3>3. Contract!Lease(o)
        <4> HIDE DEF succ
        <4> QED BY <1>s, <1>1, <3>1, <3>2 DEF Contract!Lease
      <3> QED BY <3>3 DEF Contract!Next
    <2>3. CASE call[c].after # "leased"
      <3>1. /\ durable[o].status \notin {"none", "void"}
            /\ Contract!Reaches(durable[o].status, succ.status)
            /\ succ.status \in OperationStatus \ {"leased", "settling"}
        BY <2>1, <2>3, PassesReach DEF Passes
      <3>2. [[p \in Ops |-> IF p \in overtaken THEN 0 ELSE durable[p].epoch]
               EXCEPT ![o] = succ.epoch]
              = [p \in Ops |-> IF p \in overtaken THEN 0 ELSE durable[p].epoch]
        BY <1>s, <2>1, <2>3 DEF Dates
      <3>3. Contract!Move(o)
        <4> HIDE DEF succ
        <4> QED BY <1>s, <1>1, <3>1, <3>2
                DEF Contract!Move, OperationStatus, Contract!OperationStatus
      <3> QED BY <3>3 DEF Contract!Next
    <2> QED BY <2>2, <2>3
  <1> QED BY <1>2, <1>3

LEMMA EffectRefines ==
  ASSUME IInv, PhaseInv, EffectInv, NEW c \in Callers, ExecutorEffect(c)
  PROVE  Contract!Next \/ UNCHANGED Contract!vars
  <1> SUFFICES ASSUME NEW o \in Ops, o = Op(c)
               PROVE  Contract!Next \/ UNCHANGED Contract!vars
    BY EffectPerformed
  <1>0. /\ UNCHANGED <<durable, overtaken>>
        /\ \A p \in Ops : p # o => effects'[p] = effects[p]
        /\ o \notin overtaken =>
             durable[o].status = "running" /\ effects[o] = 0 /\ effects'[o] = 1
    BY EffectPerformed
  <1>s. SUFFICES ASSUME o \notin overtaken PROVE Contract!Next
    BY <1>0, OvertakenStutters
  <1>1. ~(effects[o] > 0) /\ effects'[o] > 0 /\ durable[o].status = "running"
    BY <1>0, <1>s
  <1>2. ASSUME NEW p \in Ops
        PROVE  (p \notin overtaken' /\ effects'[p] > 0)
                 = IF p = o THEN TRUE ELSE (p \notin overtaken /\ effects[p] > 0)
    <2>1. CASE p = o
      BY <1>0, <1>1, <1>s, <2>1, Zenon
    <2>2. CASE p # o
      BY <1>0, <2>2, Zenon
    <2> QED BY <2>1, <2>2
  <1>3. [p \in Ops |-> p \notin overtaken' /\ effects'[p] > 0]
          = [[p \in Ops |-> p \notin overtaken /\ effects[p] > 0] EXCEPT ![o] = TRUE]
    BY <1>2, Zenon
  <1>4. /\ [p \in Ops |-> IF p \in overtaken THEN "void" ELSE durable[p].status][o] = "running"
        /\ ~[p \in Ops |-> p \notin overtaken /\ effects[p] > 0][o]
    BY <1>s, <1>1, Zenon
  <1>5. /\ [p \in Ops |-> IF p \in overtaken' THEN "void" ELSE durable'[p].status]
             = [p \in Ops |-> IF p \in overtaken THEN "void" ELSE durable[p].status]
        /\ [p \in Ops |-> IF p \in overtaken' THEN 0 ELSE durable'[p].epoch]
             = [p \in Ops |-> IF p \in overtaken THEN 0 ELSE durable[p].epoch]
    BY <1>0
  <1>6. Contract!Perform(o)
    BY <1>3, <1>4, <1>5, Zenon DEF Contract!Perform
  <1> QED BY <1>6 DEF Contract!Next

\* A read makes the contract of the operations it overtakes void.
LEMMA HydrateRefines ==
  ASSUME IInv, CallInv, KeyInv, NEW c \in Callers, Hydrate(c)
  PROVE  Contract!Next
  <1>0. PICK S \in SUBSET Ops : S = {o \in Ops : Overtakes(c, o)}
    OBVIOUS
  <1>1. overtaken' = overtaken \cup S /\ UNCHANGED <<durable, effects>>
        /\ call[c].pc = "hydrate"
    BY <1>0 DEF Hydrate
  <1>2. \A o \in S : durable[o].status # "none"
    BY <1>0, <1>1 DEF Overtakes, KeyInv, Admitted
  <1>3. \A o \in S : [p \in Ops |-> IF p \in overtaken THEN "void" ELSE durable[p].status][o]
                       # "none"
    BY <1>1, <1>2
  <1>4. /\ [o \in Ops |-> IF o \in overtaken' THEN "void" ELSE durable'[o].status]
             = [o \in Ops |-> IF o \in S THEN "void" ELSE
                  [p \in Ops |-> IF p \in overtaken THEN "void" ELSE durable[p].status][o]]
        /\ [o \in Ops |-> IF o \in overtaken' THEN 0 ELSE durable'[o].epoch]
             = [o \in Ops |-> IF o \in S THEN 0 ELSE
                  [p \in Ops |-> IF p \in overtaken THEN 0 ELSE durable[p].epoch][o]]
    BY <1>1
  <1>5. ASSUME NEW o \in Ops
        PROVE  (o \notin overtaken' /\ effects'[o] > 0)
                 = (o \notin S /\ [p \in Ops |-> p \notin overtaken /\ effects[p] > 0][o])
    <2>1. effects'[o] = effects[o] /\ (o \in overtaken' <=> o \in overtaken \/ o \in S)
      BY <1>1
    <2>2. [p \in Ops |-> p \notin overtaken /\ effects[p] > 0][o]
            = (o \notin overtaken /\ effects[o] > 0)
      BY Zenon
    <2> QED BY <2>1, <2>2, Zenon
  <1>6. [o \in Ops |-> o \notin overtaken' /\ effects'[o] > 0]
          = [o \in Ops |-> o \notin S /\
               [p \in Ops |-> p \notin overtaken /\ effects[p] > 0][o]]
    BY <1>5, Zenon
  <1>7. Contract!Void(S)
    BY <1>3, <1>4, <1>6, Zenon DEF Contract!Void
  <1> QED BY <1>7 DEF Contract!Next

LEMMA StepRefines ==
  ASSUME "lostAck" \notin Faults, IInv, CallInv, CacheInv, KeyInv, PhaseInv, EffectInv,
         [Next]_vars
  PROVE  [Contract!Next]_(Contract!vars)
  <1>1. ASSUME UNCHANGED <<durable, effects, overtaken>> PROVE UNCHANGED Contract!vars
    BY <1>1 DEF Contract!vars
  <1>2. ASSUME NEW c \in Callers,
               \/ \E i \in Intents : Submit(c, i)
               \/ \E i \in Intents, kind \in LockedKinds : StartLocked(c, kind, i)
               \/ ReadControl(c) \/ ExecutorStops(c)
               \/ Quits(c) \/ Moves(c) \/ Asked(c) \/ AdmitGranted(c)
               \/ Invokes(c) \/ Relock(c)
        PROVE  UNCHANGED <<durable, effects, overtaken>>
    BY <1>2 DEF Submit, StartLocked, ReadControl, ExecutorStops, Quits, Moves, Asked,
       AdmitGranted, Invokes, Relock
  <1>3. Crash \/ UNCHANGED vars => UNCHANGED <<durable, effects, overtaken>>
    BY DEF Crash, vars
  <1>4. \A c \in Callers : ~CommitUnacknowledged(c)
    BY DEF CommitUnacknowledged
  <1> QED BY <1>1, <1>2, <1>3, <1>4, CommitRefines, EffectRefines, HydrateRefines, StepCases
          DEF Next

\* Under the assumptions of EffectOnce the durable records and the effects of
\* the executors behave as the contract says: admitted once, leased only while
\* there was no effect, moved along the lifecycle table, and performed at most
\* once, by a running operation (ToolExecutionGateway over
\* OperationControlJournal.commit).  The contract of an operation that a read
\* overtakes is void from there on.
THEOREM GatewayRefines ==
  ASSUME "requestCancel" \notin Calls, HydrateFirst, "lostAck" \notin Faults,
         \A input \in ResumeInputs : input.effect # "none"
  PROVE  Spec => ImplementsContract
  <1>1. Init => Contract!Init
    <2> SUFFICES ASSUME Init PROVE Contract!Init
      OBVIOUS
    <2>1. \A o \in Ops : /\ durable[o].status = "none" /\ durable[o].epoch = 0
                         /\ ~(effects[o] > 0)
      BY DEF Init, NoControl
    <2>2. \A o \in Ops :
            /\ (IF o \in overtaken THEN "void" ELSE durable[o].status) = "none"
            /\ (IF o \in overtaken THEN 0 ELSE durable[o].epoch) = 0
      BY <2>1 DEF Init
    <2>3. \A o \in Ops : (o \notin overtaken /\ effects[o] > 0) = FALSE
      BY <2>1, Zenon
    <2> QED BY <2>2, <2>3, Zenon DEF Contract!Init
  <1>2. IInv /\ CallInv /\ CacheInv /\ KeyInv /\ PhaseInv /\ EffectInv /\ [Next]_vars =>
          [Contract!Next]_(Contract!vars)
    BY StepRefines
  <1> QED BY <1>1, <1>2, InvariantHolds, CallsHold, CacheHolds, KeysHold, PhasesHold,
             EffectsHold, PTL DEF Spec, ImplementsContract, Contract!Spec
===============================================================================
