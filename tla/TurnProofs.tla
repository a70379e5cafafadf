------------------------------- MODULE TurnProofs ------------------------------
(***************************************************************************)
(* Theorems about the closing of a turn, for any number of child calls,     *)
(* every set of inputs and decisions, and however often a step fails and    *)
(* the process dies: the records follow their order, the live process acts  *)
(* on what is durable, the cut of the turn is final, the recorded progress  *)
(* is true, and the closing implements the contract of a turn.              *)
(*                                                                          *)
(* The invariant says three things.  All records are of one checkpoint, one *)
(* to a kind, each with the kind it follows.  The step of closeTurn that is *)
(* in flight has the records of the steps before it.  And once a checkpoint *)
(* is frozen no child call is about to commit.                              *)
(***************************************************************************)
EXTENDS TurnProperties, TLAPS

-------------------------------------------------------------------------------
Phase == {"open", "recovering", "awaiting", "aligned", "held", "down"}
Steps == {"idle", "candidate", "recovery", "prepare", "checkpoint", "closure",
          "turn-closure"}

Record == [kind : Kinds, of : Checkpoint, facts : Nat,
           decision : Decisions \cup {Undecided}]

Types ==
    /\ checkpoints \in Seq(Checkpoint)
    /\ child \in [Children -> [at : {"idle", "recalled", "done"},
                               next : Checkpoint \cup {NoCheckpoint}]]
    /\ port \in SUBSET Record
    /\ facts \in Nat \ {0}
    /\ loop \in [phase : Phase, pending : Checkpoint \cup {NoCheckpoint},
                 prepared : Nat, decision : Decisions \cup {Undecided}]
    /\ step \in Steps
    /\ intent \in BOOLEAN
    /\ receipts \in SUBSET Phases
    /\ progress \in [Phases -> PhaseStates]
    /\ save \in [next : 0 .. 6, progress : [Phases -> PhaseStates], complete : BOOLEAN]
    /\ duty \in Decisions \cup {Undecided, "unknown"}
    /\ outcome \in Decisions \cup {Undecided}

Has(kind) == \E r \in port : r.kind = kind
InChain(k) == \E i \in DOMAIN checkpoints : checkpoints[i] = k

Frozen(k) == k \in Checkpoint /\ k.owner = Turn /\ k.inputs \in Inputs

\* Every record has the one it follows.
Ordered ==
    /\ Has("recovery") => Has("candidate")
    /\ Has("preparation") => Has("recovery")
    /\ Has("closure") => Has("preparation")
    /\ Has("turn-closure") => Has("closure")
    /\ Has("alignment") => Has("turn-closure")
    /\ Has("alignment-recovery") => Has("turn-closure")

RecordsInv ==
    /\ \A r, s \in port : r.of = s.of /\ (r.kind = s.kind => r = s)
    /\ Ordered
    /\ \A r \in port : Frozen(r.of)
    /\ \A r, s \in port : r.kind = "closure" /\ s.kind = "preparation" => r.facts = s.facts
    /\ \A r \in port : r.kind = "closure" => InChain(r.of)
    /\ \A i \in TurnCheckpoints : \E r \in port : r.kind = "preparation" /\ r.of = checkpoints[i]

AlignedInv ==
    /\ \A r \in port : r.kind = "alignment" =>
           /\ r.facts = Unprepared
           /\ r.decision \in Decisions /\ r.decision = duty
           /\ intent /\ \A p \in Phases : HasReceipt(p)
    /\ \A r \in port : r.kind = "alignment-recovery" =>
           r.facts = Unprepared /\ r.decision = Undecided

Live == loop.phase \notin {"down", "held"}

LoopInv ==
    /\ loop.pending # NoCheckpoint => Frozen(loop.pending)
    /\ Live => \A r \in port : r.of = loop.pending
    /\ loop.phase = "down" => loop.pending = NoCheckpoint /\ step = "idle"
    /\ step # "idle" => loop.phase \in {"open", "recovering"} /\ loop.pending # NoCheckpoint
    /\ step \in Steps \ {"idle", "candidate"} => Has("candidate")
    /\ step \in Steps \ {"idle", "candidate", "recovery"} => Has("recovery")
    /\ step \in {"checkpoint", "closure", "turn-closure"} => loop.prepared # Unprepared
    /\ loop.prepared # Unprepared => Preparation(loop.prepared) \in port
    /\ step \in {"closure", "turn-closure"} => InChain(loop.pending)
    /\ step = "turn-closure" => Has("closure")
    /\ loop.phase \in {"awaiting", "aligned"} => Has("turn-closure")
    /\ loop.phase = "aligned" => Alignment(loop.decision) \in port

ChildInv ==
    /\ \A c \in Children : child[c].at = "recalled" =>
           child[c].next \in Checkpoint /\ child[c].next.owner = c
    /\ port # {} \/ loop.pending # NoCheckpoint => Drained

SaveInv ==
    /\ \A p \in Phases : progress[p] = "committed" => HasReceipt(p)
    /\ \A p \in Phases : save.progress[p] = "committed" => HasReceipt(p)
    /\ save.next # 0 \/ save.complete => intent
    /\ save.complete => \A p \in Phases : HasReceipt(p)

OutcomeInv == outcome # Undecided => \E r \in port : r.kind = "alignment" /\ r.decision = outcome

IInv == Types /\ RecordsInv /\ AlignedInv /\ LoopInv /\ ChildInv /\ SaveInv /\ OutcomeInv

-------------------------------------------------------------------------------
(* What grows stays. *)

LEMMA OrderIs ==
    /\ PhaseOrder \in Seq(Phases)
    /\ DOMAIN PhaseOrder = 1 .. 5
    /\ Len(PhaseOrder) = 5
  BY DEF PhaseOrder, Phases

\* The chain is what it was, or one checkpoint longer.
Extends(k) == checkpoints' = checkpoints \/ checkpoints' = Append(checkpoints, k)

LEMMA ChainGrows ==
    ASSUME Types, NEW k \in Checkpoint, Extends(k)
    PROVE  /\ checkpoints' \in Seq(Checkpoint)
           /\ \A i \in DOMAIN checkpoints :
                  i \in DOMAIN checkpoints' /\ checkpoints'[i] = checkpoints[i]
           /\ \A i \in DOMAIN checkpoints' : i \in DOMAIN checkpoints \/ checkpoints'[i] = k
           /\ \A c : InChain(c) => InChain(c)'
  <1>1. checkpoints \in Seq(Checkpoint)
    BY DEF Types
  <1>2. CASE checkpoints' = checkpoints
    BY <1>1, <1>2 DEF InChain
  <1>3. CASE checkpoints' = Append(checkpoints, k)
    <2>1. /\ checkpoints' \in Seq(Checkpoint)
          /\ Len(checkpoints') = Len(checkpoints) + 1
          /\ \A i \in 1 .. Len(checkpoints) : checkpoints'[i] = checkpoints[i]
          /\ checkpoints'[Len(checkpoints) + 1] = k
      BY <1>1, <1>3
    <2>2. Len(checkpoints) \in Nat /\ DOMAIN checkpoints = 1 .. Len(checkpoints)
          /\ DOMAIN checkpoints' = 1 .. Len(checkpoints')
      BY <1>1, <2>1
    <2> QED
      BY <2>1, <2>2 DEF InChain
  <1> QED
    BY <1>2, <1>3 DEF Extends

LEMMA ReceiptsStay ==
    ASSUME Types, NEW k \in Checkpoint, Extends(k), port \subseteq port',
           receipts \subseteq receipts'
    PROVE  \A p : HasReceipt(p) => HasReceipt(p)'
  BY ChainGrows DEF HasReceipt

\* One more record, after the one it follows.
Ready(r) ==
    /\ r.kind = "recovery" => Has("candidate")
    /\ r.kind = "preparation" => Has("recovery")
    /\ r.kind = "closure" => Has("preparation") /\ InChain(r.of)
    /\ r.kind = "turn-closure" => Has("closure")
    /\ r.kind \in {"alignment", "alignment-recovery"} => Has("turn-closure")
    /\ \A s \in port : r.kind = "closure" /\ s.kind = "preparation" => r.facts = s.facts

LEMMA RecordsGrow ==
    ASSUME Types, RecordsInv, NEW r, Ready(r), Frozen(r.of), r.kind \in Kinds,
           \A s \in port : s.of = r.of, Under(r) \subseteq {r},
           port' = port \cup {r}, UNCHANGED checkpoints
    PROVE  RecordsInv'
  <1>1. \A s \in port : s.kind = r.kind => s = r
    BY DEF Under, SameId
  <1>2. \A kind : Has(kind)' <=> Has(kind) \/ r.kind = kind
    BY DEF Has
  <1>3. (\A s, t \in port : s.of = t.of /\ (s.kind = t.kind => s = t))'
    BY <1>1 DEF RecordsInv
  <1>4. Ordered'
    BY <1>2 DEF RecordsInv, Ordered, Ready
  <1>5. (\A s \in port : Frozen(s.of))'
    BY DEF RecordsInv, Frozen
  <1>6. (\A s, t \in port : s.kind = "closure" /\ t.kind = "preparation" => s.facts = t.facts)'
    <2> SUFFICES ASSUME NEW s \in port', NEW t \in port', s.kind = "closure",
                        t.kind = "preparation"
                 PROVE  s.facts = t.facts
      OBVIOUS
    <2>1. CASE s \in port
      <3>1. Has("preparation")
        BY <2>1 DEF RecordsInv, Ordered, Has
      <3>2. t \in port
        BY <3>1, <1>1 DEF Has
      <3> QED
        BY <2>1, <3>2 DEF RecordsInv
    <2>2. CASE s \notin port
      BY <2>2 DEF Ready
    <2> QED
      BY <2>1, <2>2
  <1>7. (\A s \in port : s.kind = "closure" => InChain(s.of))'
    BY DEF RecordsInv, Ready, InChain
  <1>8. (\A i \in TurnCheckpoints :
            \E s \in port : s.kind = "preparation" /\ s.of = checkpoints[i])'
    BY DEF RecordsInv, TurnCheckpoints
  <1> QED
    BY <1>3, <1>4, <1>5, <1>6, <1>7, <1>8 DEF RecordsInv
-------------------------------------------------------------------------------
(* The steps of closeTurn. *)

\* What closing leaves of the save, the decision and the outcome.
LEMMA ClosingKeepsRest ==
    ASSUME IInv, NEW k \in Checkpoint, Extends(k), port \subseteq port',
           \A r \in port' \ port : r.kind \notin {"alignment", "alignment-recovery"},
           UNCHANGED <<saveVars, boundaryVars>>
    PROVE  AlignedInv' /\ SaveInv' /\ OutcomeInv'
  <1>1. /\ intent' = intent /\ receipts' = receipts /\ progress' = progress
        /\ save' = save /\ duty' = duty /\ outcome' = outcome
    BY DEF saveVars, boundaryVars
  <1>2. \A p : HasReceipt(p) => HasReceipt(p)'
    BY <1>1, ReceiptsStay DEF IInv
  <1>3. AlignedInv'
    BY <1>1, <1>2 DEF IInv, AlignedInv
  <1>4. SaveInv'
    BY <1>1, <1>2 DEF IInv, SaveInv
  <1>5. OutcomeInv'
    BY <1>1 DEF IInv, OutcomeInv
  <1> QED
    BY <1>3, <1>4, <1>5

LEMMA RecordStep ==
    ASSUME IInv, step # "idle", NEW r \in Record, r.of = loop.pending, Ready(r),
           r.kind \notin {"alignment", "alignment-recovery"}, Stores(r) \/ Fails(r),
           UNCHANGED <<chainVars, saveVars, boundaryVars>>
    PROVE  /\ RecordsInv' /\ AlignedInv' /\ SaveInv' /\ OutcomeInv'
           /\ port' \in SUBSET Record
           /\ port \subseteq port'
           /\ \A s \in port' : s.of = loop.pending
  <1>1. /\ loop.pending \in Checkpoint /\ Frozen(loop.pending)
        /\ \A s \in port : s.of = loop.pending
    BY DEF IInv, LoopInv, Live, Frozen
  <1>2. port \in SUBSET Record /\ r.kind \in Kinds
    BY DEF IInv, Types, Record
  <1>3. UNCHANGED checkpoints
    BY DEF chainVars
  <1>4. CASE UNCHANGED port
    <2>1. RecordsInv'
      BY <1>3, <1>4 DEF IInv, RecordsInv, Ordered, Has, Frozen, InChain, TurnCheckpoints
    <2> QED
      BY <2>1, <1>1, <1>2, <1>3, <1>4, ClosingKeepsRest DEF Extends
  <1>5. CASE Under(r) \subseteq {r} /\ port' = port \cup {r}
    <2>1. RecordsInv'
      BY <1>1, <1>2, <1>3, <1>5, RecordsGrow DEF IInv
    <2> QED
      BY <2>1, <1>1, <1>2, <1>3, <1>5, ClosingKeepsRest DEF Extends
  <1> QED
    BY <1>4, <1>5 DEF Stores, Fails

LEMMA NextIsCheckpoint ==
    ASSUME Types, NEW owner \in Owners, NEW inputs \in Inputs \cup {NoInputs}
    PROVE  NextAfterLatest(owner, inputs) \in Checkpoint
  <1>1. checkpoints # <<>> => Latest \in Checkpoint
    BY DEF Types, Latest
  <1>2. checkpoints # <<>> => IdOf(Latest) \in Ids /\ Latest.seq \in Nat
    BY <1>1 DEF Checkpoint, IdOf, Ids, Owners
  <1> QED
    BY <1>2 DEF NextAfterLatest, Checkpoint

LEMMA CloseTurnKeeps ==
    ASSUME IInv, NEW v \in Inputs, CloseTurn(v), UNCHANGED <<saveVars, boundaryVars>>
    PROVE  IInv'
  <1> DEFINE k == NextAfterLatest(Turn, v)
  <1>1. Types
    BY DEF IInv
  <1>2. k \in Checkpoint /\ Frozen(k)
    BY <1>1, NextIsCheckpoint DEF NextAfterLatest, Frozen, Owners
  <1>3. /\ UNCHANGED <<port, facts, checkpoints, child, saveVars, boundaryVars>>
        /\ step' = "candidate" /\ step = "idle" /\ Drained
        /\ loop.phase \in {"open", "recovering"}
    BY DEF CloseTurn, chainVars
  <1>4. k # NoCheckpoint
    BY <1>2, NoCheckpointAssumption
  <1>5. RecordsInv'
    BY <1>3 DEF IInv, RecordsInv, Ordered, Has, Frozen, InChain, TurnCheckpoints
  <1>6. AlignedInv' /\ SaveInv' /\ OutcomeInv'
    BY <1>2, <1>3, ClosingKeepsRest DEF Extends
  <1>7. ChildInv'
    BY <1>3 DEF IInv, ChildInv, Drained
  <1>8. CASE loop.pending # NoCheckpoint
    <2>1. loop' = loop
      BY <1>8 DEF CloseTurn
    <2>2. Types'
      BY <1>1, <1>3, <2>1 DEF Types, saveVars, boundaryVars, Steps
    <2>3. LoopInv'
      BY <1>3, <1>8, <2>1 DEF IInv, LoopInv, Live, Has, Frozen, InChain, Preparation, Alignment,
         Fact, Steps
    <2> QED
      BY <1>5, <1>6, <1>7, <2>2, <2>3 DEF IInv
  <1>9. CASE loop.pending = NoCheckpoint
    <2>1. loop' = [loop EXCEPT !.pending = k]
      BY <1>9 DEF CloseTurn
    <2>2. /\ loop'.pending = k /\ loop'.phase = loop.phase /\ loop'.prepared = loop.prepared
          /\ loop'.decision = loop.decision
      BY <2>1, <1>1 DEF Types
    <2>3. Types'
      BY <1>1, <1>2, <1>3, <2>1 DEF Types, saveVars, boundaryVars, Steps
    <2>4. \A r \in port : r.of \in Checkpoint
      BY <1>1 DEF Types, Record
    <2>5. port = {}
      BY <1>3, <1>9, <2>4, NoCheckpointAssumption DEF IInv, LoopInv, Live
    <2>6. LoopInv'
      BY <1>2, <1>3, <1>4, <1>9, <2>2, <2>5 DEF IInv, LoopInv, Live, Has, Frozen, InChain, Steps
    <2> QED
      BY <1>5, <1>6, <1>7, <2>3, <2>6 DEF IInv
  <1> QED
    BY <1>8, <1>9

\* A step whose record is handled leaves the types, the loop and the children as
\* they should be when it moves to a later step, or is interrupted.
LEMMA StepTypes ==
    ASSUME IInv, step # "idle", port' \in SUBSET Record, step' \in Steps,
           \/ loop' = loop
           \/ loop' = [loop EXCEPT !.phase = "recovering"]
           \/ loop' = [loop EXCEPT !.phase = "awaiting"]
           \/ loop' = [loop EXCEPT !.prepared = facts],
           UNCHANGED <<facts, child, saveVars, boundaryVars>>,
           checkpoints' \in Seq(Checkpoint)
    PROVE  /\ Types' /\ ChildInv'
           /\ loop'.pending = loop.pending /\ loop'.pending # NoCheckpoint
           /\ loop'.decision = loop.decision
           /\ loop' = [loop EXCEPT !.phase = "recovering"] =>
                  loop'.phase = "recovering" /\ loop'.prepared = loop.prepared
           /\ loop' = [loop EXCEPT !.phase = "awaiting"] =>
                  loop'.phase = "awaiting" /\ loop'.prepared = loop.prepared
           /\ loop' = [loop EXCEPT !.prepared = facts] =>
                  loop'.prepared = facts /\ loop'.phase = loop.phase
  <1>1. Types /\ loop.pending # NoCheckpoint
    BY DEF IInv, LoopInv
  <1>2. Types'
    <2>1. loop' \in [phase : Phase, pending : Checkpoint \cup {NoCheckpoint},
                     prepared : Nat, decision : Decisions \cup {Undecided}]
      <3> DEFINE L == [phase : Phase, pending : Checkpoint \cup {NoCheckpoint},
                       prepared : Nat, decision : Decisions \cup {Undecided}]
      <3>1. loop \in L /\ facts \in Nat /\ "recovering" \in Phase /\ "awaiting" \in Phase
        BY <1>1 DEF Types, Phase
      <3>2. /\ [loop EXCEPT !.phase = "recovering"] \in L
            /\ [loop EXCEPT !.phase = "awaiting"] \in L
            /\ [loop EXCEPT !.prepared = facts] \in L
        BY <3>1
      <3> QED
        BY <3>1, <3>2
    <2> QED
      BY <1>1, <2>1 DEF Types, saveVars, boundaryVars
  <1>3. /\ loop'.pending = loop.pending /\ loop'.decision = loop.decision
        /\ loop' = [loop EXCEPT !.phase = "recovering"] =>
               loop'.phase = "recovering" /\ loop'.prepared = loop.prepared
        /\ loop' = [loop EXCEPT !.phase = "awaiting"] =>
               loop'.phase = "awaiting" /\ loop'.prepared = loop.prepared
        /\ loop' = [loop EXCEPT !.prepared = facts] =>
               loop'.prepared = facts /\ loop'.phase = loop.phase
    BY <1>1 DEF Types
  <1>4. ChildInv'
    BY <1>1 DEF IInv, ChildInv, Drained
  <1> QED
    BY <1>1, <1>2, <1>3, <1>4

LEMMA PersistCandidateKeeps ==
    ASSUME IInv, PersistCandidate, UNCHANGED <<saveVars, boundaryVars>>
    PROVE  IInv'
  <1>1. /\ step = "candidate" /\ loop.pending \in Checkpoint
        /\ loop.phase \in {"open", "recovering"}
    BY DEF PersistCandidate, IInv, LoopInv, Frozen
  <1>2. Candidate \in Record /\ Candidate.of = loop.pending /\ Candidate.kind = "candidate"
    BY <1>1 DEF Candidate, Fact, Record, Kinds, Unprepared
  <1>3. UNCHANGED <<facts, child, checkpoints, loop>> /\ UNCHANGED chainVars
    BY DEF PersistCandidate, chainVars
  <1>4. Ready(Candidate)
    BY <1>2 DEF Ready
  <1>5. \/ Stores(Candidate) /\ step' = "recovery"
        \/ Fails(Candidate) /\ step' = "idle"
    BY DEF PersistCandidate
  <1>6. /\ RecordsInv' /\ AlignedInv' /\ SaveInv' /\ OutcomeInv'
        /\ port' \in SUBSET Record /\ port \subseteq port'
        /\ \A s \in port' : s.of = loop.pending
    BY <1>1, <1>2, <1>3, <1>4, <1>5, RecordStep
  <1>7. Types' /\ ChildInv'
    BY <1>1, <1>3, <1>5, <1>6, StepTypes DEF Steps, IInv, Types
  <1>8. step' = "recovery" => Has("candidate")'
    BY <1>2, <1>5 DEF Stores, Has
  <1>9. LoopInv'
    BY <1>1, <1>3, <1>5, <1>6, <1>8
       DEF IInv, LoopInv, Live, Has, Frozen, InChain, Preparation, Alignment, Fact, Steps
  <1> QED
    BY <1>6, <1>7, <1>9 DEF IInv

LEMMA PersistRecoveryKeeps ==
    ASSUME IInv, PersistRecovery, UNCHANGED <<saveVars, boundaryVars>>
    PROVE  IInv'
  <1>1. /\ step = "recovery" /\ loop.pending \in Checkpoint
        /\ loop.phase \in {"open", "recovering"} /\ Has("candidate")
    BY DEF PersistRecovery, IInv, LoopInv, Frozen, Steps
  <1>2. Recovery \in Record /\ Recovery.of = loop.pending /\ Recovery.kind = "recovery"
    BY <1>1 DEF Recovery, Fact, Record, Kinds, Unprepared
  <1>3. UNCHANGED <<facts, child, checkpoints, loop>> /\ UNCHANGED chainVars
    BY DEF PersistRecovery, chainVars
  <1>4. Ready(Recovery)
    BY <1>1, <1>2 DEF Ready
  <1>5. \/ Stores(Recovery) /\ step' = "prepare"
        \/ Fails(Recovery) /\ step' = "idle"
    BY DEF PersistRecovery
  <1>6. /\ RecordsInv' /\ AlignedInv' /\ SaveInv' /\ OutcomeInv'
        /\ port' \in SUBSET Record /\ port \subseteq port'
        /\ \A s \in port' : s.of = loop.pending
    BY <1>1, <1>2, <1>3, <1>4, <1>5, RecordStep
  <1>7. Types' /\ ChildInv'
    BY <1>1, <1>3, <1>5, <1>6, StepTypes DEF Steps, IInv, Types
  <1>8. step' = "prepare" => Has("recovery")'
    BY <1>2, <1>5 DEF Stores, Has
  <1>9. LoopInv'
    BY <1>1, <1>3, <1>5, <1>6, <1>8
       DEF IInv, LoopInv, Live, Has, Frozen, InChain, Preparation, Alignment, Fact, Steps
  <1> QED
    BY <1>6, <1>7, <1>9 DEF IInv

LEMMA PrepareKeeps ==
    ASSUME IInv, Prepare, UNCHANGED <<saveVars, boundaryVars>>
    PROVE  IInv'
  <1> DEFINE r == Preparation(facts)
  <1>1. /\ step = "prepare" /\ loop.pending \in Checkpoint
        /\ loop.phase \in {"open", "recovering"} /\ Has("candidate") /\ Has("recovery")
    BY DEF Prepare, IInv, LoopInv, Frozen, Steps
  <1>2. /\ r \in Record /\ r.of = loop.pending /\ r.kind = "preparation"
        /\ r.facts = facts /\ facts \in Nat \ {0}
    BY <1>1 DEF Preparation, Fact, Record, Kinds, IInv, Types
  <1>3. UNCHANGED <<facts, child, checkpoints>> /\ UNCHANGED chainVars
    BY DEF Prepare, chainVars
  <1>4. Ready(r)
    BY <1>1, <1>2 DEF Ready
  <1>5. CASE loop.prepared # Unprepared /\ step' = "checkpoint" /\ UNCHANGED <<port, loop>>
    <2>1. /\ RecordsInv' /\ AlignedInv' /\ SaveInv' /\ OutcomeInv'
          /\ port' \in SUBSET Record /\ port \subseteq port'
          /\ \A s \in port' : s.of = loop.pending
      BY <1>1, <1>2, <1>3, <1>4, <1>5, RecordStep DEF Fails
    <2>2. Types' /\ ChildInv'
      BY <1>1, <1>3, <1>5, <2>1, StepTypes DEF Steps, IInv, Types
    <2>3. LoopInv'
      BY <1>1, <1>3, <1>5, <2>1
         DEF IInv, LoopInv, Live, Has, Frozen, InChain, Preparation, Alignment, Fact, Steps
    <2> QED
      BY <2>1, <2>2, <2>3 DEF IInv
  <1>6. CASE Stores(r) /\ step' = "checkpoint" /\ loop' = [loop EXCEPT !.prepared = facts]
    <2>1. /\ RecordsInv' /\ AlignedInv' /\ SaveInv' /\ OutcomeInv'
          /\ port' \in SUBSET Record /\ port \subseteq port'
          /\ \A s \in port' : s.of = loop.pending
      BY <1>1, <1>2, <1>3, <1>4, <1>6, RecordStep
    <2>2. /\ Types' /\ ChildInv' /\ loop'.pending = loop.pending /\ loop'.pending # NoCheckpoint
          /\ loop'.prepared = facts /\ loop'.phase = loop.phase
          /\ loop'.decision = loop.decision
      BY <1>1, <1>3, <1>6, <2>1, StepTypes DEF Steps, IInv, Types
    <2>3. r \in port' /\ Preparation(facts)' = r
      BY <1>3, <1>6, <2>2 DEF Stores, Preparation, Fact
    <2>4. Has("candidate")' /\ Has("recovery")'
      BY <1>1, <2>1 DEF Has
    <2>5. LoopInv'
      BY <1>1, <1>2, <1>3, <1>6, <2>1, <2>2, <2>3, <2>4
         DEF IInv, LoopInv, Live, Frozen, Steps, Unprepared
    <2> QED
      BY <2>1, <2>2, <2>5 DEF IInv
  <1>7. CASE loop.prepared = Unprepared /\ Fails(r) /\ Interrupted
    <2>1. /\ RecordsInv' /\ AlignedInv' /\ SaveInv' /\ OutcomeInv'
          /\ port' \in SUBSET Record /\ port \subseteq port'
          /\ \A s \in port' : s.of = loop.pending
      BY <1>1, <1>2, <1>3, <1>4, <1>7, RecordStep
    <2>2. /\ Types' /\ ChildInv' /\ loop'.pending = loop.pending /\ loop'.pending # NoCheckpoint
          /\ loop'.phase = "recovering" /\ step' = "idle"
          /\ loop'.prepared = Unprepared
      BY <1>1, <1>3, <1>7, <2>1, StepTypes DEF Steps, IInv, Types, Interrupted
    <2>3. LoopInv'
      BY <1>1, <1>3, <1>7, <2>1, <2>2 DEF IInv, LoopInv, Live, Frozen, Steps
    <2> QED
      BY <2>1, <2>2, <2>3 DEF IInv
  <1> QED
    BY <1>5, <1>6, <1>7 DEF Prepare

LEMMA ChainStep ==
    ASSUME IInv, NEW k \in Checkpoint, Extends(k), UNCHANGED port,
           k.owner = Turn => \E r \in port : r.kind = "preparation" /\ r.of = k
    PROVE  RecordsInv'
  <1>1. /\ \A i \in DOMAIN checkpoints :
               i \in DOMAIN checkpoints' /\ checkpoints'[i] = checkpoints[i]
        /\ \A i \in DOMAIN checkpoints' : i \in DOMAIN checkpoints \/ checkpoints'[i] = k
        /\ \A c : InChain(c) => InChain(c)'
    BY ChainGrows DEF IInv
  <1>2. (\A i \in TurnCheckpoints :
            \E s \in port : s.kind = "preparation" /\ s.of = checkpoints[i])'
    BY <1>1 DEF IInv, RecordsInv, TurnCheckpoints
  <1>3. Ordered'
    BY DEF IInv, RecordsInv, Ordered, Has
  <1> QED
    BY <1>1, <1>2, <1>3 DEF IInv, RecordsInv, Frozen

LEMMA AppendCheckpointKeeps ==
    ASSUME IInv, AppendCheckpoint, UNCHANGED <<saveVars, boundaryVars>>
    PROVE  IInv'
  <1> DEFINE k == loop.pending
  <1>1. /\ step = "checkpoint" /\ k \in Checkpoint /\ k # NoCheckpoint
        /\ loop.phase \in {"open", "recovering"} /\ Has("candidate") /\ Has("recovery")
        /\ Preparation(loop.prepared) \in port /\ loop.prepared # Unprepared
        /\ \A s \in port : s.of = k
    BY DEF AppendCheckpoint, IInv, LoopInv, Live, Frozen, Steps
  <1>2. UNCHANGED <<port, facts, child>>
    BY DEF AppendCheckpoint
  <1>3. /\ Extends(k)
        /\ CompleteCheckpoint(k) => \E i \in DOMAIN checkpoints' : checkpoints'[i] = k
    <2>1. CASE checkpoints' = Append(checkpoints, k)
      <3>1. checkpoints \in Seq(Checkpoint)
        BY DEF IInv, Types
      <3>2. /\ checkpoints' \in Seq(Checkpoint)
            /\ Len(checkpoints') = Len(checkpoints) + 1
            /\ checkpoints'[Len(checkpoints) + 1] = k
        BY <1>1, <2>1, <3>1
      <3>3. Len(checkpoints) + 1 \in DOMAIN checkpoints'
        BY <3>1, <3>2
      <3> QED
        BY <2>1, <3>2, <3>3 DEF Extends, InChain
    <2>2. CASE UNCHANGED checkpoints /\ InChain(k)
      BY <2>2 DEF Extends, InChain
    <2>3. CASE UNCHANGED checkpoints /\ ~InChain(k)
      <3>1. checkpoints \in Seq(Checkpoint)
        BY DEF IInv, Types
      <3>2. Len(Append(checkpoints, k)) = Len(checkpoints) + 1 /\ Len(checkpoints) \in Nat
        BY <1>1, <3>1
      <3>3. Append(checkpoints, k) # checkpoints
        BY <3>2
      <3> QED
        BY <2>3, <3>3 DEF Extends, CompleteCheckpoint, InChain
    <2> QED
      BY <2>1, <2>2, <2>3 DEF AppendCheckpoint, CompleteCheckpoint
  <1>4. RecordsInv'
    <2>1. \E r \in port : r.kind = "preparation" /\ r.of = k
      BY <1>1 DEF Preparation, Fact
    <2> QED
      BY <1>1, <1>2, <1>3, <2>1, ChainStep
  <1>5. AlignedInv' /\ SaveInv' /\ OutcomeInv'
    BY <1>1, <1>2, <1>3, ClosingKeepsRest
  <1>6. /\ checkpoints' \in Seq(Checkpoint)
        /\ \A c : InChain(c) => InChain(c)'
    BY <1>1, <1>3, ChainGrows DEF IInv
  <1>7. CASE CompleteCheckpoint(k) /\ step' = "closure" /\ UNCHANGED loop
    <2>1. Types' /\ ChildInv'
      BY <1>1, <1>2, <1>6, <1>7, StepTypes DEF Steps, IInv, Types
    <2>2. Preparation(loop.prepared)' = Preparation(loop.prepared)
      BY <1>7 DEF Preparation, Fact
    <2>3. Has("candidate")' /\ Has("recovery")'
      BY <1>1, <1>2 DEF Has
    <2>4. LoopInv'
      BY <1>1, <1>2, <1>3, <1>7, <2>2, <2>3 DEF IInv, LoopInv, Live, Frozen, InChain, Steps
    <2> QED
      BY <1>4, <1>5, <2>1, <2>4 DEF IInv
  <1>8. CASE Interrupted
    <2>1. /\ Types' /\ ChildInv' /\ loop'.pending = k /\ loop'.prepared = loop.prepared
          /\ loop'.phase = "recovering" /\ step' = "idle"
      BY <1>1, <1>2, <1>6, <1>8, StepTypes DEF Steps, IInv, Types, Interrupted
    <2>2. Preparation(loop.prepared)' = Preparation(loop.prepared)
      BY <2>1 DEF Preparation, Fact
    <2>3. LoopInv'
      BY <1>1, <1>2, <2>1, <2>2 DEF IInv, LoopInv, Live, Frozen, Steps
    <2> QED
      BY <1>4, <1>5, <2>1, <2>3 DEF IInv
  <1> QED
    BY <1>7, <1>8 DEF AppendCheckpoint

LEMMA PersistClosureKeeps ==
    ASSUME IInv, PersistClosure, UNCHANGED <<saveVars, boundaryVars>>
    PROVE  IInv'
  <1> DEFINE k == loop.pending
  <1>1. /\ step = "closure" /\ k \in Checkpoint /\ k # NoCheckpoint
        /\ loop.phase \in {"open", "recovering"} /\ Has("candidate") /\ Has("recovery")
        /\ Preparation(loop.prepared) \in port /\ loop.prepared # Unprepared
        /\ InChain(k)
    BY DEF PersistClosure, IInv, LoopInv, Frozen, Steps
  <1>2. /\ Closure \in Record /\ Closure.of = k /\ Closure.kind = "closure"
        /\ Closure.facts = loop.prepared
    BY <1>1 DEF Closure, Fact, Record, Kinds, IInv, Types
  <1>3. UNCHANGED <<facts, child, checkpoints>> /\ UNCHANGED chainVars
    BY DEF PersistClosure, chainVars
  <1>4. Ready(Closure)
    <2>1. /\ Preparation(loop.prepared).kind = "preparation"
          /\ Preparation(loop.prepared).facts = loop.prepared
      BY DEF Preparation, Fact
    <2> QED
      BY <1>1, <1>2, <2>1 DEF Ready, Has, IInv, RecordsInv
  <1>5. \/ Stores(Closure) /\ step' = "turn-closure" /\ UNCHANGED loop
        \/ Fails(Closure) /\ Interrupted
    BY DEF PersistClosure
  <1>6. /\ RecordsInv' /\ AlignedInv' /\ SaveInv' /\ OutcomeInv'
        /\ port' \in SUBSET Record /\ port \subseteq port'
        /\ \A s \in port' : s.of = loop.pending
    BY <1>1, <1>2, <1>3, <1>4, <1>5, RecordStep
  <1>7. /\ Types' /\ ChildInv' /\ loop'.pending = k /\ loop'.prepared = loop.prepared
        /\ \/ step' = "turn-closure" /\ loop'.phase = loop.phase
           \/ step' = "idle" /\ loop'.phase = "recovering"
    BY <1>1, <1>3, <1>5, <1>6, StepTypes DEF Steps, IInv, Types, Interrupted
  <1>8. /\ step' = "turn-closure" => Has("closure")'
        /\ Has("candidate")' /\ Has("recovery")' /\ InChain(k)'
        /\ Preparation(loop.prepared)' \in port'
    BY <1>1, <1>2, <1>3, <1>5, <1>6, <1>7 DEF Stores, Has, InChain, Preparation, Fact, Interrupted
  <1>9. LoopInv'
    BY <1>1, <1>6, <1>7, <1>8 DEF IInv, LoopInv, Live, Frozen, Steps
  <1> QED
    BY <1>6, <1>7, <1>9 DEF IInv

LEMMA PersistTurnClosureKeeps ==
    ASSUME IInv, PersistTurnClosure, UNCHANGED <<saveVars, boundaryVars>>
    PROVE  IInv'
  <1> DEFINE k == loop.pending
  <1>1. /\ step = "turn-closure" /\ k \in Checkpoint /\ k # NoCheckpoint
        /\ loop.phase \in {"open", "recovering"} /\ Has("closure")
        /\ Preparation(loop.prepared) \in port
    BY DEF PersistTurnClosure, IInv, LoopInv, Frozen, Steps
  <1>2. TurnClosure \in Record /\ TurnClosure.of = k /\ TurnClosure.kind = "turn-closure"
    BY <1>1 DEF TurnClosure, Fact, Record, Kinds, Unprepared
  <1>3. UNCHANGED <<facts, child, checkpoints>> /\ UNCHANGED chainVars
    BY DEF PersistTurnClosure, chainVars
  <1>4. Ready(TurnClosure)
    BY <1>1, <1>2 DEF Ready
  <1>5. /\ step' = "idle"
        /\ \/ Stores(TurnClosure) /\ loop' = [loop EXCEPT !.phase = "awaiting"]
           \/ Fails(TurnClosure) /\ loop' = [loop EXCEPT !.phase = "recovering"]
    BY DEF PersistTurnClosure, Interrupted
  <1>6. /\ RecordsInv' /\ AlignedInv' /\ SaveInv' /\ OutcomeInv'
        /\ port' \in SUBSET Record /\ port \subseteq port'
        /\ \A s \in port' : s.of = loop.pending
    BY <1>1, <1>2, <1>3, <1>4, <1>5, RecordStep
  <1>7. /\ Types' /\ ChildInv' /\ loop'.pending = k /\ loop'.prepared = loop.prepared
        /\ loop'.phase \in {"awaiting", "recovering"}
        /\ loop'.phase = "awaiting" => Stores(TurnClosure)
    BY <1>1, <1>3, <1>5, <1>6, StepTypes DEF Steps, IInv, Types
  <1>8. /\ loop'.phase = "awaiting" => Has("turn-closure")'
        /\ Preparation(loop.prepared)' \in port'
    BY <1>1, <1>2, <1>6, <1>7 DEF Stores, Has, Preparation, Fact
  <1>9. LoopInv'
    BY <1>1, <1>5, <1>6, <1>7, <1>8 DEF IInv, LoopInv, Live, Frozen, Steps
  <1> QED
    BY <1>6, <1>7, <1>9 DEF IInv

\* A step that changes neither the records, the chain nor the loop.
LEMMA RecordsStay ==
    ASSUME IInv, UNCHANGED <<port, checkpoints>>
    PROVE  RecordsInv' /\ (\A p : HasReceipt(p) /\ receipts \subseteq receipts' => HasReceipt(p)')
  BY DEF IInv, RecordsInv, Ordered, Has, Frozen, InChain, TurnCheckpoints, HasReceipt

LEMMA LoopStays ==
    ASSUME IInv, UNCHANGED <<port, checkpoints, loop, step>>
    PROVE  LoopInv'
  BY DEF IInv, LoopInv, Live, Has, Frozen, InChain, Preparation, Alignment, Fact

LEMMA UpdateFactsKeeps ==
    ASSUME IInv, UpdateFacts, UNCHANGED <<saveVars, boundaryVars>>
    PROVE  IInv'
  <1>1. UNCHANGED <<port, checkpoints, child, loop, step, intent, receipts, progress, save,
                    duty, outcome>>
    BY DEF UpdateFacts, chainVars, saveVars, boundaryVars
  <1>2. Types'
    BY <1>1 DEF UpdateFacts, IInv, Types
  <1>3. RecordsInv' /\ LoopInv'
    BY <1>1, RecordsStay, LoopStays
  <1>4. AlignedInv' /\ SaveInv' /\ OutcomeInv' /\ ChildInv'
    BY <1>1, RecordsStay DEF IInv, AlignedInv, SaveInv, OutcomeInv, ChildInv, Drained
  <1> QED
    BY <1>2, <1>3, <1>4 DEF IInv

LEMMA LoopGrows ==
    ASSUME IInv, NEW k \in Checkpoint, Extends(k), UNCHANGED <<port, loop, step>>
    PROVE  LoopInv'
  <1>1. \A c : InChain(c) => InChain(c)'
    BY ChainGrows DEF IInv
  <1> QED
    BY <1>1 DEF IInv, LoopInv, Live, Has, Frozen, Preparation, Alignment, Fact

-------------------------------------------------------------------------------
(* The child calls. *)

LEMMA RecallKeeps ==
    ASSUME IInv, NEW c \in Children, Recall(c), loop.phase = "open", loop.pending = NoCheckpoint,
           UNCHANGED <<closingVars, saveVars, boundaryVars>>
    PROVE  IInv'
  <1> DEFINE n == NextAfterLatest(c, NoInputs)
  <1>1. UNCHANGED <<port, facts, loop, step, checkpoints, intent, receipts, progress, save,
                    duty, outcome>>
    BY DEF Recall, closingVars, saveVars, boundaryVars
  <1>2. n \in Checkpoint /\ n.owner = c
    BY NextIsCheckpoint DEF IInv, Owners, NextAfterLatest
  <1>3. port = {}
    BY NoCheckpointAssumption DEF IInv, Types, Record, LoopInv, Live
  <1>4. /\ child' \in [Children -> [at : {"idle", "recalled", "done"},
                                    next : Checkpoint \cup {NoCheckpoint}]]
        /\ \A d \in Children : \/ child'[d] = child[d]
                               \/ child'[d].at = "done"
                               \/ d = c /\ child'[d].next = n
    <2>1. child \in [Children -> [at : {"idle", "recalled", "done"},
                                  next : Checkpoint \cup {NoCheckpoint}]]
      BY DEF IInv, Types
    <2>2. CASE child' = [child EXCEPT ![c].at = "done"]
      BY <2>1, <2>2
    <2>3. CASE child' = [child EXCEPT ![c] = [at |-> "recalled", next |-> n]]
      BY <1>2, <2>1, <2>3
    <2> QED
      BY <2>2, <2>3 DEF Recall
  <1>5. Types'
    BY <1>1, <1>4 DEF IInv, Types
  <1>6. ChildInv'
    BY <1>1, <1>2, <1>3, <1>4 DEF IInv, ChildInv
  <1>7. RecordsInv' /\ LoopInv'
    BY <1>1, RecordsStay, LoopStays
  <1>8. AlignedInv' /\ SaveInv' /\ OutcomeInv'
    BY <1>1, RecordsStay DEF IInv, AlignedInv, SaveInv, OutcomeInv
  <1> QED
    BY <1>5, <1>6, <1>7, <1>8 DEF IInv

LEMMA ExtendKeeps ==
    ASSUME IInv, NEW c \in Children, Extend(c), UNCHANGED <<closingVars, saveVars, boundaryVars>>
    PROVE  IInv'
  <1> DEFINE n == child[c].next
  <1>1. /\ UNCHANGED <<port, facts, loop, step, intent, receipts, progress, save, duty, outcome>>
        /\ UNCHANGED <<saveVars, boundaryVars>>
    BY DEF closingVars, saveVars, boundaryVars
  <1>2. n \in Checkpoint /\ n.owner = c /\ n.owner # Turn /\ ~Drained
    BY OwnerAssumption DEF Extend, IInv, ChildInv, Drained
  <1>3. port = {} /\ loop.pending = NoCheckpoint
    BY <1>2 DEF IInv, ChildInv
  <1>4. Extends(n)
    BY DEF Extend, CompleteCheckpoint, Extends
  <1>5. checkpoints' \in Seq(Checkpoint)
    BY <1>2, <1>4, ChainGrows DEF IInv
  <1>6. /\ child' \in [Children -> [at : {"idle", "recalled", "done"},
                                    next : Checkpoint \cup {NoCheckpoint}]]
        /\ \A d \in Children : child'[d] = child[d] \/ child'[d].at = "done"
    BY DEF Extend, IInv, Types
  <1>7. Types'
    BY <1>1, <1>5, <1>6 DEF IInv, Types
  <1>8. ChildInv'
    BY <1>1, <1>3, <1>6 DEF IInv, ChildInv
  <1>9. RecordsInv' /\ LoopInv'
    BY <1>1, <1>2, <1>4, ChainStep, LoopGrows
  <1>10. AlignedInv' /\ SaveInv' /\ OutcomeInv'
    BY <1>1, <1>2, <1>4, ClosingKeepsRest
  <1> QED
    BY <1>7, <1>8, <1>9, <1>10 DEF IInv

LEMMA ChildCommitsKeeps ==
    ASSUME IInv, NEW c \in Children, ChildCommits(c)
    PROVE  IInv'
  BY RecallKeeps, ExtendKeeps DEF ChildCommits

-------------------------------------------------------------------------------
(* The boundary save. *)

Runs == [next : 0 .. 6, progress : [Phases -> PhaseStates], complete : BOOLEAN]

\* A step of the save disturbs only what the save keeps.
LEMMA SaveStep ==
    ASSUME IInv, UNCHANGED <<chainVars, closingVars, boundaryVars>>, receipts \subseteq receipts',
           receipts' \subseteq Phases, intent => intent', intent' \in BOOLEAN,
           progress' \in [Phases -> PhaseStates], save' \in Runs, SaveInv'
    PROVE  IInv'
  <1>1. UNCHANGED <<port, facts, loop, step, checkpoints, child, duty, outcome>>
    BY DEF chainVars, closingVars, boundaryVars
  <1>2. Types'
    BY <1>1 DEF IInv, Types, Runs
  <1>3. RecordsInv' /\ LoopInv'
    BY <1>1, RecordsStay, LoopStays
  <1>4. AlignedInv'
    BY <1>1, RecordsStay DEF IInv, AlignedInv
  <1>5. OutcomeInv' /\ ChildInv'
    BY <1>1 DEF IInv, OutcomeInv, ChildInv, Drained
  <1> QED
    BY <1>2, <1>3, <1>4, <1>5 DEF IInv

LEMMA NoRunIs ==
    /\ NoRun \in Runs /\ NoRun.next = 0 /\ ~NoRun.complete
    /\ \A p \in Phases : NoRun.progress[p] # "committed"
  BY DEF NoRun, Runs, PhaseStates

LEMMA SameReceipts ==
    ASSUME port \subseteq port', UNCHANGED checkpoints, receipts \subseteq receipts'
    PROVE  \A p : HasReceipt(p) => HasReceipt(p)'
  BY DEF HasReceipt

LEMMA BeginSaveKeeps ==
    ASSUME IInv, BeginSave, UNCHANGED boundaryVars
    PROVE  IInv'
  <1>1. /\ UNCHANGED <<receipts, progress, port, checkpoints>>
        /\ UNCHANGED <<chainVars, closingVars, boundaryVars>>
    BY DEF BeginSave, chainVars, closingVars
  <1>2. progress \in [Phases -> PhaseStates] /\ receipts \subseteq Phases /\ intent \in BOOLEAN
    BY DEF IInv, Types
  <1>3. intent' \in BOOLEAN /\ (intent => intent')
    BY <1>2 DEF BeginSave
  <1>4. \A p : HasReceipt(p) => HasReceipt(p)'
    BY <1>1, SameReceipts
  <1>5. \A p \in Phases : progress'[p] = "committed" => HasReceipt(p)'
    BY <1>1, <1>4 DEF IInv, SaveInv
  <1>6. CASE intent' = TRUE /\ save' = [NoRun EXCEPT !.next = 1, !.progress = progress]
    <2>1. save' = [next |-> 1, progress |-> progress, complete |-> FALSE]
      BY <1>6 DEF NoRun
    <2>2. save' \in Runs /\ save'.progress = progress /\ ~save'.complete
      BY <1>2, <2>1 DEF Runs
    <2>3. SaveInv'
      BY <1>1, <1>5, <1>6, <2>2 DEF SaveInv
    <2> QED
      BY <1>1, <1>2, <1>3, <2>2, <2>3, SaveStep
  <1>7. CASE save' = NoRun
    <2>1. SaveInv'
      BY <1>5, <1>7, NoRunIs DEF SaveInv
    <2> QED
      BY <1>1, <1>2, <1>3, <1>7, <2>1, NoRunIs, SaveStep
  <1> QED
    BY <1>6, <1>7 DEF BeginSave

LEMMA SavePhaseKeeps ==
    ASSUME IInv, SavePhase, UNCHANGED boundaryVars
    PROVE  IInv'
  <1>1. /\ UNCHANGED <<intent, port, checkpoints>>
        /\ UNCHANGED <<chainVars, closingVars, boundaryVars>>
    BY DEF SavePhase, chainVars, closingVars
  <1>2. /\ progress \in [Phases -> PhaseStates] /\ receipts \subseteq Phases /\ intent \in BOOLEAN
        /\ save \in Runs
    BY DEF IInv, Types, Runs
  <1>3. PhaseOrder[save.next] \in Phases /\ save.next \in 1 .. 5 /\ intent
    BY OrderIs DEF SavePhase, Phases, IInv, SaveInv
  <1>4. PICK p \in Phases : p = PhaseOrder[save.next]
    BY <1>3
  <1>5. /\ receipts \subseteq receipts' /\ receipts' \subseteq Phases
        /\ receipts' = receipts \cup {p} => HasReceipt(p)'
    BY <1>2, <1>3, <1>4 DEF SavePhase, HasReceipt
  <1>6. \A q : HasReceipt(q) => HasReceipt(q)'
    BY <1>1, <1>5, SameReceipts
  <1>7. /\ {"committed", "unknown", "failed"} \subseteq PhaseStates
        /\ \A s \in PhaseStates : /\ Marked(p, s) \in [Phases -> PhaseStates]
                                  /\ Marked(p, s)[p] = s
                                  /\ \A q \in Phases \ {p} : Marked(p, s)[q] = save.progress[q]
    BY <1>2, <1>3 DEF Marked, Runs, PhaseStates
  <1>8. \A q \in Phases : /\ progress[q] = "committed" => HasReceipt(q)'
                          /\ save.progress[q] = "committed" => HasReceipt(q)'
    BY <1>6 DEF IInv, SaveInv
  <1>9. \/ /\ HasReceipt(p)' /\ NextPhase(p)
           /\ progress' \in {progress, Marked(p, "committed")}
        \/ /\ HasReceipt(p)' /\ save' = NoRun
           /\ progress' \in {progress, Marked(p, "committed")}
        \/ /\ save' = NoRun
           /\ progress' \in {progress, Marked(p, "unknown"), Marked(p, "failed")}
    BY <1>4, <1>5, <1>6 DEF SavePhase, FailPhase
  <1>10. progress' \in [Phases -> PhaseStates]
    BY <1>2, <1>7, <1>9
  <1>11. \A q \in Phases : progress'[q] = "committed" => HasReceipt(q)'
    <2> SUFFICES ASSUME NEW q \in Phases, progress'[q] = "committed"
                 PROVE  HasReceipt(q)'
      OBVIOUS
    <2>1. CASE progress' = progress
      BY <1>8, <2>1
    <2>2. CASE q = p /\ progress' # progress
      BY <1>7, <1>9, <2>2
    <2>3. CASE q # p /\ progress' # progress
      <3>1. progress'[q] = save.progress[q]
        BY <1>7, <1>9, <2>3
      <3> QED
        BY <1>8, <3>1
    <2> QED
      BY <2>1, <2>2, <2>3
  <1>12. CASE HasReceipt(p)' /\ NextPhase(p)
    <2> DEFINE m == Marked(p, "committed")
    <2>1. m \in [Phases -> PhaseStates]
      BY <1>7
    <2>2. save' = [save EXCEPT !.next = @ + 1, !.progress = m]
      BY <1>12 DEF NextPhase
    <2> HIDE DEF m
    <2>3. save' = [next |-> save.next + 1, progress |-> m, complete |-> save.complete]
      BY <1>2, <2>2 DEF Runs
    <2>4. save' \in Runs /\ save'.progress = m /\ save'.complete = save.complete
      BY <1>2, <1>3, <2>1, <2>3 DEF Runs
    <2>5. \A q \in Phases : m[q] = "committed" => HasReceipt(q)'
      BY <1>7, <1>8, <1>12 DEF m
    <2>6. save'.complete => \A q \in Phases : HasReceipt(q)'
      BY <1>6, <2>4 DEF IInv, SaveInv
    <2>7. SaveInv'
      BY <1>1, <1>3, <1>11, <2>4, <2>5, <2>6 DEF SaveInv
    <2> QED
      BY <1>1, <1>2, <1>3, <1>5, <1>10, <2>4, <2>7, SaveStep
  <1>13. CASE save' = NoRun
    <2>1. SaveInv'
      BY <1>11, <1>13, NoRunIs DEF SaveInv
    <2> QED
      BY <1>1, <1>2, <1>3, <1>5, <1>10, <1>13, <2>1, NoRunIs, SaveStep
  <1> QED
    BY <1>9, <1>12, <1>13

LEMMA CompleteSaveKeeps ==
    ASSUME IInv, CompleteSave, UNCHANGED boundaryVars
    PROVE  IInv'
  <1>1. /\ UNCHANGED <<intent, receipts, progress, port, checkpoints>>
        /\ UNCHANGED <<chainVars, closingVars, boundaryVars>>
    BY DEF CompleteSave, chainVars, closingVars
  <1>2. /\ progress \in [Phases -> PhaseStates] /\ receipts \subseteq Phases /\ intent \in BOOLEAN
        /\ save.next \in Nat
    BY DEF IInv, Types
  <1>3. intent
    BY <1>2, OrderIs DEF CompleteSave, IInv, SaveInv
  <1>4. \A p : HasReceipt(p) => HasReceipt(p)'
    BY <1>1, SameReceipts
  <1>5. \A p \in Phases : progress'[p] = "committed" => HasReceipt(p)'
    BY <1>1, <1>4 DEF IInv, SaveInv
  <1>6. /\ save' \in Runs
        /\ \A p \in Phases : save'.progress[p] # "committed"
        /\ save'.next = 0
        /\ save'.complete => \A p \in Phases : HasReceipt(p)
    BY NoRunIs DEF CompleteSave, Runs
  <1>7. SaveInv'
    BY <1>1, <1>3, <1>4, <1>5, <1>6 DEF SaveInv
  <1> QED
    BY <1>1, <1>2, <1>6, <1>7, SaveStep

-------------------------------------------------------------------------------
(* The decision. *)

LEMMA PlanTurnKeeps ==
    ASSUME IInv, PlanTurn
    PROVE  IInv'
  <1>1. UNCHANGED <<port, facts, loop, step, checkpoints, child, intent, receipts, progress, save,
                    outcome>>
    BY DEF PlanTurn, chainVars, closingVars, saveVars
  <1>2. Types'
    BY <1>1 DEF PlanTurn, IInv, Types
  <1>3. RecordsInv' /\ LoopInv'
    BY <1>1, RecordsStay, LoopStays
  <1>4. \A r \in port : r.kind # "alignment"
    BY DecisionsAssumption DEF PlanTurn, IInv, AlignedInv, Undecided
  <1>5. AlignedInv'
    BY <1>1, <1>4 DEF IInv, AlignedInv
  <1>6. SaveInv' /\ OutcomeInv' /\ ChildInv'
    BY <1>1, RecordsStay DEF IInv, SaveInv, OutcomeInv, ChildInv, Drained
  <1> QED
    BY <1>2, <1>3, <1>5, <1>6 DEF IInv

\* What is known of a turn that awaits its decision.
LEMMA AwaitingIs ==
    ASSUME IInv, loop.phase = "awaiting"
    PROVE  /\ step = "idle" /\ loop.pending # NoCheckpoint /\ Frozen(loop.pending)
           /\ Has("turn-closure") /\ Has("candidate") /\ Has("recovery")
           /\ \A r \in port : r.of = loop.pending
           /\ Drained
  <1>1. step = "idle" /\ Has("turn-closure") /\ \A r \in port : r.of = loop.pending
    BY DEF IInv, LoopInv, Live
  <1>2. Frozen(loop.pending) /\ Has("candidate") /\ Has("recovery") /\ port # {}
    BY <1>1 DEF Has, IInv, RecordsInv, Ordered
  <1>3. Drained
    BY <1>2 DEF IInv, ChildInv
  <1> QED
    BY <1>1, <1>2, <1>3, NoCheckpointAssumption DEF Frozen

LEMMA AlignTurnKeeps ==
    ASSUME IInv, AlignTurn
    PROVE  IInv'
  <1> DEFINE a == Alignment(duty)
             b == AlignmentRecovery
             k == loop.pending
  <1>1. /\ UNCHANGED <<facts, step, checkpoints, child, intent, receipts, progress, save,
                       duty, outcome>>
        /\ loop.phase = "awaiting" /\ save.complete /\ duty \in Decisions
    BY DEF AlignTurn, chainVars, saveVars, boundaryVars
  <1>2. /\ step = "idle" /\ k # NoCheckpoint /\ Frozen(k) /\ Has("turn-closure")
        /\ \A r \in port : r.of = k
        /\ Drained
    BY <1>1, AwaitingIs
  <1>3. /\ a \in Record /\ a.kind = "alignment" /\ a.of = k /\ a.decision = duty
        /\ a.facts = Unprepared
        /\ b \in Record /\ b.kind = "alignment-recovery" /\ b.of = k
        /\ b.decision = Undecided /\ b.facts = Unprepared
    BY <1>1, <1>2 DEF Alignment, AlignmentRecovery, Fact, Record, Kinds, Frozen, Unprepared
  <1>4. /\ port' \in {port, port \cup {a}, port \cup {b}, port \cup {a, b}}
        /\ a \in port' /\ a \notin port => Under(a) \subseteq {a}
        /\ \/ loop' = loop
           \/ loop' = Aligned(duty) /\ a \in port'
    <2>1. a # b
      BY <1>3
    <2>2. CASE Stores(a) /\ loop' = Aligned(duty)
      BY <2>2 DEF Stores
    <2>3. CASE port' \in {port, port \cup {b}} /\ loop' = loop
      BY <2>1, <2>3
    <2>4. CASE /\ Under(a) = {} /\ port' \in {port \cup {a}, port \cup {a, b}}
               /\ loop' = loop
      BY <2>4
    <2> QED
      BY <2>2, <2>3, <2>4 DEF AlignTurn
  <1>5. port \in SUBSET Record /\ port \subseteq port' /\ port' \in SUBSET Record
        /\ \A r \in port' \ port : r = a \/ r = b
    BY <1>3, <1>4 DEF IInv, Types
  <1>6. \A r \in port : r.kind = "alignment-recovery" => r = b
    BY <1>2, <1>3, <1>5 DEF IInv, AlignedInv, Record
  <1>7. a \in port' /\ a \notin port => \A r \in port : r.kind = "alignment" => r = a
    BY <1>2, <1>3, <1>4 DEF Under, SameId
  <1>8. RecordsInv'
    <2>1. (\A r, s \in port : r.of = s.of /\ (r.kind = s.kind => r = s))'
      <3> SUFFICES ASSUME NEW r \in port', NEW s \in port'
                   PROVE  r.of = s.of /\ (r.kind = s.kind => r = s)
        OBVIOUS
      <3>1. r.of = k /\ s.of = k
        BY <1>2, <1>3, <1>5
      <3>2. CASE r \in port /\ s \in port
        BY <3>2 DEF IInv, RecordsInv
      <3>3. CASE r \notin port
        BY <1>3, <1>5, <1>6, <1>7, <3>1, <3>3
      <3>4. CASE s \notin port
        BY <1>3, <1>5, <1>6, <1>7, <3>1, <3>4
      <3> QED
        BY <3>2, <3>3, <3>4
    <2>2. \A kind : kind \notin {"alignment", "alignment-recovery"} => (Has(kind)' <=> Has(kind))
      BY <1>3, <1>5 DEF Has
    <2>3. Ordered'
      BY <1>2, <2>2 DEF IInv, RecordsInv, Ordered
    <2>4. (\A r \in port : Frozen(r.of))'
      BY <1>2, <1>3, <1>5 DEF Frozen
    <2>5. (\A r, s \in port : r.kind = "closure" /\ s.kind = "preparation" => r.facts = s.facts)'
      BY <1>3, <1>5 DEF IInv, RecordsInv
    <2>6. (\A r \in port : r.kind = "closure" => InChain(r.of))'
      BY <1>1, <1>3, <1>5 DEF IInv, RecordsInv, InChain
    <2>7. (\A i \in TurnCheckpoints :
              \E s \in port : s.kind = "preparation" /\ s.of = checkpoints[i])'
      BY <1>1, <1>5 DEF IInv, RecordsInv, TurnCheckpoints
    <2> QED
      BY <2>1, <2>3, <2>4, <2>5, <2>6, <2>7 DEF RecordsInv
  <1>9. \A p : HasReceipt(p) => HasReceipt(p)'
    BY <1>1, <1>5, SameReceipts
  <1>10. AlignedInv'
    BY <1>1, <1>3, <1>5, <1>9 DEF IInv, AlignedInv, SaveInv
  <1>11. SaveInv' /\ OutcomeInv'
    BY <1>1, <1>5, <1>9 DEF IInv, SaveInv, OutcomeInv
  <1>12. /\ loop' \in [phase : Phase, pending : Checkpoint \cup {NoCheckpoint},
                       prepared : Nat, decision : Decisions \cup {Undecided}]
         /\ loop'.pending = k /\ loop'.prepared = loop.prepared
         /\ \/ loop'.phase = "awaiting"
            \/ loop'.phase = "aligned" /\ loop'.decision = duty /\ a \in port'
    BY <1>1, <1>4 DEF IInv, Types, Aligned, Phase
  <1>13. Types'
    BY <1>1, <1>5, <1>12 DEF IInv, Types
  <1>14. ChildInv'
    BY <1>1, <1>2 DEF IInv, ChildInv, Drained
  <1>15. Has("turn-closure")'
    BY <1>2, <1>5 DEF Has
  <1>16. /\ Preparation(loop.prepared)' = Preparation(loop.prepared)
         /\ loop'.phase = "aligned" => Alignment(loop.decision)' = a
    BY <1>12 DEF Preparation, Alignment, Fact
  <1>17. LoopInv'
    BY <1>1, <1>2, <1>3, <1>5, <1>12, <1>15, <1>16 DEF IInv, LoopInv, Live, Frozen, Steps
  <1> QED
    BY <1>8, <1>10, <1>11, <1>13, <1>14, <1>17 DEF IInv

LEMMA ReadAlignmentKeeps ==
    ASSUME IInv, ReadAlignment
    PROVE  IInv'
  <1>1. /\ UNCHANGED <<port, facts, step, checkpoints, child, intent, receipts, progress, save,
                       duty, outcome>>
        /\ loop.phase = "awaiting"
    BY DEF ReadAlignment, chainVars, saveVars, boundaryVars
  <1>2. /\ step = "idle" /\ loop.pending # NoCheckpoint /\ Frozen(loop.pending)
        /\ Has("turn-closure") /\ \A r \in port : r.of = loop.pending
        /\ Drained
    BY <1>1, AwaitingIs
  <1>3. PICK r \in port : /\ r.kind = "alignment"
                          /\ loop' = [Aligned(r.decision) EXCEPT !.prepared = Unprepared]
    BY DEF ReadAlignment, Under, SameId, Alignment, Fact
  <1>4. /\ r \in Record /\ r.of = loop.pending /\ r.facts = Unprepared /\ r.decision \in Decisions
    BY <1>2, <1>3 DEF IInv, Types, AlignedInv
  <1>5. /\ loop' \in [phase : Phase, pending : Checkpoint \cup {NoCheckpoint},
                      prepared : Nat, decision : Decisions \cup {Undecided}]
        /\ loop'.pending = loop.pending /\ loop'.prepared = Unprepared
        /\ loop'.phase = "aligned" /\ loop'.decision = r.decision
    BY <1>3, <1>4 DEF IInv, Types, Aligned, Phase, Unprepared
  <1>6. Alignment(loop.decision)' = r
    BY <1>3, <1>4, <1>5 DEF Alignment, Fact, Record
  <1>7. Types'
    BY <1>1, <1>5 DEF IInv, Types
  <1>8. LoopInv'
    BY <1>1, <1>2, <1>3, <1>5, <1>6 DEF LoopInv, Live, Has, Frozen, Steps
  <1>9. RecordsInv'
    BY <1>1, RecordsStay
  <1>10. AlignedInv' /\ SaveInv' /\ OutcomeInv' /\ ChildInv'
    BY <1>1, <1>2, RecordsStay DEF IInv, AlignedInv, SaveInv, OutcomeInv, ChildInv, Drained
  <1> QED
    BY <1>7, <1>8, <1>9, <1>10 DEF IInv

LEMMA AdvanceTurnKeeps ==
    ASSUME IInv, AdvanceTurn
    PROVE  IInv'
  <1>1. UNCHANGED <<port, facts, loop, step, checkpoints, child, intent, receipts, progress, save,
                    duty>>
    BY DEF AdvanceTurn, chainVars, closingVars, saveVars
  <1>2. outcome' = loop.decision /\ Alignment(loop.decision) \in port
    BY DEF AdvanceTurn
  <1>3. Types'
    BY <1>1, <1>2 DEF IInv, Types
  <1>4. OutcomeInv'
    BY <1>1, <1>2 DEF OutcomeInv, Alignment, Fact
  <1>5. RecordsInv' /\ LoopInv'
    BY <1>1, RecordsStay, LoopStays
  <1>6. AlignedInv' /\ SaveInv' /\ ChildInv'
    BY <1>1, RecordsStay DEF IInv, AlignedInv, SaveInv, ChildInv, Drained
  <1> QED
    BY <1>3, <1>4, <1>5, <1>6 DEF IInv

-------------------------------------------------------------------------------
(* The crash and the process that follows. *)

LEMMA CrashKeeps ==
    ASSUME IInv, Crash
    PROVE  IInv'
  <1>1. UNCHANGED <<checkpoints, port, facts, intent, receipts, progress, duty, outcome>>
    BY DEF Crash
  <1>2. /\ loop' = [phase |-> "down", pending |-> NoCheckpoint, prepared |-> Unprepared,
                    decision |-> Undecided]
        /\ step' = "idle" /\ save' = NoRun
        /\ child' = [c \in Children |-> [at |-> "idle", next |-> NoCheckpoint]]
    BY DEF Crash
  <1>3. Types'
    BY <1>1, <1>2, NoRunIs DEF IInv, Types, Phase, Steps, Runs, Unprepared
  <1>4. LoopInv'
    BY <1>2 DEF LoopInv, Live, Steps, Unprepared
  <1>5. ChildInv'
    BY <1>2 DEF ChildInv, Drained
  <1>6. RecordsInv'
    BY <1>1, RecordsStay
  <1>7. AlignedInv' /\ OutcomeInv'
    BY <1>1, RecordsStay DEF IInv, AlignedInv, OutcomeInv
  <1>8. SaveInv'
    BY <1>1, <1>2, RecordsStay, NoRunIs DEF IInv, SaveInv
  <1> QED
    BY <1>3, <1>4, <1>5, <1>6, <1>7, <1>8 DEF IInv

LEMMA NoCandidateNoRecord ==
    ASSUME IInv, ~Has("candidate")
    PROVE  port = {}
  <1>1. \A r \in port : r.kind \in Kinds
    BY DEF IInv, Types, Record
  <1> QED
    BY <1>1 DEF Kinds, Has, IInv, RecordsInv, Ordered

LEMMA StageIs ==
    ASSUME IInv, NEW r \in port, r.kind = "candidate"
    PROVE  /\ StageOf(r) \in [phase : {"open", "held", "awaiting", "aligned"},
                              pending : {r.of}, prepared : {Unprepared},
                              decision : Decisions \cup {Undecided}]
           /\ StageOf(r).phase \in {"awaiting", "aligned"} => Has("turn-closure")
           /\ StageOf(r).phase = "aligned" =>
                  Fact("alignment", r.of, Unprepared, StageOf(r).decision) \in port
  <1> DEFINE Read(kind) == {s \in port : s.kind = kind /\ IdOf(s.of) = IdOf(r.of)}
             At(phase, d) == [phase |-> phase, pending |-> r.of, prepared |-> Unprepared,
                              decision |-> d]
             s == CHOOSE t \in Read("alignment") : TRUE
  <1>1. \/ StageOf(r) \in {At("open", Undecided), At("held", Undecided)}
        \/ Read("turn-closure") # {} /\ StageOf(r) = At("awaiting", Undecided)
        \/ /\ Read("turn-closure") # {} /\ Read("alignment") # {}
           /\ StageOf(r) = At("aligned", s.decision)
    BY DEF StageOf
  <1>2. Read("turn-closure") # {} => Has("turn-closure")
    BY DEF Has
  <1>3. CASE StageOf(r) \in {At("open", Undecided), At("held", Undecided)}
    BY <1>3
  <1>4. CASE Read("turn-closure") # {} /\ StageOf(r) = At("awaiting", Undecided)
    BY <1>2, <1>4
  <1>5. CASE /\ Read("turn-closure") # {} /\ Read("alignment") # {}
             /\ StageOf(r) = At("aligned", s.decision)
    <2>1. s \in port /\ s.kind = "alignment"
      BY <1>5
    <2> HIDE DEF s
    <2>2. /\ s \in Record /\ s.of = r.of /\ s.facts = Unprepared /\ s.decision \in Decisions
      BY <2>1 DEF IInv, Types, AlignedInv, RecordsInv
    <2>3. Fact("alignment", r.of, Unprepared, s.decision) = s
      BY <2>1, <2>2 DEF Fact, Record
    <2> QED
      BY <1>2, <1>5, <2>1, <2>2, <2>3
  <1> QED
    BY <1>1, <1>3, <1>4, <1>5

LEMMA ColdStartKeeps ==
    ASSUME IInv, ColdStart
    PROVE  IInv'
  <1>1. /\ UNCHANGED <<port, facts, step, checkpoints, child, intent, receipts, progress, save,
                       duty, outcome>>
        /\ loop.phase = "down" /\ loop.pending = NoCheckpoint /\ step = "idle"
        /\ loop.prepared = Unprepared
    <2>1. /\ UNCHANGED <<port, facts, step, checkpoints, child, intent, receipts, progress, save,
                         duty, outcome>>
          /\ loop.phase = "down" /\ loop.pending = NoCheckpoint /\ step = "idle"
      BY DEF ColdStart, chainVars, saveVars, boundaryVars, IInv, LoopInv
    <2>2. loop.prepared # Unprepared => FALSE
      <3>1. ASSUME loop.prepared # Unprepared PROVE FALSE
        <4>1. Preparation(loop.prepared) \in port
          BY <3>1 DEF IInv, LoopInv
        <4>2. Preparation(loop.prepared).of = NoCheckpoint
          BY <2>1 DEF Preparation, Fact
        <4> QED
          BY <4>1, <4>2, NoCheckpointAssumption DEF IInv, Types, Record
      <3> QED
        BY <3>1
    <2> QED
      BY <2>1, <2>2
  <1>2. Types => loop \in [phase : Phase, pending : Checkpoint \cup {NoCheckpoint},
                           prepared : Nat, decision : Decisions \cup {Undecided}]
    BY DEF Types
  <1>3. RecordsInv'
    BY <1>1, RecordsStay
  <1>4. AlignedInv' /\ SaveInv' /\ OutcomeInv'
    BY <1>1, RecordsStay DEF IInv, AlignedInv, SaveInv, OutcomeInv
  <1>5. CASE port = {} /\ loop' = [loop EXCEPT !.phase = "open"]
    <2>1. /\ loop' \in [phase : Phase, pending : Checkpoint \cup {NoCheckpoint},
                        prepared : Nat, decision : Decisions \cup {Undecided}]
          /\ loop'.phase = "open" /\ loop'.pending = NoCheckpoint /\ loop'.prepared = Unprepared
      BY <1>1, <1>2, <1>5 DEF IInv, Phase
    <2>2. Types' /\ LoopInv'
      BY <1>1, <1>5, <2>1 DEF IInv, Types, LoopInv, Live, Steps
    <2>3. ChildInv'
      BY <1>1, <1>5, <2>1 DEF IInv, ChildInv
    <2> QED
      BY <1>3, <1>4, <2>2, <2>3 DEF IInv
  <1>6. CASE loop' = [loop EXCEPT !.phase = "held"]
    <2>1. /\ loop' \in [phase : Phase, pending : Checkpoint \cup {NoCheckpoint},
                        prepared : Nat, decision : Decisions \cup {Undecided}]
          /\ loop'.phase = "held" /\ loop'.pending = NoCheckpoint /\ loop'.prepared = Unprepared
      BY <1>1, <1>2, <1>6 DEF IInv, Phase
    <2>2. Types' /\ LoopInv'
      BY <1>1, <2>1 DEF IInv, Types, LoopInv, Live, Steps
    <2>3. ChildInv'
      BY <1>1, <2>1 DEF IInv, ChildInv, Drained
    <2> QED
      BY <1>3, <1>4, <2>2, <2>3 DEF IInv
  <1>7. ASSUME NEW r \in port, r.kind = "candidate", loop' = StageOf(r)
        PROVE  IInv'
    <2>1. /\ loop' \in [phase : {"open", "held", "awaiting", "aligned"},
                        pending : {r.of}, prepared : {Unprepared},
                        decision : Decisions \cup {Undecided}]
          /\ loop'.phase \in {"awaiting", "aligned"} => Has("turn-closure")
          /\ loop'.phase = "aligned" =>
                 Fact("alignment", r.of, Unprepared, loop'.decision) \in port
      BY <1>7, StageIs
    <2>2. r.of \in Checkpoint /\ Frozen(r.of) /\ \A t \in port : t.of = r.of
      BY DEF IInv, RecordsInv, Frozen
    <2>3. loop' \in [phase : Phase, pending : Checkpoint \cup {NoCheckpoint},
                     prepared : Nat, decision : Decisions \cup {Undecided}]
      BY <2>1, <2>2 DEF Phase, Unprepared
    <2>4. /\ loop'.pending = r.of /\ loop'.prepared = Unprepared
          /\ loop'.phase \in {"open", "held", "awaiting", "aligned"}
      BY <2>1
    <2>5. Types'
      BY <1>1, <2>3 DEF IInv, Types
    <2>6. LoopInv'
      BY <1>1, <2>1, <2>2, <2>4 DEF LoopInv, Live, Has, Frozen, Steps, Alignment
    <2>7. ChildInv'
      BY <1>1 DEF IInv, ChildInv, Drained
    <2> QED
      BY <1>3, <1>4, <2>5, <2>6, <2>7 DEF IInv
  <1>8. (~\E r \in port : r.kind = "candidate") => port = {}
    BY NoCandidateNoRecord DEF Has
  <1> QED
    BY <1>5, <1>6, <1>7, <1>8 DEF ColdStart

-------------------------------------------------------------------------------
(* The invariant holds. *)

LEMMA IInvInit == Init => IInv
  <1> SUFFICES ASSUME Init PROVE IInv
    OBVIOUS
  <1>1. /\ checkpoints = <<>>
        /\ child = [c \in Children |-> [at |-> "idle", next |-> NoCheckpoint]]
        /\ port = {} /\ facts = 1 /\ step = "idle"
        /\ loop = [phase |-> "open", pending |-> NoCheckpoint, prepared |-> Unprepared,
                   decision |-> Undecided]
        /\ intent = FALSE /\ receipts = {} /\ save = NoRun
        /\ progress = [p \in Phases |-> "not-executed"]
        /\ duty = Undecided /\ outcome = Undecided
    BY DEF Init, ChainInit, ClosingInit, SaveInit
  <1>2. Types
    <2>1. checkpoints \in Seq(Checkpoint) /\ facts \in Nat \ {0} /\ step \in Steps
      BY <1>1 DEF Steps
    <2>2. progress \in [Phases -> PhaseStates] /\ save \in Runs
      BY <1>1, NoRunIs DEF PhaseStates
    <2> QED
      BY <1>1, <2>1, <2>2 DEF Types, Phase, Runs, Unprepared
  <1>3. RecordsInv /\ AlignedInv
    BY <1>1 DEF RecordsInv, Ordered, Has, AlignedInv, TurnCheckpoints
  <1>4. LoopInv
    BY <1>1 DEF LoopInv, Live, Steps, Unprepared
  <1>5. ChildInv
    BY <1>1 DEF ChildInv
  <1>6. SaveInv /\ OutcomeInv
    BY <1>1, NoRunIs DEF SaveInv, OutcomeInv
  <1> QED
    BY <1>2, <1>3, <1>4, <1>5, <1>6 DEF IInv

LEMMA IInvStep == IInv /\ [Next]_vars => IInv'
  <1> SUFFICES ASSUME IInv, [Next]_vars PROVE IInv'
    OBVIOUS
  <1>1. ASSUME NEW c \in Children, ChildCommits(c) PROVE IInv'
    BY <1>1, ChildCommitsKeeps
  <1>2. CASE Closing /\ UNCHANGED <<saveVars, boundaryVars>>
    BY <1>2, CloseTurnKeeps, PersistCandidateKeeps, PersistRecoveryKeeps, PrepareKeeps,
       AppendCheckpointKeeps, PersistClosureKeeps, PersistTurnClosureKeeps, UpdateFactsKeeps
       DEF Closing
  <1>3. CASE Saving /\ UNCHANGED boundaryVars
    BY <1>3, BeginSaveKeeps, SavePhaseKeeps, CompleteSaveKeeps DEF Saving
  <1>4. CASE PlanTurn \/ AlignTurn \/ ReadAlignment \/ AdvanceTurn
    BY <1>4, PlanTurnKeeps, AlignTurnKeeps, ReadAlignmentKeeps, AdvanceTurnKeeps
  <1>5. CASE Crash \/ ColdStart
    BY <1>5, CrashKeeps, ColdStartKeeps
  <1>6. CASE UNCHANGED vars
    <2>1. /\ UNCHANGED <<chainVars, closingVars, boundaryVars>>
          /\ UNCHANGED <<intent, receipts, progress, save, port, checkpoints>>
      BY <1>6 DEF vars, saveVars, chainVars, closingVars
    <2>2. SaveInv'
      BY <2>1, RecordsStay DEF IInv, SaveInv
    <2> QED
      BY <2>1, <2>2, SaveStep DEF IInv, Types, Runs
  <1> QED
    BY <1>1, <1>2, <1>3, <1>4, <1>5, <1>6 DEF Next

LEMMA InvariantHolds == Spec => []IInv
  BY IInvInit, IInvStep, PTL DEF Spec

\* The records of the closing port follow their order (closeTurn, submission.ts,
\* alignTurn): each is durable only after those it relies on, of one checkpoint.
THEOREM RecordsOrdered == Spec => []RecordsFollowTheirOrder
  <1>1. IInv => RecordsFollowTheirOrder
    <2> SUFFICES ASSUME IInv PROVE RecordsFollowTheirOrder
      OBVIOUS
    <2>1. \A r, s \in port : r.of = s.of /\ (r.kind = s.kind => r = s)
      BY DEF IInv, RecordsInv
    <2>2. /\ Of("recovery") # {} => Of("candidate") # {}
          /\ Of("preparation") # {} => Of("recovery") # {}
          /\ Of("turn-closure") # {} => Of("closure") # {}
      BY DEF IInv, RecordsInv, Ordered, Has, Of
    <2>3. \A i \in TurnCheckpoints : \E r \in Of("preparation") : r.of = checkpoints[i]
      BY DEF IInv, RecordsInv, Of
    <2>4. ASSUME NEW r \in Of("closure")
          PROVE  /\ \E s \in Of("preparation") : s.facts = r.facts
                 /\ \E i \in TurnCheckpoints : checkpoints[i] = r.of
      <3>1. r \in port /\ r.kind = "closure"
        BY DEF Of
      <3>2. Has("preparation")
        BY <3>1 DEF IInv, RecordsInv, Ordered, Has
      <3>3. \E s \in Of("preparation") : s.facts = r.facts
        BY <3>1, <3>2 DEF IInv, RecordsInv, Of, Has
      <3>4. InChain(r.of) /\ r.of.owner = Turn
        BY <3>1 DEF IInv, RecordsInv, Frozen
      <3> QED
        BY <3>3, <3>4 DEF InChain, TurnCheckpoints
    <2>5. ASSUME NEW r \in Of("alignment")
          PROVE  /\ Of("turn-closure") # {}
                 /\ r.decision = duty
                 /\ intent /\ \A p \in Phases : HasReceipt(p)
      BY DEF IInv, RecordsInv, Ordered, AlignedInv, Has, Of
    <2> QED
      BY <2>1, <2>2, <2>3, <2>4, <2>5 DEF RecordsFollowTheirOrder
  <1> QED
    BY <1>1, InvariantHolds, PTL

\* What the live process acts on (turnState, pendingClose and pending.prepared of
\* AgentLoopRuntime) is what the journal holds, after any crash and any failure.
THEOREM LoopIsDurable == Spec => []LoopFollowsRecords
  <1>1. IInv => LoopFollowsRecords
    <2> SUFFICES ASSUME IInv PROVE LoopFollowsRecords
      OBVIOUS
    <2> DEFINE Mine(kind) == {r \in Of(kind) : r.of = loop.pending}
    <2>1. loop.phase \notin {"down", "held"} => Of("candidate") = Mine("candidate")
      BY DEF IInv, LoopInv, Live, Of
    <2>2. loop.prepared # Unprepared => \E r \in Mine("preparation") : r.facts = loop.prepared
      <3> SUFFICES ASSUME loop.prepared # Unprepared
                   PROVE  \E r \in Mine("preparation") : r.facts = loop.prepared
        OBVIOUS
      <3>1. Preparation(loop.prepared) \in port
        BY DEF IInv, LoopInv
      <3> QED
        BY <3>1 DEF Preparation, Fact, Of
    <2>3. loop.phase \in {"awaiting", "aligned"} => Mine("turn-closure") # {}
      BY DEF IInv, LoopInv, Live, Has, Of
    <2>4. loop.phase = "aligned" => \E r \in Mine("alignment") : r.decision = loop.decision
      <3> SUFFICES ASSUME loop.phase = "aligned"
                   PROVE  \E r \in Mine("alignment") : r.decision = loop.decision
        OBVIOUS
      <3>1. Alignment(loop.decision) \in port
        BY DEF IInv, LoopInv
      <3> QED
        BY <3>1 DEF Alignment, Fact, Of
    <2> QED
      BY <2>1, <2>2, <2>3, <2>4 DEF LoopFollowsRecords
  <1> QED
    BY <1>1, InvariantHolds, PTL

\* The progress native-save-progress.ts records never claims a phase whose owner
\* has no receipt, and a run is complete only when all have one.
THEOREM ProgressHolds == Spec => []ProgressIsTrue
  <1>1. IInv => ProgressIsTrue
    BY DEF IInv, SaveInv, ProgressIsTrue
  <1> QED
    BY <1>1, InvariantHolds, PTL

\* From the moment the candidate is durable the chain grows by its checkpoint
\* alone (drainCurrentTurn, frozenTurnCloseRef, the child adapter).
THEOREM CutIsFinal == Spec => ClosingIsFinal
  <1> DEFINE A == \A r \in Of("candidate") :
                      checkpoints' = checkpoints \/ checkpoints' = Append(checkpoints, r.of)
  <1>1. IInv /\ [Next]_vars => A
    <2> SUFFICES ASSUME IInv, [Next]_vars, NEW r \in port
                 PROVE  checkpoints' = checkpoints \/ checkpoints' = Append(checkpoints, r.of)
      BY DEF Of
    <2>1. ASSUME NEW c \in Children, ChildCommits(c) PROVE checkpoints' = checkpoints
      BY <2>1 DEF ChildCommits, Recall, Extend, IInv, ChildInv, Drained
    <2>2. CASE AppendCheckpoint
      <3>1. r.of = loop.pending
        BY <2>2 DEF AppendCheckpoint, IInv, LoopInv, Live, Steps
      <3> QED
        BY <2>2, <3>1 DEF AppendCheckpoint, CompleteCheckpoint
    <2>3. CASE /\ Closing
               /\ ~AppendCheckpoint
      BY <2>3 DEF Closing, CloseTurn, PersistCandidate, PersistRecovery, Prepare, PersistClosure,
         PersistTurnClosure, UpdateFacts, chainVars
    <2>4. CASE Saving
      BY <2>4 DEF Saving, BeginSave, SavePhase, CompleteSave, chainVars
    <2>5. CASE PlanTurn \/ AlignTurn \/ ReadAlignment \/ AdvanceTurn \/ Crash \/ ColdStart
      BY <2>5 DEF PlanTurn, AlignTurn, ReadAlignment, AdvanceTurn, Crash, ColdStart, chainVars
    <2>6. CASE UNCHANGED vars
      BY <2>6 DEF vars, chainVars
    <2> QED
      BY <2>1, <2>2, <2>3, <2>4, <2>5, <2>6 DEF Next
  <1> QED
    BY <1>1, InvariantHolds, PTL DEF Spec, ClosingIsFinal

-------------------------------------------------------------------------------
(* The closing implements the contract. *)

InputsIn(kind) == InputsOf(Of(kind))
DecisionIn == IF Of("alignment") = {} THEN Undecided
              ELSE (CHOOSE r \in Of("alignment") : TRUE).decision

\* Whatever record of a kind is chosen, it says the same.
Mapped ==
    \A kind \in Kinds :
        /\ ~Has(kind) => InputsIn(kind) = NoInputs
        /\ ~Has("alignment") => DecisionIn = Undecided
        /\ \A r \in port : r.kind = kind =>
               /\ InputsIn(kind) = r.of.inputs
               /\ r.of.inputs \in Inputs /\ r.of.inputs # NoInputs
        /\ \A r \in port : r.kind = "alignment" =>
               /\ DecisionIn = r.decision
               /\ r.decision \in Decisions /\ r.decision # Undecided

LEMMA MappedHolds == IInv => Mapped
  <1> SUFFICES ASSUME IInv, NEW kind \in Kinds
               PROVE  /\ ~Has(kind) => InputsIn(kind) = NoInputs
                      /\ ~Has("alignment") => DecisionIn = Undecided
                      /\ \A r \in port : r.kind = kind =>
                             /\ InputsIn(kind) = r.of.inputs
                             /\ r.of.inputs \in Inputs /\ r.of.inputs # NoInputs
                      /\ \A r \in port : r.kind = "alignment" =>
                             /\ DecisionIn = r.decision
                             /\ r.decision \in Decisions /\ r.decision # Undecided
    BY DEF Mapped
  <1>1. ~Has(kind) => InputsIn(kind) = NoInputs
    BY DEF Has, Of, InputsIn, InputsOf
  <1>2. ~Has("alignment") => DecisionIn = Undecided
    BY DEF Has, Of, DecisionIn
  <1>3. ASSUME NEW r \in port, r.kind = kind
        PROVE  /\ InputsIn(kind) = r.of.inputs
               /\ r.of.inputs \in Inputs /\ r.of.inputs # NoInputs
    <2>1. Of(kind) # {} /\ \A s \in Of(kind) : s.of = r.of
      BY <1>3 DEF Of, IInv, RecordsInv
    <2>2. InputsIn(kind) = r.of.inputs
      BY <2>1 DEF InputsIn, InputsOf
    <2> QED
      BY <2>2, InputsAssumption DEF IInv, RecordsInv, Frozen
  <1>4. ASSUME NEW r \in port, r.kind = "alignment"
        PROVE  /\ DecisionIn = r.decision
               /\ r.decision \in Decisions /\ r.decision # Undecided
    <2>1. Of("alignment") # {} /\ \A s \in Of("alignment") : s.decision = r.decision
      BY <1>4 DEF Of, IInv, RecordsInv
    <2>2. DecisionIn = r.decision
      BY <2>1 DEF DecisionIn
    <2> QED
      BY <1>4, <2>2, DecisionsAssumption DEF IInv, AlignedInv, Undecided
  <1> QED
    BY <1>1, <1>2, <1>3, <1>4

\* What has a value keeps it.
LEMMA MappedStays ==
    ASSUME IInv, IInv', port \subseteq port'
    PROVE  /\ \A kind \in Kinds :
                  /\ Has(kind) \/ ~Has(kind)' => InputsIn(kind)' = InputsIn(kind)
                  /\ Has(kind)' => InputsIn(kind)' \in Inputs
                  /\ Has(kind)' /\ Has("candidate") => InputsIn(kind)' = InputsIn("candidate")
           /\ Has("alignment") \/ ~Has("alignment")' => DecisionIn' = DecisionIn
           /\ Has("alignment")' => DecisionIn' \in Decisions
  <1>1. Mapped /\ Mapped'
    BY MappedHolds, PTL
  <1>2. \A kind : Has(kind) => Has(kind)'
    BY DEF Has
  <1>3. "candidate" \in Kinds
    BY DEF Kinds
  <1>4. ASSUME NEW kind \in Kinds
        PROVE  /\ Has(kind) \/ ~Has(kind)' => InputsIn(kind)' = InputsIn(kind)
               /\ Has(kind)' => InputsIn(kind)' \in Inputs
               /\ Has(kind)' /\ Has("candidate") => InputsIn(kind)' = InputsIn("candidate")
    <2>1. /\ Has(kind) \/ ~Has(kind)' => InputsIn(kind)' = InputsIn(kind)
          /\ Has(kind)' => InputsIn(kind)' \in Inputs
      BY <1>1, <1>2 DEF Mapped, Has
    <2>2. ASSUME Has(kind)', Has("candidate") PROVE InputsIn(kind)' = InputsIn("candidate")
      <3>1. PICK s \in port' : s.kind = kind
        BY <2>2 DEF Has
      <3>2. PICK r \in port : r.kind = "candidate"
        BY <2>2 DEF Has
      <3>3. s.of = r.of
        BY DEF IInv, RecordsInv
      <3> QED
        BY <1>1, <1>3, <3>1, <3>2, <3>3 DEF Mapped
    <2> QED
      BY <2>1, <2>2
  <1>5. /\ Has("alignment") \/ ~Has("alignment")' => DecisionIn' = DecisionIn
        /\ Has("alignment")' => DecisionIn' \in Decisions
    BY <1>1, <1>2, <1>3 DEF Mapped, Has
  <1> QED
    BY <1>4, <1>5

\* A step that adds records takes the contract at most one step.
Same == UNCHANGED <<InputsIn("candidate"), InputsIn("turn-closure"), DecisionIn, outcome>>
Simulates == Contract!Next \/ Same

LEMMA ContractKinds ==
    ASSUME IInv, IInv', port \subseteq port', UNCHANGED outcome, NEW kind \in Kinds,
           \A r \in port' \ port : r.kind = kind \/ r.kind \in Kinds \ {"candidate", "turn-closure", "alignment"},
           kind = "turn-closure" => Has("candidate"),
           kind = "alignment" => Has("turn-closure")
    PROVE  Simulates
  <1> DEFINE fro == InputsIn("candidate")
             clo == InputsIn("turn-closure")
  <1>1. \A k : k \in {"candidate", "turn-closure", "alignment"} /\ k # kind =>
            (Has(k)' <=> Has(k))
    BY DEF Has
  <1>2. {"candidate", "turn-closure", "alignment"} \subseteq Kinds
    BY DEF Kinds
  <1>3. kind \notin {"candidate", "turn-closure", "alignment"} \/ Has(kind) \/ ~Has(kind)' => Same
    BY <1>1, <1>2, MappedStays DEF Same
  <1>4. Mapped
    BY MappedHolds
  <1>5. CASE kind = "candidate" /\ ~Has(kind) /\ Has(kind)'
    <2>1. fro = NoInputs /\ fro' \in Inputs /\ clo' = clo /\ DecisionIn' = DecisionIn
      BY <1>1, <1>2, <1>4, <1>5, MappedStays DEF Mapped
    <2> QED
      BY <2>1 DEF Simulates, Contract!Next, Contract!Freeze, InputsIn, DecisionIn
  <1>6. CASE kind = "turn-closure" /\ ~Has(kind) /\ Has(kind)'
    <2>1. /\ fro # NoInputs /\ clo = NoInputs /\ clo' = fro /\ fro' = fro
          /\ DecisionIn' = DecisionIn
      BY <1>1, <1>2, <1>4, <1>6, MappedStays DEF Mapped, Has
    <2> QED
      BY <2>1 DEF Simulates, Contract!Next, Contract!Close, InputsIn, DecisionIn
  <1>7. CASE kind = "alignment" /\ ~Has(kind) /\ Has(kind)'
    <2>1. /\ clo # NoInputs /\ clo' = clo /\ fro' = fro
          /\ DecisionIn = Undecided /\ DecisionIn' \in Decisions
      BY <1>1, <1>2, <1>4, <1>7, MappedStays DEF Mapped, Has
    <2> QED
      BY <2>1 DEF Simulates, Contract!Next, Contract!Decide, InputsIn, DecisionIn,
         Contract!Undecided, Undecided
  <1> QED
    BY <1>3, <1>5, <1>6, <1>7 DEF Simulates

LEMMA PortSame ==
    ASSUME UNCHANGED <<port, outcome>>
    PROVE  Simulates
  BY DEF Simulates, Same, InputsIn, InputsOf, DecisionIn, Of

LEMMA StepSimulates ==
    ASSUME IInv, IInv', [Next]_vars
    PROVE  Simulates
  <1>1. CASE /\ \/ \E v \in Inputs : CloseTurn(v)
                \/ AppendCheckpoint
                \/ UpdateFacts
             /\ UNCHANGED boundaryVars
    BY <1>1, PortSame DEF CloseTurn, AppendCheckpoint, UpdateFacts, boundaryVars
  <1>2. ASSUME NEW r \in Record, Stores(r) \/ Fails(r), UNCHANGED boundaryVars,
               r.kind = "turn-closure" => Has("candidate"), r.kind # "alignment"
        PROVE  Simulates
    <2>1. port \subseteq port' /\ port' \subseteq port \cup {r} /\ outcome' = outcome
          /\ r.kind \in Kinds
      BY <1>2 DEF Stores, Fails, boundaryVars, Record
    <2> QED
      BY <1>2, <2>1, ContractKinds
  <1>3. ASSUME loop.pending \in Checkpoint
        PROVE  /\ {Candidate, Recovery, Preparation(facts), Closure, TurnClosure} \subseteq Record
               /\ Candidate.kind = "candidate" /\ Recovery.kind = "recovery"
               /\ Preparation(facts).kind = "preparation" /\ Closure.kind = "closure"
               /\ TurnClosure.kind = "turn-closure"
    BY <1>3 DEF Candidate, Recovery, Preparation, Closure, TurnClosure, Fact, Record, Kinds,
       Unprepared, IInv, Types
  <1>4. CASE /\ \/ PersistCandidate
                \/ PersistRecovery
                \/ Prepare
                \/ PersistClosure
                \/ PersistTurnClosure
             /\ UNCHANGED boundaryVars
    <2>1. step # "idle" /\ step \in Steps
      BY <1>4 DEF PersistCandidate, PersistRecovery, Prepare, PersistClosure, PersistTurnClosure,
         Steps
    <2>2. loop.pending \in Checkpoint
      BY <2>1 DEF IInv, LoopInv, Frozen
    <2>3. PersistTurnClosure => Has("candidate")
      BY DEF PersistTurnClosure, IInv, LoopInv, Steps
    <2>4. CASE PersistCandidate
      BY <1>2, <1>3, <1>4, <2>2, <2>4 DEF PersistCandidate
    <2>5. CASE PersistRecovery
      BY <1>2, <1>3, <1>4, <2>2, <2>5 DEF PersistRecovery
    <2>6. CASE Prepare
      <3>1. CASE UNCHANGED port
        BY <1>4, <3>1, PortSame DEF boundaryVars
      <3>2. CASE Stores(Preparation(facts)) \/ Fails(Preparation(facts))
        BY <1>2, <1>3, <1>4, <2>2, <3>2
      <3> QED
        BY <2>6, <3>1, <3>2 DEF Prepare
    <2>7. CASE PersistClosure
      BY <1>2, <1>3, <1>4, <2>2, <2>7 DEF PersistClosure
    <2>8. CASE PersistTurnClosure
      BY <1>2, <1>3, <1>4, <2>2, <2>3, <2>8 DEF PersistTurnClosure
    <2> QED
      BY <1>4, <2>4, <2>5, <2>6, <2>7, <2>8
  <1>5. ASSUME NEW c \in Children, ChildCommits(c) PROVE Simulates
    BY <1>5, PortSame DEF ChildCommits, closingVars, boundaryVars
  <1>6. CASE Saving /\ UNCHANGED boundaryVars
    BY <1>6, PortSame DEF Saving, BeginSave, SavePhase, CompleteSave, closingVars, boundaryVars
  <1>7. CASE PlanTurn \/ ReadAlignment \/ Crash \/ ColdStart
    BY <1>7, PortSame DEF PlanTurn, ReadAlignment, Crash, ColdStart, closingVars, boundaryVars
  <1>8. CASE AlignTurn
    <2>1. /\ loop.phase = "awaiting" /\ outcome' = outcome
          /\ port \subseteq port'
          /\ \A r \in port' \ port : r.kind \in {"alignment", "alignment-recovery"}
      BY <1>8 DEF AlignTurn, Stores, Alignment, AlignmentRecovery, Fact, boundaryVars
    <2>2. Has("turn-closure") /\ "alignment" \in Kinds
          /\ "alignment-recovery" \in Kinds \ {"candidate", "turn-closure", "alignment"}
      BY <2>1, AwaitingIs DEF Kinds
    <2> QED
      BY <2>1, <2>2, ContractKinds
  <1>9. CASE AdvanceTurn
    <2>1. UNCHANGED port /\ outcome' = loop.decision /\ Alignment(loop.decision) \in port
      BY <1>9 DEF AdvanceTurn, closingVars
    <2>2. DecisionIn = loop.decision /\ loop.decision # Undecided
      <3>1. /\ Alignment(loop.decision).kind = "alignment"
            /\ Alignment(loop.decision).decision = loop.decision
            /\ "alignment" \in Kinds
        BY DEF Alignment, Fact, Kinds
      <3> QED
        BY <2>1, <3>1, MappedHolds DEF Mapped
    <2>3. UNCHANGED <<InputsIn("candidate"), InputsIn("turn-closure"), DecisionIn>>
      BY <2>1 DEF InputsIn, InputsOf, DecisionIn, Of
    <2> QED
      BY <2>1, <2>2, <2>3 DEF Simulates, Contract!Next, Contract!Advance, InputsIn, DecisionIn,
         Contract!Undecided, Undecided
  <1>10. CASE UNCHANGED vars
    BY <1>10, PortSame DEF vars, closingVars, boundaryVars
  <1> QED
    BY <1>1, <1>4, <1>5, <1>6, <1>7, <1>8, <1>9, <1>10 DEF Next, Closing

\* closeTurn, alignTurn and advanceTurn, with all that may fail between them and
\* with every restart, implement the contract of a turn: frozen once, closed with
\* that, one decision after it, no advance by another.
THEOREM TurnRefinesContract == Spec => ImplementsContract
  <1>1. Init => Contract!Init
    BY DEF Init, ClosingInit, Contract!Init, Of, InputsOf, Contract!Undecided, Undecided
  <1>2. IInv /\ IInv' /\ [Next]_vars => [Contract!Next]_Contract!vars
    BY StepSimulates DEF Simulates, Same, Contract!vars, InputsIn, DecisionIn
  <1> QED
    BY <1>1, <1>2, InvariantHolds, PTL DEF Spec, ImplementsContract, Contract!Spec
===============================================================================
