------------------------------ MODULE TurnClosing ------------------------------
(***************************************************************************)
(* Closing one logical turn (closeTurn of agent-loop/runtime.ts, with       *)
(* checkpoints/closure.ts and checkpoints/submission.ts).  What the turn is *)
(* closed with is frozen once.  The candidate and the recovery record are   *)
(* durable before the preparation, the checkpoint, its closure and the      *)
(* turn's closure are committed, in that order and each on its own, through *)
(* a port that refuses other content under the same id.  Any step may fail, *)
(* before its record is durable or after, and the close is called again.    *)
(***************************************************************************)
EXTENDS CheckpointChain

CONSTANTS
    MaxFacts    \* bound: how often what a preparation reads is observed to differ

ASSUME MaxFactsAssumption == MaxFacts \in Nat \ {0}

VARIABLES
    port,       \* the closure port: its durable records
    facts,      \* what the owners answer a preparation: control, permission, blockers
    loop,       \* the agent loop of the live process
    step        \* the step of closeTurn in flight

closingVars == <<port, facts, loop, step>>

Undecided == "none"
Unprepared == 0

-------------------------------------------------------------------------------
(* The closure port.  The candidate's id names the turn alone, the id of any  *)
(* other record the checkpoint.                                               *)

Kinds == {"candidate", "recovery", "preparation", "closure", "turn-closure",
          "alignment", "alignment-recovery"}

Fact(kind, of, f, d) == [kind |-> kind, of |-> of, facts |-> f, decision |-> d]

SameId(r, s) ==
    /\ r.kind = s.kind
    /\ r.kind = "candidate" \/ IdOf(r.of) = IdOf(s.of)

\* The record under the id of r.
Under(r) == {s \in port : SameId(r, s)}

\* A record read back, or committed and acknowledged.
Stores(r) ==
    /\ Under(r) \subseteq {r}
    /\ port' = port \cup {r}

\* A read or a commit that is rejected; the record may have become durable.
Fails(r) ==
    \/ UNCHANGED port
    \/ /\ Under(r) = {}
       /\ port' = port \cup {r}

Candidate == Fact("candidate", loop.pending, Unprepared, Undecided)
Recovery == Fact("recovery", loop.pending, Unprepared, Undecided)
Preparation(f) == Fact("preparation", loop.pending, f, Undecided)
Closure == Fact("closure", loop.pending, loop.prepared, Undecided)
TurnClosure == Fact("turn-closure", loop.pending, Unprepared, Undecided)

-------------------------------------------------------------------------------

ClosingInit ==
    /\ port = {}
    /\ facts = 1
    /\ loop = [phase |-> "open", pending |-> NoCheckpoint, prepared |-> Unprepared,
               decision |-> Undecided]
    /\ step = "idle"

\* An operation is reconciled, a permission revoked, a blocker raised.
UpdateFacts ==
    /\ facts < MaxFacts
    /\ facts' = facts + 1
    /\ UNCHANGED <<port, loop, step, chainVars>>

\* Mutant: the calls of the turn are not drained.
CloseUndrained(v) ==
    /\ loop.phase \in {"open", "recovering"} /\ step = "idle"
    /\ step' = "candidate"
    /\ loop' = IF loop.pending # NoCheckpoint THEN loop
               ELSE [loop EXCEPT !.pending = NextAfterLatest(Turn, v)]
    /\ UNCHANGED <<port, facts, chainVars>>

\* closeTurn, once the execution is drained: the first call freezes the
\* checkpoint, the later ones carry on with it.
CloseTurn(v) ==
    /\ loop.phase \in {"open", "recovering"} /\ step = "idle"
    /\ Drained
    /\ step' = "candidate"
    /\ loop' = IF loop.pending # NoCheckpoint THEN loop
               ELSE [loop EXCEPT !.pending = NextAfterLatest(Turn, v)]
    /\ UNCHANGED <<port, facts, chainVars>>

\* Mutant: the candidate is written with best effort.
PersistCandidateBestEffort ==
    /\ step = "candidate"
    /\ Stores(Candidate) \/ Fails(Candidate)
    /\ step' = "recovery"
    /\ UNCHANGED <<facts, loop, chainVars>>

\* An error of the first two steps is thrown; the phase stays what it was.
PersistCandidate ==
    /\ step = "candidate"
    /\ \/ Stores(Candidate) /\ step' = "recovery"
       \/ Fails(Candidate) /\ step' = "idle"
    /\ UNCHANGED <<facts, loop, chainVars>>

PersistRecovery ==
    /\ step = "recovery"
    /\ \/ Stores(Recovery) /\ step' = "prepare"
       \/ Fails(Recovery) /\ step' = "idle"
    /\ UNCHANGED <<facts, loop, chainVars>>

\* An error of a later step leaves the loop recovering.
Interrupted ==
    /\ step' = "idle"
    /\ loop' = [loop EXCEPT !.phase = "recovering"]

\* prepareCheckpointClosure, once per process that succeeds: the facts are read
\* again by the next call of one that failed, and must be those of the record.
Prepare ==
    /\ step = "prepare"
    /\ \/ /\ loop.prepared # Unprepared
          /\ step' = "checkpoint"
          /\ UNCHANGED <<port, loop>>
       \/ /\ loop.prepared = Unprepared
          /\ Stores(Preparation(facts))
          /\ step' = "checkpoint"
          /\ loop' = [loop EXCEPT !.prepared = facts]
       \/ /\ loop.prepared = Unprepared
          /\ Fails(Preparation(facts))
          /\ Interrupted
    /\ UNCHANGED <<facts, chainVars>>

\* Mutant: an append that fails is taken for one that was acknowledged.
AppendUnconfirmed ==
    /\ step = "checkpoint"
    /\ CompleteCheckpoint(loop.pending) \/ UNCHANGED checkpoints
    /\ step' = "closure"
    /\ UNCHANGED <<port, facts, child, loop>>

\* submitCheckpoint, up to the readback of the checkpoint: its preparation must
\* be stored and a closure must not exist without it.
AppendCheckpoint ==
    /\ step = "checkpoint"
    /\ \/ /\ Preparation(loop.prepared) \in port
          /\ Under(Closure) # {} => Committed(IdOf(loop.pending))
          /\ CompleteCheckpoint(loop.pending)
          /\ step' = "closure"
          /\ UNCHANGED loop
       \/ /\ CompleteCheckpoint(loop.pending) \/ UNCHANGED checkpoints
          /\ Interrupted
    /\ UNCHANGED <<port, facts, child>>

\* The rest of submitCheckpoint.
PersistClosure ==
    /\ step = "closure"
    /\ \/ Stores(Closure) /\ step' = "turn-closure" /\ UNCHANGED loop
       \/ Fails(Closure) /\ Interrupted
    /\ UNCHANGED <<facts, chainVars>>

PersistTurnClosure ==
    /\ step = "turn-closure"
    /\ \/ /\ Stores(TurnClosure)
          /\ step' = "idle"
          /\ loop' = [loop EXCEPT !.phase = "awaiting"]
       \/ Fails(TurnClosure) /\ Interrupted
    /\ UNCHANGED <<facts, chainVars>>
===============================================================================
