------------------------------ MODULE TurnBoundary -----------------------------
(***************************************************************************)
(* One logical turn from its child calls to the decision it ends with: the  *)
(* lifecycle of ui-runtime/execution-composition.ts, which closes the turn, *)
(* saves its boundary, has the planner decide, aligns the turn with the     *)
(* decision and advances; and what a process that starts again finds out    *)
(* from the journal.                                                        *)
(***************************************************************************)
EXTENDS BoundarySave

CONSTANTS
    Decisions,      \* what the planner may return: continue, complete, failed
    MaxCrashes      \* bound: how often the process dies

ASSUME DecisionsAssumption == Decisions \cap {"none", "unknown"} = {}
ASSUME MaxCrashesAssumption == MaxCrashes \in Nat

VARIABLES
    duty,       \* the planner's durable duty: none, unknown, or what it returned
    outcome,    \* the decision advanceTurn answered with
    crashes

boundaryVars == <<duty, outcome, crashes>>
vars == <<chainVars, closingVars, saveVars, boundaryVars>>

Alignment(d) == Fact("alignment", loop.pending, Unprepared, d)
AlignmentRecovery == Fact("alignment-recovery", loop.pending, Unprepared, Undecided)

Aligned(d) == [loop EXCEPT !.phase = "aligned", !.decision = d]

-------------------------------------------------------------------------------

Init ==
    /\ ChainInit
    /\ ClosingInit
    /\ SaveInit
    /\ duty = Undecided
    /\ outcome = Undecided
    /\ crashes = 0

\* A child call is made while the turn is open; nothing else keeps its commit
\* from ending later.
ChildCommits(c) ==
    /\ \/ /\ loop.phase = "open" /\ loop.pending = NoCheckpoint
          /\ Recall(c)
       \/ Extend(c)
    /\ UNCHANGED <<closingVars, saveVars, boundaryVars>>

\* The planner is invoked once.  A submitted call whose return is not durable
\* is never invoked again.
PlanTurn ==
    /\ loop.phase = "awaiting" /\ save.complete
    /\ duty = Undecided
    /\ duty' \in Decisions \cup {"unknown"}
    /\ UNCHANGED <<chainVars, closingVars, saveVars, outcome, crashes>>

\* alignTurn.  A failure leaves a record of its own, if that can be written.
AlignTurn ==
    /\ loop.phase = "awaiting" /\ save.complete
    /\ duty \in Decisions
    /\ \/ /\ Stores(Alignment(duty))
          /\ loop' = Aligned(duty)
       \/ /\ port' \in {port, port \cup {AlignmentRecovery}}
          /\ UNCHANGED loop
       \/ /\ Under(Alignment(duty)) = {}
          /\ port' \in {port \cup {Alignment(duty)},
                        port \cup {Alignment(duty), AlignmentRecovery}}
          /\ UNCHANGED loop
    /\ UNCHANGED <<facts, step, chainVars, saveVars, boundaryVars>>

\* recoverTurn of the live process, before it plans and before it advances: an
\* alignment that is durable is read back, never made again.
ReadAlignment ==
    /\ loop.phase = "awaiting" /\ save.complete
    /\ \E r \in Under(Alignment(Undecided)) :
           loop' = [Aligned(r.decision) EXCEPT !.prepared = Unprepared]
    /\ UNCHANGED <<port, facts, step, chainVars, saveVars, boundaryVars>>

\* acceptAlignedPlan: the durable return must be what the turn was aligned with
\* and the history must be published.
AdvanceTurn ==
    /\ loop.phase = "aligned" /\ save.complete
    /\ Alignment(loop.decision) \in port
    /\ duty = loop.decision
    /\ HasReceipt("history-publication")
    /\ outcome' = loop.decision
    /\ UNCHANGED <<chainVars, closingVars, saveVars, duty, crashes>>

-------------------------------------------------------------------------------
(* The process dies, and another takes the turn over from the journal. *)

Crash ==
    /\ loop.phase # "down" /\ crashes < MaxCrashes
    /\ crashes' = crashes + 1
    /\ loop' = [phase |-> "down", pending |-> NoCheckpoint, prepared |-> Unprepared,
                decision |-> Undecided]
    /\ step' = "idle"
    /\ child' = [c \in Children |-> [at |-> "idle", next |-> NoCheckpoint]]
    /\ save' = NoRun
    /\ UNCHANGED <<checkpoints, port, facts, intent, receipts, progress, duty, outcome>>

\* The durable stage of the turn that candidate r belongs to.
StageOf(r) ==
    LET Read(kind) == {s \in port : s.kind = kind /\ IdOf(s.of) = IdOf(r.of)}
        At(phase, d) == [phase |-> phase, pending |-> r.of, prepared |-> Unprepared,
                         decision |-> d]
    IN  IF Read("turn-closure") = {} THEN At("open", Undecided)
        ELSE IF Read("recovery") = {} THEN At("held", Undecided)
        ELSE IF Read("alignment") = {} THEN At("awaiting", Undecided)
        ELSE At("aligned", (CHOOSE s \in Read("alignment") : TRUE).decision)

\* Mutant: a closing that was begun is begun again.
ColdStartAfresh ==
    /\ loop.phase = "down"
    /\ loop' = IF \E r \in port : r.kind = "turn-closure"
               THEN StageOf(CHOOSE r \in port : r.kind = "candidate")
               ELSE [loop EXCEPT !.phase = "open"]
    /\ UNCHANGED <<port, facts, step, chainVars, saveVars, boundaryVars>>

\* A closing that was begun is carried on only from a durable preparation and a
\* durable save intent.
Resumable(r) ==
    /\ intent
    /\ \E s \in port : s.kind = "preparation" /\ s.of = r.of

\* recoverOriginalTurn.  Without a candidate the same turn resumes.  A turn that
\* cannot be carried on, or whose records cannot be read, is held.
ColdStart ==
    /\ loop.phase = "down"
    /\ \/ /\ ~\E r \in port : r.kind = "candidate"
          /\ loop' = [loop EXCEPT !.phase = "open"]
       \/ \E r \in port :
              /\ r.kind = "candidate"
              /\ Resumable(r)
              /\ loop' = StageOf(r)
       \/ loop' = [loop EXCEPT !.phase = "held"]
    /\ UNCHANGED <<port, facts, step, chainVars, saveVars, boundaryVars>>

-------------------------------------------------------------------------------

Closing ==
    \/ \E v \in Inputs : CloseTurn(v)
    \/ PersistCandidate
    \/ PersistRecovery
    \/ Prepare
    \/ AppendCheckpoint
    \/ PersistClosure
    \/ PersistTurnClosure
    \/ UpdateFacts

Saving == BeginSave \/ SavePhase \/ CompleteSave

Next ==
    \/ \E c \in Children : ChildCommits(c)
    \/ Closing /\ UNCHANGED <<saveVars, boundaryVars>>
    \/ Saving /\ UNCHANGED boundaryVars
    \/ PlanTurn
    \/ AlignTurn
    \/ ReadAlignment
    \/ AdvanceTurn
    \/ Crash
    \/ ColdStart

Spec == Init /\ [][Next]_vars
===============================================================================
