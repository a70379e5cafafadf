----------------------------- MODULE TurnProperties ----------------------------
(***************************************************************************)
(* What must hold of a turn while it is closed, saved, aligned and taken    *)
(* over by other processes.                                                 *)
(***************************************************************************)
EXTENDS TurnBoundary

\* The records of one kind; the checkpoints the turn itself committed.
Of(kind) == {r \in port : r.kind = kind}
TurnCheckpoints == {i \in DOMAIN checkpoints : checkpoints[i].owner = Turn}

-------------------------------------------------------------------------------

\* closeTurn, the boundary save and alignTurn: a record is durable only after
\* those it relies on, and all of them are of the one frozen checkpoint.  The
\* recovery responsibility precedes the preparation, the preparation the
\* checkpoint, the checkpoint its closure (over the same facts), the closure the
\* turn's, and the alignment follows the published history and is the planner's.
RecordsFollowTheirOrder ==
    /\ \A r, s \in port : r.of = s.of /\ (r.kind = s.kind => r = s)
    /\ Of("recovery") # {} => Of("candidate") # {}
    /\ Of("preparation") # {} => Of("recovery") # {}
    /\ \A i \in TurnCheckpoints :
           \E r \in Of("preparation") : r.of = checkpoints[i]
    /\ \A r \in Of("closure") :
           /\ \E s \in Of("preparation") : s.facts = r.facts
           /\ \E i \in TurnCheckpoints : checkpoints[i] = r.of
    /\ Of("turn-closure") # {} => Of("closure") # {}
    /\ \A r \in Of("alignment") :
           /\ Of("turn-closure") # {}
           /\ r.decision = duty
           /\ intent /\ \A p \in Phases : HasReceipt(p)

\* What a live process acts on is what the journal holds: it closes with the
\* candidate once that is durable, with the facts of the stored preparation, and
\* awaits or has a decision only when the records say so (turnState, pendingClose
\* and pending.prepared of AgentLoopRuntime).
LoopFollowsRecords ==
    LET Mine(kind) == {r \in Of(kind) : r.of = loop.pending} IN
    /\ loop.phase \notin {"down", "held"} => Of("candidate") = Mine("candidate")
    /\ loop.prepared # Unprepared =>
           \E r \in Mine("preparation") : r.facts = loop.prepared
    /\ loop.phase \in {"awaiting", "aligned"} => Mine("turn-closure") # {}
    /\ loop.phase = "aligned" =>
           \E r \in Mine("alignment") : r.decision = loop.decision

\* From the moment the candidate is durable the execution commits no checkpoint
\* but that one, whatever its child calls and the processes that follow do: the
\* cut of the turn is final (drainCurrentTurn, frozenTurnCloseRef).
ClosingIsFinal ==
    [][\A r \in Of("candidate") :
           checkpoints' = checkpoints \/ checkpoints' = Append(checkpoints, r.of)]_vars

\* The recorded progress of the boundary save never claims a phase whose owner
\* has no receipt, and a run ends as complete only when every owner has one.
ProgressIsTrue ==
    /\ \A p \in Phases : progress[p] = "committed" => HasReceipt(p)
    /\ save.complete => \A p \in Phases : HasReceipt(p)

-------------------------------------------------------------------------------
(* The closing implements the contract of a turn. *)

InputsOf(rs) == IF rs = {} THEN NoInputs ELSE (CHOOSE r \in rs : TRUE).of.inputs

Contract == INSTANCE TurnContract WITH
    frozen <- InputsOf(Of("candidate")),
    closed <- InputsOf(Of("turn-closure")),
    decision <- IF Of("alignment") = {} THEN Undecided
                ELSE (CHOOSE r \in Of("alignment") : TRUE).decision

\* closeTurn, alignTurn and advanceTurn with everything that may fail between
\* them keep the promise: frozen once, closed with that, one decision after it,
\* and no advance by another.
ImplementsContract == Contract!Spec

-------------------------------------------------------------------------------
(* Not true of the code; see the README. *)

\* agent-loop/runtime.ts:1829: a process that starts can carry on a turn whose
\* closing was begun.
PendingBoundaryIsResumed ==
    loop.phase = "down" => \A r \in Of("candidate") : Resumable(r)

\* child-checkpoint-adapter.ts:51: a child call can recall the chain.
CheckpointIsRecallable == Recallable
===============================================================================
