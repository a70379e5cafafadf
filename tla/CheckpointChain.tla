---------------------------- MODULE CheckpointChain ----------------------------
(***************************************************************************)
(* The checkpoints of one execution (checkpoints/coordinator.ts over        *)
(* app/src/checkpoint-journal.ts).  Every execution has a scope of its own, *)
(* so that the chain holds the checkpoints its child calls commit while the *)
(* turn is open (ui-runtime/child-checkpoint-adapter.ts) and the one the    *)
(* turn commits when it closes.  The calls of one round run concurrently.   *)
(***************************************************************************)
EXTENDS Naturals, Sequences

CONSTANTS
    Children,       \* the commits of child calls, before a call and after it
    Turn,           \* the owner of the turn's own checkpoint
    Inputs,         \* what a turn is closed with: summary, outcome, reviews
    NoInputs,       \* a child's checkpoint has none
    NoCheckpoint    \* the predecessor of a root

ASSUME OwnerAssumption == Turn \notin Children
ASSUME InputsAssumption == NoInputs \notin Inputs

VARIABLES
    checkpoints,    \* the committed checkpoints, in journal order
    child           \* child[c]: where a child's commit is, and what it will append

chainVars == <<checkpoints, child>>

-------------------------------------------------------------------------------
(* A child's id names its call and phase, a turn's the turn and the number. *)

Owners == Children \cup {Turn}
IdOf(c) == IF c.owner = Turn THEN <<Turn, c.seq>> ELSE <<c.owner>>

Ids == {<<c>> : c \in Children} \cup ({Turn} \X Nat)

Checkpoint == [owner : Owners, inputs : Inputs \cup {NoInputs}, seq : Nat,
               previous : Ids \cup {NoCheckpoint}]

ASSUME NoCheckpointAssumption == NoCheckpoint \notin Checkpoint

Latest == checkpoints[Len(checkpoints)]

\* The id is taken.
Committed(id) == \E i \in DOMAIN checkpoints : IdOf(checkpoints[i]) = id

\* buildTurnCheckpoint and the adapter: the successor of the latest checkpoint.
NextAfterLatest(owner, inputs) ==
    [owner |-> owner, inputs |-> inputs,
     seq |-> IF checkpoints = <<>> THEN 1 ELSE Latest.seq + 1,
     previous |-> IF checkpoints = <<>> THEN NoCheckpoint ELSE IdOf(Latest)]

\* assertCheckpointLink between two checkpoints.
Links(k, prior) == k.previous = IdOf(prior) /\ prior.seq = k.seq - 1

\* The journal looks the predecessor up by its id: any committed checkpoint will do.
Accepts(k) ==
    \/ k.previous = NoCheckpoint /\ k.seq = 1
    \/ \E i \in DOMAIN checkpoints : Links(k, checkpoints[i])

\* latestCheckpoint hands out the checkpoint that precedes the latest in the
\* file, and recallCheckpoint wants a link between the two.
Recallable ==
    \/ checkpoints = <<>>
    \/ /\ Len(checkpoints) = 1
       /\ Latest.previous = NoCheckpoint
    \/ /\ Len(checkpoints) > 1
       /\ Links(Latest, checkpoints[Len(checkpoints) - 1])

\* completeCheckpoint: a checkpoint that is committed is not appended again; one
\* whose id is free is, when the journal accepts it.
CompleteCheckpoint(k) ==
    \/ /\ \E i \in DOMAIN checkpoints : checkpoints[i] = k
       /\ UNCHANGED checkpoints
    \/ /\ ~Committed(IdOf(k))
       /\ Accepts(k)
       /\ checkpoints' = Append(checkpoints, k)

-------------------------------------------------------------------------------

ChainInit ==
    /\ checkpoints = <<>>
    /\ child = [c \in Children |-> [at |-> "idle", next |-> NoCheckpoint]]

\* The adapter reads its own checkpoint back, or recalls the latest one and
\* settles on its successor.  A chain that cannot be recalled fails the call.
Recall(c) ==
    /\ child[c].at = "idle"
    /\ \/ /\ Committed(<<c>>)
          /\ child' = [child EXCEPT ![c].at = "done"]
       \/ /\ ~Committed(<<c>>)
          /\ Recallable
          /\ child' = [child EXCEPT
                 ![c] = [at |-> "recalled", next |-> NextAfterLatest(c, NoInputs)]]
       \/ /\ ~Committed(<<c>>)
          /\ child' = [child EXCEPT ![c].at = "done"]
    /\ UNCHANGED checkpoints

\* The append that ends a child's commit; it may fail before it is durable or after.
Extend(c) ==
    /\ child[c].at = "recalled"
    /\ CompleteCheckpoint(child[c].next) \/ UNCHANGED checkpoints
    /\ child' = [child EXCEPT ![c] = [at |-> "done", next |-> NoCheckpoint]]

\* drainCurrentTurn: no call of the turn is in flight.
Drained == \A c \in Children : child[c].at # "recalled"
===============================================================================
