---------------------------- MODULE OccurrenceProofs ----------------------------
(***************************************************************************)
(* Theorems about scheduled executions for every schedule, policy, number  *)
(* of daemons, control and fault.                                          *)
(*                                                                         *)
(* The invariant ties what a tick remembers between two awaits to what is  *)
(* durable: the occurrence it is at has a claim, the outcome it is about   *)
(* to write or to settle is the one on file, and the daemon it runs in is  *)
(* the one admitted.  It has two parts: the types, and the history of each *)
(* occurrence, which needs the types.                                      *)
(***************************************************************************)
EXTENDS OccurrenceProperties, NaturalExtrema, TLAPS

PC == {"idle", "schedule", "claim", "admit", "decide", "dispatch", "commit",
       "recover", "receipt", "settle"}

TickRecord ==
    [pc : PC, todo : SUBSET Ids, fresh : Ids \cup {NoOccurrence},
     early : BOOLEAN, late : BOOLEAN, busy : BOOLEAN,
     id : Ids \cup {NoOccurrence}, outcome : Outcomes \cup {"none"}]

\* A tick that is not idle is at an occurrence.
PatrolTypes ==
    /\ patrol \in [Daemons -> TickRecord]
    /\ \A d \in Daemons : patrol[d].pc # "idle" => patrol[d].id \in Ids

States == {"none", "due", "claimed", "consumed", "skipped-busy", "reminder-pending",
           "invalidated"}

PlanRecord ==
    [state : {"active", "suspended", "cancelled", "exhausted"},
     revision : 1 .. MaxRevision, ordinal : 0 .. Slots,
     modified : 0 .. MaxRevision, reminder : Ids \cup {NoOccurrence}]

PlanTypes ==
    /\ plan \in PlanRecord /\ plan.modified <= plan.revision
    /\ occurrence \in [Ids -> States]
    /\ claims \in [Ids -> 0 .. Generations]
    /\ settlements \in [Ids -> Outcomes \cup {"none"}]

WorldTypes ==
    /\ admitted \in [Ids -> 0 .. Generations] /\ executed \in [Ids -> Nat]
    /\ checkpoint \in [Ids -> Outcomes \cup {"none"}]
    /\ receipt \in [Ids -> Outcomes \cup {"none"}]
    /\ clock \in Nat /\ lease \in Daemons /\ alive \subseteq Daemons
    /\ granted \subseteq Ids /\ expired \subseteq Ids

TypeInv == PlanTypes /\ WorldTypes /\ PatrolTypes

-------------------------------------------------------------------------------
LEMMA EarliestOf ==
  ASSUME NEW ids, ids \subseteq Ids, ids # {}
  PROVE  Earliest(ids) \in ids
<1> DEFINE R == {Revision(i) : i \in ids}
<1>1. \A i \in Ids : Revision(i) \in Nat /\ Ordinal(i) \in Nat /\ i = <<Revision(i), Ordinal(i)>>
  BY PlanAssumption DEF Ids, Revision, Ordinal
<1>2. PICK m \in R : \A r \in R : m <= r
  <2>1. R \subseteq Nat /\ R # {}
    BY <1>1
  <2> QED
    BY <2>1, LeastExists
<1> DEFINE O == {Ordinal(i) : i \in {j \in ids : Revision(j) = m}}
<1>3. PICK o \in O : \A p \in O : o <= p
  <2>1. O \subseteq Nat /\ O # {}
    BY <1>1, <1>2
  <2> QED
    BY <2>1, LeastExists
<1>4. PICK i \in ids : Revision(i) = m /\ Ordinal(i) = o
  BY <1>3
<1>5. \A j \in ids \ {i} : Earlier(i, j)
  <2> TAKE j \in ids \ {i}
  <2>1. Revision(j) \in R /\ m <= Revision(j)
    BY <1>2
  <2>2. CASE Revision(j) = m
    <3>1. Ordinal(j) \in O
      BY <2>2
    <3>2. o <= Ordinal(j)
      BY <3>1, <1>3
    <3>3. o # Ordinal(j)
      BY <1>1, <1>4, <2>2
    <3> QED
      BY <1>1, <1>4, <2>2, <3>2, <3>3 DEF Earlier
  <2>3. CASE Revision(j) # m
    BY <1>1, <1>4, <2>1, <2>3 DEF Earlier
  <2> QED
    BY <2>2, <2>3
<1> QED
  BY <1>5 DEF Earliest

LEMMA IdShape ==
  ASSUME NEW i \in Ids
  PROVE  /\ Revision(i) \in 1 .. MaxRevision /\ Ordinal(i) \in 1 .. Slots
         /\ i = <<Revision(i), Ordinal(i)>>
BY PlanAssumption DEF Ids, Revision, Ordinal

-------------------------------------------------------------------------------
(***************************************************************************)
(* What one operation on the plan does, whoever calls it.                  *)
(***************************************************************************)
Started(i) == occurrence[i] \in {"claimed", "consumed"}

\* Progress is lost by a modification only, and is the progress of the policy.
Forward ==
    /\ plan'.ordinal < plan.ordinal => plan'.modified > plan.modified
    /\ ProgressIsEarned'

\* What is closed stays closed, what is started stays started, and what has a
\* settlement keeps it.
Kept ==
    \A i \in Ids :
        /\ occurrence[i] # "none" => occurrence'[i] # "none"
        /\ occurrence[i] \in {"skipped-busy", "invalidated"} => occurrence'[i] = occurrence[i]
        /\ Started(i) => Started(i)'
        /\ settlements[i] # "none" => settlements'[i] = settlements[i]

LEMMA SupersedeStep ==
  ASSUME PlanTypes, NEW next \in PlanRecord, Supersede(next),
         next.modified <= plan.revision + 1
  PROVE  /\ PlanTypes' /\ Kept
         /\ plan'.ordinal = next.ordinal /\ plan'.modified = next.modified
<1>1. plan.revision \in 1 .. MaxRevision /\ plan.revision < MaxRevision
  BY DEF PlanTypes, PlanRecord, Supersede
<1>2. /\ plan' \in PlanRecord /\ plan'.revision = plan.revision + 1
      /\ plan'.ordinal = next.ordinal /\ plan'.modified = next.modified
  <2> DEFINE r == plan.revision + 1
             m == IF next.reminder \in Superseded THEN NoOccurrence ELSE next.reminder
  <2>1. r \in 1 .. MaxRevision
    BY <1>1, PlanAssumption
  <2>2. m \in Ids \cup {NoOccurrence}
    BY DEF PlanRecord
  <2>3. plan' = [next EXCEPT !.revision = r, !.reminder = m]
    BY DEF Supersede
  <2> HIDE DEF r, m
  <2>4. /\ plan' \in PlanRecord /\ plan'.revision = r
        /\ plan'.ordinal = next.ordinal /\ plan'.modified = next.modified
    BY <2>1, <2>2, <2>3 DEF PlanRecord
  <2> QED
    BY <2>4 DEF r
<1>3. occurrence' \in [Ids -> States] /\ UNCHANGED <<claims, settlements>>
  BY DEF Supersede, PlanTypes, States
<1>4. Kept
  BY DEF Kept, Started, Supersede, Superseded, Unclaimed, PlanTypes
<1> QED
  BY <1>2, <1>3, <1>4 DEF PlanTypes

LEMMA ControlStep ==
  ASSUME PlanTypes, ProgressIsEarned, Control
  PROVE  PlanTypes' /\ Kept /\ Forward /\ UNCHANGED <<claims, settlements>>
<1>0. /\ plan \in PlanRecord /\ plan.modified <= plan.revision
      /\ plan.ordinal \in 0 .. Slots /\ plan.revision \in 1 .. MaxRevision
      /\ plan.modified \in 0 .. MaxRevision
  BY DEF PlanTypes, PlanRecord
<1>1. CASE Pause
  <2> DEFINE S == {plan.ordinal} \cup {Ordinal(i) : i \in Superseded}
             next == [plan EXCEPT !.state = "suspended", !.ordinal = PausedOrdinal]
  <2>1. S \subseteq 0 .. Slots /\ S # {}
    BY <1>0, IdShape DEF Superseded
  <2>2. PausedOrdinal \in S /\ \A y \in S : PausedOrdinal >= y
    BY <2>1, MaxOf, PlanAssumption DEF PausedOrdinal
  <2>3. next \in PlanRecord /\ next.modified = plan.modified /\ next.ordinal = PausedOrdinal
    BY <1>0, <2>1, <2>2 DEF PlanRecord
  <2>4. Supersede(next)
    BY <1>1 DEF Pause
  <2> HIDE DEF next
  <2>5. /\ PlanTypes' /\ Kept
        /\ plan'.ordinal = PausedOrdinal /\ plan'.modified = plan.modified
    BY <1>0, <2>3, <2>4, SupersedeStep
  <2>6. ProgressIsEarned'
    <3>1. CASE PausedOrdinal = plan.ordinal
      BY <2>5, <3>1, ProgressIsEarned DEF ProgressIsEarned, Kept
    <3>2. CASE PausedOrdinal # plan.ordinal
      <4>1. PICK i \in Superseded : PausedOrdinal = Ordinal(i)
        BY <2>2, <3>2
      <4>2. i \in Ids /\ Revision(i) = plan.revision /\ occurrence[i] # "none"
        BY <4>1 DEF Superseded, Unclaimed
      <4>3. Revision(i) >= plan'.modified /\ Ordinal(i) >= plan'.ordinal /\ occurrence'[i] # "none"
        BY <1>0, <2>5, <4>1, <4>2, IdShape DEF Kept
      <4> QED
        BY <4>2, <4>3 DEF ProgressIsEarned
    <3> QED
      BY <3>1, <3>2
  <2>7. plan'.ordinal >= plan.ordinal
    BY <2>2, <2>5
  <2> QED
    BY <1>0, <2>1, <2>2, <2>4, <2>5, <2>6, <2>7 DEF Forward, Supersede
<1>2. CASE Resume
  <2>1. /\ plan' = [plan EXCEPT !.state = "active", !.revision = @ + 1]
        /\ plan.revision < MaxRevision /\ UNCHANGED <<occurrence, claims, settlements>>
    BY <1>2 DEF Resume
  <2>2. /\ plan' \in PlanRecord /\ plan'.modified = plan.modified
        /\ plan'.ordinal = plan.ordinal /\ plan'.revision = plan.revision + 1
    <3>1. plan.revision + 1 \in 1 .. MaxRevision
      BY <1>0, <2>1, PlanAssumption
    <3> QED
      BY <1>0, <2>1, <3>1 DEF PlanRecord
  <2>3. PlanTypes'
    BY <1>0, <2>1, <2>2 DEF PlanTypes
  <2> QED
    BY <1>0, <2>1, <2>2, <2>3, ProgressIsEarned DEF Forward, Kept, Started, ProgressIsEarned
<1>3. CASE Modify
  <2> DEFINE next == [plan EXCEPT !.ordinal = 0, !.modified = plan.revision + 1]
  <2>1. Supersede(next)
    BY <1>3 DEF Modify
  <2>2. /\ next \in PlanRecord /\ next.modified = plan.revision + 1 /\ next.ordinal = 0
    <3>1. plan.revision < MaxRevision
      BY <2>1 DEF Supersede
    <3>2. plan.revision + 1 \in 0 .. MaxRevision /\ 0 \in 0 .. Slots
      BY <1>0, <3>1, PlanAssumption
    <3> QED
      BY <1>0, <3>2 DEF PlanRecord
  <2> HIDE DEF next
  <2>3. /\ PlanTypes' /\ Kept /\ plan'.ordinal = 0 /\ plan'.modified = plan.revision + 1
    BY <1>0, <2>1, <2>2, SupersedeStep
  <2> QED
    BY <1>0, <2>1, <2>3 DEF Forward, ProgressIsEarned, Supersede
<1>4. CASE CancelFuture
  <2> DEFINE next == [plan EXCEPT !.state = "cancelled"]
  <2>1. Supersede(next)
    BY <1>4 DEF CancelFuture
  <2>2. /\ next \in PlanRecord /\ next.modified = plan.modified /\ next.ordinal = plan.ordinal
    BY <1>0 DEF PlanRecord
  <2> HIDE DEF next
  <2>3. /\ PlanTypes' /\ Kept /\ plan'.ordinal = plan.ordinal /\ plan'.modified = plan.modified
    BY <1>0, <2>1, <2>2, SupersedeStep
  <2> QED
    BY <1>0, <2>1, <2>3, ProgressIsEarned DEF Forward, ProgressIsEarned, Kept, Supersede
<1> QED
  BY <1>1, <1>2, <1>3, <1>4 DEF Control

LEMMA ScheduleStep ==
  ASSUME PlanTypes, ProgressIsEarned, NEW i \in Ids, NEW late, NEW busy,
         Schedule(i, late, busy)
  PROVE  PlanTypes' /\ Kept /\ Forward /\ UNCHANGED <<claims, settlements>>
<1> DEFINE state == ScheduledState(i, late, busy)
           ordinal == ScheduledOrdinal(i, state)
           reminder == ScheduledReminder(i, state, busy)
           status == IF state = "skipped-busy" /\ ordinal >= Limit
                     THEN "exhausted" ELSE plan.state
<1>0. /\ plan \in PlanRecord /\ plan.modified <= plan.revision
      /\ plan.ordinal \in 0 .. Slots /\ plan.revision \in 1 .. MaxRevision
      /\ plan.modified \in 0 .. MaxRevision /\ plan.reminder \in Ids \cup {NoOccurrence}
  BY DEF PlanTypes, PlanRecord
<1>1. CASE ~Undecided(i, busy)
  <2>1. UNCHANGED planVars
    BY <1>1 DEF Schedule, planVars
  <2> QED
    BY <1>0, <2>1 DEF planVars, PlanTypes, Kept, Started, Forward, ProgressIsEarned
<1>2. CASE Undecided(i, busy)
  <2>1. /\ plan' = [plan EXCEPT !.ordinal = ordinal, !.reminder = reminder, !.state = status]
        /\ occurrence' = [occurrence EXCEPT ![i] = state]
        /\ UNCHANGED <<claims, settlements>>
    BY <1>2 DEF Schedule
  <2>2. state \in {"skipped-busy", "due", "reminder-pending"}
    BY <1>2 DEF ScheduledState, Decided
  <2>3. Revision(i) = plan.revision
    BY DEF Schedule, ScheduleRefused
  <2>4. /\ ordinal \in 0 .. Slots /\ plan.ordinal <= ordinal
        /\ ordinal > plan.ordinal => Ordinal(i) >= ordinal
    <3>1. Ordinal(i) \in 1 .. Slots
      BY IdShape
    <3>2. /\ Max({plan.ordinal, Ordinal(i)}) \in {plan.ordinal, Ordinal(i)}
          /\ Max({plan.ordinal, Ordinal(i)}) >= plan.ordinal
      BY <1>0, <3>1, MaxOfTwo
    <3> HIDE DEF state
    <3>3. \/ ordinal = Max({plan.ordinal, Ordinal(i)})
          \/ Ordinal(i) > plan.ordinal + 1 /\ ordinal = Ordinal(i) - 1
          \/ ordinal = plan.ordinal
      BY DEF ScheduledOrdinal
    <3> DEFINE m == Max({plan.ordinal, Ordinal(i)})
               o == Ordinal(i)
    <3> HIDE DEF ordinal, status, m, o
    <3>4. CASE ordinal = m
      BY <1>0, <3>1, <3>2, <3>4 DEF m, o
    <3>5. CASE o > plan.ordinal + 1 /\ ordinal = o - 1
      <4>1. o \in 1 .. Slots /\ Slots \in Nat
        BY <3>1, PlanAssumption DEF o
      <4>2. /\ ordinal \in 0 .. Slots /\ plan.ordinal <= ordinal
            /\ ordinal > plan.ordinal => o >= ordinal
        BY <1>0, <3>5, <4>1
      <4> QED
        BY <4>2 DEF o
    <3>6. CASE ordinal = plan.ordinal
      BY <1>0, <3>6
    <3> QED
      BY <3>3, <3>4, <3>5, <3>6 DEF m, o
  <2>5. reminder \in Ids \cup {NoOccurrence}
    BY <1>0 DEF ScheduledReminder
  <2>6. status \in {"active", "suspended", "cancelled", "exhausted"}
    BY <1>0 DEF PlanRecord
  <2> HIDE DEF state, ordinal, reminder, status
  <2>7. /\ plan' \in PlanRecord /\ plan'.ordinal = ordinal
        /\ plan'.modified = plan.modified /\ plan'.revision = plan.revision
    BY <1>0, <2>1, <2>4, <2>5, <2>6 DEF PlanRecord
  <2>8. PlanTypes'
    BY <1>0, <2>1, <2>2, <2>7 DEF PlanTypes, States
  <2>9. Kept
    <3>1. occurrence[i] \in {"none", "reminder-pending"}
      BY <1>2 DEF Undecided
    <3> QED
      BY <2>1, <2>2, <3>1 DEF PlanTypes, Kept, Started
  <2>10. ProgressIsEarned'
    <3>1. CASE ordinal > plan.ordinal
      <4>1. /\ Revision(i) >= plan'.modified /\ Ordinal(i) >= plan'.ordinal
            /\ occurrence'[i] # "none"
        BY <1>0, <2>1, <2>2, <2>3, <2>4, <2>7, <3>1, IdShape DEF PlanTypes
      <4> QED
        BY <4>1 DEF ProgressIsEarned
    <3>2. CASE ~(ordinal > plan.ordinal)
      <4>1. plan'.ordinal = plan.ordinal
        BY <1>0, <2>4, <2>7, <3>2
      <4> QED
        BY <2>7, <2>9, <4>1 DEF ProgressIsEarned, Kept
    <3> QED
      BY <3>1, <3>2
  <2>11. ~(plan'.ordinal < plan.ordinal)
    BY <1>0, <2>4, <2>7
  <2> QED
    BY <2>1, <2>8, <2>9, <2>10, <2>11 DEF Forward
<1> QED
  BY <1>1, <1>2

LEMMA ClaimStep ==
  ASSUME PlanTypes, ProgressIsEarned, NEW i \in Ids, NEW g \in Daemons, Claim(i, g)
  PROVE  /\ PlanTypes' /\ Kept /\ Forward /\ UNCHANGED settlements
         /\ occurrence[i] \in {"none", "due"} /\ Started(i)'
         /\ claims' = [claims EXCEPT ![i] = g]
<1>1. /\ occurrence[i] \in {"none", "due"}
      /\ claims' = [claims EXCEPT ![i] = g]
      /\ occurrence' = [occurrence EXCEPT ![i] = "claimed"]
      /\ UNCHANGED <<plan, settlements>>
  BY DEF Claim, ClaimRefused
<1>2. g \in 0 .. Generations
  BY ExecutionAssumption DEF Daemons
<1>3. PlanTypes' /\ Started(i)'
  BY <1>1, <1>2 DEF PlanTypes, States, Started
<1>4. Kept
  BY <1>1 DEF PlanTypes, Kept, Started
<1>5. Forward
  BY <1>1, <1>4 DEF PlanTypes, PlanRecord, Forward, ProgressIsEarned, Kept
<1> QED
  BY <1>1, <1>3, <1>4, <1>5

LEMMA SettleStep ==
  ASSUME PlanTypes, ProgressIsEarned, NEW i \in Ids, NEW outcome \in Outcomes,
         SettleOccurrence(i, outcome)
  PROVE  /\ PlanTypes' /\ Kept /\ Forward /\ UNCHANGED claims
         /\ settlements' = [settlements EXCEPT ![i] = outcome]
<1>0. /\ plan \in PlanRecord /\ plan.modified <= plan.revision
      /\ plan.ordinal \in 0 .. Slots /\ plan.revision \in 1 .. MaxRevision
      /\ plan.modified \in 0 .. MaxRevision
  BY DEF PlanTypes, PlanRecord
<1>1. CASE settlements[i] # "none"
  <2>1. settlements[i] = outcome /\ UNCHANGED planVars
    BY <1>1 DEF SettleOccurrence, SettleRefused, planVars
  <2>2. settlements' = [settlements EXCEPT ![i] = outcome]
    BY <2>1 DEF planVars, PlanTypes
  <2>3. PlanTypes' /\ UNCHANGED claims
    BY <2>1 DEF planVars, PlanTypes
  <2>4. Kept
    BY <2>1 DEF planVars, Kept, Started
  <2>5. Forward
    BY <1>0, <2>1 DEF planVars, Forward, ProgressIsEarned
  <2> QED
    BY <2>2, <2>3, <2>4, <2>5
<1>2. CASE settlements[i] = "none"
  <2>1. /\ occurrence[i] = "claimed" /\ UNCHANGED claims
        /\ settlements' = [settlements EXCEPT ![i] = outcome]
        /\ occurrence' = [occurrence EXCEPT ![i] = "consumed"]
        /\ plan' = ClaimProgress(i)
    BY <1>2 DEF SettleOccurrence, SettleRefused
  <2>2. /\ plan' \in PlanRecord /\ plan'.modified = plan.modified
        /\ plan'.revision = plan.revision
        /\ plan'.ordinal >= plan.ordinal
        /\ plan'.ordinal > plan.ordinal =>
              plan'.ordinal = Ordinal(i) /\ Revision(i) >= plan.modified
    <3> DEFINE ordinal == Max({plan.ordinal, Ordinal(i)})
               status == IF plan.state = "active" /\ ordinal >= Limit
                         THEN "exhausted" ELSE plan.state
    <3>1. Ordinal(i) \in 1 .. Slots /\ Revision(i) \in 1 .. MaxRevision
      BY IdShape
    <3>2. ordinal \in 0 .. Slots /\ ordinal >= plan.ordinal /\ ordinal \in {plan.ordinal, Ordinal(i)}
      BY <1>0, <3>1, MaxOfTwo
    <3>3. plan' = IF plan.modified > Revision(i) THEN plan
                  ELSE [plan EXCEPT !.ordinal = ordinal, !.state = status]
      BY <2>1 DEF ClaimProgress
    <3>4. status \in {"active", "suspended", "cancelled", "exhausted"}
      BY <1>0 DEF PlanRecord
    <3> HIDE DEF ordinal, status
    <3>5. CASE plan.modified > Revision(i)
      BY <1>0, <3>3, <3>5
    <3>6. CASE ~(plan.modified > Revision(i))
      <4>1. plan' = [plan EXCEPT !.ordinal = ordinal, !.state = status]
        BY <3>3, <3>6
      <4>2. /\ plan' \in PlanRecord /\ plan'.modified = plan.modified
            /\ plan'.revision = plan.revision /\ plan'.ordinal = ordinal
        BY <1>0, <3>2, <3>4, <4>1 DEF PlanRecord
      <4> QED
        BY <1>0, <3>1, <3>2, <3>6, <4>2
    <3> QED
      BY <3>5, <3>6
  <2>3. PlanTypes'
    BY <1>0, <2>1, <2>2 DEF PlanTypes, States
  <2>4. Kept
    BY <1>2, <2>1 DEF PlanTypes, Kept, Started
  <2>5. ProgressIsEarned'
    <3>1. CASE plan'.ordinal > plan.ordinal
      <4>1. /\ Revision(i) >= plan'.modified /\ Ordinal(i) >= plan'.ordinal
            /\ occurrence'[i] # "none"
        BY <1>0, <2>1, <2>2, <3>1, IdShape DEF PlanTypes
      <4> QED
        BY <4>1 DEF ProgressIsEarned
    <3>2. CASE ~(plan'.ordinal > plan.ordinal)
      <4>1. plan'.ordinal = plan.ordinal
        BY <1>0, <2>2, <3>2 DEF PlanRecord
      <4> QED
        BY <2>2, <2>4, <4>1 DEF ProgressIsEarned, Kept
    <3> QED
      BY <3>1, <3>2
  <2>6. ~(plan'.ordinal < plan.ordinal)
    BY <1>0, <2>2 DEF PlanRecord
  <2> QED
    BY <2>1, <2>3, <2>4, <2>5, <2>6 DEF Forward
<1> QED
  BY <1>1, <1>2

-------------------------------------------------------------------------------
(***************************************************************************)
(* The inductive invariant: what a tick remembers is still so.             *)
(***************************************************************************)
Consuming == {"admit", "decide", "dispatch", "commit", "recover", "receipt", "settle"}

TickHist(d, t) ==
    /\ t.pc # "idle" => d \in alive
    /\ \A i \in t.todo : Started(i)
    /\ t.pc \in Consuming => Started(t.id)
    /\ t.pc \in {"commit", "recover", "receipt", "settle"} => t.outcome \in Outcomes
    /\ t.pc = "dispatch" => admitted[t.id] = d /\ executed[t.id] = 0
    /\ t.pc = "commit" => admitted[t.id] = d /\ executed[t.id] = 1
    /\ t.pc = "recover" => t.outcome = "blocked"
    /\ t.pc = "receipt" => lease = d /\ checkpoint[t.id] = t.outcome
    /\ t.pc = "settle" => receipt[t.id] = t.outcome

OccurrenceHist(i) ==
    /\ claims[i] # 0 => Started(i)
    /\ admitted[i] # 0 => Started(i)
    /\ executed[i] > 0 => admitted[i] # 0
    /\ executed[i] <= 1

IInv ==
    /\ TypeInv /\ ProgressIsEarned /\ SettledIsReceipt
    /\ \A i \in Ids : OccurrenceHist(i)
    /\ \A d \in Daemons : TickHist(d, patrol[d])

\* What the journals of the consumer hold is not written again.
Written ==
    \A i \in Ids :
        /\ receipt[i] # "none" => receipt'[i] = receipt[i]
        /\ admitted[i] # 0 => admitted'[i] = admitted[i]
        /\ checkpoint'[i] # checkpoint[i] =>
              /\ checkpoint[i] = "none"
              /\ checkpoint'[i] = "success" => executed[i] = 1 /\ admitted[i] = lease

Good == IInv' /\ Kept /\ Forward /\ Written

LEMMA NoneIsNoOutcome == "none" \notin Outcomes
BY PlanAssumption DEF Outcomes

LEMMA PlanStutters ==
  ASSUME PlanTypes, ProgressIsEarned, UNCHANGED planVars
  PROVE  PlanTypes' /\ Kept /\ Forward /\ UNCHANGED <<claims, settlements, occurrence>>
<1>1. PlanTypes' /\ Kept
  BY DEF planVars, PlanTypes, Kept, Started
<1>2. Forward
  BY DEF planVars, Forward, ProgressIsEarned, PlanTypes, PlanRecord
<1> QED
  BY <1>1, <1>2 DEF planVars

\* A step that writes nothing of the consumer, and moves one tick at most.
LEMMA Quiet ==
  ASSUME IInv, PlanTypes', Kept, Forward, WorldTypes', UNCHANGED <<consumerVars, lease, alive>>,
         \A i \in Ids : claims'[i] # 0 => Started(i)',
         \A i \in Ids : settlements'[i] # "none" => receipt[i] = settlements'[i],
         NEW d \in Daemons, NEW t \in TickRecord, patrol' = [patrol EXCEPT ![d] = t],
         t.pc # "idle" => t.id \in Ids, TickHist(d, t)'
  PROVE  Good
<1>1. PatrolTypes'
  BY DEF IInv, TypeInv, PatrolTypes
<1>2. \A i \in Ids : OccurrenceHist(i)'
  BY DEF IInv, OccurrenceHist, consumerVars, Kept
<1>3. ASSUME NEW e \in Daemons
      PROVE  TickHist(e, patrol[e])'
  <2>1. CASE e = d
    <3>1. patrol'[e] = t
      BY <2>1 DEF IInv, TypeInv, PatrolTypes
    <3> QED
      BY <2>1, <3>1 DEF TickHist, Started
  <2>2. CASE e # d
    <3>1. patrol'[e] = patrol[e]
      BY <2>2
    <3>2. TickHist(e, patrol[e]) /\ patrol[e] \in TickRecord
          /\ (patrol[e].pc # "idle" => patrol[e].id \in Ids)
      BY DEF IInv, TypeInv, PatrolTypes
    <3>3. \A i \in patrol[e].todo : Started(i)'
      BY <3>2 DEF TickRecord, TickHist, Kept
    <3>4. ASSUME patrol[e].pc \in Consuming
          PROVE  Started(patrol[e].id)'
      <4>1. Started(patrol[e].id)
        BY <3>2, <3>4 DEF TickHist
      <4>2. patrol[e].id \in Ids
        BY <3>2, <3>4 DEF Consuming
      <4> QED
        BY <3>1, <4>1, <4>2 DEF Kept
    <3>5. UNCHANGED <<admitted, executed, checkpoint, receipt, lease, alive>>
      BY DEF consumerVars
    <3> HIDE DEF Started
    <3> QED
      BY <3>1, <3>2, <3>3, <3>4, <3>5 DEF TickHist
  <2> QED
    BY <2>1, <2>2
<1>4. SettledIsReceipt' /\ Written
  BY DEF IInv, SettledIsReceipt, consumerVars, Written
<1> QED
  BY <1>1, <1>2, <1>3, <1>4 DEF Good, IInv, TypeInv, Forward

\* The tick goes on to a claim it found, or to the slot that is due.
LEMMA AfterIs ==
  ASSUME NEW tick \in TickRecord
  PROVE  /\ After(tick) \in TickRecord
         /\ After(tick).pc \in {"admit", "schedule", "idle"}
         /\ After(tick).todo \subseteq tick.todo
         /\ After(tick).pc = "admit" => After(tick).id \in tick.todo
         /\ After(tick).pc # "idle" => After(tick).id \in Ids
<1>1. CASE tick.todo # {}
  <2> DEFINE i == Earliest(tick.todo)
  <2>1. i \in tick.todo /\ tick.todo \in SUBSET Ids
    BY <1>1, EarliestOf DEF TickRecord
  <2> DEFINE rest == tick.todo \ {i}
  <2>2. After(tick) = [tick EXCEPT !.pc = "admit", !.id = i, !.todo = rest, !.outcome = "none"]
    BY <1>1 DEF After
  <2>3. rest \in SUBSET Ids /\ rest \subseteq tick.todo /\ i \in Ids
    BY <2>1
  <2> HIDE DEF i, rest
  <2> QED
    BY <2>1, <2>2, <2>3 DEF TickRecord, PC
<1>2. CASE tick.todo = {} /\ tick.fresh # NoOccurrence
  <2>1. After(tick) = [tick EXCEPT !.pc = "schedule", !.id = tick.fresh,
                                   !.fresh = NoOccurrence, !.outcome = "none"]
    BY <1>2 DEF After
  <2> QED
    BY <1>2, <2>1 DEF TickRecord, PC
<1>3. CASE tick.todo = {} /\ tick.fresh = NoOccurrence
  <2>1. After(tick) = Idle
    BY <1>3 DEF After
  <2> QED
    BY <2>1 DEF Idle, TickRecord, PC
<1> QED
  BY <1>1, <1>2, <1>3

LEMMA IdleIs == Idle \in TickRecord /\ Idle.pc = "idle" /\ Idle.todo = {}
BY DEF Idle, TickRecord, PC

LEMMA FreshIs ==
  ASSUME PlanTypes, clock \in Nat
  PROVE  Fresh \in Ids \cup {NoOccurrence}
<1>1. plan.revision \in 1 .. MaxRevision
  BY DEF PlanTypes, PlanRecord
<1>2. CASE DueSlots # {}
  <2>1. DueSlots \subseteq 0 .. Slots /\ DueSlots \subseteq 1 .. Slots
    BY DEF DueSlots
  <2>2. Max(DueSlots) \in 1 .. Slots
    BY <1>2, <2>1, MaxOf, PlanAssumption
  <2> QED
    BY <1>1, <2>2 DEF Fresh, Ids
<1>3. CASE DueSlots = {}
  BY <1>3 DEF Fresh
<1> QED
  BY <1>2, <1>3

\* A step of a tick that writes nothing and goes on with its patrol.
LEMMA AfterHist ==
  ASSUME IInv, NEW d \in Daemons, d \in alive, UNCHANGED alive, Kept
  PROVE  /\ After(patrol[d]) \in TickRecord
         /\ After(patrol[d]).pc # "idle" => After(patrol[d]).id \in Ids
         /\ \A t : t = After(patrol[d]) => TickHist(d, t)'
<1>1. /\ patrol[d] \in TickRecord /\ TickHist(d, patrol[d])
  BY DEF IInv, TypeInv, PatrolTypes
<1>2. \A i \in patrol[d].todo : i \in Ids /\ Started(i)'
  BY <1>1 DEF TickRecord, TickHist, Kept
<1>3. ASSUME NEW t, t = After(patrol[d])
      PROVE  TickHist(d, t)'
  <2>1. /\ t.pc \in {"admit", "schedule", "idle"}
        /\ t.todo \subseteq patrol[d].todo
        /\ t.pc = "admit" => t.id \in patrol[d].todo
    BY <1>1, <1>3, AfterIs
  <2>2. (\A i \in t.todo : Started(i)') /\ (t.pc = "admit" => \A i : i = t.id => Started(i)')
    BY <1>2, <2>1
  <2>3. d \in alive'
    OBVIOUS
  <2> QED
    BY <2>1, <2>2, <2>3 DEF TickHist, Consuming
<1> QED
  BY <1>1, <1>3, AfterIs

LEMMA QuietContinue ==
  ASSUME IInv, PlanTypes', Kept, Forward, UNCHANGED <<consumerVars, environmentVars>>,
         \A i \in Ids : claims'[i] # 0 => Started(i)',
         \A i \in Ids : settlements'[i] # "none" => receipt[i] = settlements'[i],
         NEW d \in Daemons, d \in alive, Continue(d)
  PROVE  Good
<1> DEFINE t == After(patrol[d])
<1>1. /\ t \in TickRecord /\ (t.pc # "idle" => t.id \in Ids)
      /\ \A u : u = t => TickHist(d, u)'
  BY AfterHist DEF environmentVars
<1>2. patrol' = [patrol EXCEPT ![d] = t]
  BY DEF Continue
<1>3. UNCHANGED <<lease, alive>> /\ WorldTypes'
  BY DEF IInv, TypeInv, WorldTypes, consumerVars, environmentVars
<1> HIDE DEF t
<1> QED
  BY <1>1, <1>2, <1>3, Quiet

LEMMA QuietThrow ==
  ASSUME IInv, UNCHANGED planVars, WorldTypes', UNCHANGED <<consumerVars, lease, alive>>,
         NEW d \in Daemons, Throw(d)
  PROVE  Good
<1>1. PlanTypes' /\ Kept /\ Forward /\ UNCHANGED <<claims, settlements, occurrence>>
  BY PlanStutters DEF IInv, TypeInv
<1>2. \A i \in Ids : claims'[i] # 0 => Started(i)'
  BY <1>1 DEF IInv, OccurrenceHist, Started
<1>3. \A i \in Ids : settlements'[i] # "none" => receipt[i] = settlements'[i]
  BY <1>1 DEF IInv, SettledIsReceipt
<1>4. \A t : t = Idle => TickHist(d, t)'
  BY IdleIs DEF TickHist, Consuming
<1>5. patrol' = [patrol EXCEPT ![d] = Idle]
  BY DEF Throw
<1> HIDE DEF Idle
<1> QED
  BY <1>1, <1>2, <1>3, <1>4, <1>5, IdleIs, Quiet

LEMMA GotoIs ==
  ASSUME PatrolTypes, NEW d \in Daemons, NEW pc \in PC, Goto(d, pc)
  PROVE  \E t \in TickRecord :
            /\ patrol' = [patrol EXCEPT ![d] = t]
            /\ t.pc = pc /\ t.id = patrol[d].id /\ t.todo = patrol[d].todo
            /\ t.outcome = patrol[d].outcome
<1> DEFINE t == [patrol[d] EXCEPT !.pc = pc]
<1>1. patrol[d] \in TickRecord
  BY DEF PatrolTypes
<1>2. /\ t \in TickRecord /\ t.pc = pc /\ t.id = patrol[d].id
      /\ t.todo = patrol[d].todo /\ t.outcome = patrol[d].outcome
  BY <1>1 DEF TickRecord
<1>3. patrol' = [patrol EXCEPT ![d] = t]
  BY DEF Goto
<1> HIDE DEF t
<1> QED
  BY <1>2, <1>3

LEMMA YieldIs ==
  ASSUME PatrolTypes, NEW d \in Daemons, NEW pc \in PC, NEW o \in Outcomes, Yield(d, pc, o)
  PROVE  \E t \in TickRecord :
            /\ patrol' = [patrol EXCEPT ![d] = t]
            /\ t.pc = pc /\ t.id = patrol[d].id /\ t.todo = patrol[d].todo
            /\ t.outcome = o
<1> DEFINE t == [patrol[d] EXCEPT !.pc = pc, !.outcome = o]
<1>1. patrol[d] \in TickRecord
  BY DEF PatrolTypes
<1>2. /\ t \in TickRecord /\ t.pc = pc /\ t.id = patrol[d].id
      /\ t.todo = patrol[d].todo /\ t.outcome = o
  BY <1>1 DEF TickRecord
<1>3. patrol' = [patrol EXCEPT ![d] = t]
  BY <1>1 DEF Yield, PatrolTypes, TickRecord
<1> HIDE DEF t
<1> QED
  BY <1>2, <1>3

\* What is known of a tick that is at an occurrence.
LEMMA AtIs ==
  ASSUME IInv, NEW d \in Daemons, NEW pc \in PC \ {"idle"}, At(d, pc)
  PROVE  /\ d \in alive /\ patrol[d].pc = pc /\ Id(d) = patrol[d].id /\ Id(d) \in Ids
         /\ patrol[d] \in TickRecord /\ TickHist(d, patrol[d])
         /\ \A i \in patrol[d].todo : i \in Ids /\ Started(i)
BY DEF IInv, TypeInv, PatrolTypes, At, Id, TickHist, TickRecord

\* A step that leaves the plan and the consumer alone and moves a tick that goes
\* on with its occurrence.
LEMMA QuietMove ==
  ASSUME IInv, PlanTypes', Kept, Forward, WorldTypes', UNCHANGED <<consumerVars, lease, alive>>,
         \A i \in Ids : claims'[i] # 0 => Started(i)', UNCHANGED settlements,
         NEW d \in Daemons, d \in alive, NEW t \in TickRecord,
         patrol' = [patrol EXCEPT ![d] = t],
         t.id = patrol[d].id, t.id \in Ids, t.todo = patrol[d].todo,
         t.pc \in Consuming => Started(t.id)',
         t.pc \notin {"dispatch", "commit", "recover", "receipt"},
         t.pc = "settle" => t.outcome \in Outcomes /\ receipt[t.id] = t.outcome
  PROVE  Good
<1>1. \A i \in t.todo : Started(i)'
  BY DEF IInv, TypeInv, PatrolTypes, TickRecord, TickHist, Kept
<1>2. \A i \in Ids : settlements'[i] # "none" => receipt[i] = settlements'[i]
  BY DEF IInv, SettledIsReceipt
<1>3. TickHist(d, t)'
  <2>1. t.pc = "settle" => receipt'[t.id] = t.outcome
    BY DEF consumerVars
  <2> QED
    BY <1>1, <2>1 DEF TickHist
<1> QED
  BY <1>2, <1>3, Quiet

-------------------------------------------------------------------------------
(***************************************************************************)
(* Every step of a tick keeps the invariant.                               *)
(***************************************************************************)
LEMMA ClaimsStay ==
  ASSUME IInv, Kept, UNCHANGED claims
  PROVE  \A i \in Ids : claims'[i] # 0 => Started(i)'
BY DEF IInv, OccurrenceHist, Kept

LEMMA WorldStays ==
  ASSUME IInv, UNCHANGED <<consumerVars, environmentVars>>
  PROVE  WorldTypes' /\ UNCHANGED <<lease, alive>>
BY DEF IInv, TypeInv, WorldTypes, consumerVars, environmentVars

LEMMA SettlementsStay ==
  ASSUME IInv, UNCHANGED settlements
  PROVE  \A i \in Ids : settlements'[i] # "none" => receipt[i] = settlements'[i]
BY DEF IInv, SettledIsReceipt

LEMMA TickStep ==
  ASSUME IInv, NEW d \in Daemons, Tick(d)
  PROVE  Good
<1>1. PICK busy \in BOOLEAN :
        patrol' = [patrol EXCEPT ![d] =
              After([Idle EXCEPT !.todo = Resumable, !.fresh = Fresh, !.busy = busy,
                                 !.early = Fresh # NoOccurrence /\ DueAt(Fresh) > clock,
                                 !.late = Fresh # NoOccurrence /\ DueAt(Fresh) < clock])]
  BY DEF Tick
<1> DEFINE base == [Idle EXCEPT !.todo = Resumable, !.fresh = Fresh, !.busy = busy,
                                !.early = Fresh # NoOccurrence /\ DueAt(Fresh) > clock,
                                !.late = Fresh # NoOccurrence /\ DueAt(Fresh) < clock]
<1>2. base \in TickRecord /\ base.todo = Resumable
  <2>1. Fresh \in Ids \cup {NoOccurrence} /\ Resumable \in SUBSET Ids
    BY FreshIs DEF IInv, TypeInv, WorldTypes, Resumable
  <2> QED
    BY <2>1 DEF Idle, TickRecord, PC
<1>3. \A i \in base.todo : Started(i)
  BY <1>2 DEF Resumable, Started
<1>7. patrol' = [patrol EXCEPT ![d] = After(base)]
  BY <1>1 DEF base
<1> HIDE DEF base
<1>0. PICK t : t = After(base)
  OBVIOUS
<1>4. /\ t \in TickRecord /\ t.pc \in {"admit", "schedule", "idle"}
      /\ t.todo \subseteq base.todo
      /\ t.pc = "admit" => t.id \in base.todo
      /\ t.pc # "idle" => t.id \in Ids
  BY <1>0, <1>2, AfterIs
<1>5. UNCHANGED <<planVars, consumerVars, environmentVars>> /\ d \in alive
  BY DEF Tick, At
<1>6. PlanTypes' /\ Kept /\ Forward /\ UNCHANGED <<claims, settlements, occurrence>>
  BY <1>5, PlanStutters DEF IInv, TypeInv
<1>8. TickHist(d, t)'
  <2>1. \A i \in base.todo : Started(i)'
    BY <1>3, <1>6 DEF Started
  <2>2. d \in alive'
    BY <1>5 DEF environmentVars
  <2> QED
    BY <1>4, <2>1, <2>2 DEF TickHist, Consuming
<1> QED
  BY <1>0, <1>4, <1>5, <1>6, <1>7, <1>8, ClaimsStay, SettlementsStay, WorldStays, Quiet

LEMMA ScheduleSlotStep ==
  ASSUME IInv, NEW d \in Daemons, ScheduleSlot(d)
  PROVE  Good
<1> DEFINE tick == patrol[d]
           state == ScheduledState(tick.id, tick.late, tick.busy)
<1>1. /\ UNCHANGED <<consumerVars, environmentVars>>
      /\ d \in alive /\ tick.pc = "schedule" /\ tick.id \in Ids /\ tick \in TickRecord
  BY AtIs DEF ScheduleSlot, PC, At, IInv, TypeInv, PatrolTypes
<1>2. CASE Schedule(tick.id, tick.late, tick.busy)
  <2>1. PlanTypes' /\ Kept /\ Forward /\ UNCHANGED <<claims, settlements>>
    BY <1>1, <1>2, ScheduleStep DEF IInv, TypeInv
  <2>2. CASE Continue(d)
    BY <1>1, <2>1, <2>2, ClaimsStay, SettlementsStay, QuietContinue
  <2>3. CASE patrol' = [patrol EXCEPT ![d].pc = "claim", ![d].late = FALSE, ![d].busy = FALSE]
    <3> DEFINE t == [tick EXCEPT !.pc = "claim", !.late = FALSE, !.busy = FALSE]
    <3>1. /\ t \in TickRecord /\ t.pc = "claim" /\ t.id = patrol[d].id /\ t.id \in Ids
          /\ t.todo = patrol[d].todo
      BY <1>1 DEF TickRecord, PC
    <3>2. patrol' = [patrol EXCEPT ![d] = t]
      BY <1>1, <2>3 DEF IInv, TypeInv, PatrolTypes, TickRecord
    <3> HIDE DEF t
    <3> QED
      BY <1>1, <2>1, <3>1, <3>2, ClaimsStay, WorldStays, QuietMove DEF Consuming
  <2>4. Continue(d) \/ patrol' = [patrol EXCEPT ![d].pc = "claim", ![d].late = FALSE,
                                               ![d].busy = FALSE]
    BY <1>2, Zenon DEF ScheduleSlot, Schedule
  <2> QED
    BY <2>2, <2>3, <2>4
<1>3. CASE ScheduleRefused(tick.id, tick.busy)
  <2>1. Throw(d) /\ UNCHANGED planVars
    BY <1>3 DEF ScheduleSlot, Schedule
  <2> QED
    BY <1>1, <2>1, WorldStays, QuietThrow
<1> QED
  BY <1>2, <1>3 DEF ScheduleSlot

LEMMA ClaimSlotStep ==
  ASSUME IInv, NEW d \in Daemons, ClaimSlot(d)
  PROVE  Good
<1>1. /\ UNCHANGED <<consumerVars, environmentVars>>
      /\ d \in alive /\ Id(d) = patrol[d].id /\ Id(d) \in Ids /\ patrol[d] \in TickRecord
  BY AtIs DEF ClaimSlot, PC
<1>2. CASE Claim(Id(d), d)
  <2>1. /\ PlanTypes' /\ Kept /\ Forward /\ UNCHANGED settlements
        /\ \A i : i = Id(d) => Started(i)' /\ claims' = [claims EXCEPT ![i] = d]
    BY <1>1, <1>2, ClaimStep DEF IInv, TypeInv
  <2>2. \A i \in Ids : claims'[i] # 0 => Started(i)'
    BY <1>1, <2>1 DEF IInv, OccurrenceHist, Kept, TypeInv, PlanTypes
  <2>3. CASE Continue(d)
    BY <1>1, <2>1, <2>2, <2>3, SettlementsStay, QuietContinue
  <2>4. CASE Goto(d, "admit")
    <3>1. PICK t \in TickRecord :
            /\ patrol' = [patrol EXCEPT ![d] = t]
            /\ t.pc = "admit" /\ t.id = patrol[d].id /\ t.todo = patrol[d].todo
      BY <2>4, GotoIs DEF IInv, TypeInv, PC
    <3>2. Started(t.id)' /\ t.id \in Ids
      BY <1>1, <2>1, <3>1
    <3> QED
      BY <1>1, <2>1, <2>2, <3>1, <3>2, WorldStays, QuietMove
  <2> QED
    BY <1>2, <2>3, <2>4 DEF ClaimSlot, Claim
<1>3. CASE ClaimRefused(Id(d))
  <2>1. Throw(d) /\ UNCHANGED planVars
    BY <1>3 DEF ClaimSlot, Claim
  <2> QED
    BY <1>1, <2>1, WorldStays, QuietThrow
<1> QED
  BY <1>2, <1>3 DEF ClaimSlot

LEMMA AdmitStep ==
  ASSUME IInv, NEW d \in Daemons, Admit(d)
  PROVE  Good
<1>1. /\ UNCHANGED <<planVars, consumerVars, environmentVars>>
      /\ d \in alive /\ Id(d) = patrol[d].id /\ Id(d) \in Ids /\ patrol[d] \in TickRecord
      /\ Started(Id(d))
  BY AtIs DEF Admit, PC, TickHist, Consuming
<1>2. PlanTypes' /\ Kept /\ Forward /\ UNCHANGED <<claims, settlements, occurrence>>
  BY <1>1, PlanStutters DEF IInv, TypeInv
<1>3. CASE Continue(d)
  BY <1>1, <1>2, <1>3, ClaimsStay, SettlementsStay, QuietContinue
<1>4. CASE settlements[Id(d)] # "none" /\ Yield(d, "settle", settlements[Id(d)])
  <2>1. settlements[Id(d)] \in Outcomes /\ receipt[Id(d)] = settlements[Id(d)]
    BY <1>1, <1>4 DEF IInv, TypeInv, PlanTypes, SettledIsReceipt
  <2>2. PICK t \in TickRecord :
          /\ patrol' = [patrol EXCEPT ![d] = t]
          /\ t.pc = "settle" /\ t.id = patrol[d].id /\ t.todo = patrol[d].todo
          /\ t.outcome = settlements[Id(d)]
    BY <1>4, <2>1, YieldIs DEF IInv, TypeInv, PC
  <2>3. Started(t.id)' /\ t.id \in Ids
    BY <1>1, <1>2, <2>2 DEF Kept
  <2> QED
    BY <1>1, <1>2, <2>1, <2>2, <2>3, ClaimsStay, WorldStays, QuietMove
<1>5. CASE Goto(d, "decide")
  <2>1. PICK t \in TickRecord :
          /\ patrol' = [patrol EXCEPT ![d] = t]
          /\ t.pc = "decide" /\ t.id = patrol[d].id /\ t.todo = patrol[d].todo
    BY <1>5, GotoIs DEF IInv, TypeInv, PC
  <2>2. Started(t.id)' /\ t.id \in Ids
    BY <1>1, <1>2, <2>1 DEF Kept
  <2> QED
    BY <1>1, <1>2, <2>1, <2>2, ClaimsStay, WorldStays, QuietMove
<1> QED
  BY <1>3, <1>4, <1>5 DEF Admit

\* A step that leaves the plan and the world alone, writes a record of the
\* consumer, and moves one tick.
LEMMA Writes ==
  ASSUME IInv, UNCHANGED <<planVars, environmentVars>>, WorldTypes', Written, SettledIsReceipt',
         \A i \in Ids : OccurrenceHist(i)',
         NEW d \in Daemons, NEW t \in TickRecord, patrol' = [patrol EXCEPT ![d] = t],
         t.pc # "idle" => t.id \in Ids, TickHist(d, t)',
         \A e \in Daemons \ {d} : \A u : u = patrol[e] => TickHist(e, u)'
  PROVE  Good
<1>1. PatrolTypes'
  BY DEF IInv, TypeInv, PatrolTypes
<1>2. PlanTypes' /\ Kept /\ Forward
  BY PlanStutters DEF IInv, TypeInv
<1>3. ASSUME NEW e \in Daemons
      PROVE  TickHist(e, patrol[e])'
  <2>1. CASE e = d
    <3>1. patrol'[e] = t
      BY <2>1 DEF IInv, TypeInv, PatrolTypes
    <3> QED
      BY <2>1, <3>1 DEF TickHist, Started
  <2>2. CASE e # d
    <3>1. patrol'[e] = patrol[e]
      BY <2>2
    <3>2. \A u : u = patrol[e] => TickHist(e, u)'
      BY <2>2
    <3> QED
      BY <3>1, <3>2 DEF TickHist, Started
  <2> QED
    BY <2>1, <2>2
<1> QED
  BY <1>1, <1>2, <1>3 DEF Good, IInv, TypeInv, Forward

\* What the other ticks remember of the plan is still so.
LEMMA OthersAre ==
  ASSUME IInv, UNCHANGED <<planVars, environmentVars>>, NEW e \in Daemons
  PROVE  /\ patrol[e] \in TickRecord /\ TickHist(e, patrol[e])
         /\ patrol[e].pc # "idle" => patrol[e].id \in Ids /\ e \in alive'
         /\ UNCHANGED <<occurrence, lease, alive>>
BY DEF IInv, TypeInv, PatrolTypes, TickHist, planVars, environmentVars

\* A consumer step that writes nothing moves its tick or throws.
LEMMA QuietConsumer ==
  ASSUME IInv, UNCHANGED <<planVars, consumerVars, environmentVars>>,
         NEW d \in Daemons, NEW pc \in Consuming, At(d, pc),
         \/ Throw(d)
         \/ Yield(d, "recover", "blocked")
         \/ receipt[Id(d)] # "none" /\ Yield(d, "settle", receipt[Id(d)])
  PROVE  Good
<1>1. /\ d \in alive /\ Id(d) = patrol[d].id /\ Id(d) \in Ids /\ patrol[d] \in TickRecord
      /\ Started(Id(d)) /\ \A i \in patrol[d].todo : Started(i)
  BY AtIs DEF PC, TickHist, Consuming
<1>2. PlanTypes' /\ Kept /\ Forward /\ UNCHANGED <<claims, settlements, occurrence>>
  BY PlanStutters DEF IInv, TypeInv
<1>3. CASE Throw(d)
  BY <1>3, WorldStays, QuietThrow
<1>4. CASE Yield(d, "recover", "blocked")
  <2>1. PICK t \in TickRecord :
          /\ patrol' = [patrol EXCEPT ![d] = t]
          /\ t.pc = "recover" /\ t.id = patrol[d].id /\ t.todo = patrol[d].todo
          /\ t.outcome = "blocked"
    BY <1>4, YieldIs DEF IInv, TypeInv, PC, Outcomes
  <2>2. TickHist(d, t)'
    BY <1>1, <1>2, <2>1 DEF TickHist, Started, Outcomes, environmentVars
  <2> QED
    BY <1>1, <1>2, <2>1, <2>2, ClaimsStay, SettlementsStay, WorldStays, Quiet
<1>5. CASE receipt[Id(d)] # "none" /\ Yield(d, "settle", receipt[Id(d)])
  <2>1. receipt[Id(d)] \in Outcomes
    BY <1>1, <1>5 DEF IInv, TypeInv, WorldTypes
  <2>2. PICK t \in TickRecord :
          /\ patrol' = [patrol EXCEPT ![d] = t]
          /\ t.pc = "settle" /\ t.id = patrol[d].id /\ t.todo = patrol[d].todo
          /\ t.outcome = receipt[Id(d)]
    BY <1>5, <2>1, YieldIs DEF IInv, TypeInv, PC
  <2>3. Started(t.id)' /\ t.id \in Ids
    BY <1>1, <1>2, <2>2 DEF Kept
  <2> QED
    BY <1>1, <1>2, <2>1, <2>2, <2>3, ClaimsStay, WorldStays, QuietMove
<1> QED
  BY <1>3, <1>4, <1>5

LEMMA DecideStep ==
  ASSUME IInv, NEW d \in Daemons, Decide(d)
  PROVE  Good
<1> DEFINE i == Id(d)
<1>1. /\ UNCHANGED <<planVars, executed, checkpoint, receipt, environmentVars>>
      /\ At(d, "decide")
  BY DEF Decide
<1>2. /\ d \in alive /\ i = patrol[d].id /\ i \in Ids /\ Started(i)
      /\ \A j \in patrol[d].todo : Started(j)
  BY <1>1, AtIs DEF PC, TickHist, Consuming
<1>3. CASE Phase(d, i) = "first-admission" /\ admitted' = [admitted EXCEPT ![i] = d]
           /\ Goto(d, "dispatch")
  <2>1. admitted[i] = 0
    BY <1>3 DEF Phase, Authority, IInv, TypeInv, WorldTypes
  <2>2. executed[i] = 0
    BY <1>2, <2>1 DEF IInv, OccurrenceHist, TypeInv, WorldTypes
  <2>3. PICK t \in TickRecord :
          /\ patrol' = [patrol EXCEPT ![d] = t]
          /\ t.pc = "dispatch" /\ t.id = patrol[d].id /\ t.todo = patrol[d].todo
    BY <1>3, GotoIs DEF IInv, TypeInv, PC
  <2>4. d # 0 /\ d \in 0 .. Generations /\ admitted \in [Ids -> 0 .. Generations]
    BY ExecutionAssumption DEF Daemons, IInv, TypeInv, WorldTypes
  <2>5. WorldTypes' /\ Written /\ SettledIsReceipt'
    BY <1>1, <1>2, <1>3, <2>1, <2>4
       DEF IInv, TypeInv, WorldTypes, Written, SettledIsReceipt, planVars, environmentVars
  <2>6. \A j \in Ids : OccurrenceHist(j)'
    BY <1>1, <1>2, <1>3, <2>1, <2>4 DEF IInv, OccurrenceHist, Started, planVars
  <2>7. TickHist(d, t)'
    BY <1>1, <1>2, <1>3, <2>2, <2>3, <2>4 DEF TickHist, Started, planVars, environmentVars
  <2>8. ASSUME NEW e \in Daemons \ {d}, NEW u, u = patrol[e]
        PROVE  TickHist(e, u)'
    <3>1. /\ TickHist(e, u) /\ (u.pc # "idle" => u.id \in Ids /\ e \in alive')
          /\ UNCHANGED <<occurrence, lease, alive>>
      BY <1>1, <2>8, OthersAre
    <3>2. u.pc \in {"dispatch", "commit"} => u.id # i
      BY <2>1, <3>1, e \in Daemons DEF TickHist, Daemons
    <3> QED
      BY <1>1, <1>3, <3>1, <3>2 DEF TickHist, Started
  <2> QED
    BY <1>1, <1>2, <2>3, <2>5, <2>6, <2>7, <2>8, Writes
<1>4. CASE Phase(d, i) = "replay" /\ Yield(d, "settle", receipt[i]) /\ UNCHANGED admitted
  <2>1. receipt[i] # "none"
    BY <1>4 DEF Phase, Authority
  <2> QED
    BY <1>1, <1>4, <2>1, QuietConsumer DEF consumerVars, Consuming
<1>5. CASE Yield(d, "recover", "blocked") /\ UNCHANGED admitted
  BY <1>1, <1>5, QuietConsumer DEF consumerVars, Consuming
<1>6. CASE Throw(d) /\ UNCHANGED admitted
  BY <1>1, <1>6, QuietConsumer DEF consumerVars, Consuming
<1> QED
  BY <1>3, <1>4, <1>5, <1>6 DEF Decide

LEMMA DispatchStep ==
  ASSUME IInv, NEW d \in Daemons, Dispatch(d)
  PROVE  Good
<1> DEFINE i == Id(d)
<1>1. /\ UNCHANGED <<planVars, admitted, checkpoint, receipt, environmentVars>>
      /\ At(d, "dispatch")
  BY DEF Dispatch
<1>2. /\ d \in alive /\ i = patrol[d].id /\ i \in Ids /\ Started(i)
      /\ \A j \in patrol[d].todo : Started(j)
      /\ admitted[i] = d /\ executed[i] = 0
  BY <1>1, AtIs DEF PC, TickHist, Consuming
<1>3. CASE executed' = [executed EXCEPT ![i] = @ + 1]
  <2>1. executed' = [executed EXCEPT ![i] = 1] /\ executed \in [Ids -> Nat]
    BY <1>2, <1>3 DEF IInv, TypeInv, WorldTypes
  <2>2. d # 0
    BY DEF Daemons
  <2>3. WorldTypes' /\ Written /\ SettledIsReceipt'
    BY <1>1, <2>1
       DEF IInv, TypeInv, WorldTypes, Written, SettledIsReceipt, planVars, environmentVars
  <2>4. \A j \in Ids : OccurrenceHist(j)'
    BY <1>1, <1>2, <2>1, <2>2 DEF IInv, OccurrenceHist, Started, planVars
  <2>5. ASSUME NEW e \in Daemons \ {d}, NEW u, u = patrol[e]
        PROVE  TickHist(e, u)'
    <3>1. /\ TickHist(e, u) /\ (u.pc # "idle" => u.id \in Ids /\ e \in alive')
          /\ UNCHANGED <<occurrence, lease, alive>>
      BY <1>1, <2>5, OthersAre
    <3>2. u.pc \in {"dispatch", "commit"} => u.id # i
      BY <1>2, <3>1 DEF TickHist
    <3> QED
      BY <1>1, <2>1, <3>1, <3>2 DEF TickHist, Started
  <2>6. CASE \E outcome \in Results : Yield(d, "commit", outcome)
    <3>1. PICK outcome \in Outcomes : Yield(d, "commit", outcome)
      BY <2>6 DEF Outcomes
    <3>2. PICK t \in TickRecord :
            /\ patrol' = [patrol EXCEPT ![d] = t]
            /\ t.pc = "commit" /\ t.id = patrol[d].id /\ t.todo = patrol[d].todo
            /\ t.outcome = outcome
      BY <3>1, YieldIs DEF IInv, TypeInv, PC
    <3>3. TickHist(d, t)'
      BY <1>1, <1>2, <2>1, <3>2 DEF TickHist, Started, planVars, environmentVars
    <3> QED
      BY <1>1, <1>2, <2>3, <2>4, <2>5, <3>2, <3>3, Writes
  <2>7. CASE Throw(d)
    <3>1. patrol' = [patrol EXCEPT ![d] = Idle]
      BY <2>7 DEF Throw
    <3>2. \A t : t = Idle => TickHist(d, t)'
      BY IdleIs DEF TickHist, Consuming
    <3> HIDE DEF Idle
    <3> QED
      BY <1>1, <2>3, <2>4, <2>5, <3>1, <3>2, IdleIs, Writes
  <2> QED
    BY <1>1, <1>2, <1>3, <2>1, <2>6, <2>7 DEF Dispatch
<1>4. CASE Throw(d) /\ UNCHANGED executed
  BY <1>1, <1>4, QuietConsumer DEF consumerVars, Consuming
<1> QED
  BY <1>3, <1>4 DEF Dispatch

LEMMA CommitStep ==
  ASSUME IInv, NEW d \in Daemons, CommitCheckpoint(d)
  PROVE  Good
<1> DEFINE i == Id(d)
           o == patrol[d].outcome
<1>1. /\ UNCHANGED <<planVars, admitted, executed, receipt, environmentVars>>
      /\ At(d, "commit") \/ At(d, "recover")
      /\ GuardFree
  BY DEF CommitCheckpoint
<1>2. /\ d \in alive /\ i = patrol[d].id /\ i \in Ids /\ Started(i)
      /\ \A j \in patrol[d].todo : Started(j)
      /\ o \in Outcomes
      /\ o = "success" => admitted[i] = d /\ executed[i] = 1
  BY <1>1, AtIs DEF PC, TickHist, Consuming
<1>3. CASE OwnsLease(d) /\ Phase(d, i) = Required(patrol[d].pc)
           /\ checkpoint' = [checkpoint EXCEPT ![i] = o] /\ Goto(d, "receipt")
  <2>1. checkpoint[i] = "none" /\ receipt[i] = "none"
    BY <1>3 DEF Phase, Required
  <2>2. PICK t \in TickRecord :
          /\ patrol' = [patrol EXCEPT ![d] = t]
          /\ t.pc = "receipt" /\ t.id = patrol[d].id /\ t.todo = patrol[d].todo
          /\ t.outcome = o
    BY <1>3, GotoIs DEF IInv, TypeInv, PC
  <2>3. lease = d /\ checkpoint \in [Ids -> Outcomes \cup {"none"}]
    BY <1>3 DEF OwnsLease, IInv, TypeInv, WorldTypes
  <2>4. WorldTypes'
    BY <1>1, <1>2, <1>3, <2>3 DEF IInv, TypeInv, WorldTypes, environmentVars
  <2>5. Written
    BY <1>1, <1>2, <1>3, <2>1, <2>3 DEF Written
  <2>6. SettledIsReceipt'
    BY <1>1, <1>3, <2>1 DEF IInv, SettledIsReceipt, planVars
  <2>7. \A j \in Ids : OccurrenceHist(j)'
    BY <1>1 DEF IInv, OccurrenceHist, Started, planVars
  <2>8. TickHist(d, t)'
    BY <1>1, <1>2, <1>3, <2>2, <2>3 DEF TickHist, Started, planVars, environmentVars
  <2>9. ASSUME NEW e \in Daemons \ {d}, NEW u, u = patrol[e]
        PROVE  TickHist(e, u)'
    <3>1. /\ TickHist(e, u) /\ (u.pc # "idle" => u.id \in Ids /\ e \in alive')
          /\ UNCHANGED <<occurrence, lease, alive>>
      BY <1>1, <2>9, OthersAre
    <3>2. u.pc # "receipt"
      BY <1>1, <2>9, <3>1 DEF GuardFree, Guarding, At
    <3> QED
      BY <1>1, <1>3, <3>1, <3>2 DEF TickHist, Started
  <2> QED
    BY <1>1, <1>2, <2>2, <2>4, <2>5, <2>6, <2>7, <2>8, <2>9, Writes
<1>4. CASE Phase(d, i) = "replay" /\ Yield(d, "settle", receipt[i]) /\ UNCHANGED checkpoint
  <2>1. receipt[i] # "none"
    BY <1>4 DEF Phase, Authority
  <2> QED
    BY <1>1, <1>4, <2>1, QuietConsumer DEF consumerVars, Consuming
<1>5. CASE Throw(d) /\ UNCHANGED checkpoint
  BY <1>1, <1>5, QuietConsumer DEF consumerVars, Consuming
<1> QED
  BY <1>3, <1>4, <1>5 DEF CommitCheckpoint

LEMMA ReceiptStep ==
  ASSUME IInv, NEW d \in Daemons, AppendReceipt(d)
  PROVE  Good
<1> DEFINE i == Id(d)
           o == patrol[d].outcome
<1>1. /\ UNCHANGED <<planVars, admitted, executed, checkpoint, environmentVars>>
      /\ At(d, "receipt")
  BY DEF AppendReceipt
<1>2. /\ d \in alive /\ i = patrol[d].id /\ i \in Ids /\ Started(i)
      /\ \A j \in patrol[d].todo : Started(j)
      /\ o \in Outcomes /\ checkpoint[i] = o
  BY <1>1, AtIs DEF PC, TickHist, Consuming
<1>3. CASE receipt' = [receipt EXCEPT ![i] = o] /\ Goto(d, "settle")
  <2>1. receipt \in [Ids -> Outcomes \cup {"none"}] /\ (receipt[i] # "none" => receipt[i] = o)
    BY <1>2 DEF IInv, TypeInv, WorldTypes, SettledIsReceipt
  <2>2. PICK t \in TickRecord :
          /\ patrol' = [patrol EXCEPT ![d] = t]
          /\ t.pc = "settle" /\ t.id = patrol[d].id /\ t.todo = patrol[d].todo
          /\ t.outcome = o
    BY <1>3, GotoIs DEF IInv, TypeInv, PC
  <2>3. WorldTypes'
    BY <1>1, <1>2, <1>3, <2>1 DEF IInv, TypeInv, WorldTypes, environmentVars
  <2>4. Written
    BY <1>1, <1>2, <1>3, <2>1 DEF Written
  <2>5. SettledIsReceipt'
    BY <1>1, <1>2, <1>3, <2>1 DEF IInv, SettledIsReceipt, planVars
  <2>6. \A j \in Ids : OccurrenceHist(j)'
    BY <1>1 DEF IInv, OccurrenceHist, Started, planVars
  <2>7. TickHist(d, t)'
    BY <1>1, <1>2, <1>3, <2>1, <2>2 DEF TickHist, Started, planVars, environmentVars
  <2>8. ASSUME NEW e \in Daemons \ {d}, NEW u, u = patrol[e]
        PROVE  TickHist(e, u)'
    <3>1. /\ TickHist(e, u) /\ (u.pc # "idle" => u.id \in Ids /\ e \in alive')
          /\ UNCHANGED <<occurrence, lease, alive>>
      BY <1>1, <2>8, OthersAre
    <3>2. u.pc = "settle" => receipt'[u.id] = u.outcome
      <4>1. u.pc = "settle" => receipt[u.id] = u.outcome /\ u.outcome # "none"
        BY <3>1, NoneIsNoOutcome DEF TickHist
      <4> QED
        BY <1>2, <1>3, <2>1, <3>1, <4>1
    <3> QED
      BY <1>1, <3>1, <3>2 DEF TickHist, Started
  <2> QED
    BY <1>1, <1>2, <2>2, <2>3, <2>4, <2>5, <2>6, <2>7, <2>8, Writes
<1>4. CASE Throw(d) /\ UNCHANGED receipt
  BY <1>1, <1>4, QuietConsumer DEF consumerVars, Consuming
<1> QED
  BY <1>3, <1>4 DEF AppendReceipt

LEMMA SettleSlotStep ==
  ASSUME IInv, NEW d \in Daemons, Settle(d)
  PROVE  Good
<1> DEFINE i == Id(d)
           o == patrol[d].outcome
<1>1. UNCHANGED <<consumerVars, environmentVars>> /\ At(d, "settle")
  BY DEF Settle
<1>2. /\ d \in alive /\ i \in Ids /\ o \in Outcomes /\ receipt[i] = o
  BY <1>1, AtIs DEF PC, TickHist
<1>3. CASE SettleOccurrence(i, o) /\ Continue(d)
  <2>1. /\ PlanTypes' /\ Kept /\ Forward /\ UNCHANGED claims
        /\ settlements' = [settlements EXCEPT ![i] = o]
    BY <1>2, <1>3, SettleStep DEF IInv, TypeInv
  <2>2. \A j \in Ids : settlements'[j] # "none" => receipt[j] = settlements'[j]
    BY <1>2, <2>1 DEF IInv, TypeInv, PlanTypes, SettledIsReceipt
  <2> QED
    BY <1>1, <1>2, <1>3, <2>1, <2>2, ClaimsStay, QuietContinue
<1>4. CASE Throw(d) /\ UNCHANGED planVars
  BY <1>1, <1>4, QuietConsumer DEF consumerVars, Consuming
<1> QED
  BY <1>3, <1>4 DEF Settle

-------------------------------------------------------------------------------
(***************************************************************************)
(* Every step of the environment keeps the invariant.                      *)
(***************************************************************************)
LEMMA QuietEnvironment ==
  ASSUME IInv, PlanTypes', Kept, Forward, WorldTypes', UNCHANGED <<claims, settlements>>,
         UNCHANGED consumerVars, NEW gone \in SUBSET Daemons,
         patrol' = [d \in Daemons |-> IF d \in gone THEN Idle ELSE patrol[d]],
         alive \ gone \subseteq alive',
         lease' = lease \/ GuardFree
  PROVE  Good
<1>1. PatrolTypes'
  BY IdleIs DEF IInv, TypeInv, PatrolTypes
<1>2. \A i \in Ids : OccurrenceHist(i)'
  BY DEF IInv, OccurrenceHist, consumerVars, Kept
<1>3. ASSUME NEW e \in Daemons
      PROVE  TickHist(e, patrol[e])'
  <2>1. CASE e \in gone
    BY <2>1, IdleIs DEF TickHist, Consuming
  <2>2. CASE e \notin gone
    <3>1. patrol'[e] = patrol[e]
      BY <2>2
    <3>2. TickHist(e, patrol[e]) /\ patrol[e] \in TickRecord
          /\ (patrol[e].pc # "idle" => patrol[e].id \in Ids)
      BY DEF IInv, TypeInv, PatrolTypes
    <3>3. \A i \in patrol[e].todo : Started(i) /\ i \in Ids
      BY <3>2 DEF TickRecord, TickHist
    <3>4. UNCHANGED <<admitted, executed, checkpoint, receipt>>
      BY DEF consumerVars
    <3>5. patrol[e].pc # "idle" => e \in alive'
      BY <2>2, <3>2 DEF TickHist
    <3>6. patrol[e].pc = "receipt" => lease' = lease
      BY <3>2 DEF GuardFree, Guarding, At, TickHist
    <3>7. \A i \in Ids : Started(i) => Started(i)'
      BY DEF Kept
    <3>8. \A u : u = patrol[e] => TickHist(e, u)'
      BY <3>2, <3>3, <3>4, <3>5, <3>6, <3>7 DEF TickHist, Consuming
    <3> QED
      BY <3>1, <3>8 DEF TickHist, Started
  <2> QED
    BY <2>1, <2>2
<1>4. SettledIsReceipt' /\ Written
  BY DEF IInv, SettledIsReceipt, consumerVars, Written
<1> QED
  BY <1>1, <1>2, <1>3, <1>4 DEF Good, IInv, TypeInv, Forward

LEMMA EnvironmentStep ==
  ASSUME IInv, Clock \/ (\E i \in Ids : Grant(i) \/ Expire(i))
  PROVE  Good
<1>1. UNCHANGED <<planVars, consumerVars, patrol, lease, alive>> /\ WorldTypes'
  <2>1. CASE Clock
    BY <2>1 DEF Clock, IInv, TypeInv, WorldTypes, planVars, consumerVars
  <2>2. CASE \E i \in Ids : Grant(i)
    BY <2>2 DEF Grant, IInv, TypeInv, WorldTypes, planVars, consumerVars
  <2>3. CASE \E i \in Ids : Expire(i)
    BY <2>3 DEF Expire, IInv, TypeInv, WorldTypes, planVars, consumerVars
  <2> QED
    BY <2>1, <2>2, <2>3
<1>2. PlanTypes' /\ Kept /\ Forward /\ UNCHANGED <<claims, settlements>>
  BY <1>1, PlanStutters DEF IInv, TypeInv
<1>3. patrol' = [d \in Daemons |-> IF d \in {} THEN Idle ELSE patrol[d]]
  BY <1>1 DEF IInv, TypeInv, PatrolTypes
<1>9. {} \in SUBSET Daemons /\ alive \ {} \subseteq alive' /\ (lease' = lease \/ GuardFree)
  BY <1>1
<1> QED
  BY <1>1, <1>2, <1>3, <1>9, QuietEnvironment

LEMMA ControlledStep ==
  ASSUME IInv, Controlled
  PROVE  Good
<1>1. Control /\ UNCHANGED <<consumerVars, environmentVars, patrol>>
  BY DEF Controlled
<1>2. PlanTypes' /\ Kept /\ Forward /\ UNCHANGED <<claims, settlements>>
  BY <1>1, ControlStep DEF IInv, TypeInv
<1>3. patrol' = [d \in Daemons |-> IF d \in {} THEN Idle ELSE patrol[d]]
  BY <1>1 DEF IInv, TypeInv, PatrolTypes
<1>9. {} \in SUBSET Daemons /\ alive \ {} \subseteq alive' /\ (lease' = lease \/ GuardFree)
  BY <1>1 DEF environmentVars
<1> QED
  BY <1>1, <1>2, <1>3, <1>9, WorldStays, QuietEnvironment

LEMMA CrashStep ==
  ASSUME IInv, NEW d \in Daemons, Crash(d)
  PROVE  Good
<1>1. /\ UNCHANGED <<planVars, consumerVars, lease>> /\ alive' = alive \ {d}
      /\ patrol' = [patrol EXCEPT ![d] = Idle]
  BY DEF Crash
<1>2. PlanTypes' /\ Kept /\ Forward /\ UNCHANGED <<claims, settlements>>
  BY <1>1, PlanStutters DEF IInv, TypeInv
<1>3. WorldTypes'
  BY DEF Crash, IInv, TypeInv, WorldTypes, consumerVars
<1>4. patrol' = [e \in Daemons |-> IF e \in {d} THEN Idle ELSE patrol[e]]
  BY <1>1 DEF IInv, TypeInv, PatrolTypes
<1> QED
  BY <1>1, <1>2, <1>3, <1>4, QuietEnvironment

LEMMA TakeoverStep ==
  ASSUME IInv, Takeover
  PROVE  Good
<1>1. UNCHANGED <<planVars, consumerVars, patrol>> /\ alive \subseteq alive' /\ GuardFree
  BY DEF Takeover
<1>2. PlanTypes' /\ Kept /\ Forward /\ UNCHANGED <<claims, settlements>>
  BY <1>1, PlanStutters DEF IInv, TypeInv
<1>3. WorldTypes'
  <2>1. lease + 1 \in Daemons
    BY ExecutionAssumption DEF Takeover, IInv, TypeInv, WorldTypes, Daemons
  <2> QED
    BY <2>1 DEF Takeover, IInv, TypeInv, WorldTypes, consumerVars
<1>4. patrol' = [d \in Daemons |-> IF d \in {} THEN Idle ELSE patrol[d]]
  BY <1>1 DEF IInv, TypeInv, PatrolTypes
<1>9. {} \in SUBSET Daemons /\ alive \ {} \subseteq alive' /\ (lease' = lease \/ GuardFree)
  BY <1>1
<1> QED
  BY <1>1, <1>2, <1>3, <1>4, <1>9, QuietEnvironment

-------------------------------------------------------------------------------
(***************************************************************************)
(* The invariant, and what follows from it.                                *)
(***************************************************************************)
LEMMA InitHolds == Init => IInv
<1> SUFFICES ASSUME Init
             PROVE  IInv
  OBVIOUS
<1>1. PlanTypes
  <2>1. 1 \in 1 .. MaxRevision /\ 0 \in 0 .. MaxRevision /\ 0 \in 0 .. Slots
        /\ 0 \in 0 .. Generations
    BY PlanAssumption, ExecutionAssumption
  <2>2. plan \in PlanRecord /\ plan.modified <= plan.revision
    BY <2>1 DEF Init, PlanInit, PlanRecord
  <2> QED
    BY <2>1, <2>2 DEF Init, PlanInit, PlanTypes, States
<1>2. WorldTypes
  BY ExecutionAssumption DEF Init, WorldTypes, Daemons
<1>3. PatrolTypes /\ \A d \in Daemons : TickHist(d, patrol[d])
  BY IdleIs DEF Init, PatrolTypes, TickHist, Consuming
<1>4. \A i \in Ids : OccurrenceHist(i)
  BY DEF Init, PlanInit, OccurrenceHist
<1>5. ProgressIsEarned /\ SettledIsReceipt
  BY DEF Init, PlanInit, ProgressIsEarned, SettledIsReceipt
<1> QED
  BY <1>1, <1>2, <1>3, <1>4, <1>5 DEF IInv, TypeInv

LEMMA NextStep == IInv /\ [Next]_vars => Good
<1> SUFFICES ASSUME IInv, [Next]_vars
             PROVE  Good
  OBVIOUS
<1>1. CASE \E d \in Daemons : Patrol(d)
  BY <1>1, TickStep, ScheduleSlotStep, ClaimSlotStep, AdmitStep, DecideStep, DispatchStep,
     CommitStep, ReceiptStep, SettleSlotStep DEF Patrol
<1>2. CASE \E d \in Daemons : Crash(d)
  BY <1>2, CrashStep
<1>3. CASE Clock \/ (\E i \in Ids : Grant(i) \/ Expire(i))
  BY <1>3, EnvironmentStep
<1>4. CASE Controlled
  BY <1>4, ControlledStep
<1>5. CASE Takeover
  BY <1>5, TakeoverStep
<1>6. CASE UNCHANGED vars
  <2>1. UNCHANGED <<planVars, consumerVars, environmentVars, patrol>>
    BY <1>6 DEF vars
  <2>2. PlanTypes' /\ Kept /\ Forward /\ UNCHANGED <<claims, settlements>>
    BY <2>1, PlanStutters DEF IInv, TypeInv
  <2>3. patrol' = [d \in Daemons |-> IF d \in {} THEN Idle ELSE patrol[d]]
    BY <2>1 DEF IInv, TypeInv, PatrolTypes
  <2>4. {} \in SUBSET Daemons /\ alive \ {} \subseteq alive' /\ (lease' = lease \/ GuardFree)
    BY <2>1 DEF environmentVars
  <2> QED
    BY <2>1, <2>2, <2>3, <2>4, WorldStays, QuietEnvironment
<1> QED
  BY <1>1, <1>2, <1>3, <1>4, <1>5, <1>6 DEF Next

\* What a tick remembers between two awaits is still so when it goes on
\* (scheduler.ts patrol, occurrence-consumer.ts execute).
THEOREM InvariantHolds == Spec => []IInv
<1>1. IInv /\ [Next]_vars => IInv'
  BY NextStep DEF Good
<1> QED
  BY InitHolds, <1>1, PTL DEF Spec

\* The type invariant of plans, claims, checkpoints, receipts and leases.
THEOREM TypeCorrect == Spec => []TypeOK
<1>1. IInv => TypeOK
  BY DEF IInv, TypeInv, PlanTypes, PlanRecord, States, WorldTypes, TypeOK
<1> QED
  BY InvariantHolds, <1>1, PTL

\* guardedAdmission: no child is executed twice, whichever daemons resume the
\* claim and however their dispatches end.
THEOREM Once == Spec => []ExecutedOnce
<1>1. IInv => ExecutedOnce
  BY DEF IInv, OccurrenceHist, ExecutedOnce
<1> QED
  BY InvariantHolds, <1>1, PTL

\* commitTerminal and settleOccurrence: a settlement is the durable receipt, and
\* the receipt is the checkpoint.
THEOREM Receipts == Spec => []SettledIsReceipt
<1>1. IInv => SettledIsReceipt
  BY DEF IInv
<1> QED
  BY InvariantHolds, <1>1, PTL

\* advanceClaimProgress and the controls: the progress of a plan is earned by a
\* slot of the policy it has.
THEOREM Earned == Spec => []ProgressIsEarned
<1>1. IInv => ProgressIsEarned
  BY DEF IInv
<1> QED
  BY InvariantHolds, <1>1, PTL

\* withCurrentDaemonOwner: a checkpoint is written once, a success by the daemon
\* that was admitted, has executed and owns the lease.
THEOREM Owners == Spec => OutcomeIsTheOwners
<1>1. IInv /\ [Next]_vars =>
        [\A i \in Ids : checkpoint'[i] # checkpoint[i] =>
            /\ checkpoint[i] = "none"
            /\ checkpoint'[i] = "success" => executed[i] = 1 /\ admitted[i] = lease]_vars
  BY NextStep DEF Good, Written
<1> QED
  BY InvariantHolds, <1>1, PTL DEF Spec, OutcomeIsTheOwners

\* claim and consume: what a control or a policy has closed is not run by a tick
\* that had read it open.
THEOREM Closed == Spec => ClosedNeverRuns
<1>1. IInv /\ [Next]_vars =>
        [\A i \in Ids : occurrence[i] \in {"skipped-busy", "invalidated"} =>
            /\ occurrence'[i] = occurrence[i]
            /\ claims'[i] = 0 /\ admitted'[i] = 0 /\ executed'[i] = 0]_vars
  <2> SUFFICES ASSUME IInv, [Next]_vars, NEW i \in Ids,
                      occurrence[i] \in {"skipped-busy", "invalidated"}
               PROVE  /\ occurrence'[i] = occurrence[i]
                      /\ claims'[i] = 0 /\ admitted'[i] = 0 /\ executed'[i] = 0
    OBVIOUS
  <2>1. IInv' /\ occurrence'[i] = occurrence[i]
    BY NextStep DEF Good, Kept
  <2>2. OccurrenceHist(i)' /\ ~Started(i)'
    BY <2>1 DEF IInv, Started
  <2>3. executed'[i] \in Nat
    BY <2>1 DEF IInv, TypeInv, WorldTypes
  <2> QED
    BY <2>1, <2>2, <2>3 DEF OccurrenceHist
<1> QED
  BY InvariantHolds, <1>1, PTL DEF Spec, ClosedNeverRuns

\* Settlements, receipts and admissions are kept, and progress is lost by a
\* modification only (maximumOrdinal, applySettlement).
THEOREM History == Spec => HistoryIsKept
<1>1. IInv /\ [Next]_vars =>
        [/\ \A i \in Ids :
               /\ settlements[i] # "none" => settlements'[i] = settlements[i]
               /\ receipt[i] # "none" => receipt'[i] = receipt[i]
               /\ admitted[i] # 0 => admitted'[i] = admitted[i]
         /\ plan'.ordinal < plan.ordinal => plan'.modified > plan.modified]_vars
  BY NextStep DEF Good, Written, Kept, Forward
<1> QED
  BY InvariantHolds, <1>1, PTL DEF Spec, HistoryIsKept

===============================================================================
