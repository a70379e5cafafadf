-------------------------- MODULE OccurrenceExecution --------------------------
(* The scheduler of every daemon patrols the plan and drives its claimed       *)
(* occurrences through the durable consumer, under the supervisor's lease      *)
(* (packages/app/src/ui-runtime/scheduler.ts, occurrence-consumer.ts,           *)
(* packages/app/src/supervisor/supervisor.ts). One action is the code a patrol  *)
(* runs between two awaits that matter: a read, a transaction, the dispatch.   *)
EXTENDS SubscriptionControl

CONSTANTS
    Period,       \* clock units between two slots
    Generations,  \* bound: daemons, one after the other
    Waits,        \* children may wait for the grant of their user
    LiveTakeover, \* the lease may be taken over while its owner lives
    Faults        \* "dispatch", "receipt", "expiry", "crash"

ASSUME ExecutionAssumption ==
    /\ Period \in Nat \ {0} /\ Generations \in Nat \ {0}
    /\ Waits \in BOOLEAN /\ LiveTakeover \in BOOLEAN

VARIABLES
    clock,        \* time, in the scheduler's units
    lease,        \* generation of the daemon that has the supervisor's lease
    alive,        \* daemons whose process runs
    patrol,       \* the local variables of each daemon's tick
    granted,      \* occurrences whose child has its grant
    expired,      \* claims whose lease has expired
    admitted,     \* the daemon admitted to execute, 0 when nobody is
    executed,     \* the real world: how often the child was executed
    checkpoint,   \* the terminal checkpoint
    receipt       \* the terminal receipt

consumerVars == <<admitted, executed, checkpoint, receipt>>
environmentVars == <<clock, lease, alive, granted, expired>>
vars == <<planVars, consumerVars, environmentVars, patrol>>

Daemons == 1 .. Generations
DueAt(i) == Period * Ordinal(i)

Idle == [pc |-> "idle", todo |-> {}, fresh |-> NoOccurrence, early |-> FALSE,
         late |-> FALSE, busy |-> FALSE, id |-> NoOccurrence, outcome |-> "none"]

Init ==
    /\ PlanInit
    /\ clock = 0 /\ lease = 1 /\ alive = {1}
    /\ patrol = [d \in Daemons |-> Idle]
    /\ granted = {} /\ expired = {}
    /\ admitted = [i \in Ids |-> 0]
    /\ executed = [i \in Ids |-> 0]
    /\ checkpoint = [i \in Ids |-> "none"]
    /\ receipt = [i \in Ids |-> "none"]

----------------------------------------------------------------------------
\* one tick

At(d, pc) == d \in alive /\ patrol[d].pc = pc
Id(d) == patrol[d].id

\* The order occurrences were added to the plan in.
Earlier(i, j) == Revision(i) < Revision(j) \/ (Revision(i) = Revision(j) /\ Ordinal(i) < Ordinal(j))
Earliest(ids) == CHOOSE i \in ids : \A j \in ids \ {i} : Earlier(i, j)

\* Where the tick goes on after an occurrence: the claims it resumes come
\* first, then the slot that has come due.
After(tick) ==
    IF tick.todo # {}
    THEN [tick EXCEPT !.pc = "admit", !.id = Earliest(tick.todo),
                      !.todo = @ \ {Earliest(tick.todo)}, !.outcome = "none"]
    ELSE IF tick.fresh # NoOccurrence
    THEN [tick EXCEPT !.pc = "schedule", !.id = tick.fresh, !.fresh = NoOccurrence,
                      !.outcome = "none"]
    ELSE Idle

Goto(d, pc) == patrol' = [patrol EXCEPT ![d].pc = pc]
Yield(d, pc, outcome) == patrol' = [patrol EXCEPT ![d].pc = pc, ![d].outcome = outcome]
Continue(d) == patrol' = [patrol EXCEPT ![d] = After(@)]
\* A throw ends the patrol of the plan.
Throw(d) == patrol' = [patrol EXCEPT ![d] = Idle]

\* Mutant: a claim of an earlier revision is not resumed.
ResumableNow ==
    {i \in Ids : occurrence[i] = "claimed" /\ Revision(i) = plan.revision /\ DueAt(i) <= clock}

Resumable == {i \in Ids : occurrence[i] = "claimed" /\ DueAt(i) <= clock}

\* The latest slot of the schedule that is due, or will be within the grace.
DueSlots == {k \in 1 .. Slots : k <= Limit /\ Period * k <= clock + 1}

\* The slot a tick may schedule, from the state it has read.
Fresh ==
    LET i == <<plan.revision, Max(DueSlots)>>
    IN  IF plan.state # "active" \/ DueSlots = {} THEN NoOccurrence
        ELSE IF claims[i] # 0 THEN NoOccurrence
        ELSE i

Tick(d) ==
    /\ At(d, "idle")
    /\ Resumable # {} \/ Fresh # NoOccurrence
    /\ \E busy \in IF Fresh = NoOccurrence THEN {FALSE} ELSE BOOLEAN :
          patrol' = [patrol EXCEPT ![d] =
              After([Idle EXCEPT !.todo = Resumable, !.fresh = Fresh, !.busy = busy,
                                 !.early = Fresh # NoOccurrence /\ DueAt(Fresh) > clock,
                                 !.late = Fresh # NoOccurrence /\ DueAt(Fresh) < clock])]
    /\ UNCHANGED <<planVars, consumerVars, environmentVars>>

\* port.schedule
ScheduleSlot(d) ==
    /\ At(d, "schedule")
    /\ LET tick == patrol[d]
           state == ScheduledState(tick.id, tick.late, tick.busy)
       IN  \/ /\ Schedule(tick.id, tick.late, tick.busy)
              /\ IF state = "due"
                 THEN patrol' = [patrol EXCEPT ![d].pc = "claim", ![d].late = FALSE,
                                               ![d].busy = FALSE]
                 ELSE Continue(d)
           \/ /\ ScheduleRefused(tick.id, tick.busy)
              /\ Throw(d)
              /\ UNCHANGED planVars
    /\ UNCHANGED <<consumerVars, environmentVars>>

\* port.claim; the child runs no earlier than its slot.
ClaimSlot(d) ==
    /\ At(d, "claim")
    /\ \/ /\ Claim(Id(d), d)
          /\ IF patrol[d].early THEN Continue(d) ELSE Goto(d, "admit")
       \/ /\ ClaimRefused(Id(d))
          /\ Throw(d)
          /\ UNCHANGED planVars
    /\ UNCHANGED <<consumerVars, environmentVars>>

\* admitOccurrence, and what consumeExecution reads first.
Admit(d) ==
    /\ At(d, "admit")
    /\ \/ Waits /\ Id(d) \notin granted /\ Continue(d)
       \/ /\ ~Waits \/ Id(d) \in granted
          /\ IF settlements[Id(d)] # "none" THEN Yield(d, "settle", settlements[Id(d)])
             ELSE Goto(d, "decide")
    /\ UNCHANGED <<planVars, consumerVars, environmentVars>>

----------------------------------------------------------------------------
\* the durable consumer

\* A daemon that writes its receipt holds the guard of the lease file.
Guarding(d) == At(d, "receipt")
GuardFree == \A d \in Daemons : ~Guarding(d)

\* Mutant: a daemon that runs takes itself for the owner.
OwnsLeaseAlive(d) == d \in alive

\* withCurrentDaemonOwner throws at a daemon whose lease was replaced.
OwnsLease(d) == lease = d

\* Mutant: an admission of the daemon itself counts as none.
AuthorityReadmits(d, i) ==
    IF admitted[i] \in {0, d} THEN (IF i \in expired THEN "lease-expired" ELSE "first-admission")
    ELSE "recovery-allowed"

\* decideOccurrenceAuthority, once there is neither receipt nor checkpoint.
Authority(d, i) ==
    IF admitted[i] = 0 THEN (IF i \in expired THEN "lease-expired" ELSE "first-admission")
    ELSE IF admitted[i] < d THEN "recovery-allowed"
    ELSE IF i \in expired THEN "lease-expired"
    ELSE "current-owner"

Phase(d, i) ==
    IF receipt[i] # "none" THEN "replay"
    ELSE IF checkpoint[i] # "none" THEN "checkpoint-only"
    ELSE Authority(d, i)

\* guardedAdmission: the first admission is written with the decision.
Decide(d) ==
    /\ At(d, "decide") /\ GuardFree
    /\ LET i == Id(d)
           phase == Phase(d, i)
       IN  \/ /\ OwnsLease(d) /\ phase = "first-admission"
              /\ admitted' = [admitted EXCEPT ![i] = d]
              /\ Goto(d, "dispatch")
           \/ /\ OwnsLease(d) /\ phase = "replay"
              /\ Yield(d, "settle", receipt[i])
              /\ UNCHANGED admitted
           \/ /\ OwnsLease(d) /\ phase = "recovery-allowed"
              /\ Yield(d, "recover", "blocked")
              /\ UNCHANGED admitted
           \/ /\ ~OwnsLease(d) \/ phase \notin {"first-admission", "replay", "recovery-allowed"}
              /\ Throw(d)
              /\ UNCHANGED admitted
    /\ UNCHANGED <<planVars, executed, checkpoint, receipt, environmentVars>>

\* The child is executed outside the guard; it may also be refused, or fail to
\* become terminal in time.
Dispatch(d) ==
    /\ At(d, "dispatch")
    /\ \/ /\ executed' = [executed EXCEPT ![Id(d)] = @ + 1]
          /\ \/ \E outcome \in Results : Yield(d, "commit", outcome)
             \/ "dispatch" \in Faults /\ Throw(d)
       \/ "dispatch" \in Faults /\ Throw(d) /\ UNCHANGED executed
    /\ UNCHANGED <<planVars, admitted, checkpoint, receipt, environmentVars>>

\* What commitTerminal must find: the owner commits what it dispatched, its
\* replacement only that the execution is blocked.
Required(pc) == IF pc = "commit" THEN "current-owner" ELSE "recovery-allowed"

CommitCheckpoint(d) ==
    /\ At(d, "commit") \/ At(d, "recover")
    /\ GuardFree
    /\ LET i == Id(d)
           phase == Phase(d, i)
       IN  \/ /\ OwnsLease(d) /\ phase = Required(patrol[d].pc)
              /\ checkpoint' = [checkpoint EXCEPT ![i] = patrol[d].outcome]
              /\ Goto(d, "receipt")
           \/ /\ OwnsLease(d) /\ phase = "replay"
              /\ Yield(d, "settle", receipt[i])
              /\ UNCHANGED checkpoint
           \/ /\ ~OwnsLease(d) \/ phase \notin {"replay", Required(patrol[d].pc)}
              /\ Throw(d)
              /\ UNCHANGED checkpoint
    /\ UNCHANGED <<planVars, admitted, executed, receipt, environmentVars>>

\* Mutant: a receipt that could not be appended is settled all the same.
AppendReceiptLoosely(d) ==
    /\ At(d, "receipt")
    /\ \/ receipt' = [receipt EXCEPT ![Id(d)] = patrol[d].outcome]
       \/ "receipt" \in Faults /\ UNCHANGED receipt
    /\ Goto(d, "settle")
    /\ UNCHANGED <<planVars, admitted, executed, checkpoint, environmentVars>>

AppendReceipt(d) ==
    /\ At(d, "receipt")
    /\ \/ /\ receipt' = [receipt EXCEPT ![Id(d)] = patrol[d].outcome]
          /\ Goto(d, "settle")
       \/ "receipt" \in Faults /\ Throw(d) /\ UNCHANGED receipt
    /\ UNCHANGED <<planVars, admitted, executed, checkpoint, environmentVars>>

\* port.settleOccurrence
Settle(d) ==
    /\ At(d, "settle")
    /\ \/ /\ SettleOccurrence(Id(d), patrol[d].outcome)
          /\ Continue(d)
       \/ /\ SettleRefused(Id(d), patrol[d].outcome)
          /\ Throw(d)
          /\ UNCHANGED planVars
    /\ UNCHANGED <<consumerVars, environmentVars>>

Patrol(d) ==
    \/ Tick(d) \/ ScheduleSlot(d) \/ ClaimSlot(d) \/ Admit(d) \/ Decide(d)
    \/ Dispatch(d) \/ CommitCheckpoint(d) \/ AppendReceipt(d) \/ Settle(d)

----------------------------------------------------------------------------
\* the environment

Clock ==
    /\ clock < Period * Slots + 1
    /\ clock' = clock + 1
    /\ UNCHANGED <<planVars, consumerVars, lease, alive, granted, expired, patrol>>

Controlled ==
    /\ Control
    /\ UNCHANGED <<consumerVars, environmentVars, patrol>>

\* The user grants the prepared child.
Grant(i) ==
    /\ Waits /\ occurrence[i] = "claimed" /\ i \notin granted
    /\ granted' = granted \cup {i}
    /\ UNCHANGED <<planVars, consumerVars, clock, lease, alive, expired, patrol>>

\* A lease that expires later is not looked at any more.
Expire(i) ==
    /\ "expiry" \in Faults /\ occurrence[i] = "claimed" /\ checkpoint[i] = "none"
    /\ i \notin expired
    /\ expired' = expired \cup {i}
    /\ UNCHANGED <<planVars, consumerVars, clock, lease, alive, granted, patrol>>

Crash(d) ==
    /\ "crash" \in Faults /\ d \in alive
    /\ alive' = alive \ {d}
    /\ patrol' = [patrol EXCEPT ![d] = Idle]
    /\ UNCHANGED <<planVars, consumerVars, clock, lease, granted, expired>>

\* acquireDaemonLease: the next generation, written under the guard.
Takeover ==
    /\ lease < Generations /\ GuardFree
    /\ LiveTakeover \/ lease \notin alive
    /\ lease' = lease + 1
    /\ alive' = alive \cup {lease + 1}
    /\ UNCHANGED <<planVars, consumerVars, clock, granted, expired, patrol>>

Next ==
    \/ \E d \in Daemons : Patrol(d) \/ Crash(d)
    \/ \E i \in Ids : Grant(i) \/ Expire(i)
    \/ Clock \/ Controlled \/ Takeover

Spec == Init /\ [][Next]_vars

\* A daemon goes on with its tick and starts the next one: timers fire, and
\* files, transactions and the child's terminal event answer.
FairSpec == Spec /\ \A d \in Daemons : WF_vars(Patrol(d))
=============================================================================
