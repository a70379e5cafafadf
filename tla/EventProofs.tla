------------------------------- MODULE EventProofs -------------------------------
(***************************************************************************)
(* Theorems about the consumption of events, for any streams, messages and *)
(* overlapping calls, every retry limit, and whatever handlers, drivers    *)
(* and registrations answer.                                               *)
(*                                                                         *)
(* A call acts on what it read before.  The invariant says what it may     *)
(* still rely on: the journal only grows, so that a receipt, a dead letter,*)
(* an exhausted obligation and a settled operation it has seen are there   *)
(* when it commits, and its event is at most one after the cursor.         *)
(***************************************************************************)
EXTENDS EventProperties, SequenceTheorems, TLAPS

-------------------------------------------------------------------------------
(* What may be said of the journal, and how it grows. *)

Done == {"settled", "reconciled"}

ObligationOK(o) ==
    /\ o.state = "none" => o.attempt = 0
    /\ o.state = "pending" => o.attempt < RetryLimit
    /\ o.state = "exhausted" => o.attempt = RetryLimit

JournalInv ==
    /\ JournalTypeOK
    /\ \A e \in Events : ObligationOK(obligation[e])
    /\ AppliedIsSettled /\ FailedIsDeadLettered

LogGrows ==
    \A s \in Streams :
       Len(log[s]) <= Len(log'[s]) /\ \A i \in 1 .. Len(log[s]) : log'[s][i] = log[s][i]
ReceiptsStay == \A e \in Events : receipt[e] # "none" => receipt'[e] = receipt[e]
ObligationsAdvance ==
    \A e \in Events :
       obligation'[e] # obligation[e] =>
          /\ obligation[e].state # "exhausted"
          /\ obligation'[e].attempt = obligation[e].attempt + 1
OperationsStay == \A m \in Messages : operation[m] \in Done => operation'[m] \in Done

Grows ==
    /\ LogGrows /\ ReceiptsStay /\ ObligationsAdvance /\ OperationsStay
    /\ \A s \in Streams : cursor[s] <= cursor'[s]
    /\ deadLetters \subseteq deadLetters'

-------------------------------------------------------------------------------
(* What may be said of a call. *)

Call_ == [pc : Awaits, left : SUBSET Streams, stream : Streams \cup {NoStream},
          at : Nat, upto : Nat, attempt : Nat,
          plan : {"none", "duplicate", "exhausted", "wait", "prepare"},
          result : {"none", "applied", "rejected", "retry", "barrier"},
          refusal : {"none", "stale", "rejected"}, canonical : Streams \cup {NoStream}]

Msg(c) == log[c.stream][c.at]
Evt(c) == <<c.stream, Msg(c)>>

\* The call is in a stream.
InStream(c) ==
    /\ c.stream \in Streams /\ c.at # 0
    /\ c.upto <= Len(log[c.stream])
    /\ c.at <= cursor[c.stream] + 1

\* The call is at an event.
AtEvent(c) ==
    /\ c.at <= c.upto
    /\ c.attempt <= obligation[Evt(c)].attempt + 1
    /\ c.canonical # NoStream => receipt[<<c.canonical, Msg(c)>>] # "none"

\* What its next step relies on.
PlanOK(c) ==
    /\ c.pc = "confirm" => c.plan # "none"
    /\ c.pc = "confirm" /\ c.plan = "duplicate" => c.canonical # NoStream
    /\ c.pc = "confirm" /\ c.plan = "exhausted" => obligation[Evt(c)].state = "exhausted"
    /\ c.pc = "duplicate" => c.canonical # NoStream
    /\ c.pc \in {"canonical", "terminal"} => c.refusal # "none"

ResultOK(c) ==
    /\ c.pc \in {"authorizeResult", "authorizeCommit", "commit", "authorizeRecovery"} =>
          c.result # "none" /\ (Msg(c) \in Barriered => c.result # "applied")
    /\ c.pc \in {"authorizeCommit", "commit"} => c.result # "retry"
    /\ c.pc \in {"persist", "execute", "check", "reconcile", "checkRecovery",
                 "recoveryReceipt", "authorizeRecovered"} => c.result = "barrier"
    /\ /\ c.pc \in {"authorizeResult", "authorizeCommit", "commit", "recoveryReceipt",
                    "authorizeRecovered"}
       /\ Msg(c) \in Barriered /\ c.result = "barrier"
       => operation[Msg(c)] \in Done

ExhaustionOK(c) ==
    /\ c.pc \in {"deadLetter", "exhausted", "recoverExhausted"} =>
          obligation[Evt(c)].state = "exhausted"
    /\ c.pc = "exhausted" => Evt(c) \in deadLetters

Sane(c) ==
    /\ c \in Call_ /\ c.attempt <= RetryLimit
    /\ c.pc \notin {"idle", "open"} => InStream(c)
    /\ c.pc = "event" => c.attempt = 0 /\ c.canonical = NoStream
    /\ c.pc \notin {"idle", "open", "event"} =>
          AtEvent(c) /\ PlanOK(c) /\ ResultOK(c) /\ ExhaustionOK(c)

Inv ==
    /\ JournalInv
    /\ binding \in Bindings
    /\ calls \in 0 .. MaxCalls /\ changes \in 0 .. MaxChanges
    /\ worker \in [Workers -> Call_]
    /\ \A w \in Workers : Sane(worker[w])

-------------------------------------------------------------------------------
(* The event of a call. *)

LEMMA EventTyped ==
  ASSUME JournalTypeOK, NEW c, Sane(c), c.pc \notin {"idle", "open", "event"}
  PROVE  /\ c.stream \in Streams /\ c.at \in 1 .. Len(log[c.stream])
         /\ Len(log[c.stream]) \in Nat
         /\ Msg(c) \in Messages /\ Evt(c) \in Events
<1>1. /\ c.stream \in Streams /\ c.at \in Nat \ {0} /\ c.upto \in Nat /\ c.at <= c.upto
      /\ c.upto <= Len(log[c.stream])
  BY DEF Sane, InStream, AtEvent, Call_
<1>2. log[c.stream] \in Seq(Messages)
  BY <1>1 DEF JournalTypeOK
<1>3. Len(log[c.stream]) \in Nat
  BY <1>2, LenProperties
<1>4. c.at \in 1 .. Len(log[c.stream])
  BY <1>1, <1>3
<1>5. Msg(c) \in Messages
  BY <1>2, <1>4, ElementOfSeq DEF Msg
<1> QED
  BY <1>1, <1>3, <1>4, <1>5 DEF Evt, Events

\* What a call relies on stays true while others commit.
LEMMA SaneStays ==
  ASSUME JournalTypeOK, JournalTypeOK', Grows, NEW c, Sane(c)
  PROVE  Sane(c)'
<1>1. CASE c.pc \in {"idle", "open"}
  BY <1>1 DEF Sane
<1>2. CASE c.pc \notin {"idle", "open"}
  <2>1. InStream(c)
    BY <1>2 DEF Sane
  <2>2. /\ c.stream \in Streams /\ c.at \in Nat /\ c.upto \in Nat
        /\ Len(log[c.stream]) \in Nat /\ Len(log'[c.stream]) \in Nat
        /\ cursor[c.stream] \in Nat /\ cursor'[c.stream] \in Nat
    BY <2>1, LenProperties DEF InStream, Sane, Call_, JournalTypeOK
  <2>3. InStream(c)'
    BY <2>1, <2>2 DEF InStream, Grows, LogGrows
  <2>4. ASSUME c.pc # "event"
        PROVE  AtEvent(c)' /\ PlanOK(c)' /\ ResultOK(c)' /\ ExhaustionOK(c)'
    <3>1. /\ c.at \in 1 .. Len(log[c.stream]) /\ Msg(c) \in Messages /\ Evt(c) \in Events
          /\ AtEvent(c) /\ PlanOK(c) /\ ResultOK(c) /\ ExhaustionOK(c)
      BY <1>2, <2>4, EventTyped DEF Sane
    <3>2. Msg(c)' = Msg(c) /\ Evt(c)' = Evt(c)
      BY <2>2, <3>1 DEF Grows, LogGrows, Msg, Evt
    <3>3. /\ obligation[Evt(c)].attempt \in Nat /\ obligation'[Evt(c)].attempt \in Nat
          /\ c.attempt \in Nat
      BY <3>1 DEF JournalTypeOK, Sane, Call_
    <3>4. /\ obligation[Evt(c)].attempt <= obligation'[Evt(c)].attempt
          /\ obligation[Evt(c)].state = "exhausted" => obligation'[Evt(c)].state = "exhausted"
      BY <3>1, <3>3 DEF Grows, ObligationsAdvance
    <3>5. c.canonical # NoStream => <<c.canonical, Msg(c)>> \in Events
      BY <3>1 DEF Sane, Call_, Events
    <3>6. AtEvent(c)'
      BY <3>1, <3>2, <3>3, <3>4, <3>5 DEF AtEvent, Grows, ReceiptsStay
    <3>7. PlanOK(c)'
      BY <3>1, <3>2, <3>4 DEF PlanOK
    <3>8. ResultOK(c)'
      BY <3>1, <3>2 DEF ResultOK, Grows, OperationsStay
    <3>9. ExhaustionOK(c)'
      BY <3>1, <3>2, <3>4 DEF ExhaustionOK, Grows
    <3> QED
      BY <3>6, <3>7, <3>8, <3>9
  <2> QED
    BY <1>2, <2>3, <2>4 DEF Sane
<1> QED
  BY <1>1, <1>2

\* A call commits and becomes d, sane on the journal it read or on the new one.
LEMMA CallSteps ==
  ASSUME Inv, JournalInv', Grows, NEW w \in Workers, NEW d,
         worker' = [worker EXCEPT ![w] = d], Sane(d) \/ Sane(d)',
         binding' \in Bindings, calls' \in 0 .. MaxCalls, changes' \in 0 .. MaxChanges
  PROVE  Inv'
<1>1. JournalTypeOK /\ JournalTypeOK'
  BY DEF Inv, JournalInv
<1>2. Sane(d)'
  BY <1>1, SaneStays
<1>3. d \in Call_
  BY <1>2 DEF Sane
<1>4. worker' \in [Workers -> Call_]
  BY <1>3 DEF Inv
<1>5. ASSUME NEW k \in Workers PROVE Sane(worker[k])'
  <2>1. PICK c : c = worker'[k]
    OBVIOUS
  <2>2. Sane(c)'
    <3>1. CASE k = w
      BY <1>2, <2>1, <3>1 DEF Inv
    <3>2. CASE k # w
      <4>1. c = worker[k]
        BY <2>1, <3>2 DEF Inv
      <4>2. Sane(c)
        BY <4>1 DEF Inv
      <4> QED
        BY <1>1, <4>2, SaneStays
    <3> QED
      BY <3>1, <3>2
  <2> QED
    BY <2>1, <2>2 DEF Sane, InStream, AtEvent, PlanOK, ResultOK, ExhaustionOK, Msg, Evt
<1> QED
  BY <1>4, <1>5 DEF Inv

\* Nobody commits.
LEMMA GrowsAlways ==
  ASSUME JournalInv, UNCHANGED journalVars
  PROVE  JournalInv' /\ Grows
<1>1. JournalTypeOK'
  BY DEF JournalInv, JournalTypeOK, journalVars
<1>2. JournalInv'
  BY <1>1 DEF JournalInv, journalVars, AppliedIsSettled, FailedIsDeadLettered
<1>3. /\ \A s \in Streams : Len(log[s]) \in Nat /\ cursor[s] \in Nat
  BY LenProperties DEF JournalInv, JournalTypeOK
<1>4. Grows
  BY <1>3 DEF Grows, LogGrows, ReceiptsStay, ObligationsAdvance, OperationsStay, journalVars
<1> QED
  BY <1>2, <1>4

LEMMA CallReads ==
  ASSUME Inv, NEW w \in Workers, NEW d, worker' = [worker EXCEPT ![w] = d], Sane(d), ReadsOnly
  PROVE  Inv'
<1>1. JournalInv' /\ Grows
  BY GrowsAlways DEF Inv, ReadsOnly
<1> QED
  BY <1>1, CallSteps DEF Inv, ReadsOnly, Counted

-------------------------------------------------------------------------------
(* Calls that only read. *)

SaneParts(c) == AtEvent(c) /\ PlanOK(c) /\ ResultOK(c) /\ ExhaustionOK(c)

\* A call that stays at its event.
LEMMA StaysAtEvent ==
  ASSUME NEW c, Sane(c), c.pc \notin {"idle", "open", "event"}, NEW d \in Call_,
         d.pc \notin {"idle", "open", "event"},
         d.stream = c.stream, d.at = c.at, d.upto = c.upto, d.attempt <= RetryLimit,
         AtEvent(d), PlanOK(d), ResultOK(d), ExhaustionOK(d)
  PROVE  Sane(d)
BY DEF Sane, InStream

\* Only the await changes.
LEMMA GoesTo ==
  ASSUME NEW c, Sane(c), c.pc \notin {"idle", "open", "event"},
         NEW pc \in Awaits \ {"idle", "open", "event"},
         PlanOK([c EXCEPT !.pc = pc]), ResultOK([c EXCEPT !.pc = pc]),
         ExhaustionOK([c EXCEPT !.pc = pc])
  PROVE  Sane([c EXCEPT !.pc = pc])
<1> DEFINE d == [c EXCEPT !.pc = pc]
<1>1. /\ d \in Call_ /\ d.pc = pc /\ d.stream = c.stream /\ d.at = c.at /\ d.upto = c.upto
      /\ d.attempt = c.attempt /\ d.canonical = c.canonical
  BY DEF Sane, Call_
<1>2. AtEvent(d)
  BY <1>1 DEF Sane, AtEvent, Evt, Msg
<1> HIDE DEF d
<1>3. PlanOK(d) /\ ResultOK(d) /\ ExhaustionOK(d)
  BY DEF d
<1>4. c.attempt <= RetryLimit
  BY DEF Sane
<1> QED
  BY <1>1, <1>2, <1>3, <1>4, StaysAtEvent DEF d

\* The call goes on in its stream, or leaves it.
LEMMA FreshSane ==
  ASSUME NEW c, c \in Call_, InStream(c), NEW pc \in {"event", "authorize"}, NEW at \in Nat \ {0},
         at <= cursor[c.stream] + 1, pc = "authorize" => at <= c.upto,
         JournalTypeOK
  PROVE  Sane([Idle EXCEPT !.pc = pc, !.left = c.left, !.stream = c.stream, !.at = at,
                           !.upto = c.upto])
<1> DEFINE d == [Idle EXCEPT !.pc = pc, !.left = c.left, !.stream = c.stream, !.at = at,
                             !.upto = c.upto]
<1>1. /\ d \in Call_ /\ d.pc = pc /\ d.stream = c.stream /\ d.at = at /\ d.upto = c.upto
      /\ d.attempt = 0 /\ d.plan = "none" /\ d.result = "none" /\ d.canonical = NoStream
  BY DEF Idle, Call_, Awaits
<1> HIDE DEF d
<1>2. InStream(d)
  BY <1>1 DEF InStream
<1>3. ASSUME pc = "authorize" PROVE AtEvent(d)
  <2>1. /\ c.stream \in Streams /\ log[c.stream] \in Seq(Messages) /\ c.upto \in Nat
        /\ c.upto <= Len(log[c.stream])
    BY DEF InStream, JournalTypeOK, Call_
  <2>2. Len(log[c.stream]) \in Nat
    BY <2>1, LenProperties
  <2>3. at \in 1 .. Len(log[c.stream])
    BY <1>3, <2>1, <2>2
  <2>4. log[c.stream][at] \in Messages
    BY <2>1, <2>3, ElementOfSeq
  <2>5. Evt(d) \in Events
    BY <1>1, <2>1, <2>4 DEF Evt, Msg, Events
  <2>6. obligation[Evt(d)].attempt \in Nat
    BY <2>5 DEF JournalTypeOK
  <2> QED
    BY <1>1, <1>3, <2>6 DEF AtEvent
<1>4. pc = "authorize" => PlanOK(d) /\ ResultOK(d) /\ ExhaustionOK(d)
  BY <1>1 DEF PlanOK, ResultOK, ExhaustionOK
<1>5. RetryLimit \in Nat
  BY EventAssumption
<1> QED
  BY <1>1, <1>2, <1>3, <1>4, <1>5 DEF Sane, d

LEMMA LeavesSane ==
  ASSUME NEW c, c \in Call_, NEW pc \in {"open", "idle"}, NEW left \in SUBSET Streams
  PROVE  Sane([Idle EXCEPT !.pc = pc, !.left = left]) /\ Sane(Idle)
<1>1. [Idle EXCEPT !.pc = pc, !.left = left] \in Call_ /\ Idle \in Call_
  BY DEF Idle, Call_, Awaits
<1>2. RetryLimit \in Nat
  BY EventAssumption
<1> QED
  BY <1>1, <1>2 DEF Sane, Idle

LEMMA InvInit == Init => Inv
<1> SUFFICES ASSUME Init PROVE Inv
  OBVIOUS
<1>1. RetryLimit \in Nat \ {0} /\ MaxCalls \in Nat /\ MaxChanges \in Nat /\ binding \in Bindings
  BY EventAssumption DEF Init
<1>2. JournalTypeOK
  BY DEF Init, JournalInit, JournalTypeOK, NoObligation, OperationStates
<1>3. JournalInv
  <2>1. \A e \in Events : obligation[e].state = "none" /\ obligation[e].attempt = 0
    BY DEF Init, JournalInit, NoObligation
  <2>2. \A s \in Streams, m \in Messages : receipt[<<s, m>>] = "none"
    BY DEF Init, JournalInit, Events
  <2>3. \A e \in Events : receipt[e] = "none"
    BY DEF Init, JournalInit
  <2>4. AppliedIsSettled
    BY <2>2, EventAssumption DEF AppliedIsSettled
  <2> QED
    BY <1>2, <2>1, <2>3, <2>4 DEF JournalInv, ObligationOK, FailedIsDeadLettered
<1>4. Idle \in Call_ /\ Sane(Idle)
  <2>1. Idle \in Call_
    BY DEF Idle, Call_, Awaits
  <2> QED
    BY <2>1, LeavesSane
<1> QED
  BY <1>1, <1>3, <1>4 DEF Init, Inv

LEMMA OpenSteps ==
  ASSUME Inv, NEW w \in Workers,
         Call(w) \/ OpenStream(w) \/ Leave(w) \/ ReadIntent(w)
  PROVE  Inv'
<1> PICK c : c = worker[w]
  OBVIOUS
<1>1. c \in Call_ /\ Sane(c) /\ JournalTypeOK /\ JournalInv
  BY DEF Inv, JournalInv
<1>2. CASE Call(w)
  <2>1. worker' = [worker EXCEPT ![w] = [Idle EXCEPT !.pc = "open", !.left = Streams]]
    BY <1>2 DEF Call, Become
  <2>2. Sane([Idle EXCEPT !.pc = "open", !.left = Streams])
    BY <1>1, LeavesSane
  <2>3. JournalInv' /\ Grows
    BY <1>1, <1>2, GrowsAlways DEF Call
  <2>4. calls' \in 0 .. MaxCalls /\ binding' \in Bindings /\ changes' \in 0 .. MaxChanges
    BY <1>2, EventAssumption DEF Call, Inv
  <2> QED
    BY <2>1, <2>2, <2>3, <2>4, CallSteps
<1>3. CASE OpenStream(w)
  <2>1. PICK s \in c.left :
            worker' = [worker EXCEPT ![w] =
                [Idle EXCEPT !.pc = "event", !.left = c.left \ {s}, !.stream = s,
                             !.at = cursor[s] + 1, !.upto = Len(log[s])]]
    BY <1>3 DEF OpenStream, Become
  <2>2. s \in Streams /\ cursor[s] \in Nat /\ Len(log[s]) \in Nat
    BY <1>1, LenProperties DEF Call_, JournalTypeOK
  <2> PICK left, at, upto : left = c.left \ {s} /\ at = cursor[s] + 1 /\ upto = Len(log[s])
    OBVIOUS
  <2> DEFINE d == [Idle EXCEPT !.pc = "event", !.left = left, !.stream = s,
                               !.at = at, !.upto = upto]
  <2>3. /\ d \in Call_ /\ d.pc = "event" /\ d.stream = s /\ d.at = at
        /\ d.upto = upto /\ d.attempt = 0 /\ d.canonical = NoStream
    <3>1. left \in SUBSET Streams /\ at \in Nat /\ upto \in Nat
      BY <1>1, <2>2 DEF Call_
    <3> QED
      BY <2>2, <3>1 DEF Idle, Call_, Awaits
  <2>4. Sane(d)
    BY <2>2, <2>3, EventAssumption DEF Sane, InStream
  <2> HIDE DEF d
  <2>5. worker' = [worker EXCEPT ![w] = d]
    BY <2>1 DEF d
  <2> QED
    BY <1>3, <2>4, <2>5, CallReads DEF OpenStream
<1>4. CASE Leave(w)
  <2>1. Sane(Idle)
    BY <1>1, LeavesSane
  <2> QED
    BY <1>4, <2>1, CallReads DEF Leave, Become
<1>5. CASE ReadIntent(w)
  <2>1. c.pc = "event" /\ ReadsOnly
    BY <1>5 DEF ReadIntent, At
  <2>2. CASE c.at > c.upto
    <3>1. worker' = [worker EXCEPT ![w] = [Idle EXCEPT !.pc = "open", !.left = c.left]]
      BY <1>5, <2>2 DEF ReadIntent, NextStream, Become
    <3>2. Sane([Idle EXCEPT !.pc = "open", !.left = c.left])
      BY <1>1, LeavesSane DEF Call_
    <3> QED
      BY <2>1, <3>1, <3>2, CallReads
  <2>3. CASE ~(c.at > c.upto)
    <3>1. PICK pc \in {"recovery", "authorize"} : worker' = [worker EXCEPT ![w].pc = pc]
      BY <1>5, <2>3 DEF ReadIntent, Goto
    <3> DEFINE d == [c EXCEPT !.pc = pc]
    <3>2. /\ d \in Call_ /\ d.pc = pc /\ d.stream = c.stream /\ d.at = c.at /\ d.upto = c.upto
          /\ d.attempt = c.attempt /\ d.canonical = c.canonical
      BY <1>1 DEF Call_, Awaits
    <3>3. worker' = [worker EXCEPT ![w] = d]
      BY <3>1 DEF Inv
    <3> HIDE DEF d
    <3>4. Sane(d)
      <4>1. InStream(c) /\ c.attempt = 0 /\ c.canonical = NoStream
        BY <1>1, <2>1 DEF Sane
      <4>2. InStream(d)
        BY <3>2, <4>1 DEF InStream
      <4>3. d.at <= d.upto
        BY <1>1, <2>3, <3>2 DEF Call_
      <4>4. obligation[Evt(d)].attempt \in Nat
        <5>1. /\ log[d.stream] \in Seq(Messages) /\ d.stream \in Streams
          BY <1>1, <4>2 DEF InStream, JournalTypeOK
        <5>2. Len(log[d.stream]) \in Nat /\ d.at \in 1 .. Len(log[d.stream])
          BY <3>2, <4>2, <4>3, <5>1, LenProperties DEF InStream, Call_
        <5>3. Evt(d) \in Events
          BY <5>1, <5>2, ElementOfSeq DEF Evt, Msg, Events
        <5> QED
          BY <1>1, <5>3 DEF JournalTypeOK
      <4>5. AtEvent(d)
        BY <3>2, <4>1, <4>3, <4>4 DEF AtEvent
      <4>6. PlanOK(d) /\ ResultOK(d) /\ ExhaustionOK(d)
        BY <3>2 DEF PlanOK, ResultOK, ExhaustionOK
      <4> QED
        BY <3>2, <4>1, <4>2, <4>5, <4>6, EventAssumption DEF Sane
    <3> QED
      BY <2>1, <3>3, <3>4, CallReads
  <2> QED
    BY <2>2, <2>3
<1> QED
  BY <1>2, <1>3, <1>4, <1>5

-------------------------------------------------------------------------------
(* Calls at an event. *)

\* What a call becomes is a call.
LEMMA CallUpdated ==
  ASSUME NEW c \in Call_, NEW pc \in Awaits
  PROVE  /\ \A b \in {"none", "stale", "rejected"} :
                [c EXCEPT !.pc = pc, !.refusal = b] \in Call_
         /\ \A r \in Streams \cup {NoStream} : [c EXCEPT !.pc = pc, !.canonical = r] \in Call_
         /\ \A p \in {"none", "duplicate", "exhausted", "wait", "prepare"},
              r \in Streams \cup {NoStream} :
                [c EXCEPT !.pc = pc, !.plan = p, !.canonical = r] \in Call_
         /\ \A p \in {"none", "duplicate", "exhausted", "wait", "prepare"}, n \in Nat :
                [c EXCEPT !.pc = pc, !.plan = p, !.attempt = n] \in Call_
         /\ \A n \in Nat : [c EXCEPT !.pc = pc, !.attempt = n] \in Call_
         /\ \A r \in {"none", "applied", "rejected", "retry", "barrier"} :
                [c EXCEPT !.pc = pc, !.result = r] \in Call_
<1>1. \A b \in {"none", "stale", "rejected"} : [c EXCEPT !.pc = pc, !.refusal = b] \in Call_
  BY DEF Call_
<1>2. \A r \in Streams \cup {NoStream} : [c EXCEPT !.pc = pc, !.canonical = r] \in Call_
  BY DEF Call_
<1>3. \A p \in {"none", "duplicate", "exhausted", "wait", "prepare"},
         r \in Streams \cup {NoStream} : [c EXCEPT !.pc = pc, !.plan = p, !.canonical = r] \in Call_
  BY DEF Call_
<1>4. \A p \in {"none", "duplicate", "exhausted", "wait", "prepare"}, n \in Nat :
         [c EXCEPT !.pc = pc, !.plan = p, !.attempt = n] \in Call_
  BY DEF Call_
<1>5. \A n \in Nat : [c EXCEPT !.pc = pc, !.attempt = n] \in Call_
  BY DEF Call_
<1>6. \A r \in {"none", "applied", "rejected", "retry", "barrier"} :
         [c EXCEPT !.pc = pc, !.result = r] \in Call_
  BY DEF Call_
<1> QED
  BY <1>1, <1>2, <1>3, <1>4, <1>5, <1>6

\* Awaits whose steps rely on nothing but the event.
Free == {"authorize", "refused", "receipt", "obligation", "prepare", "recovery", "recover", "retry"}

\* Awaits of a call that is at no event.
Between == {"idle", "open", "event"}

\* What a call is at stays the same when only other fields change.
LEMMA SameEvent ==
  ASSUME NEW c, NEW d, d.stream = c.stream, d.at = c.at
  PROVE  Msg(d) = Msg(c) /\ Evt(d) = Evt(c)
BY DEF Msg, Evt

LEMMA GotoFree ==
  ASSUME NEW c, Sane(c), c.pc \notin Between, NEW pc \in Free
  PROVE  Sane([c EXCEPT !.pc = pc])
<1> DEFINE d == [c EXCEPT !.pc = pc]
<1>1. pc \in Awaits \ Between
  BY DEF Free, Awaits, Between
<1>2. d.pc = pc
  BY DEF Sane, Call_
<1> HIDE DEF d
<1>3. PlanOK(d) /\ ResultOK(d) /\ ExhaustionOK(d)
  BY <1>2 DEF Free, PlanOK, ResultOK, ExhaustionOK
<1> QED
  BY <1>1, <1>3, GoesTo DEF d, Between

LEMMA GotoFreeStep ==
  ASSUME Inv, NEW w \in Workers, worker[w].pc \notin Between, NEW pc \in Free,
         Goto(w, pc), ReadsOnly
  PROVE  Inv'
<1> PICK c : c = worker[w]
  OBVIOUS
<1>1. Sane(c) /\ c.pc \notin Between
  BY DEF Inv
<1>2. Sane([c EXCEPT !.pc = pc])
  BY <1>1, GotoFree
<1>3. worker' = [worker EXCEPT ![w] = [c EXCEPT !.pc = pc]]
  BY DEF Goto, Inv
<1> QED
  BY <1>2, <1>3, CallReads

\* The call turns to the commit of a refusal.
LEMMA RefuseStep ==
  ASSUME Inv, NEW w \in Workers, worker[w].pc \notin Between, NEW pc \in {"canonical", "terminal"},
         ~Delivers, Refuse(w, pc), ReadsOnly
  PROVE  Inv'
<1> PICK c : c = worker[w]
  OBVIOUS
<1> PICK b : b = binding
  OBVIOUS
<1>1. Sane(c) /\ c.pc \notin Between /\ c \in Call_ /\ AtEvent(c)
  BY DEF Inv, Sane, Between
<1>2. b \in {"stale", "rejected"}
  BY EventAssumption DEF Inv, Delivers
<1> DEFINE d == [c EXCEPT !.pc = pc, !.refusal = b]
<1>3. /\ d \in Call_ /\ d.pc = pc /\ d.refusal = b /\ d.stream = c.stream /\ d.at = c.at
      /\ d.upto = c.upto /\ d.attempt = c.attempt /\ d.canonical = c.canonical
  <2>1. d \in Call_
    <3>1. pc \in Awaits
      BY DEF Awaits
    <3> QED
      BY <1>1, <1>2, <3>1, CallUpdated
  <2>2. /\ d.pc = pc /\ d.refusal = b /\ d.stream = c.stream /\ d.at = c.at
      /\ d.upto = c.upto /\ d.attempt = c.attempt /\ d.canonical = c.canonical
    BY <1>1, <1>2 DEF Call_
  <2> QED
    BY <2>1, <2>2
<1>4. worker' = [worker EXCEPT ![w] = d]
  BY DEF Refuse, Become
<1> HIDE DEF d
<1>5. AtEvent(d)
  BY <1>1, <1>3, SameEvent DEF AtEvent
<1>6. PlanOK(d) /\ ResultOK(d) /\ ExhaustionOK(d)
  BY <1>2, <1>3 DEF PlanOK, ResultOK, ExhaustionOK
<1>7. Sane(d)
  BY <1>1, <1>3, <1>5, <1>6, StaysAtEvent DEF Sane, Between
<1> QED
  BY <1>4, <1>7, CallReads

LEMMA NextStreamStep ==
  ASSUME Inv, NEW w \in Workers, NextStream(w) \/ Become(w, Idle), ReadsOnly
  PROVE  Inv'
<1> PICK c : c = worker[w]
  OBVIOUS
<1>1. c \in Call_
  BY DEF Inv
<1>2. Sane([Idle EXCEPT !.pc = "open", !.left = c.left]) /\ Sane(Idle)
  BY <1>1, LeavesSane DEF Call_
<1>3. CASE NextStream(w)
  <2>1. worker' = [worker EXCEPT ![w] = [Idle EXCEPT !.pc = "open", !.left = c.left]]
    BY <1>3 DEF NextStream, Become
  <2> QED
    BY <1>2, <2>1, CallReads
<1>4. CASE Become(w, Idle)
  BY <1>2, <1>4, CallReads DEF Become
<1> QED
  BY <1>3, <1>4

\* A receipt of the message, or none.
LEMMA CanonicalFound ==
  ASSUME NEW m \in Messages, NEW r \in Canonical(m)
  PROVE  /\ r \in Streams \cup {NoStream}
         /\ r # NoStream => receipt[<<r, m>>] # "none"
BY EventAssumption DEF Canonical, Receipts

\* The call takes up a receipt of its message.
LEMMA CanonicalSane ==
  ASSUME JournalTypeOK, NEW c, Sane(c), c.pc \notin Between, NEW r \in Canonical(Msg(c)),
         NEW d, d \in Call_, d.canonical = r, d.stream = c.stream, d.at = c.at,
         d.upto = c.upto, d.attempt = c.attempt, d.pc \notin Between,
         PlanOK(d), ResultOK(d), ExhaustionOK(d)
  PROVE  Sane(d)
<1>1. Msg(c) \in Messages
  BY EventTyped DEF Between
<1>2. AtEvent(d)
  BY <1>1, CanonicalFound, SameEvent DEF Sane, AtEvent, Between
<1> QED
  BY <1>2, StaysAtEvent DEF Sane, Between

LEMMA ReadSteps ==
  ASSUME Inv, NEW w \in Workers, Read(w)
  PROVE  Inv'
<1> PICK c : c = worker[w]
  OBVIOUS
<1>1. Sane(c) /\ c \in Call_ /\ JournalTypeOK
  BY DEF Inv, JournalInv
<1>2. CASE Authorize(w)
  BY <1>2, GotoFreeStep DEF Authorize, At, Between, Free
<1>3. CASE ReauthorizeRefused(w)
  <2>1. worker[w].pc \notin Between /\ ReadsOnly
    BY <1>3 DEF ReauthorizeRefused, At, Between
  <2>2. CASE Delivers
    BY <1>3, <2>1, <2>2, GotoFreeStep DEF ReauthorizeRefused, Free
  <2>3. CASE ~Delivers
    BY <1>3, <2>1, <2>3, RefuseStep DEF ReauthorizeRefused
  <2> QED
    BY <2>2, <2>3
<1>4. CASE ReadCanonical(w)
  <2>1. PICK r \in Canonical(Msg(c)) :
            worker' = [worker EXCEPT ![w] = [c EXCEPT !.pc = "terminal", !.canonical = r]]
    BY <1>4 DEF ReadCanonical, Become, Message, Msg
  <2>2. c.pc = "canonical" /\ ReadsOnly
    BY <1>4 DEF ReadCanonical, At
  <2> DEFINE d == [c EXCEPT !.pc = "terminal", !.canonical = r]
  <2>3. r \in Streams \cup {NoStream}
    BY <1>1, <2>2, EventTyped, CanonicalFound
  <2>4. /\ d \in Call_ /\ d.pc = "terminal" /\ d.canonical = r /\ d.stream = c.stream /\ d.at = c.at
        /\ d.upto = c.upto /\ d.attempt = c.attempt /\ d.refusal = c.refusal
    <3>1. d \in Call_
      <4>1. "terminal" \in Awaits
        BY DEF Awaits
      <4> QED
        BY <1>1, <2>3, <4>1, CallUpdated
    <3>2. /\ d.pc = "terminal" /\ d.canonical = r /\ d.stream = c.stream /\ d.at = c.at
        /\ d.upto = c.upto /\ d.attempt = c.attempt /\ d.refusal = c.refusal
      BY <1>1, <2>3 DEF Call_
    <3> QED
      BY <3>1, <3>2
  <2> HIDE DEF d
  <2>5. c.refusal # "none"
    BY <1>1, <2>2 DEF Sane, PlanOK
  <2>6. PlanOK(d) /\ ResultOK(d) /\ ExhaustionOK(d)
    BY <2>4, <2>5 DEF PlanOK, ResultOK, ExhaustionOK
  <2>7. Sane(d)
    BY <1>1, <2>2, <2>4, <2>6, CanonicalSane DEF Between
  <2> QED
    BY <2>1, <2>2, <2>7, CallReads DEF d
<1>5. CASE ReadReceipt(w)
  <2>1. c.pc = "receipt" /\ ReadsOnly
    BY <1>5 DEF ReadReceipt, At
  <2>2. PICK r \in Canonical(Msg(c)) :
            IF r = NoStream THEN Goto(w, "obligation")
            ELSE worker' = [worker EXCEPT ![w] =
                     [c EXCEPT !.pc = "confirm", !.plan = "duplicate", !.canonical = r]]
    BY <1>5 DEF ReadReceipt, Become, Message, Msg
  <2>3. CASE r = NoStream
    BY <2>1, <2>2, <2>3, GotoFreeStep DEF Between, Free
  <2>4. CASE r # NoStream
    <3> DEFINE d == [c EXCEPT !.pc = "confirm", !.plan = "duplicate", !.canonical = r]
    <3>1. r \in Streams \cup {NoStream}
      BY <1>1, <2>1, EventTyped, CanonicalFound
    <3>2. /\ d \in Call_ /\ d.pc = "confirm" /\ d.plan = "duplicate" /\ d.canonical = r
          /\ d.stream = c.stream /\ d.at = c.at /\ d.upto = c.upto /\ d.attempt = c.attempt
      <4>1. d \in Call_
        <5>1. "confirm" \in Awaits
          BY DEF Awaits
        <5> QED
          BY <1>1, <3>1, <5>1, CallUpdated
      <4>2. /\ d.pc = "confirm" /\ d.plan = "duplicate" /\ d.canonical = r
          /\ d.stream = c.stream /\ d.at = c.at /\ d.upto = c.upto /\ d.attempt = c.attempt
        BY <1>1, <3>1 DEF Call_
      <4> QED
        BY <4>1, <4>2
    <3>3. worker' = [worker EXCEPT ![w] = d]
      BY <2>2, <2>4
    <3> HIDE DEF d
    <3>4. PlanOK(d) /\ ResultOK(d) /\ ExhaustionOK(d)
      BY <2>4, <3>2 DEF PlanOK, ResultOK, ExhaustionOK
    <3>5. Sane(d)
      BY <1>1, <2>1, <3>2, <3>4, CanonicalSane DEF Between
    <3> QED
      BY <2>1, <3>3, <3>5, CallReads
  <2> QED
    BY <2>3, <2>4
<1>6. CASE ReadObligation(w)
  <2>1. c.pc = "obligation" /\ ReadsOnly
    BY <1>6 DEF ReadObligation, At
  <2> PICK o : o = obligation[Evt(c)]
    OBVIOUS
  <2>2. PICK p \in {"exhausted", "wait", "prepare"}, n \in {0, o.attempt + 1} :
            /\ worker' = [worker EXCEPT ![w] = [c EXCEPT !.pc = "confirm", !.plan = p, !.attempt = n]]
            /\ p = "exhausted" => o.state = "exhausted"
            /\ n # 0 => o.state # "exhausted"
    BY <1>6 DEF ReadObligation, Become, EventOf, Message, Evt, Msg, Plans
  <2>3. o.attempt \in Nat /\ ObligationOK(o)
        /\ o.state \in {"none", "pending", "exhausted"} /\ Evt(c) \in Events
    BY <1>1, <2>1, EventTyped DEF Inv, JournalInv, JournalTypeOK
  <2>4. n \in Nat /\ n <= RetryLimit /\ n <= o.attempt + 1
    BY <2>2, <2>3, EventAssumption DEF ObligationOK
  <2> DEFINE d == [c EXCEPT !.pc = "confirm", !.plan = p, !.attempt = n]
  <2>5. /\ d \in Call_ /\ d.pc = "confirm" /\ d.plan = p /\ d.attempt = n
        /\ d.canonical = c.canonical
        /\ d.stream = c.stream /\ d.at = c.at /\ d.upto = c.upto
    <3>1. d \in Call_
      <4>1. "confirm" \in Awaits
        BY DEF Awaits
      <4> QED
        BY <1>1, <2>2, <2>4, <4>1, CallUpdated
    <3>2. /\ d.pc = "confirm" /\ d.plan = p /\ d.attempt = n
        /\ d.canonical = c.canonical
        /\ d.stream = c.stream /\ d.at = c.at /\ d.upto = c.upto
      BY <1>1, <2>2, <2>4 DEF Call_
    <3> QED
      BY <3>1, <3>2
  <2>6. worker' = [worker EXCEPT ![w] = d]
    BY <2>2
  <2> HIDE DEF d
  <2>7. AtEvent(d)
    BY <1>1, <2>1, <2>4, <2>5, SameEvent DEF Sane, AtEvent
  <2>8. PlanOK(d) /\ ResultOK(d) /\ ExhaustionOK(d)
    BY <2>2, <2>5, SameEvent DEF PlanOK, ResultOK, ExhaustionOK
  <2>9. Sane(d)
    BY <1>1, <2>1, <2>4, <2>5, <2>7, <2>8, StaysAtEvent
  <2> QED
    BY <2>1, <2>6, <2>9, CallReads
<1>7. CASE Confirm(w)
  <2>1. c.pc = "confirm" /\ ReadsOnly
    BY <1>7 DEF Confirm, At
  <2>2. AtEvent(c) /\ PlanOK(c) /\ InStream(c)
    BY <1>1, <2>1 DEF Sane
  <2>3. CASE ~Delivers
    <3>1. worker' = [worker EXCEPT ![w] =
             [Idle EXCEPT !.pc = "authorize", !.left = c.left, !.stream = c.stream, !.at = c.at,
                          !.upto = c.upto]]
      BY <1>7, <2>3 DEF Confirm, Fresh, Become
    <3>2. c.at \in Nat \ {0} /\ c.at <= cursor[c.stream] + 1 /\ c.at <= c.upto
      BY <1>1, <2>2 DEF InStream, AtEvent, Call_
    <3>3. Sane([Idle EXCEPT !.pc = "authorize", !.left = c.left, !.stream = c.stream, !.at = c.at,
                            !.upto = c.upto])
      BY <1>1, <2>2, <3>2, FreshSane
    <3> QED
      BY <2>1, <3>1, <3>3, CallReads
  <2>4. CASE Delivers /\ c.plan = "wait"
    BY <1>7, <2>1, <2>4, NextStreamStep DEF Confirm
  <2>5. CASE Delivers /\ c.plan = "prepare"
    BY <1>7, <2>1, <2>5, GotoFreeStep DEF Confirm, Between, Free
  <2>6. CASE Delivers /\ c.plan \in {"exhausted", "duplicate"}
    <3>1. PICK pc \in {"deadLetter", "duplicate"} :
              /\ worker' = [worker EXCEPT ![w] = [c EXCEPT !.pc = pc]]
              /\ pc = "deadLetter" => c.plan = "exhausted"
              /\ pc = "duplicate" => c.plan = "duplicate"
      BY <1>7, <2>6 DEF Confirm, Goto, Inv
    <3> DEFINE d == [c EXCEPT !.pc = pc]
    <3>2. d.pc = pc /\ d.stream = c.stream /\ d.at = c.at /\ d.canonical = c.canonical
      BY <1>1 DEF Call_
    <3> HIDE DEF d
    <3>3. PlanOK(d) /\ ResultOK(d) /\ ExhaustionOK(d)
      BY <2>1, <2>2, <3>1, <3>2, SameEvent DEF PlanOK, ResultOK, ExhaustionOK
    <3>4. Sane(d)
      BY <1>1, <2>1, <3>3, GoesTo DEF d, Awaits
    <3> QED
      BY <2>1, <3>1, <3>4, CallReads DEF d
  <2>7. c.plan \in {"duplicate", "exhausted", "wait", "prepare"}
    BY <1>1, <2>1, <2>2 DEF PlanOK, Call_
  <2> QED
    BY <2>3, <2>4, <2>5, <2>6, <2>7
<1> QED
  BY <1>2, <1>3, <1>4, <1>5, <1>6, <1>7 DEF Read

-------------------------------------------------------------------------------
(* The transactions of the journal. *)

LEMMA Frame ==
  ASSUME JournalInv
  PROVE  /\ \A s \in Streams : Len(log[s]) \in Nat /\ cursor[s] \in Nat
         /\ \A e \in Events : obligation[e].attempt \in Nat
BY LenProperties DEF JournalInv, JournalTypeOK

LEMMA OperationCommitted ==
  ASSUME JournalInv, NEW m \in Messages, NEW state, CommitOperation(m, state)
  PROVE  JournalInv' /\ Grows /\ operation'[m] = state
<1>1. /\ operation' = [operation EXCEPT ![m] = state] /\ state \in OperationNext(operation[m])
      /\ UNCHANGED <<log, receipt, cursor, suffixed, obligation, deadLetters, intents>>
  BY DEF CommitOperation
<1>2. operation \in [Messages -> OperationStates]
  BY DEF JournalInv, JournalTypeOK
<1>3. state \in OperationStates /\ (operation[m] \in Done => state \in Done)
  BY <1>1, <1>2 DEF OperationNext, OperationStates, Done
<1>4. operation' \in [Messages -> OperationStates] /\ operation'[m] = state /\ OperationsStay
  BY <1>1, <1>2, <1>3 DEF OperationsStay
<1>5. JournalTypeOK'
  BY <1>1, <1>4 DEF JournalInv, JournalTypeOK
<1>6. AppliedIsSettled'
  BY <1>1, <1>4, EventAssumption DEF JournalInv, AppliedIsSettled, OperationsStay, Done
<1>7. FailedIsDeadLettered' /\ \A e \in Events : ObligationOK(obligation'[e])
  BY <1>1 DEF JournalInv, FailedIsDeadLettered
<1>8. Grows
  BY <1>1, <1>4, Frame DEF Grows, LogGrows, ReceiptsStay, ObligationsAdvance
<1> QED
  BY <1>4, <1>5, <1>6, <1>7, <1>8 DEF JournalInv

LEMMA IntentCommitted ==
  ASSUME JournalInv, NEW e \in Events, CommitIntent(e)
  PROVE  JournalInv' /\ Grows
<1>1. /\ intents' = intents \cup {e}
      /\ UNCHANGED <<log, receipt, cursor, suffixed, obligation, deadLetters, operation>>
  BY DEF CommitIntent
<1>2. JournalTypeOK'
  BY <1>1 DEF JournalInv, JournalTypeOK
<1>3. JournalInv'
  BY <1>1, <1>2 DEF JournalInv, AppliedIsSettled, FailedIsDeadLettered
<1>4. Grows
  BY <1>1, Frame DEF Grows, LogGrows, ReceiptsStay, ObligationsAdvance, OperationsStay
<1> QED
  BY <1>3, <1>4

LEMMA LetterCommitted ==
  ASSUME JournalInv, NEW e \in Events, CommitDlq(e)
  PROVE  JournalInv' /\ Grows /\ e \in deadLetters'
<1>1. /\ deadLetters' = deadLetters \cup {e}
      /\ UNCHANGED <<log, receipt, cursor, suffixed, obligation, intents, operation>>
  BY DEF CommitDlq
<1>2. JournalTypeOK'
  BY <1>1 DEF JournalInv, JournalTypeOK
<1>3. JournalInv'
  BY <1>1, <1>2 DEF JournalInv, AppliedIsSettled, FailedIsDeadLettered
<1>4. Grows
  BY <1>1, Frame DEF Grows, LogGrows, ReceiptsStay, ObligationsAdvance, OperationsStay
<1> QED
  BY <1>1, <1>3, <1>4

\* An attempt is recorded after the one before it.
LEMMA RetryCommitted ==
  ASSUME JournalInv, NEW e \in Events, NEW n \in Nat, n <= RetryLimit,
         n <= obligation[e].attempt + 1, NEW state \in {"pending", "exhausted"},
         ObligationOK([attempt |-> n, state |-> state]), CommitRetry(e, n, state)
  PROVE  JournalInv' /\ Grows /\ obligation'[e].state = state
<1> DEFINE o == [attempt |-> n, state |-> state]
<1>1. /\ obligation' = [obligation EXCEPT ![e] = o] /\ ~(n <= obligation[e].attempt)
      /\ UNCHANGED <<log, receipt, cursor, suffixed, deadLetters, intents, operation>>
  BY DEF CommitRetry, RetryConflict
<1>2. o \in [attempt : Nat, state : {"none", "pending", "exhausted"}]
      /\ o.attempt = n /\ o.state = state /\ ObligationOK(o)
  OBVIOUS
<1> HIDE DEF o
<1>3. obligation \in [Events -> [attempt : Nat, state : {"none", "pending", "exhausted"}]]
  BY DEF JournalInv, JournalTypeOK
<1>4. obligation[e].state # "exhausted" /\ n = obligation[e].attempt + 1
  <2>1. obligation[e].attempt \in Nat /\ ObligationOK(obligation[e]) /\ RetryLimit \in Nat
    BY Frame, EventAssumption DEF JournalInv
  <2> QED
    BY <1>1, <2>1 DEF ObligationOK
<1>5. JournalTypeOK'
  BY <1>1, <1>2, <1>3 DEF JournalInv, JournalTypeOK
<1>6. \A k \in Events : ObligationOK(obligation'[k])
  BY <1>1, <1>2, <1>3 DEF JournalInv
<1>7. FailedIsDeadLettered'
  BY <1>1, <1>3, <1>4 DEF JournalInv, FailedIsDeadLettered
<1>8. AppliedIsSettled'
  BY <1>1 DEF JournalInv, AppliedIsSettled
<1>9. ObligationsAdvance
  BY <1>1, <1>2, <1>3, <1>4 DEF ObligationsAdvance
<1>10. Grows
  BY <1>1, <1>9, Frame DEF Grows, LogGrows, ReceiptsStay, OperationsStay
<1> QED
  BY <1>1, <1>2, <1>3, <1>5, <1>6, <1>7, <1>8, <1>10 DEF JournalInv

\* A receipt with a cursor.
LEMMA ReceiptCommitted ==
  ASSUME JournalInv, NEW r \in Streams, NEW s \in Streams, NEW m \in Messages, NEW seq \in Nat,
         NEW disposition, CommitConsumer(r, m, s, seq, disposition),
         ~Held(r, m) => disposition \in Final,
         ~Held(r, m) /\ disposition = "applied" /\ m \in Barriered => operation[m] \in Done,
         ~Held(r, m) /\ disposition = "terminal-failure" =>
             <<r, m>> \in deadLetters /\ obligation[<<r, m>>].state = "exhausted"
  PROVE  /\ JournalInv' /\ Grows /\ cursor'[s] >= seq
         /\ UNCHANGED <<log, obligation, deadLetters, intents, operation>>
<1> PICK e \in Events : e = <<r, m>>
  BY DEF Events
<1> DEFINE kept == KeptReceipt(r, m, disposition)
           next == NextCursor(s, seq)
<1>1. UNCHANGED <<log, obligation, deadLetters, intents, operation>>
  BY DEF CommitConsumer
<1>2. /\ receipt \in [Events -> Final \cup {"none"}] /\ cursor \in [Streams -> Nat]
      /\ suffixed \subseteq Events \X Nat
  BY DEF JournalInv, JournalTypeOK
<1>3. CASE Settled(r, m, s, seq)
  <2>1. UNCHANGED journalVars
    BY <1>1, <1>3 DEF CommitConsumer, journalVars
  <2>2. cursor'[s] >= seq
    BY <2>1, <1>3 DEF Settled, journalVars
  <2> QED
    BY <1>1, <2>1, <2>2, GrowsAlways
<1>4. CASE ~Settled(r, m, s, seq)
  <2>1. /\ receipt' = [receipt EXCEPT ![e] = kept]
        /\ cursor' = [cursor EXCEPT ![s] = next]
        /\ suffixed' = IF Held(r, m) THEN suffixed \cup {CommitId(r, m, seq)} ELSE suffixed
    BY <1>4 DEF CommitConsumer
  <2>2. /\ Held(r, m) => kept = receipt[e]
        /\ ~Held(r, m) => kept = disposition /\ receipt[e] = "none"
    BY DEF KeptReceipt, Held
  <2>3. kept \in Final \cup {"none"}
    BY <1>2, <2>2
  <2>4. next \in Nat /\ next >= seq /\ next >= cursor[s]
    BY <1>2 DEF NextCursor
  <2>5. CommitId(r, m, seq) \in Events \X Nat
    BY DEF CommitId
  <2> HIDE DEF kept, next
  <2>6. /\ receipt' \in [Events -> Final \cup {"none"}] /\ cursor' \in [Streams -> Nat]
        /\ suffixed' \subseteq Events \X Nat
    BY <1>2, <2>1, <2>3, <2>4, <2>5
  <2>7. JournalTypeOK'
    BY <1>1, <2>6 DEF JournalInv, JournalTypeOK
  <2>8. \A k \in Events : receipt'[k] = receipt[k] \/ (k = e /\ receipt'[k] = disposition /\ ~Held(r, m))
    BY <1>2, <2>1, <2>2
  <2>9. AppliedIsSettled'
    <3> SUFFICES ASSUME NEW t \in Streams, NEW n \in Barriered, receipt'[<<t, n>>] = "applied"
                 PROVE  operation[n] \in Done
      BY <1>1 DEF AppliedIsSettled, Done
    <3>1. n \in Messages /\ <<t, n>> \in Events
      BY EventAssumption DEF Events
    <3>2. CASE receipt[<<t, n>>] = "applied"
      BY <3>2 DEF JournalInv, AppliedIsSettled, Done
    <3>3. CASE <<t, n>> = e /\ disposition = "applied" /\ ~Held(r, m)
      <4>1. n = m
        BY <3>3
      <4> QED
        BY <3>3, <4>1
    <3> QED
      BY <2>8, <3>1, <3>2, <3>3
  <2>10. FailedIsDeadLettered'
    BY <1>1, <2>8 DEF JournalInv, FailedIsDeadLettered
  <2>11. ReceiptsStay
    BY <2>8, <2>2 DEF ReceiptsStay, Held
  <2>12. Grows
    <3>1. \A t \in Streams : cursor[t] <= cursor'[t]
      BY <1>2, <2>1, <2>4
    <3> QED
      BY <1>1, <2>11, <3>1, Frame DEF Grows, LogGrows, ObligationsAdvance, OperationsStay
  <2>13. cursor'[s] >= seq
    BY <1>2, <2>1, <2>4
  <2> QED
    BY <1>1, <2>7, <2>9, <2>10, <2>12, <2>13 DEF JournalInv
<1> QED
  BY <1>3, <1>4

LEMMA EventAppended ==
  ASSUME JournalInv, NEW s \in Streams, NEW m \in Messages, AppendEvent(s, m)
  PROVE  JournalInv' /\ Grows
<1>1. /\ log' = [log EXCEPT ![s] = Append(@, m)]
      /\ UNCHANGED <<receipt, cursor, suffixed, obligation, deadLetters, intents, operation>>
  BY DEF AppendEvent
<1>2. log \in [Streams -> Seq(Messages)]
  BY DEF JournalInv, JournalTypeOK
<1>3. /\ log'[s] \in Seq(Messages) /\ Len(log'[s]) = Len(log[s]) + 1
      /\ \A i \in 1 .. Len(log[s]) : log'[s][i] = log[s][i]
  BY <1>1, <1>2, AppendProperties
<1>4. \A t \in Streams : t # s => log'[t] = log[t]
  BY <1>1, <1>2
<1>5. log' \in [Streams -> Seq(Messages)]
  BY <1>1, <1>2, <1>3
<1>6. LogGrows
  BY <1>3, <1>4, Frame DEF LogGrows
<1>7. JournalTypeOK'
  BY <1>1, <1>5 DEF JournalInv, JournalTypeOK
<1>8. JournalInv'
  BY <1>1, <1>7 DEF JournalInv, AppliedIsSettled, FailedIsDeadLettered
<1>9. Grows
  BY <1>1, <1>6, Frame DEF Grows, ReceiptsStay, ObligationsAdvance, OperationsStay
<1> QED
  BY <1>8, <1>9

-------------------------------------------------------------------------------
(* Delivery. *)

\* The await after the result of a call, and what the result was.
LEMMA ResultSane ==
  ASSUME NEW c, Sane(c), c.pc \notin Between,
         NEW pc \in {"authorizeResult", "authorizeRecovery", "check", "reconcile", "persist"},
         NEW r \in {"applied", "rejected", "retry", "barrier"},
         Msg(c) \in Barriered => r # "applied",
         pc = "authorizeResult" /\ Msg(c) \in Barriered => r # "barrier",
         pc \in {"check", "reconcile", "persist"} => r = "barrier"
  PROVE  Sane([c EXCEPT !.pc = pc, !.result = r])
<1> DEFINE d == [c EXCEPT !.pc = pc, !.result = r]
<1>1. c \in Call_ /\ AtEvent(c)
  BY DEF Sane, Between
<1>2. d \in Call_
  <2>1. pc \in Awaits
    BY DEF Awaits
  <2> QED
    BY <1>1, <2>1, CallUpdated
<1>3. /\ d.pc = pc /\ d.result = r /\ d.stream = c.stream /\ d.at = c.at
      /\ d.upto = c.upto /\ d.attempt = c.attempt /\ d.canonical = c.canonical
  BY <1>1 DEF Call_
<1> HIDE DEF d
<1>4. AtEvent(d)
  BY <1>1, <1>3, SameEvent DEF AtEvent
<1>5. PlanOK(d) /\ ResultOK(d) /\ ExhaustionOK(d)
  BY <1>3, SameEvent DEF PlanOK, ResultOK, ExhaustionOK
<1>6. d.pc \notin Between
  BY <1>3 DEF Between
<1> QED
  BY <1>2, <1>3, <1>4, <1>5, <1>6, StaysAtEvent DEF Sane, Between, d

\* Only the await changes, and nobody commits.
LEMMA GotoStep ==
  ASSUME Inv, NEW w \in Workers, NEW c, c = worker[w], c.pc \notin Between,
         NEW pc \in Awaits \ Between, Goto(w, pc), ReadsOnly,
         \A d : d.pc = pc /\ d.plan = c.plan /\ d.result = c.result /\ d.refusal = c.refusal
                /\ d.canonical = c.canonical /\ Msg(d) = Msg(c) /\ Evt(d) = Evt(c)
               => PlanOK(d) /\ ResultOK(d) /\ ExhaustionOK(d)
  PROVE  Inv'
<1> DEFINE d == [c EXCEPT !.pc = pc]
<1>1. Sane(c) /\ c \in Call_
  BY DEF Inv
<1>2. /\ d.pc = pc /\ d.plan = c.plan /\ d.result = c.result /\ d.refusal = c.refusal
      /\ d.canonical = c.canonical /\ d.stream = c.stream /\ d.at = c.at
  BY <1>1 DEF Call_
<1>3. worker' = [worker EXCEPT ![w] = d]
  BY DEF Goto, Inv
<1> HIDE DEF d
<1>4. PlanOK(d) /\ ResultOK(d) /\ ExhaustionOK(d)
  BY <1>2, SameEvent
<1>5. Sane(d)
  BY <1>1, <1>4, GoesTo DEF d, Between
<1> QED
  BY <1>3, <1>5, CallReads

\* The driver's work, in a delivery or in a recovery.
LEMMA AdmitStep ==
  ASSUME Inv, NEW w \in Workers, worker[w].pc \notin Between, Counted,
         NEW pc \in {"authorizeResult", "authorizeRecovery"}, NEW done \in {"check", "reconcile"},
         Admit(w, pc, done)
  PROVE  Inv'
<1> PICK c : c = worker[w]
  OBVIOUS
<1>1. /\ Sane(c) /\ c \in Call_ /\ JournalInv /\ c.pc \notin Between
      /\ Message(w) = Msg(c) /\ Msg(c) \in Messages
  BY EventTyped DEF Inv, JournalInv, Message, Msg, Between
<1>2. PICK a \in Awaits, r \in {"rejected", "retry", "barrier"} :
          /\ worker' = [worker EXCEPT ![w] = [c EXCEPT !.pc = a, !.result = r]]
          /\ \/ a = pc /\ r # "barrier"
             \/ a = done /\ r = "barrier"
          /\ UNCHANGED journalVars \/ \E state : CommitOperation(Message(w), state)
  BY DEF Admit, Become, Awaits
<1>3. JournalInv' /\ Grows
  BY <1>1, <1>2, GrowsAlways, OperationCommitted
<1>4. Sane([c EXCEPT !.pc = a, !.result = r])
  BY <1>1, <1>2, ResultSane
<1> QED
  BY <1>2, <1>3, <1>4, CallSteps DEF Counted, Inv

LEMMA DeliverSteps ==
  ASSUME Inv, NEW w \in Workers, Deliver(w)
  PROVE  Inv'
<1> PICK c : c = worker[w]
  OBVIOUS
<1>1. Sane(c) /\ c \in Call_ /\ JournalTypeOK /\ JournalInv /\ Message(w) = Msg(c)
  BY DEF Inv, JournalInv, Message, Msg
<1>2. CASE Handle(w)
  <2>1. PICK r \in Results :
            worker' = [worker EXCEPT ![w] = [c EXCEPT !.pc = "authorizeResult", !.result = r]]
    BY <1>2 DEF Handle, Become
  <2>2. c.pc = "prepare" /\ ReadsOnly /\ Msg(c) \notin Barriered
    BY <1>1, <1>2 DEF Handle, At
  <2>3. r \in {"applied", "rejected", "retry", "barrier"}
    BY EventAssumption
  <2>4. Sane([c EXCEPT !.pc = "authorizeResult", !.result = r])
    BY <1>1, <2>2, <2>3, ResultSane DEF Between
  <2> QED
    BY <2>1, <2>2, <2>4, CallReads
<1>3. CASE Prepare(w)
  <2>1. /\ worker' = [worker EXCEPT ![w] = [c EXCEPT !.pc = "persist", !.result = "barrier"]]
        /\ c.pc = "prepare" /\ Counted /\ CommitOperation(Msg(c), "pending")
    BY <1>1, <1>3 DEF Prepare, Become, At
  <2>2. Sane([c EXCEPT !.pc = "persist", !.result = "barrier"])
    BY <1>1, <2>1, ResultSane DEF Between
  <2>3. JournalInv' /\ Grows
    BY <1>1, <2>1, EventTyped, OperationCommitted
  <2> QED
    BY <2>1, <2>2, <2>3, CallSteps DEF Counted, Inv
<1>4. CASE PersistIntent(w)
  <2>1. /\ worker' = [worker EXCEPT ![w] = [c EXCEPT !.pc = "execute"]]
        /\ c.pc = "persist" /\ Counted /\ CommitIntent(Evt(c))
    BY <1>1, <1>4 DEF PersistIntent, Goto, At, Inv, EventOf, Evt
  <2> DEFINE d == [c EXCEPT !.pc = "execute"]
  <2>2. /\ d.pc = "execute" /\ d.result = c.result
    BY <1>1 DEF Call_
  <2>3. c.result = "barrier"
    BY <1>1, <2>1 DEF Sane, ResultOK
  <2> HIDE DEF d
  <2>4. PlanOK(d) /\ ResultOK(d) /\ ExhaustionOK(d)
    BY <2>2, <2>3 DEF PlanOK, ResultOK, ExhaustionOK
  <2>5. Sane(d)
    BY <1>1, <2>1, <2>4, GoesTo DEF d, Awaits
  <2>6. JournalInv' /\ Grows
    BY <1>1, <2>1, EventTyped, IntentCommitted
  <2> QED
    BY <2>1, <2>5, <2>6, CallSteps DEF Counted, Inv, d
<1>5. CASE Execute(w)
  BY <1>5, AdmitStep DEF Execute, At, Between
<1>6. CASE CheckOperation(w)
  <2>1. c.pc = "check" /\ ReadsOnly
    BY <1>6 DEF CheckOperation, At
  <2>2. CASE Barred(Msg(c))
    BY <1>1, <1>6, <2>1, <2>2, NextStreamStep DEF CheckOperation
  <2>3. CASE ~Barred(Msg(c))
    <3>1. Goto(w, "authorizeResult")
      BY <1>1, <1>6, <2>3 DEF CheckOperation
    <3>2. c.result = "barrier" /\ operation[Msg(c)] \in Done
      BY <1>1, <2>1, <2>3 DEF Sane, ResultOK, Barred, Done
    <3>3. \A d : d.pc = "authorizeResult" /\ d.result = c.result /\ Msg(d) = Msg(c)
                => PlanOK(d) /\ ResultOK(d) /\ ExhaustionOK(d)
      BY <3>2 DEF PlanOK, ResultOK, ExhaustionOK
    <3>4. "authorizeResult" \in Awaits \ Between /\ c.pc \notin Between
      BY <2>1 DEF Awaits, Between
    <3> QED
      BY <2>1, <3>1, <3>3, <3>4, GotoStep
  <2> QED
    BY <2>2, <2>3
<1>7. CASE AuthorizeResult(w)
  <2>1. c.pc = "authorizeResult" /\ ReadsOnly /\ c.pc \notin Between
    BY <1>7 DEF AuthorizeResult, At, Between
  <2>2. CASE ~Delivers
    BY <1>7, <2>1, <2>2, RefuseStep DEF AuthorizeResult
  <2>3. CASE Delivers /\ c.result = "retry"
    BY <1>7, <2>1, <2>3, GotoFreeStep DEF AuthorizeResult, Free
  <2>4. CASE Delivers /\ c.result # "retry"
    <3>1. Goto(w, "authorizeCommit")
      BY <1>7, <2>4 DEF AuthorizeResult
    <3>2. ResultOK(c)
      BY <1>1, <2>1 DEF Sane
    <3>3. \A d : d.pc = "authorizeCommit" /\ d.result = c.result /\ Msg(d) = Msg(c)
                => PlanOK(d) /\ ResultOK(d) /\ ExhaustionOK(d)
      BY <2>1, <2>4, <3>2 DEF PlanOK, ResultOK, ExhaustionOK
    <3>4. "authorizeCommit" \in Awaits \ Between
      BY DEF Awaits, Between
    <3> QED
      BY <2>1, <3>1, <3>3, <3>4, GotoStep
  <2> QED
    BY <2>2, <2>3, <2>4
<1>8. CASE AuthorizeCommit(w)
  <2>1. c.pc = "authorizeCommit" /\ ReadsOnly /\ c.pc \notin Between
    BY <1>8 DEF AuthorizeCommit, At, Between
  <2>2. CASE ~Delivers
    BY <1>8, <2>1, <2>2, RefuseStep DEF AuthorizeCommit
  <2>3. CASE Delivers
    <3>1. Goto(w, "commit")
      BY <1>8, <2>3 DEF AuthorizeCommit
    <3>2. ResultOK(c)
      BY <1>1, <2>1 DEF Sane
    <3>3. \A d : d.pc = "commit" /\ d.result = c.result /\ Msg(d) = Msg(c)
                => PlanOK(d) /\ ResultOK(d) /\ ExhaustionOK(d)
      BY <2>1, <3>2 DEF PlanOK, ResultOK, ExhaustionOK
    <3>4. "commit" \in Awaits \ Between
      BY DEF Awaits, Between
    <3> QED
      BY <2>1, <3>1, <3>3, <3>4, GotoStep
  <2> QED
    BY <2>2, <2>3
<1> QED
  BY <1>2, <1>3, <1>4, <1>5, <1>6, <1>7, <1>8 DEF Deliver

-------------------------------------------------------------------------------
(* Recovery. *)

LEMMA RecoverySteps ==
  ASSUME Inv, NEW w \in Workers, Recovery(w)
  PROVE  Inv'
<1> PICK c : c = worker[w]
  OBVIOUS
<1>1. Sane(c) /\ c \in Call_ /\ JournalTypeOK /\ JournalInv /\ Message(w) = Msg(c)
  BY DEF Inv, JournalInv, Message, Msg
<1>2. CASE ReadRecovery(w)
  <2>1. c.pc = "recovery" /\ ReadsOnly /\ c.pc \notin Between
    BY <1>2 DEF ReadRecovery, At, Between
  <2> PICK o : o = obligation[Evt(c)]
    OBVIOUS
  <2>2. o.attempt \in Nat /\ ObligationOK(o)
        /\ o.state \in {"none", "pending", "exhausted"} /\ Evt(c) \in Events
    BY <1>1, <2>1, EventTyped DEF JournalInv, JournalTypeOK
  <2>3. \/ o.state = "exhausted" /\ Goto(w, "recoverExhausted")
        \/ NextStream(w)
        \/ /\ o.state # "exhausted"
           /\ worker' = [worker EXCEPT ![w] = [c EXCEPT !.pc = "recover", !.attempt = o.attempt + 1]]
    BY <1>2 DEF ReadRecovery, Become, EventOf, Message, Evt, Msg, Plans
  <2>4. CASE o.state = "exhausted" /\ Goto(w, "recoverExhausted")
    <3>1. \A d : d.pc = "recoverExhausted" /\ Evt(d) = Evt(c)
                => PlanOK(d) /\ ResultOK(d) /\ ExhaustionOK(d)
      BY <2>4 DEF PlanOK, ResultOK, ExhaustionOK
    <3>2. "recoverExhausted" \in Awaits \ Between
      BY DEF Awaits, Between
    <3> QED
      BY <2>1, <2>4, <3>1, <3>2, GotoStep
  <2>5. CASE NextStream(w)
    BY <2>1, <2>5, NextStreamStep
  <2>6. CASE /\ o.state # "exhausted"
             /\ worker' = [worker EXCEPT ![w] = [c EXCEPT !.pc = "recover", !.attempt = o.attempt + 1]]
    <3> PICK n : n = o.attempt + 1
      OBVIOUS
    <3> DEFINE d == [c EXCEPT !.pc = "recover", !.attempt = n]
    <3>1. n \in Nat /\ n <= RetryLimit
      BY <2>2, <2>6, EventAssumption DEF ObligationOK
    <3>2. d \in Call_
      <4>1. "recover" \in Awaits
        BY DEF Awaits
      <4> QED
        BY <1>1, <3>1, <4>1, CallUpdated
    <3>3. /\ d.pc = "recover" /\ d.attempt = n /\ d.stream = c.stream /\ d.at = c.at
          /\ d.upto = c.upto /\ d.canonical = c.canonical
      BY <1>1 DEF Call_
    <3>4. worker' = [worker EXCEPT ![w] = d]
      BY <2>6
    <3> HIDE DEF d
    <3>5. AtEvent(d)
      BY <1>1, <2>1, <2>2, <3>3, SameEvent DEF Sane, AtEvent, Between
    <3>6. PlanOK(d) /\ ResultOK(d) /\ ExhaustionOK(d) /\ d.pc \notin Between
      BY <3>3 DEF PlanOK, ResultOK, ExhaustionOK, Between
    <3>7. Sane(d)
      BY <1>1, <2>1, <3>1, <3>2, <3>3, <3>5, <3>6, StaysAtEvent DEF Between
    <3> QED
      BY <2>1, <3>4, <3>7, CallReads
  <2> QED
    BY <2>3, <2>4, <2>5, <2>6
<1>3. CASE RecoverExhausted(w)
  <2>1. c.pc = "recoverExhausted" /\ ReadsOnly /\ c.pc \notin Between
    BY <1>3 DEF RecoverExhausted, At, Between
  <2>2. CASE ~Delivers
    BY <1>3, <2>1, <2>2, NextStreamStep DEF RecoverExhausted
  <2>3. CASE Delivers
    <3>1. Goto(w, "deadLetter")
      BY <1>3, <2>3 DEF RecoverExhausted
    <3>2. ExhaustionOK(c)
      BY <1>1, <2>1 DEF Sane
    <3>3. \A d : d.pc = "deadLetter" /\ Evt(d) = Evt(c)
                => PlanOK(d) /\ ResultOK(d) /\ ExhaustionOK(d)
      BY <2>1, <3>2 DEF PlanOK, ResultOK, ExhaustionOK
    <3>4. "deadLetter" \in Awaits \ Between
      BY DEF Awaits, Between
    <3> QED
      BY <2>1, <3>1, <3>3, <3>4, GotoStep
  <2> QED
    BY <2>2, <2>3
<1>4. CASE Recover(w)
  <2>1. c.pc = "recover" /\ Counted /\ c.pc \notin Between
    BY <1>4 DEF Recover, At, Between
  <2>2. CASE Admit(w, "authorizeRecovery", "reconcile")
    BY <2>1, <2>2, AdmitStep
  <2>3. CASE ~Admit(w, "authorizeRecovery", "reconcile")
    <3>1. PICK pc \in {"authorizeRecovery", "reconcile"}, r \in {"rejected", "barrier"} :
              /\ worker' = [worker EXCEPT ![w] = [c EXCEPT !.pc = pc, !.result = r]]
              /\ UNCHANGED journalVars
              /\ pc = "reconcile" => r = "barrier"
      BY <1>4, <2>3 DEF Recover, Resumed, Become
    <3>2. Sane([c EXCEPT !.pc = pc, !.result = r])
      BY <1>1, <2>1, <3>1, ResultSane
    <3> QED
      BY <2>1, <3>1, <3>2, CallReads DEF ReadsOnly
  <2> QED
    BY <2>2, <2>3
<1>5. CASE Reconcile(w)
  <2>1. /\ worker' = [worker EXCEPT ![w] = [c EXCEPT !.pc = "authorizeRecovery"]]
        /\ c.pc = "reconcile" /\ Counted /\ CommitOperation(Msg(c), "reconciled")
    BY <1>1, <1>5 DEF Reconcile, Goto, At, Inv
  <2> DEFINE d == [c EXCEPT !.pc = "authorizeRecovery"]
  <2>2. d.pc = "authorizeRecovery" /\ d.result = c.result
    BY <1>1 DEF Call_
  <2>3. c.result = "barrier"
    BY <1>1, <2>1 DEF Sane, ResultOK
  <2> HIDE DEF d
  <2>4. PlanOK(d) /\ ResultOK(d) /\ ExhaustionOK(d)
    BY <2>2, <2>3 DEF PlanOK, ResultOK, ExhaustionOK
  <2>5. Sane(d)
    BY <1>1, <2>1, <2>4, GoesTo DEF d, Awaits
  <2>6. JournalInv' /\ Grows
    BY <1>1, <2>1, EventTyped, OperationCommitted
  <2> QED
    BY <2>1, <2>5, <2>6, CallSteps DEF Counted, Inv, d
<1>6. CASE AuthorizeRecovery(w)
  <2>1. c.pc = "authorizeRecovery" /\ ReadsOnly /\ c.pc \notin Between
    BY <1>6 DEF AuthorizeRecovery, At, Between
  <2>2. ResultOK(c)
    BY <1>1, <2>1 DEF Sane
  <2>3. CASE c.result = "retry"
    BY <1>6, <2>1, <2>3, GotoFreeStep DEF AuthorizeRecovery, Free
  <2>4. CASE c.result = "barrier"
    <3>1. Goto(w, "checkRecovery")
      BY <1>6, <2>4 DEF AuthorizeRecovery
    <3>2. \A d : d.pc = "checkRecovery" /\ d.result = c.result
                => PlanOK(d) /\ ResultOK(d) /\ ExhaustionOK(d)
      BY <2>4 DEF PlanOK, ResultOK, ExhaustionOK
    <3>3. "checkRecovery" \in Awaits \ Between
      BY DEF Awaits, Between
    <3> QED
      BY <2>1, <3>1, <3>2, <3>3, GotoStep
  <2>5. CASE c.result \notin {"retry", "barrier"}
    <3>1. Goto(w, "commit")
      BY <1>6, <2>5 DEF AuthorizeRecovery
    <3>2. \A d : d.pc = "commit" /\ d.result = c.result /\ Msg(d) = Msg(c)
                => PlanOK(d) /\ ResultOK(d) /\ ExhaustionOK(d)
      BY <2>1, <2>2, <2>5 DEF PlanOK, ResultOK, ExhaustionOK
    <3>3. "commit" \in Awaits \ Between
      BY DEF Awaits, Between
    <3> QED
      BY <2>1, <3>1, <3>2, <3>3, GotoStep
  <2> QED
    BY <2>3, <2>4, <2>5
<1>7. CASE CheckRecovery(w)
  <2>1. c.pc = "checkRecovery" /\ ReadsOnly /\ c.pc \notin Between
    BY <1>7 DEF CheckRecovery, At, Between
  <2>2. CASE Barred(Msg(c))
    BY <1>1, <1>7, <2>1, <2>2, NextStreamStep DEF CheckRecovery
  <2>3. CASE ~Barred(Msg(c))
    <3>1. Goto(w, "recoveryReceipt")
      BY <1>1, <1>7, <2>3 DEF CheckRecovery
    <3>2. c.result = "barrier" /\ operation[Msg(c)] \in Done
      BY <1>1, <2>1, <2>3 DEF Sane, ResultOK, Barred, Done
    <3>3. \A d : d.pc = "recoveryReceipt" /\ d.result = c.result /\ Msg(d) = Msg(c)
                => PlanOK(d) /\ ResultOK(d) /\ ExhaustionOK(d)
      BY <3>2 DEF PlanOK, ResultOK, ExhaustionOK
    <3>4. "recoveryReceipt" \in Awaits \ Between
      BY DEF Awaits, Between
    <3> QED
      BY <2>1, <3>1, <3>3, <3>4, GotoStep
  <2> QED
    BY <2>2, <2>3
<1>8. CASE ReadRecoveryReceipt(w)
  <2>1. PICK r \in Canonical(Msg(c)) :
            worker' = [worker EXCEPT ![w] = [c EXCEPT !.pc = "authorizeRecovered", !.canonical = r]]
    BY <1>1, <1>8 DEF ReadRecoveryReceipt, Become
  <2>2. c.pc = "recoveryReceipt" /\ ReadsOnly
    BY <1>8 DEF ReadRecoveryReceipt, At
  <2> DEFINE d == [c EXCEPT !.pc = "authorizeRecovered", !.canonical = r]
  <2>3. r \in Streams \cup {NoStream}
    BY <1>1, <2>2, EventTyped, CanonicalFound
  <2>4. d \in Call_
    <3>1. "authorizeRecovered" \in Awaits
      BY DEF Awaits
    <3> QED
      BY <1>1, <2>3, <3>1, CallUpdated
  <2>5. /\ d.pc = "authorizeRecovered" /\ d.canonical = r /\ d.stream = c.stream /\ d.at = c.at
        /\ d.upto = c.upto /\ d.attempt = c.attempt /\ d.result = c.result
    BY <1>1 DEF Call_
  <2> HIDE DEF d
  <2>6. ResultOK(c)
    BY <1>1, <2>2 DEF Sane
  <2>7. PlanOK(d) /\ ResultOK(d) /\ ExhaustionOK(d)
    BY <2>2, <2>5, <2>6, SameEvent DEF PlanOK, ResultOK, ExhaustionOK
  <2>8. Sane(d)
    BY <1>1, <2>2, <2>4, <2>5, <2>7, CanonicalSane DEF Between
  <2> QED
    BY <2>1, <2>2, <2>8, CallReads DEF d
<1>9. CASE AuthorizeRecovered(w)
  <2>1. c.pc = "authorizeRecovered" /\ ReadsOnly /\ c.pc \notin Between
    BY <1>9 DEF AuthorizeRecovered, At, Between
  <2>2. ResultOK(c)
    BY <1>1, <2>1 DEF Sane
  <2>3. CASE ~Delivers
    BY <1>9, <2>1, <2>3, NextStreamStep DEF AuthorizeRecovered
  <2>4. CASE Delivers /\ c.canonical = NoStream
    <3>1. Goto(w, "commit")
      BY <1>9, <2>4 DEF AuthorizeRecovered
    <3>2. \A d : d.pc = "commit" /\ d.result = c.result /\ Msg(d) = Msg(c)
                => PlanOK(d) /\ ResultOK(d) /\ ExhaustionOK(d)
      BY <2>1, <2>2 DEF PlanOK, ResultOK, ExhaustionOK
    <3>3. "commit" \in Awaits \ Between
      BY DEF Awaits, Between
    <3> QED
      BY <2>1, <3>1, <3>2, <3>3, GotoStep
  <2>5. CASE Delivers /\ c.canonical # NoStream
    <3>1. Goto(w, "duplicate")
      BY <1>9, <2>5 DEF AuthorizeRecovered
    <3>2. \A d : d.pc = "duplicate" /\ d.canonical = c.canonical
                => PlanOK(d) /\ ResultOK(d) /\ ExhaustionOK(d)
      BY <2>5 DEF PlanOK, ResultOK, ExhaustionOK
    <3>3. "duplicate" \in Awaits \ Between
      BY DEF Awaits, Between
    <3> QED
      BY <2>1, <3>1, <3>2, <3>3, GotoStep
  <2> QED
    BY <2>3, <2>4, <2>5
<1> QED
  BY <1>2, <1>3, <1>4, <1>5, <1>6, <1>7, <1>8, <1>9 DEF Recovery

-------------------------------------------------------------------------------
(* Commits. *)

LEMMA FreshCall ==
  ASSUME NEW c \in Call_, NEW at \in Nat
  PROVE  [Idle EXCEPT !.pc = "event", !.left = c.left, !.stream = c.stream, !.at = at,
                      !.upto = c.upto] \in Call_
BY DEF Idle, Call_, Awaits

\* A call commits a receipt and goes on to the next event.
LEMMA CommitStep ==
  ASSUME Inv, NEW w \in Workers, NEW c, c = worker[w], c.pc \notin Between,
         NEW r \in Streams, NEW disposition, Commit(w, r, disposition),
         ~Held(r, Msg(c)) => disposition \in Final,
         ~Held(r, Msg(c)) /\ disposition = "applied" /\ Msg(c) \in Barriered =>
             operation[Msg(c)] \in Done,
         ~Held(r, Msg(c)) /\ disposition = "terminal-failure" =>
             <<r, Msg(c)>> \in deadLetters /\ obligation[<<r, Msg(c)>>].state = "exhausted"
  PROVE  Inv'
<1> PICK at : at = c.at + 1
  OBVIOUS
<1> DEFINE d == [Idle EXCEPT !.pc = "event", !.left = c.left, !.stream = c.stream,
                             !.at = at, !.upto = c.upto]
<1>1. /\ Sane(c) /\ c \in Call_ /\ JournalInv /\ JournalTypeOK
      /\ CommitConsumer(r, Msg(c), c.stream, c.at, disposition) /\ Counted
      /\ worker' = [worker EXCEPT ![w] = d]
  BY DEF Inv, JournalInv, Commit, Message, Msg, NextEvent, Fresh, Become
<1>2. /\ c.stream \in Streams /\ Msg(c) \in Messages /\ c.at \in Nat /\ at \in Nat \ {0}
      /\ InStream(c)
  BY <1>1, EventTyped DEF Between, Call_, Sane
<1>3. /\ JournalInv' /\ Grows /\ cursor'[c.stream] >= c.at
      /\ UNCHANGED <<log, obligation, deadLetters, intents, operation>>
  BY <1>1, <1>2, ReceiptCommitted
<1>4. d \in Call_
  BY <1>1, <1>2, FreshCall
<1>5. /\ d.pc = "event" /\ d.stream = c.stream /\ d.at = at /\ d.upto = c.upto
      /\ d.attempt = 0 /\ d.canonical = NoStream
  BY DEF Idle
<1> HIDE DEF d
<1>6. cursor'[c.stream] \in Nat
  BY <1>2, <1>3 DEF JournalInv, JournalTypeOK
<1>7. InStream(d)'
  BY <1>2, <1>3, <1>5, <1>6 DEF InStream
<1>8. Sane(d)'
  BY <1>4, <1>5, <1>7, EventAssumption DEF Sane
<1> QED
  BY <1>1, <1>3, <1>8, CallSteps DEF Counted, Inv

\* The event of the call is exhausted.
LEMMA ExhaustionStep ==
  ASSUME Inv, JournalInv', Grows, NEW w \in Workers, NEW c, c = worker[w], c.pc \notin Between,
         NEW pc \in {"deadLetter", "exhausted"}, Goto(w, pc), Counted,
         obligation'[Evt(c)].state = "exhausted", UNCHANGED log,
         pc = "exhausted" => Evt(c) \in deadLetters'
  PROVE  Inv'
<1> DEFINE d == [c EXCEPT !.pc = pc]
<1>1. Sane(c) /\ c \in Call_ /\ JournalTypeOK /\ JournalTypeOK'
  BY DEF Inv, JournalInv
<1>2. Sane(c)'
  BY <1>1, SaneStays
<1>3. worker' = [worker EXCEPT ![w] = d]
  BY DEF Goto, Inv
<1>4. pc \in Awaits
  BY DEF Awaits
<1>5. /\ d \in Call_ /\ d.pc = pc /\ d.stream = c.stream /\ d.at = c.at /\ d.upto = c.upto
      /\ d.attempt = c.attempt /\ d.canonical = c.canonical
  BY <1>1, <1>4 DEF Call_
<1> HIDE DEF d
<1>6. Evt(c)' = Evt(c)
  BY DEF Evt, Msg
<1>7. InStream(d)' /\ AtEvent(d)'
  BY <1>2, <1>5 DEF Sane, InStream, AtEvent, Evt, Msg, Between
<1>8. Evt(d)' = Evt(c)
  BY <1>5, <1>6 DEF Evt, Msg
<1>9. PlanOK(d)' /\ ResultOK(d)' /\ ExhaustionOK(d)'
  BY <1>5, <1>8 DEF PlanOK, ResultOK, ExhaustionOK
<1>10. Sane(d)'
  BY <1>2, <1>5, <1>7, <1>9 DEF Sane
<1> QED
  BY <1>3, <1>10, CallSteps DEF Counted, Inv

LEMMA SettleSteps ==
  ASSUME Inv, NEW w \in Workers, Settle(w)
  PROVE  Inv'
<1> PICK c : c = worker[w]
  OBVIOUS
<1>1. /\ Sane(c) /\ c \in Call_ /\ JournalTypeOK /\ JournalInv
      /\ Message(w) = Msg(c) /\ EventOf(w) = Evt(c) /\ Evt(c) = <<c.stream, Msg(c)>>
  BY DEF Inv, JournalInv, Message, Msg, EventOf, Evt
<1>2. CASE CommitDuplicate(w)
  <2>1. /\ c.pc = "duplicate" /\ c.pc \notin Between
        /\ Commit(w, c.canonical, receipt[<<c.canonical, Msg(c)>>])
    BY <1>1, <1>2 DEF CommitDuplicate, At, Between
  <2>2. c.canonical \in Streams
    BY <1>1, <2>1 DEF Sane, PlanOK, Call_
  <2>3. Held(c.canonical, Msg(c))
    BY <1>1, <2>1 DEF Sane, PlanOK, AtEvent, Held
  <2> QED
    BY <2>1, <2>2, <2>3, CommitStep
<1>3. CASE CommitTerminal(w)
  <2>1. c.pc = "terminal" /\ c.pc \notin Between
    BY <1>3 DEF CommitTerminal, At, Between
  <2> PICK r : r = IF c.canonical = NoStream THEN c.stream ELSE c.canonical
    OBVIOUS
  <2>2. Commit(w, r, c.refusal)
    BY <1>3 DEF CommitTerminal
  <2>3. r \in Streams
    BY <1>1, <2>1, EventTyped DEF Between, Call_
  <2>4. c.refusal \in {"stale", "rejected"}
    BY <1>1, <2>1 DEF Sane, PlanOK, Call_
  <2>5. c.refusal \in Final /\ c.refusal # "applied" /\ c.refusal # "terminal-failure"
    BY <2>4 DEF Final
  <2> QED
    BY <2>1, <2>2, <2>3, <2>5, CommitStep
<1>4. CASE CommitResult(w)
  <2>1. c.pc = "commit" /\ c.pc \notin Between
    BY <1>4 DEF CommitResult, At, Between
  <2> PICK x : x = Disposition(w)
    OBVIOUS
  <2>2. Commit(w, c.stream, x) /\ c.stream \in Streams
    BY <1>1, <1>4, <2>1, EventTyped DEF CommitResult, Between
  <2>3. /\ c.result \in {"applied", "rejected", "barrier"}
        /\ Msg(c) \in Barriered => c.result # "applied"
        /\ Msg(c) \in Barriered /\ c.result = "barrier" => operation[Msg(c)] \in Done
    BY <1>1, <2>1 DEF Sane, ResultOK, Call_
  <2>4. x = IF c.result = "barrier" THEN "applied" ELSE c.result
    BY DEF Disposition
  <2>5. /\ x \in Final /\ x # "terminal-failure"
        /\ x = "applied" /\ Msg(c) \in Barriered => operation[Msg(c)] \in Done
    BY <2>3, <2>4 DEF Final
  <2> QED
    BY <2>1, <2>2, <2>5, CommitStep
<1>5. ASSUME CommitPending(w) \/ CommitExhausted(w)
      PROVE  /\ c.pc = "retry" /\ c.pc \notin Between /\ Evt(c) \in Events
             /\ c.attempt \in Nat /\ c.attempt <= RetryLimit
             /\ c.attempt <= obligation[Evt(c)].attempt + 1
  <2>1. c.pc = "retry"
    BY <1>5 DEF CommitPending, CommitExhausted, At
  <2> QED
    BY <1>1, <2>1, EventTyped DEF Between, Sane, AtEvent, Call_
<1>6. CASE CommitPending(w)
  <2>1. /\ c.attempt < RetryLimit /\ CommitRetry(Evt(c), c.attempt, "pending") /\ Counted
        /\ worker' = [worker EXCEPT ![w] = [Idle EXCEPT !.pc = "open", !.left = c.left]]
    BY <1>1, <1>6 DEF CommitPending, BelowLimit, NextStream, Become
  <2>2. ObligationOK([attempt |-> c.attempt, state |-> "pending"])
    BY <2>1 DEF ObligationOK
  <2>3. JournalInv' /\ Grows
    BY <1>1, <1>5, <1>6, <2>1, <2>2, RetryCommitted
  <2>4. Sane([Idle EXCEPT !.pc = "open", !.left = c.left])
    BY <1>1, LeavesSane DEF Call_
  <2> QED
    BY <2>1, <2>3, <2>4, CallSteps DEF Counted, Inv
<1>7. CASE CommitExhausted(w)
  <2>1. /\ ~(c.attempt < RetryLimit) /\ CommitRetry(Evt(c), c.attempt, "exhausted") /\ Counted
        /\ Goto(w, "deadLetter")
    BY <1>1, <1>7 DEF CommitExhausted, BelowLimit
  <2>2. c.attempt = RetryLimit
    BY <1>5, <1>7, <2>1, EventAssumption
  <2>3. ObligationOK([attempt |-> c.attempt, state |-> "exhausted"])
    BY <2>2 DEF ObligationOK
  <2>4. JournalInv' /\ Grows /\ obligation'[Evt(c)].state = "exhausted"
    BY <1>1, <1>5, <1>7, <2>1, <2>3, RetryCommitted
  <2>5. UNCHANGED log
    BY <2>1 DEF CommitRetry
  <2> QED
    BY <1>5, <1>7, <2>1, <2>4, <2>5, ExhaustionStep
<1>8. CASE DeadLetter(w)
  <2>1. /\ c.pc = "deadLetter" /\ c.pc \notin Between /\ Counted /\ Goto(w, "exhausted")
        /\ CommitDlq(Evt(c))
    BY <1>1, <1>8 DEF DeadLetter, At, Between
  <2>2. obligation[Evt(c)].state = "exhausted" /\ Evt(c) \in Events
    BY <1>1, <2>1, EventTyped DEF Sane, ExhaustionOK
  <2>3. JournalInv' /\ Grows /\ Evt(c) \in deadLetters'
    BY <1>1, <2>1, <2>2, LetterCommitted
  <2>4. UNCHANGED <<log, obligation>>
    BY <2>1 DEF CommitDlq
  <2>5. obligation'[Evt(c)].state = "exhausted"
    BY <2>2, <2>4
  <2> QED
    BY <2>1, <2>3, <2>4, <2>5, ExhaustionStep
<1>9. CASE CommitFailure(w)
  <2>1. /\ c.pc = "exhausted" /\ c.pc \notin Between /\ Commit(w, c.stream, "terminal-failure")
    BY <1>9 DEF CommitFailure, At, Between
  <2>2. /\ c.stream \in Streams /\ Evt(c) \in deadLetters
        /\ obligation[Evt(c)].state = "exhausted"
    BY <1>1, <2>1, EventTyped DEF Sane, ExhaustionOK
  <2>3. "terminal-failure" \in Final
    BY DEF Final
  <2> QED
    BY <1>1, <2>1, <2>2, <2>3, CommitStep
<1> QED
  BY <1>2, <1>3, <1>4, <1>6, <1>7, <1>8, <1>9 DEF Settle

-------------------------------------------------------------------------------
(* The environment, and the invariant. *)

\* The journal grows and no call moves.
LEMMA CallsStay ==
  ASSUME Inv, JournalInv', Grows, UNCHANGED worker,
         binding' \in Bindings, calls' \in 0 .. MaxCalls, changes' \in 0 .. MaxChanges
  PROVE  Inv'
<1>1. JournalTypeOK /\ JournalTypeOK'
  BY DEF Inv, JournalInv
<1>2. ASSUME NEW k \in Workers PROVE Sane(worker[k])'
  <2>1. PICK c : c = worker[k]
    OBVIOUS
  <2>2. Sane(c)' /\ worker'[k] = c
    BY <1>1, <2>1, SaneStays DEF Inv
  <2> QED
    BY <2>2 DEF Sane, InStream, AtEvent, PlanOK, ResultOK, ExhaustionOK, Msg, Evt
<1> QED
  BY <1>2 DEF Inv

LEMMA EnvironmentSteps ==
  ASSUME Inv,
         \/ \E s \in Streams, m \in Messages : Publish(s, m)
         \/ \E d \in Bindings : Rebind(d)
         \/ \E m \in Messages : \E state \in {"unknown", "reconciled"} : Report(m, state)
         \/ UNCHANGED vars
  PROVE  Inv'
<1>1. /\ JournalInv /\ binding \in Bindings
      /\ calls \in 0 .. MaxCalls /\ changes \in 0 .. MaxChanges
      /\ MaxCalls \in Nat /\ MaxChanges \in Nat
  BY EventAssumption DEF Inv
<1>2. ASSUME NEW s \in Streams, NEW m \in Messages, Publish(s, m) PROVE Inv'
  <2>1. AppendEvent(s, m) /\ UNCHANGED worker /\ Counted
    BY <1>2 DEF Publish
  <2>2. JournalInv' /\ Grows
    BY <1>1, <2>1, EventAppended
  <2> QED
    BY <1>1, <2>1, <2>2, CallsStay DEF Counted
<1>3. ASSUME NEW d \in Bindings, Rebind(d) PROVE Inv'
  <2>1. UNCHANGED journalVars /\ UNCHANGED worker /\ UNCHANGED calls
    BY <1>3 DEF Rebind
  <2>2. binding' \in Bindings /\ changes' \in 0 .. MaxChanges
    BY <1>1, <1>3 DEF Rebind
  <2>3. JournalInv' /\ Grows
    BY <1>1, <2>1, GrowsAlways
  <2> QED
    BY <1>1, <2>1, <2>2, <2>3, CallsStay
<1>4. ASSUME NEW m \in Messages, NEW state, Report(m, state) PROVE Inv'
  <2>1. CommitOperation(m, state) /\ UNCHANGED worker /\ UNCHANGED calls /\ UNCHANGED binding
    BY <1>4 DEF Report
  <2>2. changes' \in 0 .. MaxChanges
    BY <1>1, <1>4 DEF Report
  <2>3. JournalInv' /\ Grows
    BY <1>1, <2>1, OperationCommitted
  <2> QED
    BY <1>1, <2>1, <2>2, <2>3, CallsStay
<1>5. CASE UNCHANGED vars
  <2>1. JournalInv' /\ Grows
    BY <1>1, <1>5, GrowsAlways DEF vars
  <2> QED
    BY <1>1, <1>5, <2>1, CallsStay DEF vars
<1> QED
  BY <1>2, <1>3, <1>4, <1>5

LEMMA InvNext == Inv /\ [Next]_vars => Inv'
<1> SUFFICES ASSUME Inv, [Next]_vars PROVE Inv'
  OBVIOUS
<1>1. ASSUME NEW w \in Workers,
             Call(w) \/ OpenStream(w) \/ ReadIntent(w) \/ Leave(w)
             \/ Read(w) \/ Deliver(w) \/ Recovery(w) \/ Settle(w)
      PROVE  Inv'
  BY <1>1, OpenSteps, ReadSteps, DeliverSteps, RecoverySteps, SettleSteps
<1> QED
  BY <1>1, EnvironmentSteps DEF Next

-------------------------------------------------------------------------------
(* The steps of the contract. *)

\* What a commit may say: it gives an event its own receipt, or repeats one.
LEMMA CommitReady ==
  ASSUME Inv, NEW w \in Workers,
         CommitDuplicate(w) \/ CommitTerminal(w) \/ CommitResult(w) \/ CommitFailure(w)
  PROVE  LET c == worker[w] IN
         /\ Sane(c) /\ c.pc \notin Between
         /\ \E r \in Streams : \E disposition :
               /\ CommitConsumer(r, Msg(c), c.stream, c.at, disposition)
               /\ r = c.stream \/ Held(r, Msg(c))
               /\ ~Held(r, Msg(c)) => disposition \in Final
<1> PICK c : c = worker[w]
  OBVIOUS
<1>1. /\ Sane(c) /\ c \in Call_ /\ JournalTypeOK /\ Message(w) = Msg(c)
  BY DEF Inv, JournalInv, Message, Msg
<1>2. c.pc \in {"duplicate", "terminal", "commit", "exhausted"} /\ c.pc \notin Between
  BY DEF CommitDuplicate, CommitTerminal, CommitResult, CommitFailure, At, Between
<1>3. c.stream \in Streams /\ AtEvent(c) /\ PlanOK(c) /\ ResultOK(c)
  BY <1>1, <1>2, EventTyped DEF Sane, Between
<1>4. c.canonical # NoStream => c.canonical \in Streams /\ Held(c.canonical, Msg(c))
  BY <1>1, <1>3 DEF AtEvent, Held, Call_
<1>5. CASE CommitDuplicate(w)
  <2>1. /\ CommitConsumer(c.canonical, Msg(c), c.stream, c.at, receipt[<<c.canonical, Msg(c)>>])
        /\ c.canonical # NoStream
    BY <1>1, <1>3, <1>5 DEF CommitDuplicate, Commit, At, PlanOK
  <2> QED
    BY <1>1, <1>2, <1>4, <2>1
<1>6. CASE CommitTerminal(w)
  <2> PICK r : r = IF c.canonical = NoStream THEN c.stream ELSE c.canonical
    OBVIOUS
  <2>1. CommitConsumer(r, Msg(c), c.stream, c.at, c.refusal) /\ c.pc = "terminal"
    BY <1>1, <1>6 DEF CommitTerminal, Commit, At
  <2>2. c.refusal \in Final
    BY <1>1, <1>3, <2>1 DEF PlanOK, Call_, Final
  <2>3. r \in Streams /\ (r = c.stream \/ Held(r, Msg(c)))
    BY <1>3, <1>4
  <2> QED
    BY <1>1, <1>2, <2>1, <2>2, <2>3
<1>7. CASE CommitResult(w)
  <2> PICK x : x = Disposition(w)
    OBVIOUS
  <2>1. CommitConsumer(c.stream, Msg(c), c.stream, c.at, x) /\ c.pc = "commit"
    BY <1>1, <1>7 DEF CommitResult, Commit, At
  <2>2. c.result \in {"applied", "rejected", "barrier"}
    BY <1>1, <1>3, <2>1 DEF ResultOK, Call_
  <2>3. x \in Final
    BY <2>2 DEF Disposition, Final
  <2> QED
    BY <1>1, <1>2, <1>3, <2>1, <2>3
<1>8. CASE CommitFailure(w)
  <2>1. CommitConsumer(c.stream, Msg(c), c.stream, c.at, "terminal-failure")
    BY <1>1, <1>8 DEF CommitFailure, Commit
  <2> QED
    BY <1>1, <1>2, <1>3, <2>1 DEF Final
<1> QED
  BY <1>5, <1>6, <1>7, <1>8

\* A commit acknowledges the next event, records an outcome late, or changes nothing.
LEMMA CommitRefines ==
  ASSUME JournalTypeOK, NEW s \in Streams, NEW r \in Streams, NEW m, NEW seq, NEW disposition,
         seq \in 1 .. Len(log[s]), m = log[s][seq], m \in Messages, seq <= cursor[s] + 1,
         CommitConsumer(r, m, s, seq, disposition),
         r = s \/ Held(r, m), ~Held(r, m) => disposition \in Final
  PROVE  Contract!Next \/ UNCHANGED <<log, cursor, receipt>>
<1>1. /\ <<r, m>> \in Events /\ cursor[s] \in Nat /\ seq \in Nat /\ Len(log[s]) \in Nat
      /\ receipt \in [Events -> Final \cup {"none"}] /\ cursor \in [Streams -> Nat]
  BY LenProperties DEF Events, JournalTypeOK
<1>2. CASE Settled(r, m, s, seq)
  BY <1>2 DEF CommitConsumer
<1>3. CASE ~Settled(r, m, s, seq)
  <2>1. /\ receipt' = [receipt EXCEPT ![<<r, m>>] = KeptReceipt(r, m, disposition)]
        /\ cursor' = [cursor EXCEPT ![s] = NextCursor(s, seq)] /\ UNCHANGED log
    BY <1>3 DEF CommitConsumer
  <2>2. CASE Held(r, m)
    <3>1. cursor[s] < Len(log[s]) /\ seq = cursor[s] + 1 /\ NextCursor(s, seq) = cursor[s] + 1
      BY <1>1, <1>3, <2>2 DEF Settled, NextCursor
    <3>2. receipt' = receipt
      BY <1>1, <2>1, <2>2 DEF KeptReceipt
    <3>3. cursor' = [cursor EXCEPT ![s] = cursor[s] + 1]
      BY <2>1, <3>1
    <3>4. Contract!Known(log[s][cursor[s] + 1])
      BY <2>2, <3>1 DEF Contract!Known, Held
    <3>5. Contract!Acknowledge(s)
      BY <2>1, <3>1, <3>2, <3>3, <3>4 DEF Contract!Acknowledge
    <3> QED
      BY <3>5 DEF Contract!Next
  <2>3. CASE ~Held(r, m)
    <3>1. /\ r = s /\ disposition \in Final /\ receipt[<<s, m>>] = "none"
          /\ receipt' = [receipt EXCEPT ![<<s, m>>] = disposition]
      BY <2>1, <2>3 DEF Held, KeptReceipt
    <3>2. CASE seq > cursor[s]
      <4>1. cursor[s] < Len(log[s]) /\ seq = cursor[s] + 1 /\ NextCursor(s, seq) = cursor[s] + 1
        BY <1>1, <3>2 DEF NextCursor
      <4>2. cursor' = [cursor EXCEPT ![s] = cursor[s] + 1]
        BY <2>1, <4>1
      <4>3. m = log[s][cursor[s] + 1]
        BY <4>1
      <4>4. Contract!Acknowledge(s)
        BY <2>1, <3>1, <4>1, <4>2, <4>3 DEF Contract!Acknowledge
      <4> QED
        BY <4>4 DEF Contract!Next
    <3>3. CASE ~(seq > cursor[s])
      <4>1. seq \in 1 .. cursor[s]
        BY <1>1, <3>3
      <4>2. cursor' = cursor
        <5>1. NextCursor(s, seq) = cursor[s]
          BY <1>1, <3>3 DEF NextCursor
        <5> QED
          BY <1>1, <2>1, <5>1
      <4>3. Contract!Record(s, seq)
        BY <2>1, <3>1, <4>1, <4>2 DEF Contract!Record
      <4> QED
        BY <4>1, <4>3 DEF Contract!Next
    <3> QED
      BY <3>2, <3>3
  <2> QED
    BY <2>2, <2>3
<1> QED
  BY <1>2, <1>3

LEMMA StepRefines ==
  ASSUME Inv, [Next]_vars
  PROVE  Contract!Next \/ UNCHANGED <<log, cursor, receipt>>
<1>1. ASSUME NEW s \in Streams, NEW m \in Messages, Publish(s, m) PROVE Contract!Next
  <2>1. Contract!Publish(s, m)
    BY <1>1 DEF Publish, AppendEvent, Contract!Publish
  <2> QED
    BY <2>1 DEF Contract!Next
<1>2. ASSUME NEW w \in Workers,
             CommitDuplicate(w) \/ CommitTerminal(w) \/ CommitResult(w) \/ CommitFailure(w)
      PROVE  Contract!Next \/ UNCHANGED <<log, cursor, receipt>>
  <2> PICK c : c = worker[w]
    OBVIOUS
  <2>1. /\ Sane(c) /\ c.pc \notin Between /\ JournalTypeOK
        /\ \E r \in Streams : \E disposition :
              /\ CommitConsumer(r, Msg(c), c.stream, c.at, disposition)
              /\ r = c.stream \/ Held(r, Msg(c))
              /\ ~Held(r, Msg(c)) => disposition \in Final
    BY <1>2, CommitReady DEF Inv, JournalInv
  <2>2. /\ c.stream \in Streams /\ c.at \in 1 .. Len(log[c.stream]) /\ Msg(c) \in Messages
        /\ c.at <= cursor[c.stream] + 1 /\ Msg(c) = log[c.stream][c.at]
    BY <2>1, EventTyped DEF Sane, InStream, Between, Msg
  <2> QED
    BY <2>1, <2>2, CommitRefines
<1>3. ASSUME NEW w \in Workers,
             Call(w) \/ OpenStream(w) \/ ReadIntent(w) \/ Leave(w) \/ Read(w)
      PROVE  UNCHANGED <<log, cursor, receipt>>
  BY <1>3 DEF Call, OpenStream, ReadIntent, Leave, Read, Authorize, ReauthorizeRefused,
     ReadCanonical, ReadReceipt, ReadObligation, Confirm, ReadsOnly, journalVars
<1>4. ASSUME NEW w \in Workers, Deliver(w) PROVE UNCHANGED <<log, cursor, receipt>>
  BY <1>4 DEF Deliver, Handle, Prepare, PersistIntent, Execute, CheckOperation, AuthorizeResult,
     AuthorizeCommit, Admit, ReadsOnly, journalVars, CommitOperation, CommitIntent
<1>5. ASSUME NEW w \in Workers, Recovery(w) PROVE UNCHANGED <<log, cursor, receipt>>
  BY <1>5 DEF Recovery, ReadRecovery, RecoverExhausted, Recover, Reconcile, AuthorizeRecovery,
     CheckRecovery, ReadRecoveryReceipt, AuthorizeRecovered, Admit, ReadsOnly, journalVars,
     CommitOperation
<1>6. ASSUME NEW w \in Workers, CommitPending(w) \/ CommitExhausted(w) \/ DeadLetter(w)
      PROVE  UNCHANGED <<log, cursor, receipt>>
  BY <1>6 DEF CommitPending, CommitExhausted, DeadLetter, CommitRetry, CommitDlq
<1>7. ASSUME NEW d \in Bindings, Rebind(d) PROVE UNCHANGED <<log, cursor, receipt>>
  BY <1>7 DEF Rebind, journalVars
<1>8. ASSUME NEW m \in Messages, NEW state, Report(m, state)
      PROVE  UNCHANGED <<log, cursor, receipt>>
  BY <1>8 DEF Report, CommitOperation
<1>9. CASE UNCHANGED vars
  BY <1>9 DEF vars, journalVars
<1> QED
  BY <1>1, <1>2, <1>3, <1>4, <1>5, <1>6, <1>7, <1>8, <1>9 DEF Next, Settle

-------------------------------------------------------------------------------
(* Theorems. *)

\* The strengthened invariant holds of every state.
THEOREM InvariantHolds == Spec => []Inv
BY InvInit, InvNext, PTL DEF Spec

\* Every journal and every call is well formed.
THEOREM TypeCorrect == Spec => []TypeOK
<1>1. Inv => TypeOK
  BY DEF Inv, JournalInv, TypeOK, ConsumptionTypeOK, Call_
<1> QED
  BY <1>1, InvariantHolds, PTL

\* An effect behind a barrier is receipted as applied only when its operation is
\* settled or reconciled.
THEOREM AppliedBehindBarrier == Spec => []AppliedIsSettled
<1>1. Inv => AppliedIsSettled
  BY DEF Inv, JournalInv
<1> QED
  BY <1>1, InvariantHolds, PTL

\* An event is acknowledged as failed only with its dead letter on record.
THEOREM FailedHasLetter == Spec => []FailedIsDeadLettered
<1>1. Inv => FailedIsDeadLettered
  BY DEF Inv, JournalInv
<1> QED
  BY <1>1, InvariantHolds, PTL

\* No event is delivered for an attempt above the limit.
THEOREM RetriesBounded == Spec => []RetriesAreBounded
<1>1. Inv => RetriesAreBounded
  BY DEF Inv, JournalInv, ObligationOK, Sane, RetriesAreBounded
<1> QED
  BY <1>1, InvariantHolds, PTL

\* Who changes an obligation: the two commits of a retry.
LEMMA ObligationCommitted ==
  ASSUME Inv, [Next]_vars
  PROVE  \/ UNCHANGED obligation
         \/ \E w \in Workers : CommitPending(w) \/ CommitExhausted(w)
<1>1. ASSUME NEW s \in Streams, NEW m \in Messages, Publish(s, m) PROVE UNCHANGED obligation
  BY <1>1 DEF Publish, AppendEvent
<1>2. ASSUME NEW w \in Workers,
             CommitDuplicate(w) \/ CommitTerminal(w) \/ CommitResult(w) \/ CommitFailure(w)
             \/ DeadLetter(w)
      PROVE  UNCHANGED obligation
  BY <1>2 DEF CommitDuplicate, CommitTerminal, CommitResult, CommitFailure, DeadLetter, Commit,
     CommitConsumer, CommitDlq
<1>3. ASSUME NEW w \in Workers,
             Call(w) \/ OpenStream(w) \/ ReadIntent(w) \/ Leave(w) \/ Read(w)
      PROVE  UNCHANGED obligation
  BY <1>3 DEF Call, OpenStream, ReadIntent, Leave, Read, Authorize, ReauthorizeRefused,
     ReadCanonical, ReadReceipt, ReadObligation, Confirm, ReadsOnly, journalVars
<1>4. ASSUME NEW w \in Workers, Deliver(w) PROVE UNCHANGED obligation
  BY <1>4 DEF Deliver, Handle, Prepare, PersistIntent, Execute, CheckOperation, AuthorizeResult,
     AuthorizeCommit, Admit, ReadsOnly, journalVars, CommitOperation, CommitIntent
<1>5. ASSUME NEW w \in Workers, Recovery(w) PROVE UNCHANGED obligation
  BY <1>5 DEF Recovery, ReadRecovery, RecoverExhausted, Recover, Reconcile, AuthorizeRecovery,
     CheckRecovery, ReadRecoveryReceipt, AuthorizeRecovered, Admit, ReadsOnly, journalVars,
     CommitOperation
<1>6. ASSUME NEW d \in Bindings, Rebind(d) PROVE UNCHANGED obligation
  BY <1>6 DEF Rebind, journalVars
<1>7. ASSUME NEW m \in Messages, NEW state, Report(m, state) PROVE UNCHANGED obligation
  BY <1>7 DEF Report, CommitOperation
<1>8. CASE UNCHANGED vars
  BY <1>8 DEF vars, journalVars
<1> QED
  BY <1>1, <1>2, <1>3, <1>4, <1>5, <1>6, <1>7, <1>8 DEF Next, Settle

\* A retry obligation only advances.
THEOREM ObligationAdvances == Spec => ObligationOnlyAdvances
<1>1. ASSUME Inv, [Next]_vars, obligation' # obligation PROVE ObligationsAdvance
  <2>1. PICK w \in Workers : CommitPending(w) \/ CommitExhausted(w)
    BY <1>1, ObligationCommitted
  <2> PICK c : c = worker[w]
    OBVIOUS
  <2>2. /\ Sane(c) /\ c.pc = "retry" /\ JournalTypeOK /\ EventOf(w) = Evt(c)
        /\ Evt(c) = EventOf(w)
    BY <1>1, <2>1 DEF Inv, JournalInv, CommitPending, CommitExhausted, At, EventOf, Message, Evt, Msg
  <2>3. /\ Evt(c) \in Events /\ c.attempt \in Nat
        /\ c.attempt <= obligation[Evt(c)].attempt + 1 /\ c.attempt <= RetryLimit
    BY <2>2, EventTyped DEF Sane, AtEvent, Call_
  <2>4. PICK state : CommitRetry(Evt(c), c.attempt, state)
    BY <2>1, <2>2 DEF CommitPending, CommitExhausted
  <2> PICK e \in Events : e = Evt(c)
    BY <2>3
  <2>5. obligation[e].attempt \in Nat /\ ObligationOK(obligation[e])
    BY <1>1 DEF Inv, JournalInv, JournalTypeOK
  <2>6. /\ ~(c.attempt <= obligation[e].attempt)
        /\ obligation' = [obligation EXCEPT ![e] = [attempt |-> c.attempt, state |-> state]]
        /\ obligation \in [Events -> [attempt : Nat, state : {"none", "pending", "exhausted"}]]
    BY <2>2, <2>4 DEF CommitRetry, RetryConflict, JournalTypeOK
  <2>7. obligation[e].state # "exhausted"
    BY <2>3, <2>5, <2>6, EventAssumption DEF ObligationOK
  <2>8. c.attempt = obligation[e].attempt + 1
    BY <2>3, <2>5, <2>6
  <2> QED
    BY <2>6, <2>7, <2>8 DEF ObligationsAdvance
<1>2. Inv /\ [Next]_vars =>
        [\A e \in Events :
           obligation'[e] # obligation[e] =>
             /\ obligation[e].state # "exhausted"
             /\ obligation'[e].attempt = obligation[e].attempt + 1]_obligation
  BY <1>1 DEF ObligationsAdvance
<1> QED
  BY <1>2, InvariantHolds, PTL DEF Spec, ObligationOnlyAdvances

\* Every behaviour of the journal and the calls is one of the contract.
THEOREM Refinement == Spec => ImplementsContract
<1>1. Init => Contract!Init
  BY DEF Init, JournalInit, Contract!Init, Events
<1>2. Inv /\ [Next]_vars => [Contract!Next]_Contract!contractVars
  BY StepRefines DEF Contract!contractVars
<1> QED
  BY <1>1, <1>2, InvariantHolds, PTL DEF Spec, ImplementsContract, Contract!Spec
=================================================================================
