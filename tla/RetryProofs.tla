------------------------------ MODULE RetryProofs -------------------------------
(***************************************************************************)
(* Theorems about the retry cycle, for every set of bindings and of        *)
(* configurations, any budget of attempts, any number of starts and every  *)
(* set of faults.                                                          *)
(*                                                                         *)
(* The record about to be persisted grows the durable one.  The journal    *)
(* may drop it as a repetition of an older version; since the versions     *)
(* form a chain that repetition adds nothing, and a version that admits a  *)
(* new attempt is longer than every other, so that it is never dropped.    *)
(***************************************************************************)
EXTENDS RetryProperties, NaturalExtrema, SequenceTheorems, TLAPS

-------------------------------------------------------------------------------
(* What may be said of records. *)

\* An exhausted record has spent its budget, and its last attempt is settled.
SpentOK(r) ==
    r.state = "exhausted" =>
        /\ Len(r.attempts) = MaxAttempts
        /\ r.attempts[MaxAttempts].settle # "unsettled"

Formed(r) == r \in Record /\ RecordOK(r)

Sound(r) == Formed(r) /\ SpentOK(r)

Grows(r, s) ==
    /\ r.candidates = s.candidates
    /\ r.excluded \subseteq s.excluded
    /\ Len(r.attempts) <= Len(s.attempts)
    /\ \A e \in DOMAIN r.admitted : e \in DOMAIN s.admitted /\ s.admitted[e] = r.admitted[e]

\* Attempt n may be selected: the one before it was found safe to retry.
Selectable(r, n) ==
    /\ n \in Nat \ {0}
    /\ n <= Len(r.attempts) + 1
    /\ n > 1 => r.attempts[n - 1].settle = "retry-safe"

\* Attempt n is the last one, admitted with binding b.
Picked(r, n, b) ==
    /\ n \in Nat \ {0}
    /\ n = Len(r.attempts)
    /\ r.admitted[n] = b
    /\ b \notin r.excluded
    /\ n > 1 => r.attempts[n - 1].settle # "unsettled"

-------------------------------------------------------------------------------
(* The invariant. *)

Chain == \A i, j \in DOMAIN versions : i <= j => Grows(versions[i], versions[j])

AllSound == Sound(rec) /\ \A i \in DOMAIN versions : Sound(versions[i])

Started ==
    first.epoch # 0 \/ pc \in {"ready", "running", "failed"} => versions # <<>>

Pending ==
    pc = "persist" =>
        /\ versions # <<>> => Grows(Current, rec)
        /\ then = "select" =>
              Selectable(rec, attempt) /\ (~corrected => attempt = Len(rec.attempts) + 1)
        /\ then = "dispatch" => versions # <<>>
        /\ then = "dispatch" /\ ~corrected =>
              epoch = attempt /\ Picked(rec, attempt, binding) /\ Len(Current.attempts) < attempt

Live ==
    pc \in {"ready", "running", "failed"} /\ ~corrected =>
        epoch = attempt /\ Picked(Current, attempt, binding)

\* The rest of the type invariant.
Scalars ==
    /\ config \in Configs
    /\ starts \in 0 .. MaxStarts
    /\ pc \in {"idle", "persist", "ready", "running", "failed", "blocked", "thrown"}
    /\ then \in Continuations
    /\ attempt \in Nat /\ epoch \in Nat /\ binding \in Bindings
    /\ first \in [epoch : Nat, binding : Bindings]
    /\ closure \in {"none", "clean", "final"}
    /\ corrected \in BOOLEAN

Inv ==
    /\ versions \in Seq(Record)
    /\ Scalars /\ AllSound /\ Chain /\ Started /\ Pending /\ Live

-------------------------------------------------------------------------------
(* Records. *)

LEMMA GrowsReflexive ==
  ASSUME NEW r \in Record
  PROVE  Grows(r, r)
BY DEF Grows, Record

LEMMA GrowsTransitive ==
  ASSUME NEW r \in Record, NEW s \in Record, NEW t \in Record, Grows(r, s), Grows(s, t)
  PROVE  Grows(r, t)
<1>1. Len(r.attempts) \in Nat /\ Len(s.attempts) \in Nat /\ Len(t.attempts) \in Nat
  BY LenProperties DEF Record
<1> QED
  BY <1>1 DEF Grows

\* The first record of a cycle.
LEMMA NewCycleSound ==
  ASSUME NEW c \in Configs
  PROVE  Sound(NewCycle(c)) /\ NewCycle(c).attempts = <<>>
<1>1. c \in Seq(Bindings)
  BY ConfigsAssumption
<1>2. <<>> \in Seq([binding : Bindings, settle : Settlements]) /\ <<>> \in Seq(Bindings)
  OBVIOUS
<1>3. Len(NewCycle(c).attempts) = 0 /\ Len(NewCycle(c).admitted) = 0
  BY DEF NewCycle
<1> QED
  BY <1>1, <1>2, <1>3, MaxAttemptsAssumption
     DEF Sound, Formed, Record, RecordOK, SpentOK, NewCycle, States

\* Another state.
LEMMA StateSet ==
  ASSUME NEW r, Formed(r), NEW st \in States,
         st = "exhausted" => SpentOK([r EXCEPT !.state = st])
  PROVE  Sound([r EXCEPT !.state = st]) /\ Grows(r, [r EXCEPT !.state = st])
<1> DEFINE q == [r EXCEPT !.state = st]
<1>1. r \in Record
  BY DEF Sound, Formed
<1>2. q \in Record
  BY <1>1 DEF Record
<1>3. /\ q.state = st /\ q.candidates = r.candidates /\ q.attempts = r.attempts
      /\ q.excluded = r.excluded /\ q.admitted = r.admitted
  BY <1>1 DEF Record
<1>4. Len(r.attempts) \in Nat
  BY <1>1, LenProperties DEF Record
<1> HIDE DEF q
<1>5. Sound(q)
  BY <1>2, <1>3 DEF Sound, Formed, RecordOK, SpentOK, States
<1>6. Grows(r, q)
  BY <1>3, <1>4 DEF Grows
<1> QED
  BY <1>5, <1>6 DEF q

\* The first candidate that is not excluded.
LEMMA FirstIsEligible ==
  ASSUME NEW r, Sound(r), Eligible(r) # {}
  PROVE  FirstEligible(r) \in Bindings \ r.excluded
<1>1. Eligible(r) \subseteq Nat
  BY DEF Eligible, Sound, Formed, Record
<1>2. \E i \in Eligible(r) : \A j \in Eligible(r) : i <= j
  BY <1>1, LeastExists
<1> DEFINE i == CHOOSE i \in Eligible(r) : \A j \in Eligible(r) : i <= j
<1>3. i \in Eligible(r)
  BY <1>2
<1>4. FirstEligible(r) = r.candidates[i]
  BY DEF FirstEligible
<1> HIDE DEF i
<1>5. i \in DOMAIN r.candidates /\ r.candidates[i] \notin r.excluded
  BY <1>3 DEF Eligible
<1>6. r.candidates \in Seq(Bindings)
  BY DEF Sound, Formed, Record
<1>7. r.candidates[i] \in Bindings
  BY <1>5, <1>6, ElementOfSeq, LenProperties
<1> QED
  BY <1>4, <1>5, <1>7

\* The record of a selection.
LEMMA SelectedSound ==
  ASSUME NEW r, Sound(r), NEW n \in Nat \ {0}, ~Spent(n), Eligible(r) # {}
  PROVE  /\ Sound(Selected(r, n))
         /\ Grows(r, Selected(r, n))
         /\ n = Len(r.attempts) + 1 /\ (n > 1 => r.attempts[n - 1].settle # "unsettled") =>
               Picked(Selected(r, n), n, FirstEligible(r))
<1> DEFINE b == FirstEligible(r)
           a == [binding |-> b, settle |-> "unsettled"]
           A == [binding : Bindings, settle : Settlements]
           q == Selected(r, n)
<1>1. b \in Bindings /\ b \notin r.excluded
  BY FirstIsEligible
<1>2. a \in A
  BY <1>1 DEF Settlements
<1>3. /\ r \in Record /\ r.attempts \in Seq(A) /\ r.admitted \in Seq(Bindings)
      /\ Len(r.attempts) \in Nat /\ Len(r.admitted) = Len(r.attempts)
      /\ DOMAIN r.attempts = 1 .. Len(r.attempts)
      /\ DOMAIN r.admitted = 1 .. Len(r.attempts)
      /\ Len(r.attempts) <= MaxAttempts
  BY LenProperties DEF Sound, Formed, Record, RecordOK
<1>4. n <= MaxAttempts /\ MaxAttempts \in Nat
  BY MaxAttemptsAssumption DEF Spent
<1>5. /\ q.state = "running" /\ q.candidates = r.candidates /\ q.excluded = r.excluded
      /\ q.attempts = (IF n \in DOMAIN r.attempts THEN r.attempts ELSE Append(r.attempts, a))
      /\ q.admitted = (IF n \in DOMAIN r.attempts THEN r.admitted ELSE Append(r.admitted, b))
  BY <1>3 DEF Selected, Record
<1>6. q = [r EXCEPT !.state = "running", !.attempts = q.attempts, !.admitted = q.admitted]
  BY <1>3 DEF Selected, Record
<1> HIDE DEF a, A, b, q
<1>7. CASE n \in DOMAIN r.attempts
  <2>1. /\ q.attempts = r.attempts /\ q.admitted = r.admitted
    BY <1>5, <1>7
  <2>2. Sound(q)
    BY <1>3, <1>5, <1>6, <2>1 DEF Sound, Formed, Record, RecordOK, SpentOK, States, A
  <2>3. Grows(r, q)
    BY <1>3, <1>5, <2>1 DEF Grows
  <2> QED
    BY <1>3, <1>7, <2>2, <2>3 DEF q
<1>8. CASE n \notin DOMAIN r.attempts
  <2>1. /\ q.attempts = Append(r.attempts, a) /\ q.admitted = Append(r.admitted, b)
    BY <1>5, <1>8
  <2>2. /\ q.attempts \in Seq(A) /\ Len(q.attempts) = Len(r.attempts) + 1
        /\ \A i \in 1 .. Len(r.attempts) : q.attempts[i] = r.attempts[i]
    BY <1>2, <1>3, <2>1, AppendProperties
  <2>3. /\ q.admitted \in Seq(Bindings) /\ Len(q.admitted) = Len(r.attempts) + 1
        /\ \A i \in 1 .. Len(r.attempts) : q.admitted[i] = r.admitted[i]
        /\ q.admitted[Len(r.attempts) + 1] = b
    BY <1>1, <1>3, <2>1, AppendProperties
  <2>4. Len(r.attempts) + 1 <= MaxAttempts
    BY <1>3, <1>4, <1>8
  <2>5. Sound(q)
    <3>1. q \in Record
      BY <1>3, <1>5, <1>6, <2>2, <2>3 DEF Record, States, A
    <3>2. RecordOK(q)
      BY <1>5, <2>2, <2>3, <2>4 DEF Sound, Formed, RecordOK, States, A
    <3> QED
      BY <1>5, <3>1, <3>2 DEF Sound, Formed, SpentOK
  <2>6. Grows(r, q)
    <3>1. DOMAIN q.admitted = 1 .. (Len(r.attempts) + 1)
      BY <2>3, LenProperties
    <3> QED
      BY <1>3, <1>5, <2>2, <2>3, <3>1 DEF Grows
  <2>7. ASSUME n = Len(r.attempts) + 1, n > 1 => r.attempts[n - 1].settle # "unsettled"
        PROVE  Picked(q, n, b)
    <3>1. n = Len(q.attempts) /\ q.admitted[n] = b
      BY <2>2, <2>3, <2>7
    <3>2. ASSUME n > 1 PROVE q.attempts[n - 1].settle # "unsettled"
      BY <1>3, <2>2, <2>7, <3>2
    <3> QED
      BY <1>1, <1>5, <3>1, <3>2 DEF Picked
  <2> QED
    BY <2>5, <2>6, <2>7 DEF q, b
<1> QED
  BY <1>7, <1>8

\* An attempt that is recorded again.
LEMMA AttemptRecorded ==
  ASSUME NEW r, Sound(r), NEW n \in DOMAIN r.attempts,
         NEW a \in [binding : Bindings, settle : Settlements]
  PROVE  /\ Formed([r EXCEPT !.attempts[n] = a])
         /\ a.settle # "unsettled" => Sound([r EXCEPT !.attempts[n] = a])
         /\ Grows(r, [r EXCEPT !.attempts[n] = a])
         /\ [r EXCEPT !.attempts[n] = a].attempts[n] = a
         /\ Len([r EXCEPT !.attempts[n] = a].attempts) = Len(r.attempts)
<1> DEFINE q == [r EXCEPT !.attempts[n] = a]
           A == [binding : Bindings, settle : Settlements]
<1>1. /\ r \in Record /\ r.attempts \in Seq(A) /\ Len(r.attempts) \in Nat
      /\ DOMAIN r.attempts = 1 .. Len(r.attempts)
  BY LenProperties DEF Sound, Formed, Record
<1>2. /\ q.state = r.state /\ q.candidates = r.candidates /\ q.excluded = r.excluded
      /\ q.admitted = r.admitted /\ q.attempts = [r.attempts EXCEPT ![n] = a]
  BY <1>1 DEF Record
<1>3. q = [r EXCEPT !.attempts = q.attempts]
  BY <1>1 DEF Record
<1> HIDE DEF q, A
<1>4. /\ q.attempts \in Seq(A) /\ Len(q.attempts) = Len(r.attempts)
      /\ q.attempts[n] = a
      /\ \A i \in 1 .. Len(r.attempts) : i # n => q.attempts[i] = r.attempts[i]
  <2>1. a \in A
    BY DEF A
  <2> QED
    BY <1>1, <1>2, <2>1, ExceptSeq
<1>5. Formed(q) /\ (a.settle # "unsettled" => Sound(q))
  <2>1. q \in Record
    BY <1>1, <1>3, <1>4 DEF Record, A
  <2>2. RecordOK(q)
    BY <1>2, <1>4 DEF Sound, Formed, RecordOK, A
  <2>3. a.settle # "unsettled" => SpentOK(q)
    BY <1>1, <1>2, <1>4, MaxAttemptsAssumption DEF Sound, Formed, SpentOK
  <2> QED
    BY <2>1, <2>2, <2>3 DEF Sound, Formed
<1>6. Grows(r, q)
  BY <1>1, <1>2, <1>4 DEF Grows
<1> QED
  BY <1>4, <1>5, <1>6 DEF q

\* The record of a failure that may be retried.
LEMMA ExclusionSound ==
  ASSUME NEW r, Formed(r), NEW b \in Bindings
  PROVE  /\ Sound(Excluding(r, b)) /\ Grows(r, Excluding(r, b))
         /\ Excluding(r, b).attempts = r.attempts
<1> DEFINE q == Excluding(r, b)
<1>1. r \in Record /\ Len(r.attempts) \in Nat
  BY LenProperties DEF Sound, Formed, Record
<1>2. /\ q.state = "retry-safe" /\ q.candidates = r.candidates /\ q.attempts = r.attempts
      /\ q.excluded = r.excluded \cup {b} /\ q.admitted = r.admitted
      /\ q \in Record
  BY <1>1 DEF Excluding, Record, States
<1> HIDE DEF q
<1>3. Sound(q)
  BY <1>2 DEF Sound, Formed, RecordOK, SpentOK, States
<1>4. Grows(r, q)
  BY <1>1, <1>2 DEF Grows
<1> QED
  BY <1>2, <1>3, <1>4 DEF q

-------------------------------------------------------------------------------
(* The versions. *)

LEMMA CurrentSound ==
  ASSUME AllSound, versions \in Seq(Record), versions # <<>>
  PROVE  Sound(Current) /\ Current \in Record /\ Len(versions) \in DOMAIN versions
<1>1. Len(versions) \in DOMAIN versions
  BY LenProperties, EmptySeq
<1> QED
  BY <1>1 DEF AllSound, Current, Sound, Formed

\* Nothing is committed.
LEMMA VersionsKept ==
  ASSUME versions \in Seq(Record), AllSound, Chain, versions' = versions, Sound(rec')
  PROVE  AllSound' /\ Chain'
BY DEF AllSound, Chain

\* A version is committed, or repeats an older one and adds nothing to the newest.
LEMMA VersionCommitted ==
  ASSUME versions \in Seq(Record), AllSound, Chain, Sound(rec'),
         versions # <<>> => Grows(Current, rec),
         versions' \in Committed(rec)
  PROVE  /\ versions' \in Seq(Record) /\ versions' # <<>>
         /\ AllSound' /\ Chain'
         /\ Sound(Current')
         /\ Grows(rec, Current') /\ Grows(Current', rec)
         /\ versions # <<>> /\ Len(Current.attempts) < Len(rec.attempts) => Current' = rec
         /\ versions' = versions \/ Current' = rec
<1>1. Sound(rec) /\ rec \in Record
  BY DEF AllSound, Sound, Formed
<1>2. Len(versions) \in Nat /\ DOMAIN versions = 1 .. Len(versions)
  BY LenProperties
<1>3. CASE versions' = Append(versions, rec)
  <2>1. /\ versions' \in Seq(Record) /\ Len(versions') = Len(versions) + 1
        /\ \A i \in 1 .. Len(versions) : versions'[i] = versions[i]
        /\ versions'[Len(versions) + 1] = rec
    BY <1>1, <1>3, AppendProperties
  <2>2. DOMAIN versions' = 1 .. (Len(versions) + 1) /\ versions' # <<>>
    BY <1>2, <2>1, LenProperties
  <2>3. Current' = rec
    BY <2>1 DEF Current
  <2>4. AllSound'
    BY <1>1, <1>2, <2>1, <2>2 DEF AllSound
  <2>5. \A i \in DOMAIN versions : Grows(versions[i], rec)
    <3> TAKE i \in DOMAIN versions
    <3>1. versions # <<>> /\ i <= Len(versions) /\ Len(versions) \in DOMAIN versions
      BY <1>2
    <3>2. Grows(versions[i], Current) /\ Grows(Current, rec)
      BY <3>1 DEF Chain, Current
    <3>3. versions[i] \in Record /\ Current \in Record
      BY <3>1 DEF AllSound, Current, Sound, Formed
    <3> QED
      BY <1>1, <3>2, <3>3, GrowsTransitive
  <2>6. Chain'
    <3> SUFFICES ASSUME NEW i \in DOMAIN versions', NEW j \in DOMAIN versions', i <= j
                 PROVE  Grows(versions'[i], versions'[j])
      BY DEF Chain
    <3>1. CASE j \in DOMAIN versions
      <4>1. i \in DOMAIN versions
        BY <1>2, <2>2, <3>1
      <4> QED
        BY <1>2, <2>1, <3>1, <4>1 DEF Chain
    <3>2. CASE j = Len(versions) + 1 /\ i \in DOMAIN versions
      BY <1>2, <2>1, <2>5, <3>2
    <3>3. CASE j = Len(versions) + 1 /\ i = Len(versions) + 1
      BY <1>1, <2>1, <3>3, GrowsReflexive
    <3> QED
      BY <1>2, <2>2, <3>1, <3>2, <3>3
  <2> QED
    BY <1>1, <2>1, <2>2, <2>3, <2>4, <2>6, GrowsReflexive
<1>4. CASE versions' = versions /\ \E i \in DOMAIN versions : versions[i] = rec
  <2>1. PICK i \in DOMAIN versions : versions[i] = rec
    BY <1>4
  <2>2. versions # <<>> /\ Len(versions) \in DOMAIN versions /\ i <= Len(versions)
    BY <1>2
  <2>3. Current' = Current
    BY <1>4 DEF Current
  <2>4. Grows(rec, Current) /\ Grows(Current, rec)
    BY <2>1, <2>2 DEF Chain, Current
  <2>5. Len(Current.attempts) >= Len(rec.attempts)
    BY <2>4 DEF Grows
  <2>6. Sound(Current) /\ Current \in Record
    BY <2>2, CurrentSound
  <2>7. Len(Current.attempts) \in Nat /\ Len(rec.attempts) \in Nat
    BY <1>1, <2>6, LenProperties DEF Record
  <2> QED
    BY <1>4, <2>2, <2>3, <2>4, <2>5, <2>6, <2>7, VersionsKept
<1>5. \/ versions' = Append(versions, rec)
      \/ versions' = versions /\ \E i \in DOMAIN versions : versions[i] = rec
  <2>1. CASE versions # <<>> /\ Current = rec
    <3>1. Len(versions) \in DOMAIN versions /\ versions[Len(versions)] = rec
      BY <2>1, CurrentSound DEF Current
    <3>2. versions' = versions
      BY <2>1 DEF Committed
    <3> QED
      BY <3>1, <3>2
  <2>2. CASE ~(versions # <<>> /\ Current = rec)
    BY <1>2, <2>2 DEF Committed
  <2> QED
    BY <2>1, <2>2
<1> QED
  BY <1>3, <1>4, <1>5

-------------------------------------------------------------------------------
(* The steps of the manager. *)

LEMMA SelectStep ==
  ASSUME NEW r, Sound(r), NEW n \in Nat \ {0}, ~Spent(n), SelectCandidate(r, n),
         attempt \in Nat, epoch \in Nat, binding \in Bindings
  PROVE  /\ pc' = "persist" /\ Sound(rec') /\ Grows(r, rec')
         /\ then' \in {"dispatch", "block"}
         /\ attempt' \in Nat /\ epoch' \in Nat /\ binding' \in Bindings
         /\ /\ then' = "dispatch"
            /\ n = Len(r.attempts) + 1
            /\ n > 1 => r.attempts[n - 1].settle # "unsettled"
            => attempt' = n /\ epoch' = n /\ Picked(rec', n, binding')
<1>1. CASE Eligible(r) # {}
  <2>1. /\ pc' = "persist" /\ rec' = Selected(r, n) /\ then' = "dispatch"
        /\ attempt' = n /\ epoch' = n /\ binding' = FirstEligible(r)
    BY <1>1 DEF SelectCandidate, ToPersist
  <2> QED
    BY <1>1, <2>1, SelectedSound, FirstIsEligible
<1>2. CASE Eligible(r) = {}
  <2>1. /\ pc' = "persist" /\ rec' = [r EXCEPT !.state = "blocked-attention"] /\ then' = "block"
        /\ UNCHANGED <<attempt, epoch, binding>>
    BY <1>2 DEF SelectCandidate, ToPersist
  <2> QED
    BY <2>1, StateSet DEF States, Sound
<1> QED
  BY <1>1, <1>2

\* A settled attempt.
LEMMA SettleSound ==
  ASSUME NEW r, Sound(r), NEW n \in DOMAIN r.attempts, NEW s \in Settlements
  PROVE  LET q == [r EXCEPT !.attempts[n].settle = s] IN
         /\ Formed(q) /\ Grows(r, q)
         /\ q.attempts[n].settle = s /\ Len(q.attempts) = Len(r.attempts)
<1> DEFINE a == [r.attempts[n] EXCEPT !.settle = s]
<1>1. r.attempts[n] \in [binding : Bindings, settle : Settlements]
  BY ElementOfSeq, LenProperties DEF Sound, Formed, Record
<1>2. a \in [binding : Bindings, settle : Settlements] /\ a.settle = s
  BY <1>1
<1>3. [r EXCEPT !.attempts[n].settle = s] = [r EXCEPT !.attempts[n] = a]
  OBVIOUS
<1> HIDE DEF a
<1> QED
  BY <1>2, <1>3, AttemptRecorded

LEMMA FailureStep ==
  ASSUME versions \in Seq(Record), AllSound, versions # <<>>,
         attempt \in Nat, epoch \in Nat, binding \in Bindings,
         ~corrected => Picked(Current, attempt, binding),
         NEW s \in Settlements, RecordFailure(s)
  PROVE  /\ attempt' \in Nat /\ UNCHANGED <<epoch, binding>>
         /\ \/ pc' = "thrown" /\ UNCHANGED <<rec, then, attempt>>
            \/ /\ pc' = "persist" /\ Sound(rec') /\ Grows(Current, rec')
               /\ \/ then' = "block"
                  \/ /\ then' = "select" /\ Selectable(rec', attempt')
                     /\ ~corrected => attempt' = Len(rec'.attempts) + 1
<1>1. Sound(Current) /\ Current \in Record
  BY CurrentSound
<1>2. CASE attempt \notin DOMAIN Current.attempts
  BY <1>2 DEF RecordFailure
<1>3. CASE attempt \in DOMAIN Current.attempts
  <2> DEFINE r == [Current EXCEPT !.attempts[attempt].settle = s]
  <2>1. /\ Formed(r) /\ Grows(Current, r)
        /\ r.attempts[attempt].settle = s /\ Len(r.attempts) = Len(Current.attempts)
    BY <1>1, <1>3, SettleSound
  <2>2. /\ s # "retry-safe" => /\ ToPersist([r EXCEPT !.state = "blocked-attention"], "block")
                               /\ UNCHANGED <<attempt, epoch, binding>>
        /\ s = "retry-safe" => /\ ToPersist(Excluding(r, binding), "select")
                               /\ attempt' = attempt + 1
                               /\ UNCHANGED <<epoch, binding>>
    BY <1>3 DEF RecordFailure
  <2> HIDE DEF r
  <2>3. r \in Record
    BY <2>1 DEF Formed
  <2>4. CASE s # "retry-safe"
    <3>1. Sound([r EXCEPT !.state = "blocked-attention"])
          /\ Grows(r, [r EXCEPT !.state = "blocked-attention"])
      BY <2>1, StateSet DEF States
    <3>2. Grows(Current, [r EXCEPT !.state = "blocked-attention"])
      BY <1>1, <2>1, <2>3, <3>1, GrowsTransitive DEF Sound, Formed
    <3> QED
      BY <2>2, <2>4, <3>1, <3>2 DEF ToPersist
  <2>5. CASE s = "retry-safe"
    <3>1. /\ Sound(Excluding(r, binding)) /\ Grows(r, Excluding(r, binding))
          /\ Excluding(r, binding).attempts = r.attempts
      BY <2>1, ExclusionSound
    <3>2. Grows(Current, Excluding(r, binding))
      BY <1>1, <2>1, <2>3, <3>1, GrowsTransitive DEF Sound, Formed
    <3>3. attempt \in 1 .. Len(r.attempts) /\ Len(r.attempts) \in Nat
      BY <1>1, <1>3, <2>1, LenProperties DEF Record
    <3>4. /\ rec' = Excluding(r, binding) /\ pc' = "persist" /\ then' = "select"
          /\ attempt' = attempt + 1 /\ UNCHANGED <<epoch, binding>>
      BY <2>2, <2>5 DEF ToPersist
    <3>5. Selectable(rec', attempt')
      BY <2>1, <2>5, <3>1, <3>3, <3>4 DEF Selectable
    <3>6. ~corrected => attempt' = Len(rec'.attempts) + 1
      BY <2>1, <3>1, <3>4 DEF Picked
    <3> QED
      BY <3>1, <3>2, <3>4, <3>5, <3>6
  <2> QED
    BY <2>4, <2>5
<1> QED
  BY <1>2, <1>3

-------------------------------------------------------------------------------
(* The invariant is inductive. *)

LEMMA FirstBinding ==
  ASSUME NEW c \in Configs
  PROVE  c[1] \in Bindings
<1>1. c \in Seq(Bindings) /\ c # <<>>
  BY ConfigsAssumption
<1> QED
  BY <1>1, EmptySeq, LenProperties, ElementOfSeq

LEMMA InvInit == Init => Inv
<1> SUFFICES ASSUME Init PROVE Inv
  OBVIOUS
<1>1. config \in Configs /\ config[1] \in Bindings
  BY FirstBinding DEF Init
<1>2. Sound(rec)
  BY <1>1, NewCycleSound DEF Init
<1>3. versions = <<>> /\ pc = "idle" /\ first.epoch = 0
  BY DEF Init
<1>4. Scalars
  <2>1. first \in [epoch : Nat, binding : Bindings]
    BY <1>1 DEF Init
  <2>2. binding \in Bindings /\ starts \in 0 .. MaxStarts
    BY <1>1, MaxStartsAssumption DEF Init
  <2> QED
    BY <1>1, <2>1, <2>2 DEF Init, Scalars, Continuations
<1>5. versions \in Seq(Record) /\ AllSound /\ Chain
  BY <1>2, <1>3 DEF AllSound, Chain
<1> QED
  BY <1>3, <1>4, <1>5 DEF Inv, Started, Pending, Live

LEMMA BeginStep ==
  ASSUME Inv, Begin
  PROVE  Inv'
<1>1. /\ versions' = versions /\ config' = config /\ corrected' = FALSE
      /\ starts' \in 0 .. MaxStarts /\ closure' = "none"
      /\ first' = [epoch |-> 0, binding |-> config[1]]
      /\ pc = "idle"
  BY MaxStartsAssumption DEF Begin, Inv, Scalars
<1>2. config \in Configs /\ first' \in [epoch : Nat, binding : Bindings] /\ first'.epoch = 0
  BY <1>1, FirstBinding DEF Inv, Scalars
<1>3. attempt \in Nat /\ epoch \in Nat /\ binding \in Bindings
  BY DEF Inv, Scalars
<1> DEFINE Settled == /\ Sound(rec') /\ pc' \in {"idle", "persist"} /\ then' \in Continuations
                      /\ attempt' \in Nat /\ epoch' \in Nat /\ binding' \in Bindings
<1>4. ASSUME Settled, Pending' PROVE Inv'
  <2>1. AllSound' /\ Chain'
    BY <1>1, <1>4, VersionsKept DEF Inv
  <2>2. Scalars'
    BY <1>1, <1>2, <1>4 DEF Scalars
  <2>3. Started' /\ Live'
    BY <1>2, <1>4 DEF Started, Live
  <2> QED
    BY <1>1, <1>4, <2>1, <2>2, <2>3 DEF Inv
<1>5. CASE versions = <<>>
  <2>1. /\ pc' = "persist" /\ rec' = NewCycle(config) /\ then' = "select"
        /\ attempt' = 1 /\ UNCHANGED <<epoch, binding>>
    BY <1>5 DEF Begin, ToPersist, Hydrated
  <2>2. Sound(rec') /\ rec'.attempts = <<>> /\ Len(rec'.attempts) = 0
    BY <1>2, <2>1, NewCycleSound
  <2>3. Settled
    BY <1>3, <2>1, <2>2 DEF Continuations
  <2>4. Pending'
    BY <1>1, <1>5, <2>1, <2>2 DEF Pending, Selectable
  <2> QED
    BY <1>4, <2>3, <2>4
<1>6. CASE /\ versions # <<>>
           /\ UNCHANGED <<pc, rec, then, attempt, epoch, binding>>
  <2>1. Settled
    BY <1>1, <1>3, <1>6 DEF Inv, Scalars, AllSound
  <2>2. Pending'
    BY <1>1, <1>6 DEF Pending
  <2> QED
    BY <1>4, <2>1, <2>2
<1>7. CASE versions # <<>> /\ Current.attempts # <<>> /\ Resume
  <2>1. Sound(Current) /\ Current \in Record
    BY <1>7, CurrentSound DEF Inv
  <2>2. /\ Current.attempts \in Seq([binding : Bindings, settle : Settlements])
        /\ Len(Current.attempts) \in Nat \ {0} /\ Len(Current.attempts) <= MaxAttempts
    BY <1>7, <2>1, EmptySeq, LenProperties DEF Record, Sound, Formed, RecordOK
  <2>3. Current' = Current
    BY <1>1 DEF Current
  <2> DEFINE n == Len(Current.attempts) + 1
  <2>4. ASSUME NEW st \in States, NEW next \in {"block", "stop"},
               ToPersist([Current EXCEPT !.state = st], next),
               UNCHANGED <<attempt, epoch, binding>>,
               st = "exhausted" => SpentOK([Current EXCEPT !.state = st])
        PROVE  Settled /\ Pending'
    <3>1. Sound([Current EXCEPT !.state = st]) /\ Grows(Current, [Current EXCEPT !.state = st])
      BY <2>1, <2>4, StateSet DEF Sound
    <3>2. pc' = "persist" /\ then' = next /\ Sound(rec') /\ Grows(Current, rec')
      BY <2>4, <3>1 DEF ToPersist
    <3>3. Settled
      BY <1>3, <2>4, <3>2 DEF Continuations
    <3>4. Pending'
      BY <2>3, <3>2 DEF Pending
    <3> QED
      BY <3>3, <3>4
  <2>5. CASE Unsettled(Current)
    <3>1. ToPersist([Current EXCEPT !.state = "blocked-attention"], "block")
          /\ UNCHANGED <<attempt, epoch, binding>>
      BY <1>7, <2>5 DEF Resume
    <3> QED
      BY <1>4, <2>4, <3>1 DEF States
  <2>6. CASE ~Unsettled(Current) /\ Current.state = "exhausted"
    <3>1. pc' = "idle" /\ UNCHANGED <<rec, then, attempt, epoch, binding>>
      BY <1>7, <2>6 DEF Resume
    <3>2. Settled
      BY <1>3, <3>1 DEF Inv, Scalars, AllSound
    <3>3. Pending'
      BY <3>1 DEF Pending
    <3> QED
      BY <1>4, <3>2, <3>3
  <2>7. CASE ~Unsettled(Current) /\ Current.state # "exhausted" /\ Spent(n)
    <3>1. ToPersist([Current EXCEPT !.state = "exhausted"], "stop")
          /\ UNCHANGED <<attempt, epoch, binding>>
      BY <1>7, <2>7 DEF Resume
    <3>2. Len(Current.attempts) = MaxAttempts
      BY <2>2, <2>7, MaxAttemptsAssumption DEF Spent
    <3>3. [Current EXCEPT !.state = "exhausted"].attempts = Current.attempts
      BY <2>1 DEF Record
    <3>4. SpentOK([Current EXCEPT !.state = "exhausted"])
      BY <2>7, <3>2, <3>3 DEF SpentOK, Unsettled
    <3> QED
      BY <1>4, <2>4, <3>1, <3>4 DEF States
  <2>8. CASE ~Unsettled(Current) /\ Current.state # "exhausted" /\ ~Spent(n)
    <3>1. SelectCandidate(Current, n)
      BY <1>7, <2>8 DEF Resume
    <3>2. n \in Nat \ {0} /\ Current.attempts[n - 1].settle # "unsettled"
      BY <2>2, <2>8 DEF Unsettled
    <3>3. /\ pc' = "persist" /\ Sound(rec') /\ Grows(Current, rec')
          /\ then' \in {"dispatch", "block"}
          /\ attempt' \in Nat /\ epoch' \in Nat /\ binding' \in Bindings
          /\ then' = "dispatch" => attempt' = n /\ epoch' = n /\ Picked(rec', n, binding')
      <4> HIDE DEF n
      <4>1. n = Len(Current.attempts) + 1
        BY DEF n
      <4> QED
        BY <1>3, <2>1, <2>8, <3>1, <3>2, <4>1, SelectStep
    <3>4. Settled
      BY <3>3 DEF Continuations
    <3>5. Pending'
      <4>1. Len(Current.attempts) < n
        BY <2>2
      <4> QED
        BY <1>1, <1>7, <2>3, <3>3, <4>1 DEF Pending
    <3> QED
      BY <1>4, <3>4, <3>5
  <2> QED
    BY <2>5, <2>6, <2>7, <2>8
<1>8. \/ versions = <<>>
      \/ versions # <<>> /\ UNCHANGED <<pc, rec, then, attempt, epoch, binding>>
      \/ versions # <<>> /\ Current.attempts # <<>> /\ Resume
  BY DEF Begin, Hydrated
<1> QED
  BY <1>5, <1>6, <1>7, <1>8

LEMMA PersistStep ==
  ASSUME Inv, Persist
  PROVE  Inv'
<1>1. /\ pc = "persist" /\ versions' \in Committed(rec) /\ Continue
      /\ UNCHANGED <<config, starts, closure, corrected>>
  BY DEF Persist
<1>2. /\ attempt \in Nat /\ epoch \in Nat /\ binding \in Bindings /\ then \in Continuations
      /\ Sound(rec) /\ rec \in Record /\ first \in [epoch : Nat, binding : Bindings]
      /\ versions # <<>> => Grows(Current, rec)
      /\ versions \in Seq(Record) /\ AllSound /\ Chain
  BY <1>1 DEF Inv, Scalars, AllSound, Pending, Sound, Formed
<1> DEFINE Commits ==
        /\ versions' \in Seq(Record) /\ versions' # <<>>
        /\ AllSound' /\ Chain'
        /\ Sound(Current')
        /\ Grows(rec, Current') /\ Grows(Current', rec)
        /\ versions # <<>> /\ Len(Current.attempts) < Len(rec.attempts) => Current' = rec
<1>3. ASSUME Sound(rec') PROVE Commits
  BY <1>1, <1>2, <1>3, VersionCommitted
<1> DEFINE Rest == /\ pc' \in {"idle", "persist", "ready", "blocked"} /\ then' \in Continuations
                   /\ attempt' \in Nat /\ epoch' \in Nat /\ binding' \in Bindings
                   /\ first' \in [epoch : Nat, binding : Bindings]
<1>4. ASSUME Rest, Commits, Pending', Live' PROVE Inv'
  <2>1. Scalars'
    BY <1>1, <1>4 DEF Inv, Scalars
  <2>2. Started'
    BY <1>4 DEF Started
  <2> QED
    BY <1>4, <2>1, <2>2 DEF Inv
<1>5. CASE then = "select" /\ Spent(attempt)
  <2>1. /\ ToPersist([rec EXCEPT !.state = "exhausted"], "block")
        /\ UNCHANGED <<attempt, epoch, binding, first>>
    BY <1>1, <1>5 DEF Continue
  <2>2. Selectable(rec, attempt)
    BY <1>1, <1>5 DEF Inv, Pending
  <2>3. Len(rec.attempts) \in Nat /\ Len(rec.attempts) <= MaxAttempts
    BY <1>2, LenProperties DEF Sound, Formed, RecordOK, Record
  <2>4. Len(rec.attempts) = MaxAttempts /\ rec.attempts[MaxAttempts].settle = "retry-safe"
    <3>1. attempt > MaxAttempts /\ MaxAttempts \in Nat \ {0}
      BY <1>5, MaxAttemptsAssumption DEF Spent
    <3>2. attempt - 1 = MaxAttempts /\ Len(rec.attempts) = MaxAttempts /\ attempt > 1
      BY <1>2, <2>2, <2>3, <3>1 DEF Selectable
    <3> QED
      BY <2>2, <3>2 DEF Selectable
  <2>5. [rec EXCEPT !.state = "exhausted"].attempts = rec.attempts
    BY <1>2 DEF Record
  <2>6. SpentOK([rec EXCEPT !.state = "exhausted"])
    BY <2>4, <2>5 DEF SpentOK
  <2>7. Sound(rec') /\ Grows(rec, rec') /\ pc' = "persist" /\ then' = "block"
    BY <1>2, <2>1, <2>6, StateSet DEF Sound, States, ToPersist
  <2>8. Commits
    BY <1>3, <2>7
  <2>9. Grows(Current', rec')
    BY <1>2, <2>7, <2>8, GrowsTransitive DEF Sound, Formed
  <2>10. Rest
    BY <1>2, <2>1, <2>7 DEF Continuations
  <2>11. Pending' /\ Live'
    BY <2>7, <2>9 DEF Pending, Live
  <2> QED
    BY <1>4, <2>8, <2>10, <2>11
<1>6. CASE then = "select" /\ ~Spent(attempt)
  <2>1. SelectCandidate(rec, attempt) /\ UNCHANGED first
    BY <1>1, <1>6 DEF Continue
  <2>2. Selectable(rec, attempt) /\ (~corrected => attempt = Len(rec.attempts) + 1)
    BY <1>1, <1>6 DEF Inv, Pending
  <2>3. attempt \in Nat \ {0} /\ (attempt > 1 => rec.attempts[attempt - 1].settle # "unsettled")
    BY <2>2 DEF Selectable
  <2>4. /\ pc' = "persist" /\ Sound(rec') /\ Grows(rec, rec')
        /\ then' \in {"dispatch", "block"}
        /\ attempt' \in Nat /\ epoch' \in Nat /\ binding' \in Bindings
        /\ then' = "dispatch" /\ attempt = Len(rec.attempts) + 1 =>
               attempt' = attempt /\ epoch' = attempt /\ Picked(rec', attempt, binding')
    BY <1>2, <1>6, <2>1, <2>3, SelectStep
  <2>5. Commits
    BY <1>3, <2>4
  <2>6. Grows(Current', rec')
    BY <1>2, <2>4, <2>5, GrowsTransitive DEF Sound, Formed
  <2>7. Rest
    BY <1>2, <2>1, <2>4 DEF Continuations
  <2>8. ASSUME then' = "dispatch", ~corrected
        PROVE  epoch' = attempt' /\ Picked(rec', attempt', binding') /\ Len(Current'.attempts) < attempt'
    <3>1. Len(Current'.attempts) <= Len(rec.attempts)
      BY <2>5 DEF Grows
    <3>2. Len(Current'.attempts) \in Nat /\ Len(rec.attempts) \in Nat
      BY <1>2, <2>5, LenProperties DEF Sound, Formed, Record
    <3>3. attempt = Len(rec.attempts) + 1
      BY <2>2, <2>8
    <3> QED
      BY <2>4, <2>8, <3>1, <3>2, <3>3
  <2>9. Pending'
    BY <1>1, <2>4, <2>5, <2>6, <2>8 DEF Pending
  <2>10. Live'
    BY <2>4 DEF Live
  <2> QED
    BY <1>4, <2>5, <2>7, <2>9, <2>10
<1>7. CASE then = "dispatch"
  <2>1. /\ pc' = "ready" /\ UNCHANGED <<rec, then, attempt, epoch, binding>>
        /\ first' = IF first.epoch = 0 THEN [epoch |-> epoch, binding |-> binding] ELSE first
    BY <1>1, <1>7 DEF Continue
  <2>2. Commits
    BY <1>2, <1>3, <2>1
  <2>3. Rest
    BY <1>2, <2>1
  <2>4. Pending'
    BY <2>1 DEF Pending
  <2>5. Live'
    <3>1. SUFFICES ASSUME ~corrected
                   PROVE  epoch = attempt /\ Picked(Current', attempt, binding)
      BY <1>1, <2>1 DEF Live
    <3>2. epoch = attempt /\ Picked(rec, attempt, binding) /\ Len(Current.attempts) < attempt
          /\ versions # <<>>
      BY <1>1, <1>7, <3>1 DEF Inv, Pending
    <3>3. Current' = rec
      BY <2>2, <3>2 DEF Picked
    <3> QED
      BY <3>2, <3>3
  <2> QED
    BY <1>4, <2>2, <2>3, <2>4, <2>5
<1>8. CASE then \in {"stop", "block"}
  <2>1. pc' \in {"idle", "blocked"} /\ UNCHANGED <<rec, then, attempt, epoch, binding, first>>
    BY <1>1, <1>8 DEF Continue
  <2>2. Commits
    BY <1>2, <1>3, <2>1
  <2>3. Rest
    BY <1>2, <2>1
  <2>4. Pending' /\ Live'
    BY <2>1 DEF Pending, Live
  <2> QED
    BY <1>4, <2>2, <2>3, <2>4
<1> QED
  BY <1>2, <1>5, <1>6, <1>7, <1>8 DEF Continuations

LEMMA RejectStep ==
  ASSUME Inv, PersistRejected
  PROVE  Inv'
<1>1. /\ pc = "persist" /\ pc' = "thrown"
      /\ versions' = versions \/ versions' \in Committed(rec)
      /\ UNCHANGED <<config, starts, rec, then, attempt, epoch, binding, first,
                     closure, corrected>>
  BY DEF PersistRejected
<1>2. Sound(rec') /\ (versions # <<>> => Grows(Current, rec))
  BY <1>1 DEF Inv, AllSound, Pending
<1>3. /\ versions' \in Seq(Record) /\ AllSound' /\ Chain'
      /\ versions # <<>> => versions' # <<>>
  <2>1. CASE versions' = versions
    BY <1>2, <2>1, VersionsKept DEF Inv
  <2>2. CASE versions' \in Committed(rec)
    BY <1>2, <2>2, VersionCommitted DEF Inv
  <2> QED
    BY <1>1, <2>1, <2>2
<1>4. Scalars'
  BY <1>1 DEF Inv, Scalars
<1>5. Started' /\ Pending' /\ Live'
  BY <1>1, <1>3 DEF Inv, Started, Pending, Live
<1> QED
  BY <1>3, <1>4, <1>5 DEF Inv

\* An attempt that was recorded: the cycle goes on, blocks or throws.
LEMMA RecordedStep ==
  ASSUME Inv, versions # <<>>, UNCHANGED <<versions, config, starts, first, corrected>>,
         closure' \in {"none", "clean", "final"},
         attempt' \in Nat, UNCHANGED <<epoch, binding>>,
         \/ pc' = "thrown" /\ UNCHANGED <<rec, then, attempt>>
         \/ /\ pc' = "persist" /\ Sound(rec') /\ Grows(Current, rec')
            /\ \/ then' \in {"block", "stop"}
               \/ /\ then' = "select" /\ Selectable(rec', attempt')
                  /\ ~corrected => attempt' = Len(rec'.attempts) + 1
  PROVE  Inv'
<1>1. Sound(rec')
  BY DEF Inv, AllSound
<1>2. AllSound' /\ Chain'
  BY <1>1, VersionsKept DEF Inv
<1>3. Scalars'
  BY DEF Inv, Scalars, Continuations
<1>4. Current' = Current
  BY DEF Current
<1>5. Started' /\ Pending' /\ Live'
  BY <1>4 DEF Started, Pending, Live
<1> QED
  BY <1>2, <1>3, <1>5 DEF Inv

\* The coordinator moves on and the cycle stays as it is.
LEMMA CoordinatorStep ==
  ASSUME Inv, UNCHANGED <<versions, starts, rec, then, attempt, epoch, binding, first>>,
         config' \in Configs, corrected' \in BOOLEAN,
         closure' \in {"none", "clean", "final"},
         \/ pc' \in {"idle", "thrown"}
         \/ /\ pc \in {"ready", "running"} /\ pc' \in {"running", "failed"}
            /\ UNCHANGED corrected
  PROVE  Inv'
<1>1. AllSound' /\ Chain'
  BY VersionsKept DEF Inv, AllSound
<1>2. Scalars'
  BY DEF Inv, Scalars
<1>3. Current' = Current
  BY DEF Current
<1>4. Started' /\ Pending' /\ Live'
  BY <1>3 DEF Inv, Started, Pending, Live
<1> QED
  BY <1>1, <1>2, <1>4 DEF Inv

LEMMA SucceedStep ==
  ASSUME Inv, Succeed
  PROVE  Inv'
<1>1. /\ pc = "running" /\ RecordSuccess /\ closure' = "final"
      /\ UNCHANGED <<versions, config, starts, attempt, epoch, binding, first, corrected>>
  BY DEF Succeed
<1>2. /\ versions # <<>> /\ Sound(Current) /\ Current \in Record
      /\ attempt \in Nat /\ binding \in Bindings
  BY <1>1, CurrentSound DEF Inv, Started, Scalars
<1>3. pc' = "persist" /\ then' = "stop"
  BY <1>1 DEF RecordSuccess, ToPersist
<1>4. Sound(rec') /\ Grows(Current, rec')
  <2>1. CASE attempt \in DOMAIN Current.attempts
    <3>1. rec' = [Current EXCEPT !.attempts[attempt] = [binding |-> binding, settle |-> "success"]]
      BY <1>1, <2>1 DEF RecordSuccess, ToPersist
    <3> DEFINE a == [binding |-> binding, settle |-> "success"]
    <3>2. a \in [binding : Bindings, settle : Settlements] /\ a.settle # "unsettled"
      BY <1>2 DEF Settlements
    <3>3. rec' = [Current EXCEPT !.attempts[attempt] = a]
      BY <3>1
    <3> HIDE DEF a
    <3> QED
      BY <1>2, <2>1, <3>2, <3>3, AttemptRecorded
  <2>2. CASE attempt \notin DOMAIN Current.attempts
    BY <1>1, <1>2, <2>2, GrowsReflexive DEF RecordSuccess, ToPersist
  <2> QED
    BY <2>1, <2>2
<1> QED
  BY <1>1, <1>2, <1>3, <1>4, RecordedStep

LEMMA FailureRecorded ==
  ASSUME Inv, pc \in {"running", "failed"}, NEW s \in Settlements, RecordFailure(s),
         UNCHANGED <<versions, config, starts, first, corrected>>,
         closure' \in {"none", "clean", "final"}
  PROVE  Inv'
<1>1. versions # <<>> /\ (~corrected => Picked(Current, attempt, binding))
  BY DEF Inv, Started, Live
<1>2. versions \in Seq(Record) /\ AllSound
      /\ attempt \in Nat /\ epoch \in Nat /\ binding \in Bindings
  BY DEF Inv, Scalars
<1>3. /\ attempt' \in Nat /\ UNCHANGED <<epoch, binding>>
      /\ \/ pc' = "thrown" /\ UNCHANGED <<rec, then, attempt>>
         \/ /\ pc' = "persist" /\ Sound(rec') /\ Grows(Current, rec')
            /\ \/ then' = "block"
               \/ /\ then' = "select" /\ Selectable(rec', attempt')
                  /\ ~corrected => attempt' = Len(rec'.attempts) + 1
  BY <1>1, <1>2, FailureStep
<1> QED
  BY <1>1, <1>3, RecordedStep

LEMMA CorrectStep ==
  ASSUME Inv, Correct
  PROVE  Inv'
<1>1. /\ pc' = "ready" /\ corrected' = TRUE /\ attempt' = 2 /\ first.epoch # 0
      /\ epoch' = first.epoch /\ binding' = first.binding
      /\ UNCHANGED <<versions, config, starts, rec, then, first, closure>>
  BY DEF Correct
<1>2. AllSound' /\ Chain'
  BY <1>1, VersionsKept DEF Inv, AllSound
<1>3. Scalars'
  BY <1>1 DEF Inv, Scalars
<1>4. Started' /\ Pending' /\ Live'
  BY <1>1 DEF Inv, Started, Pending, Live
<1> QED
  BY <1>1, <1>2, <1>3, <1>4 DEF Inv

LEMMA InvNext == Inv /\ [Next]_vars => Inv'
<1> SUFFICES ASSUME Inv, [Next]_vars PROVE Inv'
  OBVIOUS
<1>1. CASE Begin
  BY <1>1, BeginStep
<1>2. CASE Persist
  BY <1>2, PersistStep
<1>3. CASE PersistRejected
  BY <1>3, RejectStep
<1>4. CASE Drive \/ Throw \/ Fail \/ GiveUp \/ End \/ Crash
  <2>1. /\ UNCHANGED <<versions, starts, rec, then, attempt, epoch, binding, first>>
        /\ config' \in Configs /\ corrected' \in BOOLEAN
        /\ closure' \in {"none", "clean", "final"}
    BY <1>4 DEF Inv, Scalars, Drive, Throw, Fail, GiveUp, End, Crash
  <2>2. \/ pc' \in {"idle", "thrown"}
        \/ /\ pc \in {"ready", "running"} /\ pc' \in {"running", "failed"}
           /\ UNCHANGED corrected
    BY <1>4 DEF Drive, Throw, Fail, GiveUp, End, Crash
  <2> QED
    BY <2>1, <2>2, CoordinatorStep
<1>5. CASE Succeed
  BY <1>5, SucceedStep
<1>6. CASE Correct
  BY <1>6, CorrectStep
<1>7. ASSUME NEW s \in {"unknown", "cancelled", "unsettled"}, FailUnsafe(s) PROVE Inv'
  BY <1>7, FailureRecorded DEF FailUnsafe, Settlements
<1>8. ASSUME NEW s \in {"retry-safe", "unsettled"}, Close(s) PROVE Inv'
  BY <1>8, FailureRecorded DEF Close, Settlements, Inv, Scalars
<1>9. CASE UNCHANGED vars
  BY <1>9 DEF vars, Inv, Scalars, AllSound, Chain, Started, Pending, Live, Current
<1> QED
  BY <1>1, <1>2, <1>3, <1>4, <1>5, <1>6, <1>7, <1>8, <1>9 DEF Next

-------------------------------------------------------------------------------
(* Theorems. *)

\* Every version is well formed and none is lost or rewritten: what the journal
\* holds is a chain, and the version under way continues it.
THEOREM InvariantHolds == Spec => []Inv
<1> QED
  BY InvInit, InvNext, PTL DEF Spec

\* The type invariant, and with it the budget: no durable cycle has more attempts
\* than MaxAttempts, and each has its admission.
THEOREM TypeCorrect == Spec => []TypeOK
<1>1. Inv => TypeOK
  BY DEF Inv, Scalars, AllSound, Sound, Formed, TypeOK
<1> QED
  BY <1>1, InvariantHolds, PTL

\* A provider runs only under a durable admission of its epoch and binding.
THEOREM Admitted == Spec => []AdmittedBeforeExecution
<1>1. Inv => AdmittedBeforeExecution
  <2> SUFFICES ASSUME Inv, pc \in {"ready", "running"}, ~corrected
               PROVE  /\ versions # <<>>
                      /\ epoch \in DOMAIN Current.admitted
                      /\ Current.admitted[epoch] = binding
    BY DEF AdmittedBeforeExecution
  <2>1. versions # <<>> /\ epoch = attempt /\ Picked(Current, attempt, binding)
    BY DEF Inv, Started, Live
  <2>2. Sound(Current)
    BY <2>1, CurrentSound DEF Inv
  <2>3. DOMAIN Current.admitted = 1 .. Len(Current.attempts) /\ Len(Current.attempts) \in Nat
    BY <2>2, LenProperties DEF Sound, Formed, RecordOK, Record
  <2> QED
    BY <2>1, <2>3 DEF Picked
<1> QED
  BY <1>1, InvariantHolds, PTL

\* A binding whose failure was recorded as retry-safe is not tried again
\* (retry-cycle.ts selectCandidate, recordFailure).
THEOREM ExcludedAvoided == Spec => []RetryAvoidsExcluded
<1>1. Inv => RetryAvoidsExcluded
  BY DEF Inv, Live, Picked, RetryAvoidsExcluded
<1> QED
  BY <1>1, InvariantHolds, PTL

\* No attempt follows an unsettled one.
THEOREM NotPassed == Spec => []UnsettledIsNotPassed
<1>1. Inv => UnsettledIsNotPassed
  BY DEF Inv, Live, Picked, UnsettledIsNotPassed
<1> QED
  BY <1>1, InvariantHolds, PTL

\* A cycle is exhausted only when its whole budget was spent and settled.
THEOREM SpentWhenExhausted == Spec => []ExhaustedIsSpent
<1>1. Inv => ExhaustedIsSpent
  BY DEF Inv, AllSound, Sound, SpentOK, ExhaustedIsSpent
<1> QED
  BY <1>1, InvariantHolds, PTL

\* The durable cycle never forgets an exclusion, an attempt or an admission.
THEOREM OnlyGrows == Spec => CycleOnlyGrows
<1> DEFINE Extends == versions # <<>> /\ versions' # versions => Grows(Current, Current')
<1>1. Inv /\ Inv' /\ [Next]_vars => Extends
  <2> SUFFICES ASSUME Inv, Inv', [Next]_vars, versions # <<>>, versions' # versions
               PROVE  Grows(Current, Current')
    OBVIOUS
  <2>1. pc = "persist" /\ versions' \in Committed(rec)
    BY DEF Next, vars, Begin, Persist, PersistRejected, Drive, Throw, Succeed, Fail,
           FailUnsafe, Close, End, Correct, GiveUp, Crash
  <2>2. Sound(rec') /\ Grows(Current, rec)
    BY <2>1 DEF Inv, AllSound, Pending
  <2>3. Current' = rec
    BY <2>1, <2>2, VersionCommitted DEF Inv
  <2> QED
    BY <2>2, <2>3
<1> HIDE DEF Extends
<1>2. Inv /\ Inv' /\ [Next]_vars =>
        [versions # <<>> /\ versions' # versions =>
          LET old == Current  new == Current' IN
          /\ old.candidates = new.candidates
          /\ old.excluded \subseteq new.excluded
          /\ Len(old.attempts) <= Len(new.attempts)
          /\ \A e \in DOMAIN old.admitted :
                e \in DOMAIN new.admitted /\ new.admitted[e] = old.admitted[e]]_vars
  BY <1>1 DEF Extends, Grows
<1> QED
  BY <1>2, InvariantHolds, PTL DEF Spec, CycleOnlyGrows
=================================================================================
