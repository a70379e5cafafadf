------------------------------ MODULE JournalProofs ------------------------------
(***************************************************************************)
(* Theorems about OrganJournal for every set of processes, callers, inputs,*)
(* entry points and faults, and any number of crashes and reused ids.      *)
(*                                                                         *)
(* Mutual exclusion rests on the tokens: whoever is past acquireLock has   *)
(* its own token in the lock file, and an evictor about to rename the lock *)
(* file is alone and has seen that no living process owns it.              *)
(***************************************************************************)
EXTENDS JournalProperties, SequenceTheorems, TLAPS

Writing == {"apply", "write", "writing", "sync"}

FrameOK(f) ==
    /\ f.pc = "idle" => f = Idle
    /\ f.pc # "idle" => f.proc \in alive /\ f.kind # "none"
    /\ f.kind = "verify" => f.pc \in {"stat", "read"}
    /\ f.kind = "recover" => f.pc \notin Writing \cup {"stat", "read"}
    /\ f.kind \in Appends => f.input \in Inputs /\ f.pc \notin {"raw", "replace", "known"}
    /\ f.kind \notin {"none", "verify"} => f.token # 0
    /\ f.pc \in {"guard", "check", "rename"} => f.expected # NoLock

TypeInv == TypeOK /\ \A c \in Callers : FrameOK(call[c])

TokensDiffer ==
    \A c, d \in Callers : call[c].token = call[d].token /\ call[c].token # 0 => c = d

HoldersOwnTheLock ==
    \A c \in Callers : Holding(c) => lock = [pid |-> call[c].proc, token |-> call[c].token]

OneEvictor ==
    \A c \in Callers : Evicting(c) =>
        guard /\ \A d \in Callers : Evicting(d) => c = d

RenameIsSafe ==
    \A c \in Callers : call[c].pc = "rename" =>
        lock # NoLock /\ \A d \in Callers : ~Holding(d)

LockInv == TokensDiffer /\ HoldersOwnTheLock /\ OneEvictor /\ RenameIsSafe

IInv == TypeInv /\ LockInv

-------------------------------------------------------------------------------
LEMMA InitInv == Init => IInv
  <1> SUFFICES ASSUME Init PROVE IInv
    OBVIOUS
  <1> USE ProcessesAssumption DEF Init
  <1>1. Idle \in CallState
    BY DEF CallState, Idle, LockInfo, NoLock, NoCache, NoFile, FileKey, FileView, Line
  <1>2. TypeOK
    <2>1. file \in File
      BY DEF File
    <2>2. NoCache \in CacheEntry
      BY DEF CacheEntry, NoCache, NoFile, FileKey, FileView
    <2> QED BY <1>1, <2>1, <2>2 DEF TypeOK, LockInfo
  <1>3. \A c \in Callers : FrameOK(call[c])
    BY DEF FrameOK, Idle, Appends, Writing
  <1>4. LockInv
    BY DEF LockInv, TokensDiffer, HoldersOwnTheLock, OneEvictor, RenameIsSafe, Holding,
       Holds, HeldPC, Evicting, Idle
  <1> QED BY <1>2, <1>3, <1>4 DEF IInv, TypeInv

\* A call that neither takes nor gives up the lock or the guard.
Quiet(f, g) ==
    /\ g = Idle \/ (g.token = f.token /\ g.proc = f.proc)
    /\ Holds(g) => Holds(f)
    /\ g.pc \in {"check", "rename", "unguard"} => f.pc = g.pc

LEMMA QuietStep ==
  ASSUME IInv, NEW c \in Callers, NEW g \in CallState,
         call' = [call EXCEPT ![c] = g], FrameOK(g), Quiet(call[c], g),
         UNCHANGED <<lock, guard, alive>>
  PROVE  /\ call' \in [Callers -> CallState]
         /\ \A d \in Callers : FrameOK(call[d])'
         /\ LockInv'
  <1>1. \A d \in Callers : call'[d] = IF d = c THEN g ELSE call[d]
    BY DEF IInv, TypeInv, TypeOK
  <1>2. call' \in [Callers -> CallState]
    BY DEF IInv, TypeInv, TypeOK
  <1>3. \A d \in Callers : FrameOK(call[d])'
    BY <1>1 DEF IInv, TypeInv, FrameOK
  <1>4. \A d \in Callers : /\ Holding(d)' => Holding(d) /\ call'[d].token = call[d].token
                                                      /\ call'[d].proc = call[d].proc
                           /\ Evicting(d)' => Evicting(d) /\ call'[d].pc = call[d].pc
    BY <1>1 DEF Quiet, Holding, Holds, Evicting, Idle, HeldPC
  <1>5. TokensDiffer'
    BY <1>1 DEF Quiet, IInv, LockInv, TokensDiffer, Idle
  <1>6. HoldersOwnTheLock'
    BY <1>4 DEF IInv, LockInv, HoldersOwnTheLock
  <1>7. OneEvictor' /\ RenameIsSafe'
    BY <1>4 DEF IInv, LockInv, OneEvictor, RenameIsSafe, Evicting
  <1> QED BY <1>2, <1>3, <1>5, <1>6, <1>7 DEF LockInv
-------------------------------------------------------------------------------
(***************************************************************************)
(* The steps that neither take nor give up the lock or the guard.          *)
(***************************************************************************)
\* The call goes on with the frame g.
Move(c, g) ==
    g \in CallState /\ call' = [call EXCEPT ![c] = g] /\ FrameOK(g) /\ Quiet(call[c], g)

LEMMA IdleFrame == Idle \in CallState /\ FrameOK(Idle) /\ \A f \in CallState : Quiet(f, Idle)
  <1>1. Idle \in CallState
    BY DEF CallState, Idle, LockInfo, NoLock, NoCache, NoFile, FileKey, FileView, Line
  <1>2. FrameOK(Idle)
    BY DEF Idle, FrameOK, Appends, Writing
  <1>3. \A f \in CallState : Quiet(f, Idle)
    <2>1. Idle.pc = "idle"
      BY DEF Idle
    <2>2. ~Holds(Idle)
      BY <2>1 DEF Holds, HeldPC
    <2> QED BY <2>1, <2>2 DEF Quiet
  <1> QED BY <1>1, <1>2, <1>3

LEMMA ReturnMove ==
  ASSUME IInv, NEW c \in Callers, Return(c)
  PROVE  Move(c, Idle)
  BY IdleFrame DEF Move, Return, IInv, TypeInv, TypeOK

\* A quiet step that leaves the file and the cache well formed preserves the
\* invariant.
LEMMA MoveInv ==
  ASSUME IInv, NEW c \in Callers, NEW g, Move(c, g),
         file' \in File, cache' \in [Processes -> CacheEntry],
         UNCHANGED <<lock, guard, alive, crashes>>
  PROVE  IInv'
  <1>1. /\ call' \in [Callers -> CallState]
        /\ \A d \in Callers : FrameOK(call[d])'
        /\ LockInv'
    BY QuietStep DEF Move
  <1>2. TypeOK'
    BY <1>1 DEF IInv, TypeInv, TypeOK
  <1> QED BY <1>1, <1>2 DEF IInv, TypeInv

\* The frame of a call and the variables it works on.
LEMMA Typed ==
  ASSUME IInv, NEW c \in Callers
  PROVE  /\ call \in [Callers -> CallState] /\ call[c] \in CallState /\ FrameOK(call[c])
         /\ file \in File /\ cache \in [Processes -> CacheEntry]
         /\ lock \in LockInfo /\ alive \subseteq Processes
         /\ call[c].pc # "idle" => call[c].proc \in Processes
  BY DEF IInv, TypeInv, TypeOK, FrameOK

\* Going on to another step of the same phase.
LEMMA GotoMove ==
  ASSUME IInv, NEW c \in Callers, NEW pc, Goto(c, pc),
         \/ call[c].pc \in {"link", "contend", "guard"} /\ pc = "wait"
         \/ call[c].pc = "wait" /\ pc = "link"
         \/ call[c].pc = "link" /\ pc = "contend"
         \/ call[c].pc \in {"stat", "read"} /\ call[c].kind # "verify" /\ pc = "release"
         \/ call[c].pc \in HeldPC /\ pc \in {"release", "unlink"}
         \/ call[c].pc \in Writing /\ pc \in Writing
         \/ call[c].pc = "replace" /\ pc = "known"
  PROVE  Move(c, [call[c] EXCEPT !.pc = pc])
  <1> DEFINE g == [call[c] EXCEPT !.pc = pc]
  <1> USE Typed
  <1>1. g \in CallState
    BY DEF CallState, HeldPC, Writing
  <1>2. FrameOK(g)
    BY DEF FrameOK, CallState, HeldPC, Writing
  <1>3. Quiet(call[c], g)
    BY DEF Quiet, Holds, HeldPC, Writing, CallState
  <1> QED BY <1>1, <1>2, <1>3 DEF Move, Goto

LEMMA ContendInv ==
  ASSUME IInv, NEW c \in Callers, Contend(c)
  PROVE  IInv'
  <1> USE Typed
  <1>1. PICK seen \in LockReads : IF seen # NoLock /\ seen.pid \notin alive
         THEN call' = [call EXCEPT ![c].pc = "guard", ![c].expected = seen]
         ELSE Goto(c, "wait")
    BY DEF Contend
  <1>2. CASE seen # NoLock /\ seen.pid \notin alive
    <2> DEFINE g == [call[c] EXCEPT !.pc = "guard", !.expected = seen]
    <2>1. g \in CallState
      BY DEF CallState, LockReads, LockInfo
    <2>2. FrameOK(g) /\ Quiet(call[c], g)
      BY <1>2 DEF Contend, FrameOK, Quiet, Holds, HeldPC, Writing, CallState
    <2>3. call' = [call EXCEPT ![c] = g]
      BY <1>1, <1>2
    <2> QED BY <2>1, <2>2, <2>3, MoveInv DEF Move, Contend
  <1>3. CASE ~(seen # NoLock /\ seen.pid \notin alive)
    BY <1>1, <1>3, GotoMove, MoveInv DEF Contend
  <1> QED BY <1>2, <1>3

LEMMA RetryInv ==
  ASSUME IInv, NEW c \in Callers, Retry(c)
  PROVE  IInv'
  BY Typed, GotoMove, MoveInv DEF Retry

LEMMA GiveUpInv ==
  ASSUME IInv, NEW c \in Callers, GiveUp(c)
  PROVE  IInv'
  BY Typed, ReturnMove, MoveInv DEF GiveUp

\* The content a call reads or finds in the cache.
LEMMA SeenMove ==
  ASSUME IInv, NEW c \in Callers, NEW view \in FileView,
         call[c].pc \in {"stat", "read"}, Seen(c, [call[c] EXCEPT !.view = view])
  PROVE  \E g : Move(c, g)
  <1> DEFINE g == [call[c] EXCEPT !.view = view, !.pc = "apply"]
  <1> USE Typed
  <1>1. CASE call[c].kind \in Appends
    <2>1. g \in CallState
      BY DEF CallState, HeldPC
    <2>2. FrameOK(g) /\ Quiet(call[c], g)
      BY <1>1 DEF FrameOK, Quiet, Holds, HeldPC, Writing, CallState, Appends
    <2>3. call' = [call EXCEPT ![c] = g]
      BY <1>1 DEF Seen, CallState
    <2> QED BY <2>1, <2>2, <2>3 DEF Move
  <1>2. CASE call[c].kind \notin Appends
    BY <1>2, ReturnMove DEF Seen, Return, CallState
  <1> QED BY <1>1, <1>2

LEMMA Keys ==
  ASSUME IInv
  PROVE  Key(file) \in FileKey /\ Content(file) \in FileView
  BY DEF IInv, TypeInv, TypeOK, File, Key, Content, FileKey, FileView

LEMMA StatInv ==
  ASSUME IInv, NEW c \in Callers, Stat(c)
  PROVE  IInv'
  <1> DEFINE entry == cache[call[c].proc]
  <1> USE Typed, Keys
  <1>1. call[c].proc \in Processes /\ entry \in CacheEntry
    BY DEF Stat
  <1>2. cache' \in [Processes -> CacheEntry]
    <2>1. [key |-> Key(file), view |-> NoFile, pending |-> TRUE] \in CacheEntry
      BY DEF CacheEntry, FileView, NoFile
    <2> QED BY <2>1 DEF Stat
  <1>3. CASE entry.key = Key(file) /\ ~entry.pending
    <2>1. entry.view \in FileView
      BY <1>1 DEF CacheEntry
    <2> QED BY <1>2, <1>3, <2>1, SeenMove, MoveInv DEF Stat
  <1>4. CASE ~(entry.key = Key(file) /\ ~entry.pending)
    <2> DEFINE g == [call[c] EXCEPT !.pc = "read", !.key = Key(file)]
    <2>1. g \in CallState
      BY DEF CallState
    <2>2. FrameOK(g) /\ Quiet(call[c], g)
      BY DEF Stat, FrameOK, Quiet, Holds, HeldPC, Writing, CallState, Appends
    <2>3. call' = [call EXCEPT ![c] = g]
      BY <1>4 DEF Stat
    <2> QED BY <1>2, <2>1, <2>2, <2>3, MoveInv DEF Move, Stat
  <1> QED BY <1>3, <1>4

LEMMA ReadInv ==
  ASSUME IInv, NEW c \in Callers, Read(c)
  PROVE  IInv'
  <1> USE Typed, Keys
  <1>1. cache' \in [Processes -> CacheEntry]
    BY DEF Read, CacheEntry, Resolved
  <1> QED BY <1>1, SeenMove, MoveInv DEF Read

LEMMA ReadFailsInv ==
  ASSUME IInv, NEW c \in Callers, ReadFails(c)
  PROVE  IInv'
  <1> USE Typed
  <1>1. cache' \in [Processes -> CacheEntry]
    BY DEF ReadFails, CacheEntry, NoCache, FileView, FileKey, NoFile
  <1>2. CASE call[c].kind = "verify"
    BY <1>1, <1>2, ReturnMove, MoveInv DEF ReadFails
  <1>3. CASE call[c].kind # "verify"
    BY <1>1, <1>3, GotoMove, MoveInv DEF ReadFails, HeldPC
  <1> QED BY <1>2, <1>3

LEMMA ApplyInv ==
  ASSUME IInv, NEW c \in Callers, Apply(c)
  PROVE  IInv'
  <1> DEFINE found == Existing(call[c].view, call[c].input.id)
  <1> USE Typed
  <1>1. CASE ~Verified(call[c].view)
    <2>1. Goto(c, "release") /\ call[c].pc \in HeldPC
      BY <1>1 DEF Apply, HeldPC
    <2> QED BY <2>1, GotoMove, MoveInv DEF Apply
  <1>2. CASE Verified(call[c].view) /\ found = {}
    <2>1. Goto(c, "write") /\ call[c].pc \in Writing /\ "write" \in Writing
      BY <1>2 DEF Apply, Writing
    <2>2. Move(c, [call[c] EXCEPT !.pc = "write"])
      BY <2>1, GotoMove
    <2> QED BY <2>2, MoveInv DEF Apply
  <1>3. CASE Verified(call[c].view) /\ found # {}
    <2>1. PICK acked \in BOOLEAN :
             call' = [call EXCEPT ![c].pc = "release", ![c].acked = acked]
      BY <1>3 DEF Apply
    <2> DEFINE g == [call[c] EXCEPT !.pc = "release", !.acked = acked]
    <2>2. g \in CallState
      BY DEF CallState, HeldPC
    <2>3. FrameOK(g) /\ Quiet(call[c], g)
      BY DEF Apply, FrameOK, Quiet, Holds, HeldPC, Writing, CallState
    <2>4. call' = [call EXCEPT ![c] = g]
      BY <2>1
    <2>5. UNCHANGED <<file, lock, guard, alive, cache, crashes>>
      BY DEF Apply
    <2> HIDE DEF g
    <2> QED BY <2>2, <2>3, <2>4, <2>5, MoveInv DEF Move
  <1> QED BY <1>1, <1>2, <1>3

LEMMA WriteBeginsInv ==
  ASSUME IInv, NEW c \in Callers, WriteBegins(c)
  PROVE  IInv'
  <1>1. file' \in File
    BY Typed DEF WriteBegins, File
  <1> QED BY <1>1, Typed, GotoMove, MoveInv DEF WriteBegins, Writing

\* The record of an append.
LEMMA RecordType ==
  ASSUME IInv, NEW c \in Callers, call[c].pc \in Writing
  PROVE  Record(c) \in Line
  <1> USE Typed
  <1>1. call[c].input \in Inputs
    BY DEF FrameOK, Writing, Appends, CallState, EntryPoints
  <1>2. call[c].view.lines \in Seq(Line)
    BY DEF CallState, FileView
  <1> QED BY <1>1, <1>2 DEF Record, Line

LEMMA WriteEndsInv ==
  ASSUME IInv, NEW c \in Callers, WriteEnds(c)
  PROVE  IInv'
  <1>1. Record(c) \in Line /\ file \in File
    BY Typed, RecordType DEF WriteEnds, Writing
  <1>2. Append(file.lines, Record(c)) \in Seq(Line)
    BY <1>1 DEF File
  <1>3. file' \in File
    BY <1>1, <1>2 DEF WriteEnds, File
  <1> QED BY <1>3, Typed, GotoMove, MoveInv DEF WriteEnds, Writing

LEMMA WriteFailsInv ==
  ASSUME IInv, NEW c \in Callers, WriteFails(c)
  PROVE  IInv'
  BY Typed, GotoMove, MoveInv DEF WriteFails, HeldPC

LEMMA RememberInv ==
  ASSUME IInv, NEW c \in Callers, Remember(c)
  PROVE  IInv'
  <1> DEFINE view == [lines |-> Append(call[c].view.lines, Record(c)), tail |-> FALSE]
             g == [call[c] EXCEPT !.pc = "release", !.acked = TRUE, !.view = view]
  <1> USE Typed
  <1>1. view \in FileView
    BY RecordType DEF Remember, Writing, CallState, FileView
  <1>2. cache' \in [Processes -> CacheEntry]
    BY <1>1, Keys DEF Remember, CacheEntry, Resolved
  <1>3. g \in CallState
    BY <1>1 DEF CallState, HeldPC
  <1>4. FrameOK(g) /\ Quiet(call[c], g)
    BY DEF Remember, FrameOK, Quiet, Holds, HeldPC, Writing, CallState
  <1>5. call' = [call EXCEPT ![c] = g]
    BY DEF Remember
  <1> QED BY <1>2, <1>3, <1>4, <1>5, MoveInv DEF Move, Remember

LEMMA AppendMoreInv ==
  ASSUME IInv, NEW c \in Callers, NEW input \in Inputs, AppendMore(c, input)
  PROVE  IInv'
  <1> DEFINE g == [call[c] EXCEPT !.pc = "apply", !.input = input, !.acked = FALSE]
  <1> USE Typed
  <1>1. g \in CallState
    BY DEF CallState, HeldPC
  <1>2. FrameOK(g) /\ Quiet(call[c], g)
    BY DEF AppendMore, FrameOK, Quiet, Holds, HeldPC, Writing, CallState
  <1>3. call' = [call EXCEPT ![c] = g]
    BY DEF AppendMore
  <1> QED BY <1>1, <1>2, <1>3, MoveInv DEF Move, AppendMore

LEMMA ReadRawInv ==
  ASSUME IInv, NEW c \in Callers, ReadRaw(c)
  PROVE  IInv'
  <1> USE Typed
  <1> DEFINE pc == CASE ~ChainIsValid(file.lines) -> "release"
                     [] file.tail -> "replace"
                     [] OTHER -> "known"
             g == [call[c] EXCEPT !.view = Content(file), !.pc = pc]
  <1>1. /\ call' = [call EXCEPT ![c].view = Content(file), ![c].pc = pc]
        /\ pc \in {"release", "replace", "known"}
    <2>1. call' = [call EXCEPT ![c].view = Content(file), ![c].pc = pc]
      BY DEF ReadRaw
    <2>2. pc \in {"release", "replace", "known"}
      OBVIOUS
    <2> QED BY <2>1, <2>2
  <1> HIDE DEF pc
  <1>2. g \in CallState
    BY <1>1, Keys DEF CallState, HeldPC
  <1>3. FrameOK(g) /\ Quiet(call[c], g)
    BY <1>1 DEF ReadRaw, FrameOK, Quiet, Holds, HeldPC, Writing, CallState
  <1>4. call' = [call EXCEPT ![c] = g]
    BY <1>1
  <1>5. UNCHANGED <<file, lock, guard, alive, cache, crashes>>
    BY DEF ReadRaw
  <1> HIDE DEF g
  <1> QED BY <1>2, <1>3, <1>4, <1>5, MoveInv DEF Move

LEMMA ReplaceInv ==
  ASSUME IInv, NEW c \in Callers, Replace(c)
  PROVE  IInv'
  <1>1. file' \in File
    BY Typed DEF Replace, File, CallState, FileView
  <1> QED BY <1>1, Typed, GotoMove, MoveInv DEF Replace

LEMMA RecoveredInv ==
  ASSUME IInv, NEW c \in Callers, Recovered(c)
  PROVE  IInv'
  <1> USE Typed
  <1>1. [lines |-> call[c].view.lines, tail |-> FALSE] \in FileView
    BY DEF CallState, FileView
  <1>2. cache' \in [Processes -> CacheEntry]
    BY <1>1, Keys DEF Recovered, CacheEntry, Resolved
  <1> QED BY <1>2, GotoMove, MoveInv DEF Recovered, HeldPC

LEMMA ReleaseInv ==
  ASSUME IInv, NEW c \in Callers, Release(c)
  PROVE  IInv'
  BY Typed, GotoMove, ReturnMove, MoveInv DEF Release, HeldPC

-------------------------------------------------------------------------------
(***************************************************************************)
(* The steps that take or give up the lock or the guard.                   *)
(***************************************************************************)
\* The other calls keep their frames.
LEMMA Others ==
  ASSUME IInv, NEW c \in Callers, NEW g, call' = [call EXCEPT ![c] = g]
  PROVE  \A d \in Callers : call'[d] = IF d = c THEN g ELSE call[d]
  BY DEF IInv, TypeInv, TypeOK

\* The typing half of a step that is not quiet.
LEMMA MoveType ==
  ASSUME IInv, NEW c \in Callers, NEW g \in CallState, call' = [call EXCEPT ![c] = g],
         FrameOK(g), lock' \in LockInfo, guard' \in BOOLEAN,
         UNCHANGED <<file, alive, cache, crashes>>
  PROVE  TypeInv'
  <1>1. TypeOK'
    BY DEF IInv, TypeInv, TypeOK
  <1>2. \A d \in Callers : FrameOK(call[d])'
    BY Others DEF IInv, TypeInv, FrameOK
  <1> QED BY <1>1, <1>2 DEF TypeInv

\* A new call has a token that no other call has.
LEMMA StartInv ==
  ASSUME IInv, NEW c \in Callers, NEW p \in Processes, NEW kind \in EntryPoints,
         NEW input, kind \in Appends => input \in Inputs,
         kind \notin Appends => input = NoInput, Start(c, p, kind, input)
  PROVE  IInv'
  <1> DEFINE token == CHOOSE t \in FreshTokens : TRUE
             g == [Idle EXCEPT !.pc = IF kind = "verify" THEN "stat" ELSE "link",
                               !.kind = kind, !.proc = p, !.input = input,
                               !.token = IF kind = "verify" THEN 0 ELSE token]
  <1> USE Typed, TokensAssumption
  <1>1. token \in FreshTokens
    BY DEF Start
  <1>2. token \in Nat \ {0} /\ \A d \in Callers : call[d].token # token
    BY <1>1 DEF FreshTokens, UsedTokens
  <1> HIDE DEF token
  <1>3. call' = [call EXCEPT ![c] = g]
    BY DEF Start, token
  <1>4. g \in CallState
    <2>1. input \in Inputs \cup {NoInput}
      BY DEF Appends
    <2>2. /\ (IF kind = "verify" THEN "stat" ELSE "link") \in {"stat", "link"}
          /\ (IF kind = "verify" THEN 0 ELSE token) \in Nat
      BY <1>2
    <2>3. \A pc \in {"stat", "link"}, n \in Nat :
             [Idle EXCEPT !.pc = pc, !.kind = kind, !.proc = p, !.input = input, !.token = n]
               \in CallState
      BY <2>1, IdleFrame DEF CallState
    <2> QED BY <2>2, <2>3
  <1>5. /\ g.pc \in {"stat", "link"} /\ g.kind = kind /\ g.input = input /\ g.proc = p
        /\ (g.pc = "stat" <=> kind = "verify")
        /\ g.token = IF kind = "verify" THEN 0 ELSE token
    BY DEF Idle
  <1> HIDE DEF g
  <1>6. FrameOK(g)
    BY <1>2, <1>5 DEF FrameOK, Start, Appends, Writing, EntryPoints
  <1>7. TypeInv'
    BY <1>3, <1>4, <1>6, MoveType DEF Start, IInv, TypeInv, TypeOK
  <1>8. \A d \in Callers : /\ Holding(d)' => Holding(d) /\ call'[d] = call[d]
                           /\ Evicting(d)' => Evicting(d) /\ call'[d] = call[d]
    BY <1>3, <1>5, Others DEF Holding, Holds, HeldPC, Evicting
  <1>9. TokensDiffer'
    BY <1>2, <1>3, <1>5, Others DEF IInv, LockInv, TokensDiffer
  <1>10. HoldersOwnTheLock' /\ OneEvictor' /\ RenameIsSafe'
    <2>1. UNCHANGED <<lock, guard>>
      BY DEF Start
    <2>2. HoldersOwnTheLock' /\ OneEvictor'
      BY <1>8, <2>1 DEF IInv, LockInv, HoldersOwnTheLock, OneEvictor
    <2>3. RenameIsSafe'
      BY <1>8, <2>1 DEF IInv, LockInv, RenameIsSafe, Evicting
    <2> QED BY <2>2, <2>3
  <1> QED BY <1>7, <1>9, <1>10 DEF IInv, LockInv

LEMMA LinkInv ==
  ASSUME IInv, NEW c \in Callers, Link(c)
  PROVE  IInv'
  <1> USE Typed
  <1>1. CASE lock # NoLock
    BY <1>1, GotoMove, MoveInv DEF Link
  <1>2. CASE lock = NoLock
    <2> DEFINE pc == IF call[c].kind \in Appends THEN "stat" ELSE "raw"
               g == [call[c] EXCEPT !.pc = pc]
    <2>1. /\ call' = [call EXCEPT ![c] = g]
          /\ lock' = [pid |-> call[c].proc, token |-> call[c].token]
          /\ UNCHANGED <<file, guard, alive, cache, crashes>>
      BY <1>2 DEF Link, Goto
    <2>2. call[c].pc = "link" /\ call[c].token \in Nat \ {0} /\ call[c].proc \in Processes
      BY DEF Link, FrameOK, CallState
    <2>3. g \in CallState /\ FrameOK(g)
      BY <2>2 DEF CallState, HeldPC, FrameOK, Appends, Writing, EntryPoints
    <2>4. TypeInv'
      BY <2>1, <2>2, <2>3, MoveType DEF LockInfo, IInv, TypeInv, TypeOK
    <2>5. \A d \in Callers : ~Holding(d)
      BY <1>2, ProcessesAssumption DEF IInv, LockInv, HoldersOwnTheLock, NoLock, Holding,
         Holds, HeldPC, TypeInv, FrameOK, TypeOK
    <2>6. g.pc \in {"stat", "raw"} /\ g.token = call[c].token /\ g.proc = call[c].proc
      BY DEF CallState
    <2>7. \A d \in Callers : /\ Holding(d)' => d = c
                             /\ Evicting(d)' => Evicting(d) /\ call'[d] = call[d]
                             /\ call'[d].token = call[d].token
      BY <2>1, <2>5, <2>6, Others DEF Holding, Evicting
    <2>8. TokensDiffer'
      BY <2>7 DEF IInv, LockInv, TokensDiffer
    <2>9. HoldersOwnTheLock'
      BY <2>1, <2>6, <2>7, Others DEF HoldersOwnTheLock
    <2>10. OneEvictor' /\ RenameIsSafe'
      BY <1>2, <2>1, <2>7 DEF IInv, LockInv, OneEvictor, RenameIsSafe, Evicting
    <2> QED BY <2>4, <2>8, <2>9, <2>10 DEF IInv, LockInv
  <1> QED BY <1>1, <1>2

LEMMA GuardInv ==
  ASSUME IInv, NEW c \in Callers, Guard(c)
  PROVE  IInv'
  <1> USE Typed
  <1> DEFINE g == IF guard THEN [call[c] EXCEPT !.pc = "wait", !.expected = NoLock]
                  ELSE [call[c] EXCEPT !.pc = "check"]
  <1>1. call' = [call EXCEPT ![c] = g]
    BY DEF Guard, Goto
  <1>2. /\ g \in CallState /\ g.token = call[c].token /\ g.proc = call[c].proc
        /\ g.kind = call[c].kind /\ g.input = call[c].input
        /\ g.pc = IF guard THEN "wait" ELSE "check"
        /\ ~guard => g.expected = call[c].expected
    BY DEF CallState, LockInfo
  <1>3. FrameOK(g)
    BY <1>2 DEF FrameOK, Guard, Appends, Writing
  <1> HIDE DEF g
  <1>4. TypeInv'
    BY <1>1, <1>2, <1>3, MoveType DEF Guard
  <1>5. \A d \in Callers : call'[d] = IF d = c THEN g ELSE call[d]
    BY <1>1, Others
  <1>6. \A d \in Callers : /\ Holding(d)' => Holding(d) /\ call'[d] = call[d]
                           /\ call'[d].token = call[d].token
    BY <1>2, <1>5 DEF Holding, Holds, HeldPC
  <1>7. \A d \in Callers : /\ call'[d].pc = "rename" => call[d].pc = "rename"
                           /\ Evicting(d)' => Evicting(d) \/ (d = c /\ ~guard)
    BY <1>2, <1>5 DEF Evicting
  <1>8. TokensDiffer' /\ HoldersOwnTheLock' /\ RenameIsSafe'
    BY <1>6, <1>7 DEF Guard, IInv, LockInv, TokensDiffer, HoldersOwnTheLock, RenameIsSafe
  <1>9. OneEvictor'
    BY <1>7 DEF Guard, IInv, LockInv, OneEvictor
  <1> QED BY <1>4, <1>8, <1>9 DEF IInv, LockInv

LEMMA CheckInv ==
  ASSUME IInv, NEW c \in Callers, Check(c)
  PROVE  IInv'
  <1> USE Typed
  <1>1. PICK seen \in LockReads :
           Goto(c, IF seen = call[c].expected /\ seen.pid \notin alive
                   THEN "rename" ELSE "unguard")
    BY DEF Check
  <1> DEFINE dead == seen = call[c].expected /\ seen.pid \notin alive
             g == [call[c] EXCEPT !.pc = IF dead THEN "rename" ELSE "unguard"]
  <1>2. call' = [call EXCEPT ![c] = g]
    BY <1>1 DEF Goto
  <1>3. dead => lock # NoLock /\ lock.pid \notin alive
    BY DEF Check, LockReads, FrameOK
  <1> HIDE DEF dead
  <1>4. /\ g \in CallState /\ g.token = call[c].token /\ g.proc = call[c].proc
        /\ g.kind = call[c].kind /\ g.input = call[c].input
        /\ g.pc = IF dead THEN "rename" ELSE "unguard"
        /\ g.expected = call[c].expected
    BY DEF CallState
  <1>5. FrameOK(g)
    BY <1>4 DEF FrameOK, Check, Appends, Writing
  <1> HIDE DEF g
  <1>6. TypeInv'
    BY <1>2, <1>4, <1>5, MoveType DEF Check, IInv, TypeInv, TypeOK
  <1>7. \A d \in Callers : call'[d] = IF d = c THEN g ELSE call[d]
    BY <1>2, Others
  <1>8. \A d \in Callers : /\ Holding(d)' => Holding(d) /\ call'[d] = call[d]
                           /\ call'[d].token = call[d].token
    BY <1>4, <1>7 DEF Holding, Holds, HeldPC
  <1>9. TokensDiffer' /\ HoldersOwnTheLock'
    BY <1>8 DEF Check, IInv, LockInv, TokensDiffer, HoldersOwnTheLock
  <1>10. \A d \in Callers : Evicting(d)' => Evicting(d)
    BY <1>7 DEF Evicting, Check
  <1>11. OneEvictor'
    BY <1>10 DEF Check, IInv, LockInv, OneEvictor
  <1>12. ASSUME dead PROVE \A d \in Callers : ~Holding(d)
    <2>1. \A d \in Callers : Holding(d) => call[d].proc \in alive /\ lock.pid = call[d].proc
      BY DEF IInv, TypeInv, FrameOK, LockInv, HoldersOwnTheLock, Holding, Holds, HeldPC
    <2> QED BY <1>3, <1>12, <2>1
  <1>13. RenameIsSafe'
    BY <1>3, <1>4, <1>7, <1>8, <1>12 DEF Check, IInv, LockInv, RenameIsSafe
  <1> QED BY <1>6, <1>9, <1>11, <1>13 DEF IInv, LockInv

LEMMA RenameInv ==
  ASSUME IInv, NEW c \in Callers, Rename(c)
  PROVE  IInv'
  <1> USE Typed
  <1> DEFINE g == [call[c] EXCEPT !.pc = "unguard", !.evicted = TRUE]
  <1>1. call' = [call EXCEPT ![c] = g]
    BY DEF Rename
  <1>2. /\ g \in CallState /\ g.token = call[c].token /\ g.proc = call[c].proc
        /\ g.kind = call[c].kind /\ g.input = call[c].input /\ g.pc = "unguard"
    BY DEF CallState
  <1>3. FrameOK(g)
    BY <1>2 DEF FrameOK, Rename, Appends, Writing
  <1> HIDE DEF g
  <1>4. TypeInv'
    BY <1>1, <1>2, <1>3, MoveType DEF Rename, LockInfo, IInv, TypeInv, TypeOK
  <1>5. \A d \in Callers : call'[d] = IF d = c THEN g ELSE call[d]
    BY <1>1, Others
  <1>6. \A d \in Callers : ~Holding(d)'
    BY <1>2, <1>5 DEF Rename, IInv, LockInv, RenameIsSafe, Holding, Holds, HeldPC
  <1>7. \A d \in Callers : call'[d].pc # "rename"
    BY <1>2, <1>5 DEF Rename, IInv, LockInv, OneEvictor, Evicting
  <1>8. OneEvictor'
    BY <1>5 DEF Rename, IInv, LockInv, OneEvictor, Evicting
  <1>9. TokensDiffer'
    BY <1>2, <1>5 DEF IInv, LockInv, TokensDiffer
  <1> QED BY <1>4, <1>6, <1>7, <1>8, <1>9 DEF IInv, LockInv, HoldersOwnTheLock, RenameIsSafe

LEMMA UnguardInv ==
  ASSUME IInv, NEW c \in Callers, Unguard(c)
  PROVE  IInv'
  <1> USE Typed
  <1> DEFINE g == [call[c] EXCEPT !.pc = IF call[c].evicted THEN "link" ELSE "wait",
                                  !.expected = NoLock, !.evicted = FALSE]
  <1>1. call' = [call EXCEPT ![c] = g]
    BY DEF Unguard
  <1>2. /\ g \in CallState /\ g.token = call[c].token /\ g.proc = call[c].proc
        /\ g.kind = call[c].kind /\ g.input = call[c].input /\ g.pc \in {"link", "wait"}
    BY DEF CallState, LockInfo
  <1>3. FrameOK(g)
    BY <1>2 DEF FrameOK, Unguard, Appends, Writing
  <1> HIDE DEF g
  <1>4. TypeInv'
    BY <1>1, <1>2, <1>3, MoveType DEF Unguard
  <1>5. \A d \in Callers : call'[d] = IF d = c THEN g ELSE call[d]
    BY <1>1, Others
  <1>6. \A d \in Callers : /\ Holding(d)' => Holding(d) /\ call'[d] = call[d]
                           /\ call'[d].token = call[d].token
    BY <1>2, <1>5 DEF Holding, Holds, HeldPC
  <1>7. \A d \in Callers : ~Evicting(d)'
    BY <1>2, <1>5 DEF Unguard, IInv, LockInv, OneEvictor, Evicting
  <1>8. TokensDiffer' /\ HoldersOwnTheLock'
    BY <1>6 DEF Unguard, IInv, LockInv, TokensDiffer, HoldersOwnTheLock
  <1> QED BY <1>4, <1>7, <1>8 DEF IInv, LockInv, OneEvictor, RenameIsSafe, Evicting

LEMMA UnlinkInv ==
  ASSUME IInv, NEW c \in Callers, Unlink(c)
  PROVE  IInv'
  <1> USE Typed
  <1>1. call' = [call EXCEPT ![c] = Idle] /\ Holding(c)
    BY DEF Unlink, Return, Holding, Holds, HeldPC
  <1>2. TypeInv'
    BY <1>1, IdleFrame, MoveType DEF Unlink, LockInfo, IInv, TypeInv, TypeOK
  <1>3. \A d \in Callers : Holding(d) => d = c
    <2>1. \A d \in Callers : Holding(d) => call[d].token = call[c].token
      BY <1>1 DEF IInv, LockInv, HoldersOwnTheLock
    <2>2. call[c].token # 0
      BY DEF Unlink, FrameOK, CallState, EntryPoints
    <2> QED BY <2>1, <2>2 DEF IInv, LockInv, TokensDiffer
  <1>4. \A d \in Callers : call'[d] = IF d = c THEN Idle ELSE call[d]
    BY <1>1, Others
  <1>5. Idle.pc = "idle" /\ Idle.token = 0
    BY DEF Idle
  <1>6. \A d \in Callers : ~Holding(d)'
    BY <1>3, <1>4, <1>5 DEF Holding, Holds, HeldPC
  <1>7. \A d \in Callers : call'[d].pc # "rename"
    BY <1>1, <1>4, <1>5 DEF IInv, LockInv, RenameIsSafe
  <1>8. OneEvictor'
    BY <1>4, <1>5 DEF Unlink, IInv, LockInv, OneEvictor, Evicting
  <1>9. TokensDiffer'
    BY <1>4, <1>5 DEF IInv, LockInv, TokensDiffer
  <1> QED BY <1>2, <1>6, <1>7, <1>8, <1>9 DEF IInv, LockInv, HoldersOwnTheLock, RenameIsSafe

\* A crash only removes calls; a reused id belongs to no call.
LEMMA CrashInv ==
  ASSUME IInv, NEW p \in Processes, Crash(p) \/ Reuse(p)
  PROVE  IInv'
  <1>1. CASE Crash(p)
    <2> USE <1>1
    <2>1. \A d \in Callers : call'[d] = IF call[d].proc = p THEN Idle ELSE call[d]
      BY DEF Crash
    <2>2. call' \in [Callers -> CallState]
      BY IdleFrame DEF Crash, IInv, TypeInv, TypeOK
    <2>3. NoCache \in CacheEntry
      BY DEF CacheEntry, NoCache, NoFile, FileView, FileKey
    <2>4. TypeOK'
      BY <2>2, <2>3 DEF Crash, IInv, TypeInv, TypeOK
    <2>5. FrameOK(Idle)'
      BY DEF FrameOK, Idle, Appends, Writing
    <2>6. \A d \in Callers : FrameOK(call[d])'
      BY <2>1, <2>5 DEF Crash, IInv, TypeInv, FrameOK
    <2>7. Idle.pc = "idle" /\ Idle.token = 0
      BY DEF Idle
    <2>8. \A d \in Callers : Holding(d)' => Holding(d) /\ call'[d] = call[d]
      BY <2>1, <2>7 DEF Holding, Holds, HeldPC
    <2>9. \A d \in Callers : Evicting(d)' => Evicting(d) /\ call'[d] = call[d]
      BY <2>1, <2>7 DEF Evicting
    <2>10. TokensDiffer'
      BY <2>1, <2>7 DEF IInv, LockInv, TokensDiffer
    <2>11. HoldersOwnTheLock' /\ OneEvictor' /\ RenameIsSafe'
      BY <2>8, <2>9 DEF Crash, IInv, LockInv, HoldersOwnTheLock, OneEvictor, RenameIsSafe,
         Evicting
    <2> QED BY <2>4, <2>6, <2>10, <2>11 DEF IInv, TypeInv, LockInv
  <1>2. CASE Reuse(p)
    <2> USE <1>2 DEF Reuse
    <2>1. TypeOK'
      BY DEF IInv, TypeInv, TypeOK
    <2>2. \A d \in Callers : FrameOK(call[d])'
      BY DEF IInv, TypeInv, FrameOK
    <2>3. LockInv'
      BY DEF IInv, LockInv, TokensDiffer, HoldersOwnTheLock, OneEvictor, RenameIsSafe,
         Holding, Evicting
    <2> QED BY <2>1, <2>2, <2>3 DEF IInv, TypeInv
  <1> QED BY <1>1, <1>2

-------------------------------------------------------------------------------
LEMMA NextInv == IInv /\ [Next]_vars => IInv'
  <1> SUFFICES ASSUME IInv, [Next]_vars PROVE IInv'
    OBVIOUS
  <1>1. ASSUME NEW c \in Callers, Step(c) PROVE IInv'
    BY <1>1, LinkInv, ContendInv, RetryInv, GuardInv, CheckInv, RenameInv, UnguardInv,
       StatInv, ReadInv, ReadFailsInv, ApplyInv, WriteBeginsInv, WriteEndsInv,
       WriteFailsInv, RememberInv, ReadRawInv, ReplaceInv, RecoveredInv, ReleaseInv,
       UnlinkInv DEF Step
  <1>2. ASSUME NEW c \in Callers, NEW p \in Processes, NEW kind \in Appends,
               NEW input \in Inputs, Start(c, p, kind, input)
        PROVE  IInv'
    BY <1>2, StartInv DEF Appends, EntryPoints
  <1>3. ASSUME NEW c \in Callers, NEW p \in Processes, NEW kind \in {"recover", "verify"},
               Start(c, p, kind, NoInput)
        PROVE  IInv'
    BY <1>3, StartInv DEF Appends, EntryPoints
  <1>4. CASE UNCHANGED vars
    <2>1. TypeInv'
      BY <1>4 DEF vars, IInv, TypeInv, TypeOK, FrameOK
    <2>2. LockInv'
      BY <1>4 DEF vars, IInv, LockInv, TokensDiffer, HoldersOwnTheLock, OneEvictor,
         RenameIsSafe, Holding, Evicting
    <2> QED BY <2>1, <2>2 DEF IInv
  <1> QED BY <1>1, <1>2, <1>3, <1>4, AppendMoreInv, GiveUpInv, CrashInv DEF Next

THEOREM InvariantHolds == Spec => []IInv
  BY InitInv, NextInv, PTL DEF Spec

\* Every variable of the journal holds a value of its type.
THEOREM TypeCorrect == Spec => []TypeOK
  <1>1. IInv => TypeOK
    BY DEF IInv, TypeInv
  <1> QED BY <1>1, InvariantHolds, PTL

LEMMA IInvExcludes ==
  ASSUME IInv, NEW c \in Callers, NEW d \in Callers, Holding(c), Holding(d)
  PROVE  c = d
  <1>1. call[c].token = call[d].token
    BY DEF IInv, LockInv, HoldersOwnTheLock
  <1>2. call[c].token # 0
    BY Typed DEF Holding, Holds, HeldPC, FrameOK, CallState, EntryPoints
  <1> QED BY <1>1, <1>2 DEF IInv, LockInv, TokensDiffer

\* No two calls are past acquireLock at once, whatever evictions race and
\* whichever processes die or take the id of a dead one (index.ts:320-394).
THEOREM Exclusion == Spec => []MutualExclusion
  <1>1. IInv => MutualExclusion
    BY IInvExcludes DEF MutualExclusion
  <1> QED BY <1>1, InvariantHolds, PTL

-------------------------------------------------------------------------------
(***************************************************************************)
(* What a call knows of the file.  Every write moves the key of the file   *)
(* on, so a cache entry with the key of the file has its content, and only *)
(* the holder of the lock writes.                                          *)
(***************************************************************************)
NotAfter(k) == k.ino < file.ino \/ (k.ino = file.ino /\ k.size <= Key(file).size)

TrueEntry(e) ==
    /\ NotAfter(e.key)
    /\ ~e.pending /\ e.key = Key(file) => e.view = Content(file)

CacheIsTrue == \A p \in Processes : TrueEntry(cache[p])

Acknowledged(f) ==
    \E i \in 1 .. Len(file.lines) :
        file.lines[i].id = f.input.id /\ file.lines[i].fact = f.input.fact

NewRecord(f) ==
    [id |-> f.input.id, fact |-> f.input.fact, seq |-> Len(f.view.lines) + 1]

Knows(f) ==
    /\ f.pc = "read" => NotAfter(f.key)
    /\ f.pc \in {"apply", "write", "replace"} => f.view = Content(file)
    /\ f.pc = "write" => ~f.view.tail
    /\ f.pc \in {"write", "writing"} => Existing(f.view, f.input.id) = {}
    /\ f.pc = "writing" => f.view.lines = file.lines /\ file.tail
    /\ f.pc = "sync" => file.lines = Append(f.view.lines, NewRecord(f)) /\ ~file.tail
    /\ f.pc = "known" => file.lines = f.view.lines /\ ~file.tail
    /\ f.acked => f.pc \in {"release", "unlink"} /\ Acknowledged(f)
    /\ f.acked /\ f.pc = "release" => f.view = Content(file)

KnowsInv == CacheIsTrue /\ \A c \in Callers : Knows(call[c])

FileInv == IInv /\ KnowsInv

LEMMA KeyOf ==
  ASSUME NEW f \in File
  PROVE  /\ Len(f.lines) \in Nat /\ Key(f).ino = f.ino /\ Key(f).ino \in Nat
         /\ Key(f).size \in Nat
         /\ f.tail => Key(f).size = 2 * Len(f.lines) + 1
         /\ ~f.tail => Key(f).size = 2 * Len(f.lines)
  <1>1. Len(f.lines) \in Nat /\ f.ino \in Nat
    BY DEF File
  <1>2. Key(f).ino = f.ino
    BY DEF Key
  <1>3. CASE f.tail
    BY <1>1, <1>2, <1>3 DEF Key
  <1>4. CASE ~f.tail
    BY <1>1, <1>2, <1>4 DEF Key
  <1> QED BY <1>1, <1>2, <1>3, <1>4

LEMMA KeyIsNow ==
  ASSUME IInv, NEW view \in FileView
  PROVE  /\ NotAfter(Key(file))
         /\ Resolved(Key(file), view) \in CacheEntry
         /\ view = Content(file) => TrueEntry(Resolved(Key(file), view))
  <1>1. NotAfter(Key(file))
    BY KeyOf DEF IInv, TypeInv, TypeOK, NotAfter
  <1>2. Resolved(Key(file), view) \in CacheEntry
    BY Keys DEF Resolved, CacheEntry
  <1>3. Resolved(Key(file), view).key = Key(file) /\ Resolved(Key(file), view).view = view
    BY DEF Resolved
  <1> QED BY <1>1, <1>2, <1>3 DEF TrueEntry

LEMMA NoCacheIsTrue ==
  ASSUME IInv
  PROVE  NoCache \in CacheEntry /\ TrueEntry(NoCache)
  <1>1. NoCache \in CacheEntry
    BY DEF CacheEntry, NoCache, NoFile, FileView, FileKey
  <1>2. file.lines \in Seq(Line) /\ file.tail \in BOOLEAN /\ file.ino \in Nat
    BY DEF IInv, TypeInv, TypeOK, File
  <1>3. Len(file.lines) \in Nat /\ (Len(file.lines) = 0 => file.lines = <<>>)
    BY <1>2, EmptySeq, LenProperties
  <1>4. /\ Key(file).ino = file.ino /\ Key(file).size \in Nat
        /\ file.tail => Key(file).size = 2 * Len(file.lines) + 1
        /\ ~file.tail => Key(file).size = 2 * Len(file.lines)
    BY KeyOf DEF IInv, TypeInv, TypeOK
  <1>5. NoCache.key = [ino |-> 0, size |-> 0] /\ NoCache.view = NoFile
    BY DEF NoCache
  <1>6. NotAfter(NoCache.key)
    BY <1>2, <1>3, <1>4, <1>5 DEF NotAfter
  <1>7. Key(file) = NoCache.key => Content(file) = NoCache.view
    <2>1. Key(file) = NoCache.key => Len(file.lines) = 0 /\ ~file.tail
      BY <1>2, <1>3, <1>4, <1>5
    <2> QED BY <1>2, <1>3, <1>5, <2>1 DEF Content, NoFile
  <1> QED BY <1>1, <1>6, <1>7 DEF TrueEntry

LEMMA InitKnows == Init => KnowsInv
  <1> SUFFICES ASSUME Init PROVE KnowsInv
    OBVIOUS
  <1>1. CacheIsTrue
    BY InitInv, NoCacheIsTrue DEF Init, CacheIsTrue
  <1>2. \A c \in Callers : Knows(call[c])
    BY DEF Init, Knows, Idle
  <1> QED BY <1>1, <1>2 DEF KnowsInv

\* The step is one of the call c.
Moved(c) == \A d \in Callers : d # c => call'[d] = call[d]

\* A step that leaves the file as it is.
LEMMA KeepsFile ==
  ASSUME FileInv, NEW c \in Callers, Moved(c), Knows(call[c])', file' = file,
         \/ cache' = cache
         \/ \E p \in Processes, e \in CacheEntry :
              TrueEntry(e) /\ cache' = [cache EXCEPT ![p] = e]
  PROVE  KnowsInv'
  <1> USE DEF FileInv, KnowsInv
  <1>1. CacheIsTrue'
    BY Typed DEF CacheIsTrue, TrueEntry, NotAfter
  <1>2. ASSUME NEW d \in Callers, d # c PROVE Knows(call[d])'
    <2>1. call'[d] = call[d] /\ Knows(call[d])
      BY <1>2 DEF Moved
    <2> QED BY <2>1 DEF Knows, Acknowledged, NotAfter
  <1> QED BY <1>1, <1>2

\* A write moves the key of the file on, so that no entry is of its content.
Grows ==
    /\ file' \in File
    /\ \/ file'.ino > file.ino
       \/ file'.ino = file.ino /\ Key(file)'.size > Key(file).size

LEMMA KeyGrows ==
  ASSUME IInv, Grows, NEW k \in FileKey, NotAfter(k)
  PROVE  NotAfter(k)' /\ k # Key(file)'
  <1>1. Key(file) \in FileKey /\ Key(file)' \in FileKey /\ file \in File
    BY Keys DEF Grows, IInv, TypeInv, TypeOK, Key, FileKey, File
  <1>2. Key(file).ino = file.ino /\ Key(file)'.ino = file'.ino
    BY DEF Key
  <1> QED BY <1>1, <1>2 DEF Grows, NotAfter, FileKey, File

\* A write of the holder of the lock: no other call knows more than a key.
LEMMA GrowsFile ==
  ASSUME FileInv, NEW c \in Callers, Moved(c), Knows(call[c])', Grows, Holding(c),
         cache' = cache
  PROVE  KnowsInv'
  <1> USE DEF FileInv, KnowsInv
  <1>1. \A p \in Processes : cache[p].key \in FileKey
    BY DEF IInv, TypeInv, TypeOK, CacheEntry
  <1>2. CacheIsTrue'
    BY <1>1, KeyGrows DEF CacheIsTrue, TrueEntry
  <1>3. \A d \in Callers : d # c => ~Holding(d)
    BY IInvExcludes
  <1>4. ASSUME NEW d \in Callers, d # c PROVE Knows(call[d])'
    <2>1. call'[d] = call[d] /\ Knows(call[d]) /\ call[d].pc \notin HeldPC
      BY <1>3, <1>4 DEF Moved, Holding, Holds
    <2>2. call[d].key \in FileKey
      BY <1>4, Typed DEF CallState
    <2>3. call[d].pc = "read" => NotAfter(call[d].key)'
      BY <2>1, <2>2, KeyGrows DEF Knows
    <2> QED BY <2>1, <2>3 DEF Knows, HeldPC
  <1> QED BY <1>2, <1>4

-------------------------------------------------------------------------------
(***************************************************************************)
(* Steps outside the file and the cache.                                   *)
(***************************************************************************)
\* A call at these steps knows nothing of the file.
Blank(f) ==
    /\ f.pc \in {"idle", "link", "contend", "wait", "guard", "check", "rename",
                 "unguard", "stat", "raw"}
    /\ ~f.acked

LEMMA BlankKnows ==
  ASSUME NEW c, Blank(call[c])'
  PROVE  Knows(call[c])'
  BY DEF Blank, Knows

LEMMA IdleIsBlank == Blank(Idle)
  BY DEF Blank, Idle

LEMMA PlainKnows ==
  ASSUME FileInv, NEW c \in Callers, UNCHANGED <<file, cache>>,
         \/ Link(c) \/ Contend(c) \/ Retry(c) \/ GiveUp(c) \/ Guard(c) \/ Check(c)
         \/ Rename(c) \/ Unguard(c) \/ Unlink(c)
  PROVE  KnowsInv'
  <1> USE Typed, IdleIsBlank DEF FileInv, KnowsInv
  <1>1. ~call[c].acked \/ Unlink(c)
    BY DEF Knows, Link, Contend, Retry, GiveUp, Guard, Check, Rename, Unguard, CallState
  <1>2. Moved(c) /\ Blank(call[c])'
    <2>1. CASE Link(c)
      BY <1>1, <2>1 DEF Moved, Blank, Link, Goto, Unlink, CallState
    <2>2. CASE Contend(c)
      BY <1>1, <2>2 DEF Moved, Blank, Contend, Goto, Unlink, CallState
    <2>3. CASE Retry(c)
      BY <1>1, <2>3 DEF Moved, Blank, Retry, Goto, Unlink, CallState
    <2>4. CASE GiveUp(c) \/ Unlink(c)
      BY <2>4 DEF Moved, Blank, GiveUp, Unlink, Return
    <2>5. CASE Guard(c)
      BY <1>1, <2>5 DEF Moved, Blank, Guard, Goto, Unlink, CallState
    <2>6. CASE Check(c)
      BY <1>1, <2>6 DEF Moved, Blank, Check, Goto, Unlink, CallState
    <2>7. CASE Rename(c)
      BY <1>1, <2>7 DEF Moved, Blank, Rename, Unlink, CallState
    <2>8. CASE Unguard(c)
      BY <1>1, <2>8 DEF Moved, Blank, Unguard, Unlink, CallState
    <2> QED BY <2>1, <2>2, <2>3, <2>4, <2>5, <2>6, <2>7, <2>8
  <1> QED BY <1>2, BlankKnows, KeepsFile

LEMMA StartKnows ==
  ASSUME FileInv, NEW c \in Callers, NEW p, NEW kind, NEW input, Start(c, p, kind, input)
  PROVE  KnowsInv'
  <1>1. Moved(c) /\ Blank(call[c])'
    BY Typed DEF FileInv, Start, Moved, Blank, Idle
  <1> QED BY <1>1, BlankKnows, KeepsFile DEF Start

LEMMA CrashKnows ==
  ASSUME FileInv, NEW p \in Processes, Crash(p) \/ Reuse(p)
  PROVE  KnowsInv'
  <1> USE DEF FileInv, KnowsInv
  <1>1. CASE Crash(p)
    <2>1. \A c \in Callers : call'[c] = call[c] \/ call'[c] = Idle
      BY <1>1 DEF Crash
    <2>2. \A c \in Callers : Knows(call[c])'
      BY <1>1, <2>1, IdleIsBlank DEF Crash, Knows, Blank, Acknowledged, NotAfter
    <2>3. CacheIsTrue'
      BY <1>1, NoCacheIsTrue DEF Crash, CacheIsTrue, TrueEntry, NotAfter, IInv, TypeInv, TypeOK
    <2> QED BY <2>2, <2>3
  <1>2. CASE Reuse(p)
    BY <1>2 DEF Reuse, CacheIsTrue, TrueEntry, Knows, Acknowledged, NotAfter
  <1> QED BY <1>1, <1>2

-------------------------------------------------------------------------------
(***************************************************************************)
(* Steps that read the file or the cache.                                  *)
(***************************************************************************)
\* A call that is given the content of the file.
LEMMA SeenKnows ==
  ASSUME FileInv, NEW c \in Callers, call[c].pc \in {"stat", "read"}, file' = file,
         Seen(c, [call[c] EXCEPT !.view = Content(file)])
  PROVE  Moved(c) /\ Knows(call[c])'
  <1> USE Typed DEF FileInv, KnowsInv
  <1>1. ~call[c].acked
    BY DEF Knows, CallState
  <1>2. CASE call[c].kind \in Appends
    <2>1. call' = [call EXCEPT ![c] = [call[c] EXCEPT !.view = Content(file), !.pc = "apply"]]
      BY <1>2 DEF Seen, CallState
    <2>2. call'[c].pc = "apply" /\ call'[c].view = Content(file) /\ ~call'[c].acked
      BY <1>1, <2>1 DEF CallState
    <2> QED BY <2>1, <2>2 DEF Moved, Knows, Content
  <1>3. CASE call[c].kind \notin Appends
    <2>1. call' = [call EXCEPT ![c] = Idle]
      BY <1>3 DEF Seen, CallState
    <2> QED BY <2>1, IdleIsBlank, BlankKnows DEF Moved, Blank
  <1> QED BY <1>2, <1>3

LEMMA StatKnows ==
  ASSUME FileInv, NEW c \in Callers, Stat(c)
  PROVE  KnowsInv'
  <1> DEFINE entry == cache[call[c].proc]
             hit == entry.key = Key(file)
             new == [key |-> Key(file), view |-> NoFile, pending |-> TRUE]
  <1> USE Typed, Keys DEF FileInv, KnowsInv
  <1>1. call[c].pc = "stat" /\ call[c].proc \in Processes /\ file' = file /\ ~call[c].acked
    BY DEF Stat, Knows, CallState
  <1>2. TrueEntry(entry) /\ entry \in CacheEntry
    BY <1>1 DEF CacheIsTrue
  <1>3. NotAfter(Key(file))
    BY DEF NotAfter, Key, FileKey
  <1>4. TrueEntry(new) /\ new \in CacheEntry
    BY <1>3 DEF TrueEntry, CacheEntry, FileView, NoFile
  <1>5. Moved(c) /\ Knows(call[c])'
    <2>1. CASE hit /\ ~entry.pending
      BY <1>1, <1>2, <2>1, SeenKnows DEF Stat, TrueEntry
    <2>2. CASE ~(hit /\ ~entry.pending)
      <3>1. call' = [call EXCEPT ![c].pc = "read", ![c].key = Key(file)]
        BY <2>2 DEF Stat
      <3>2. call'[c].pc = "read" /\ call'[c].key = Key(file) /\ ~call'[c].acked
        BY <1>1, <3>1 DEF CallState
      <3> QED BY <1>1, <1>3, <3>1, <3>2 DEF Moved, Knows, NotAfter
    <2> QED BY <2>1, <2>2
  <1>6. cache' = cache \/ cache' = [cache EXCEPT ![call[c].proc] = new]
    BY DEF Stat
  <1> HIDE DEF new
  <1> QED BY <1>1, <1>4, <1>5, <1>6, KeepsFile

LEMMA ReadKnows ==
  ASSUME FileInv, NEW c \in Callers, Read(c)
  PROVE  KnowsInv'
  <1> DEFINE entry == cache[call[c].proc]
             new == Resolved(entry.key, Content(file))
  <1> USE Typed, Keys DEF FileInv, KnowsInv
  <1>1. call[c].pc = "read" /\ call[c].proc \in Processes /\ file' = file
    BY DEF Read
  <1>2. TrueEntry(new) /\ new \in CacheEntry
    BY <1>1 DEF CacheIsTrue, TrueEntry, Resolved, NotAfter, CacheEntry
  <1>3. Moved(c) /\ Knows(call[c])'
    BY <1>1, SeenKnows DEF Read
  <1>4. cache' = cache \/ cache' = [cache EXCEPT ![call[c].proc] = new]
    BY DEF Read
  <1> HIDE DEF new
  <1> QED BY <1>1, <1>2, <1>3, <1>4, KeepsFile

LEMMA ReadFailsKnows ==
  ASSUME FileInv, NEW c \in Callers, ReadFails(c)
  PROVE  KnowsInv'
  <1> USE Typed DEF FileInv, KnowsInv
  <1>1. call[c].proc \in Processes /\ file' = file /\ ~call[c].acked
    BY DEF ReadFails, Knows, CallState
  <1>2. Moved(c) /\ Knows(call[c])'
    <2>1. CASE call[c].kind = "verify"
      BY <2>1, IdleIsBlank, BlankKnows DEF ReadFails, Return, Moved, Blank
    <2>2. CASE call[c].kind # "verify"
      <3>1. call' = [call EXCEPT ![c].pc = "release"]
        BY <2>2 DEF ReadFails, Goto
      <3>2. call'[c].pc = "release" /\ ~call'[c].acked
        BY <1>1, <3>1 DEF CallState
      <3> QED BY <3>1, <3>2 DEF Moved, Knows
    <2> QED BY <2>1, <2>2
  <1>3. cache' = cache \/ cache' = [cache EXCEPT ![call[c].proc] = NoCache]
    BY DEF ReadFails
  <1> QED BY <1>1, <1>2, <1>3, NoCacheIsTrue, KeepsFile

LEMMA ReadRawKnows ==
  ASSUME FileInv, NEW c \in Callers, ReadRaw(c)
  PROVE  KnowsInv'
  <1> USE Typed DEF FileInv, KnowsInv
  <1>1. ~call[c].acked /\ UNCHANGED <<file, cache>>
    BY DEF ReadRaw, Knows, CallState
  <1>2. Moved(c) /\ ~call'[c].acked
    BY <1>1 DEF ReadRaw, Moved, CallState
  <1>3. /\ call'[c].view = Content(file)
        /\ call'[c].pc \in {"release", "replace", "known"}
        /\ call'[c].pc = "known" => ~file.tail
    BY DEF ReadRaw, CallState
  <1>4. Knows(call[c])'
    BY <1>1, <1>2, <1>3 DEF Knows, Content
  <1> QED BY <1>1, <1>2, <1>4, KeepsFile

-------------------------------------------------------------------------------
(***************************************************************************)
(* Steps of the holder of the lock.                                        *)
(***************************************************************************)
LEMMA ApplyKnows ==
  ASSUME FileInv, NEW c \in Callers, Apply(c)
  PROVE  KnowsInv'
  <1> DEFINE view == call[c].view
             input == call[c].input
             found == Existing(view, input.id)
  <1> USE Typed DEF FileInv, KnowsInv
  <1>1. view = Content(file) /\ ~call[c].acked /\ UNCHANGED <<file, cache>>
    BY DEF Apply, Knows, CallState
  <1>2. Moved(c) /\ Knows(call[c])'
    <2>1. CASE ~Verified(view)
      <3>1. call' = [call EXCEPT ![c].pc = "release"]
        BY <2>1 DEF Apply, Goto
      <3>2. call'[c].pc = "release" /\ ~call'[c].acked
        BY <1>1, <3>1 DEF CallState
      <3> QED BY <3>1, <3>2 DEF Moved, Knows
    <2>2. CASE Verified(view) /\ found = {}
      <3>1. call' = [call EXCEPT ![c].pc = "write"]
        BY <2>2 DEF Apply, Goto
      <3>2. /\ call'[c].pc = "write" /\ ~call'[c].acked
            /\ call'[c].view = view /\ call'[c].input = input
        BY <1>1, <3>1 DEF CallState
      <3>3. ~view.tail
        BY <2>2 DEF Verified
      <3> QED BY <1>1, <2>2, <3>1, <3>2, <3>3 DEF Moved, Knows, Content
    <2>3. CASE Verified(view) /\ found # {}
      <3>1. PICK synced \in BOOLEAN :
               call' = [call EXCEPT ![c].pc = "release",
                          ![c].acked = synced /\ \E i \in found :
                                                   view.lines[i].fact = input.fact]
        BY <2>3 DEF Apply
      <3>2. /\ call'[c].pc = "release" /\ call'[c].view = view /\ call'[c].input = input
            /\ call'[c].acked => \E i \in found : view.lines[i].fact = input.fact
        BY <3>1 DEF CallState
      <3>3. call'[c].acked => Acknowledged(call[c])'
        BY <1>1, <3>2 DEF Acknowledged, Existing, Content
      <3> QED BY <1>1, <3>1, <3>2, <3>3 DEF Moved, Knows, Content
    <2> QED BY <2>1, <2>2, <2>3
  <1> QED BY <1>1, <1>2, KeepsFile

LEMMA WriteBeginsKnows ==
  ASSUME FileInv, NEW c \in Callers, WriteBegins(c)
  PROVE  KnowsInv'
  <1> USE Typed DEF FileInv, KnowsInv
  <1>1. /\ call[c].view = Content(file) /\ ~call[c].view.tail /\ ~call[c].acked
        /\ Existing(call[c].view, call[c].input.id) = {}
    BY DEF WriteBegins, Knows, CallState
  <1>2. /\ call'[c].pc = "writing" /\ call'[c].view = call[c].view
        /\ call'[c].input = call[c].input /\ ~call'[c].acked /\ Moved(c)
    BY <1>1 DEF WriteBegins, Goto, CallState, Moved
  <1>3. file'.lines = file.lines /\ file'.tail /\ file'.ino = file.ino /\ file' \in File
    BY DEF WriteBegins, File
  <1>4. Knows(call[c])'
    BY <1>1, <1>2, <1>3 DEF Knows, WriteBegins, Content
  <1>5. Grows
    <2>1. ~file.tail /\ Len(file.lines) \in Nat
      BY <1>1 DEF Content, File
    <2> QED BY <1>3, <2>1, KeyOf DEF Grows
  <1> QED BY <1>2, <1>4, <1>5, GrowsFile DEF WriteBegins, Holding, Holds, HeldPC

LEMMA WriteEndsKnows ==
  ASSUME FileInv, NEW c \in Callers, WriteEnds(c)
  PROVE  KnowsInv'
  <1> USE Typed DEF FileInv, KnowsInv
  <1>1. call[c].view.lines = file.lines /\ file.tail /\ ~call[c].acked
    BY DEF WriteEnds, Knows, CallState
  <1>2. /\ call'[c].pc = "sync" /\ call'[c].view = call[c].view
        /\ call'[c].input = call[c].input /\ ~call'[c].acked /\ Moved(c)
    BY <1>1 DEF WriteEnds, Goto, CallState, Moved
  <1>3. Record(c) \in Line /\ file.lines \in Seq(Line)
    BY RecordType DEF WriteEnds, Writing, File
  <1>4. /\ file'.lines = Append(file.lines, Record(c)) /\ ~file'.tail /\ file'.ino = file.ino
        /\ file' \in File /\ Len(file'.lines) = Len(file.lines) + 1
    <2>1. /\ Append(file.lines, Record(c)) \in Seq(Line)
          /\ Len(Append(file.lines, Record(c))) = Len(file.lines) + 1
      BY <1>3, AppendProperties
    <2>2. file' = [file EXCEPT !.lines = Append(file.lines, Record(c)), !.tail = FALSE]
      BY DEF WriteEnds
    <2> QED BY <2>1, <2>2 DEF File
  <1>5. Record(c) = NewRecord(call'[c])
    BY <1>2 DEF Record, NewRecord
  <1>6. Knows(call[c])'
    BY <1>1, <1>2, <1>4, <1>5 DEF Knows, NewRecord
  <1>7. Grows
    <2>1. Len(file.lines) \in Nat
      BY <1>3
    <2>2. /\ Key(file').size = 2 * Len(file'.lines)
          /\ Key(file).size = 2 * Len(file.lines) + 1
      BY <1>1, <1>4, KeyOf
    <2> QED BY <1>4, <2>1, <2>2 DEF Grows
  <1> QED BY <1>2, <1>6, <1>7, GrowsFile DEF WriteEnds, Holding, Holds, HeldPC

LEMMA WriteFailsKnows ==
  ASSUME FileInv, NEW c \in Callers, WriteFails(c)
  PROVE  KnowsInv'
  <1> USE Typed DEF FileInv, KnowsInv
  <1>1. ~call[c].acked /\ UNCHANGED <<file, cache>>
    BY DEF WriteFails, Knows, CallState
  <1>2. call'[c].pc = "release" /\ ~call'[c].acked /\ Moved(c)
    BY <1>1 DEF WriteFails, Goto, CallState, Moved
  <1> QED BY <1>1, <1>2, KeepsFile DEF Knows

LEMMA RememberKnows ==
  ASSUME FileInv, NEW c \in Callers, Remember(c)
  PROVE  KnowsInv'
  <1> DEFINE view == [lines |-> Append(call[c].view.lines, Record(c)), tail |-> FALSE]
             new == Resolved(Key(file), view)
  <1> USE Typed, Keys DEF FileInv, KnowsInv
  <1>1. file.lines = Append(call[c].view.lines, NewRecord(call[c])) /\ ~file.tail
    BY DEF Remember, Knows
  <1>2. Record(c) = NewRecord(call[c])
    BY DEF Record, NewRecord
  <1>3. view = Content(file)
    BY <1>1, <1>2 DEF Content, File
  <1>4. TrueEntry(new) /\ new \in CacheEntry
    BY <1>3, KeyIsNow
  <1>5. /\ call'[c].pc = "release" /\ call'[c].view = view /\ call'[c].input = call[c].input
        /\ Moved(c) /\ file' = file
    BY DEF Remember, CallState, Moved
  <1>6. Acknowledged(call[c])'
    <2>1. call[c].view.lines \in Seq(Line) /\ Record(c) \in Line
      BY RecordType DEF Remember, Writing, CallState, FileView
    <2> DEFINE n == Len(call[c].view.lines) + 1
    <2>2. n \in 1 .. Len(file.lines) /\ file.lines[n] = Record(c)
      BY <1>1, <1>2, <2>1, AppendProperties
    <2>3. Record(c).id = call[c].input.id /\ Record(c).fact = call[c].input.fact
      BY DEF Record
    <2> HIDE DEF n
    <2> QED BY <1>5, <2>2, <2>3 DEF Acknowledged
  <1>7. Knows(call[c])'
    BY <1>3, <1>5, <1>6 DEF Knows, Content
  <1>8. cache' = [cache EXCEPT ![call[c].proc] = new] /\ call[c].proc \in Processes
    BY DEF Remember
  <1> HIDE DEF new, view
  <1> QED BY <1>4, <1>5, <1>7, <1>8, KeepsFile

LEMMA AppendMoreKnows ==
  ASSUME FileInv, NEW c \in Callers, NEW input \in Inputs, AppendMore(c, input)
  PROVE  KnowsInv'
  <1> USE Typed DEF FileInv, KnowsInv
  <1>1. call[c].view = Content(file) /\ UNCHANGED <<file, cache>>
    BY DEF AppendMore, Knows
  <1>2. /\ call'[c].pc = "apply" /\ call'[c].view = call[c].view /\ ~call'[c].acked
        /\ Moved(c)
    BY DEF AppendMore, CallState, Moved
  <1> QED BY <1>1, <1>2, KeepsFile DEF Knows, Content

LEMMA ReplaceKnows ==
  ASSUME FileInv, NEW c \in Callers, Replace(c)
  PROVE  KnowsInv'
  <1> USE Typed DEF FileInv, KnowsInv
  <1>1. call[c].view = Content(file) /\ ~call[c].acked
    BY DEF Replace, Knows, CallState
  <1>2. /\ call'[c].pc = "known" /\ call'[c].view = call[c].view
        /\ ~call'[c].acked /\ Moved(c)
    BY <1>1 DEF Replace, Goto, CallState, Moved
  <1>3. file'.lines = file.lines /\ ~file'.tail /\ file'.ino = file.ino + 1 /\ file' \in File
    BY <1>1 DEF Replace, File, Content
  <1>4. Knows(call[c])'
    BY <1>1, <1>2, <1>3 DEF Knows, Content
  <1>5. Grows
    BY <1>3 DEF Grows, File
  <1> QED BY <1>2, <1>4, <1>5, GrowsFile DEF Replace, Holding, Holds, HeldPC

LEMMA RecoveredKnows ==
  ASSUME FileInv, NEW c \in Callers, Recovered(c)
  PROVE  KnowsInv'
  <1> DEFINE view == [lines |-> call[c].view.lines, tail |-> FALSE]
             new == Resolved(Key(file), view)
  <1> USE Typed, Keys DEF FileInv, KnowsInv
  <1>1. file.lines = call[c].view.lines /\ ~file.tail /\ ~call[c].acked
    BY DEF Recovered, Knows, CallState
  <1>2. view = Content(file)
    <2>1. file.tail = FALSE
      BY <1>1 DEF File
    <2> QED BY <1>1, <2>1 DEF Content
  <1>3. TrueEntry(new) /\ new \in CacheEntry
    BY <1>2, KeyIsNow
  <1>4. call'[c].pc = "release" /\ ~call'[c].acked /\ Moved(c) /\ file' = file
    BY <1>1 DEF Recovered, Goto, CallState, Moved
  <1>5. Knows(call[c])'
    BY <1>4 DEF Knows
  <1>6. cache' = [cache EXCEPT ![call[c].proc] = new] /\ call[c].proc \in Processes
    BY DEF Recovered
  <1> HIDE DEF new
  <1> QED BY <1>3, <1>4, <1>5, <1>6, KeepsFile

LEMMA ReleaseKnows ==
  ASSUME FileInv, NEW c \in Callers, Release(c)
  PROVE  KnowsInv'
  <1> USE Typed DEF FileInv, KnowsInv
  <1>1. CASE Goto(c, "unlink")
    <2>1. /\ call'[c].pc = "unlink" /\ call'[c].view = call[c].view
          /\ call'[c].input = call[c].input /\ call'[c].acked = call[c].acked
          /\ Moved(c)
      BY <1>1 DEF Goto, CallState, Moved
    <2>2. Knows(call[c])'
      BY <2>1 DEF Release, Knows, Acknowledged
    <2> QED BY <2>1, <2>2, KeepsFile DEF Release
  <1>2. CASE Return(c)
    BY <1>2, IdleIsBlank, BlankKnows, KeepsFile DEF Release, Return, Moved, Blank
  <1> QED BY <1>1, <1>2 DEF Release

-------------------------------------------------------------------------------
LEMMA NextKnows == FileInv /\ [Next]_vars => FileInv'
  <1> SUFFICES ASSUME FileInv, [Next]_vars PROVE FileInv'
    OBVIOUS
  <1>1. IInv'
    BY NextInv DEF FileInv
  <1>2. KnowsInv'
    <2>1. ASSUME NEW c \in Callers, Step(c) PROVE KnowsInv'
      <3>1. CASE \/ Link(c) \/ Contend(c) \/ Retry(c) \/ Guard(c) \/ Check(c)
                 \/ Rename(c) \/ Unguard(c) \/ Unlink(c)
        BY <3>1, PlainKnows DEF Link, Contend, Retry, Guard, Check, Rename, Unguard, Unlink
      <3>2. CASE Stat(c) \/ Read(c) \/ ReadFails(c) \/ ReadRaw(c)
        BY <3>2, StatKnows, ReadKnows, ReadFailsKnows, ReadRawKnows
      <3>3. CASE \/ Apply(c) \/ WriteBegins(c) \/ WriteEnds(c) \/ WriteFails(c)
                 \/ Remember(c) \/ Replace(c) \/ Recovered(c) \/ Release(c)
        BY <3>3, ApplyKnows, WriteBeginsKnows, WriteEndsKnows, WriteFailsKnows,
           RememberKnows, ReplaceKnows, RecoveredKnows, ReleaseKnows
      <3> QED BY <2>1, <3>1, <3>2, <3>3 DEF Step
    <2>2. ASSUME NEW c \in Callers, GiveUp(c) PROVE KnowsInv'
      BY <2>2, PlainKnows DEF GiveUp
    <2>3. CASE UNCHANGED vars
      BY <2>3 DEF vars, FileInv, KnowsInv, CacheIsTrue, TrueEntry, NotAfter, Knows, Acknowledged
    <2> QED BY <2>1, <2>2, <2>3, StartKnows, AppendMoreKnows, CrashKnows DEF Next
  <1> QED BY <1>1, <1>2 DEF FileInv

THEOREM FileInvariantHolds == Spec => []FileInv
  <1>1. Init => FileInv
    BY InitInv, InitKnows DEF FileInv
  <1> QED BY <1>1, NextKnows, PTL DEF Spec

\* The content an append decides on, cached or read, is the file's
\* (index.ts:427-449, 505-548).
THEOREM Sees == Spec => []TransactionSeesFile
  <1>1. FileInv => TransactionSeesFile
    BY DEF FileInv, KnowsInv, Knows, TransactionSeesFile
  <1> QED BY <1>1, FileInvariantHolds, PTL

\* A record an append returns is in the file (index.ts:534-599).
THEOREM Durable == Spec => []AcknowledgedIsDurable
  <1>1. FileInv => AcknowledgedIsDurable
    BY DEF FileInv, KnowsInv, Knows, Acknowledged, AcknowledgedIsDurable
  <1> QED BY <1>1, FileInvariantHolds, PTL

-------------------------------------------------------------------------------
(***************************************************************************)
(* Every step is a step of the log of JournalLog or leaves it as it is.    *)
(***************************************************************************)
LEMMA SameLines ==
  ASSUME file'.lines = file.lines
  PROVE  CommittedLog' = CommittedLog
  BY DEF CommittedLog

LEMMA WriteEndsAppends ==
  ASSUME FileInv, NEW c \in Callers, WriteEnds(c)
  PROVE  Log!Next
  <1> DEFINE n == Len(file.lines)
             r == [id |-> call[c].input.id, fact |-> call[c].input.fact]
  <1> USE Typed DEF FileInv, KnowsInv
  <1>1. /\ call[c].view.lines = file.lines
        /\ Existing(call[c].view, call[c].input.id) = {}
    BY DEF WriteEnds, Knows
  <1>2. file.lines \in Seq(Line) /\ n \in Nat /\ Record(c) \in Line
    BY RecordType DEF WriteEnds, Writing, File
  <1>3. r \in [id : {i.id : i \in Inputs}, fact : {i.fact : i \in Inputs}]
    BY <1>2 DEF Record, Line
  <1>4. /\ file'.lines = Append(file.lines, Record(c)) /\ Len(file'.lines) = n + 1
        /\ \A i \in 1 .. n : file'.lines[i] = file.lines[i]
        /\ file'.lines[n + 1] = Record(c)
    <2>1. file'.lines = Append(file.lines, Record(c))
      BY DEF WriteEnds, File
    <2> QED BY <1>2, <2>1, AppendProperties
  <1>5. /\ CommittedLog \in Seq([id : {i.id : i \in Inputs}, fact : {i.fact : i \in Inputs}])
        /\ Len(CommittedLog) = n
        /\ \A i \in 1 .. n : CommittedLog[i] = [id |-> file.lines[i].id,
                                                fact |-> file.lines[i].fact]
    <2> DEFINE R == [id : {i.id : i \in Inputs}, fact : {i.fact : i \in Inputs}]
    <2>1. \A i \in 1 .. n : [id |-> file.lines[i].id, fact |-> file.lines[i].fact] \in R
      <3>1. \A i \in 1 .. n : file.lines[i] \in Line
        BY <1>2, ElementOfSeq
      <3> QED BY <3>1 DEF Line
    <2> HIDE DEF R
    <2>2. CommittedLog \in [1 .. n -> R]
      BY <2>1 DEF CommittedLog
    <2>3. CommittedLog \in Seq(R) /\ Len(CommittedLog) = n
      BY <1>2, <2>2
    <2>4. \A i \in 1 .. n : CommittedLog[i] = [id |-> file.lines[i].id,
                                             fact |-> file.lines[i].fact]
      BY DEF CommittedLog
    <2> QED BY <2>3, <2>4 DEF R
  <1>6. \A i \in 1 .. Len(CommittedLog) : CommittedLog[i].id # r.id
    <2>1. \A i \in 1 .. n : file.lines[i].id # call[c].input.id
      BY <1>1 DEF Existing
    <2>2. \A i \in 1 .. n : CommittedLog[i].id = file.lines[i].id
      BY DEF CommittedLog
    <2>3. Len(CommittedLog) = n /\ r.id = call[c].input.id
      BY <1>5
    <2> QED BY <2>1, <2>2, <2>3
  <1>7. CommittedLog' = Append(CommittedLog, r)
    <2>1. CommittedLog' = [i \in 1 .. n + 1 |-> IF i = n + 1 THEN r ELSE CommittedLog[i]]
      BY <1>2, <1>4, <1>5 DEF CommittedLog, Record
    <2>2. Append(CommittedLog, r) = [i \in 1 .. n + 1 |-> IF i = n + 1 THEN r ELSE CommittedLog[i]]
      BY <1>2, <1>3, <1>5
    <2> QED BY <2>1, <2>2
  <1> QED BY <1>3, <1>6, <1>7 DEF Log!Next, Log!Append1

\* The organ journal implements the log of its contract, whatever dies, fails
\* or is retried.
THEOREM Implements == Spec => ImplementsLog
  <1>1. Init => Log!Init
    BY DEF Init, Log!Init, CommittedLog
  <1>2. FileInv /\ [Next]_vars => [Log!Next]_CommittedLog
    <2> SUFFICES ASSUME FileInv, [Next]_vars, ~\E c \in Callers : WriteEnds(c)
                 PROVE  CommittedLog' = CommittedLog
      BY WriteEndsAppends
    <2>1. file'.lines = file.lines
      <3>1. ASSUME NEW c \in Callers, Replace(c) PROVE file'.lines = file.lines
        BY <3>1 DEF FileInv, KnowsInv, Knows, Replace, Content
      <3>2. ASSUME NEW c \in Callers, WriteBegins(c) PROVE file'.lines = file.lines
        BY <3>2, Typed DEF FileInv, WriteBegins, File
      <3>3. ASSUME NEW c \in Callers, Step(c), ~WriteEnds(c)
            PROVE  file'.lines = file.lines
        BY <3>1, <3>2, <3>3 DEF Step, Link, Contend, Retry, Guard, Check, Rename, Unguard,
           Stat, Read, ReadFails, Apply, WriteFails, Remember, ReadRaw, Recovered, Release,
           Unlink
      <3>4. CASE UNCHANGED vars
        BY <3>4 DEF vars
      <3>5. CASE Next
        BY <3>3, <3>5 DEF Next, Start, AppendMore, GiveUp, Crash, Reuse
      <3> QED BY <3>4, <3>5
    <2> QED BY <2>1, SameLines
  <1> QED BY <1>1, <1>2, FileInvariantHolds, PTL DEF Spec, ImplementsLog, Log!Spec
===============================================================================
