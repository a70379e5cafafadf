------------------------------ MODULE OrganJournal ------------------------------
(***************************************************************************)
(* JsonlOrganJournal: several processes append to one journal file through *)
(* a lock file, evict the lock of a dead process, and keep a cache of the  *)
(* verified content (packages/adapters/jsonl/src/index.ts).                *)
(*                                                                         *)
(* One action is one access to the file system with the code up to the     *)
(* next one.  A caller is one call of append, transaction, recover or      *)
(* verify, made in one process; append is a transaction of one record.     *)
(* A torn line is one that is in the file without its end of line.         *)
(***************************************************************************)
EXTENDS Naturals, Sequences, FiniteSets

CONSTANTS
    Processes,    \* process ids
    NoProcess,
    Callers,      \* calls that may be in progress at once
    Inputs,       \* records callers may append: [id, fact]
    NoInput,
    Tokens,       \* tokens that tell one acquisition of the lock from another
    Kinds,        \* entry points used: subset of EntryPoints
    Faults,       \* subset of {"read", "write", "lockRead"}
    PidReuse,     \* TRUE: a new process may get the id of a dead one
    MaxCrashes,   \* bound: processes that die
    EvictorsDie,  \* TRUE: a process may die while it holds the guard
    MaxReplaces   \* bound: times recover replaces the file

EntryPoints == {"append", "transaction", "recover", "verify"}

ASSUME ProcessesAssumption == NoProcess \notin Processes /\ NoInput \notin Inputs

ASSUME TokensAssumption == Tokens \subseteq Nat \ {0}

ASSUME JournalAssumption ==
    /\ Kinds \subseteq EntryPoints
    /\ Faults \subseteq {"read", "write", "lockRead"}
    /\ PidReuse \in BOOLEAN /\ EvictorsDie \in BOOLEAN /\ MaxCrashes \in Nat /\ MaxReplaces \in Nat

VARIABLES
    file,     \* whole lines, a torn line after them or not, and the inode
    lock,     \* content of the lock file
    guard,    \* the directory that admits one evictor exists
    alive,    \* processes that run
    cache,    \* verifiedJournals of each process, for this file
    call,     \* the call each caller is in
    crashes   \* number of crashes so far

vars == <<file, lock, guard, alive, cache, call, crashes>>

NoLock == [pid |-> NoProcess, token |-> 0]

NoFile == [lines |-> <<>>, tail |-> FALSE]

\* dev, inode, size and mtime of a file: every write moves it on.
Key(f) == [ino |-> f.ino, size |-> 2 * Len(f.lines) + (IF f.tail THEN 1 ELSE 0)]

Content(f) == [lines |-> f.lines, tail |-> f.tail]

\* What parse() accepts: contiguous records and no incomplete trailing line.
ChainIsValid(lines) == \A i \in 1 .. Len(lines) : lines[i].seq = i
Verified(view) == ~view.tail /\ ChainIsValid(view.lines)

NoCache == [key |-> [ino |-> 0, size |-> 0], view |-> NoFile, pending |-> FALSE]

Resolved(key, view) == [key |-> key, view |-> view, pending |-> FALSE]

Appends == {"append", "transaction"}

Idle ==
    [pc |-> "idle", kind |-> "none", proc |-> NoProcess, input |-> NoInput,
     token |-> 0, expected |-> NoLock, evicted |-> FALSE,
     key |-> NoCache.key, view |-> NoFile, acked |-> FALSE]

UsedTokens == {lock.token} \cup {call[c].token : c \in Callers}
                           \cup {call[c].expected.token : c \in Callers}

\* randomToken(): in no lock file and in no call.
FreshTokens == Tokens \ UsedTokens

\* readLock returns null for a missing file and for any error.
LockReads == {lock} \cup (IF "lockRead" \in Faults THEN {NoLock} ELSE {})

Goto(c, pc) == call' = [call EXCEPT ![c].pc = pc]

Return(c) == call' = [call EXCEPT ![c] = Idle]

Init ==
    /\ file = [lines |-> <<>>, tail |-> FALSE, ino |-> 0]
    /\ lock = NoLock
    /\ guard = FALSE
    /\ alive = Processes
    /\ cache = [p \in Processes |-> NoCache]
    /\ call = [c \in Callers |-> Idle]
    /\ crashes = 0

-------------------------------------------------------------------------------
(***************************************************************************)
(* acquireLock                                                             *)
(***************************************************************************)
Start(c, p, kind, input) ==
    /\ call[c].pc = "idle" /\ p \in alive /\ kind \in Kinds
    /\ FreshTokens # {}
    /\ kind = "recover" => file.ino < MaxReplaces
    /\ call' = [call EXCEPT ![c] =
                  [Idle EXCEPT !.pc = IF kind = "verify" THEN "stat" ELSE "link",
                               !.kind = kind, !.proc = p, !.input = input,
                               !.token = IF kind = "verify" THEN 0
                                         ELSE CHOOSE t \in FreshTokens : TRUE]]
    /\ UNCHANGED <<file, lock, guard, alive, cache, crashes>>

\* link() of a complete temporary file: it takes the lock or changes nothing.
Link(c) ==
    /\ call[c].pc = "link"
    /\ IF lock = NoLock
       THEN /\ lock' = [pid |-> call[c].proc, token |-> call[c].token]
            /\ Goto(c, IF call[c].kind \in Appends THEN "stat" ELSE "raw")
       ELSE Goto(c, "contend") /\ UNCHANGED lock
    /\ UNCHANGED <<file, guard, alive, cache, crashes>>

\* The lock is held: evict it when its process is dead, otherwise wait.
Contend(c) ==
    /\ call[c].pc = "contend"
    /\ \E seen \in LockReads :
         IF seen # NoLock /\ seen.pid \notin alive
         THEN call' = [call EXCEPT ![c].pc = "guard", ![c].expected = seen]
         ELSE Goto(c, "wait")
    /\ UNCHANGED <<file, lock, guard, alive, cache, crashes>>

Retry(c) ==
    /\ call[c].pc = "wait"
    /\ Goto(c, "link")
    /\ UNCHANGED <<file, lock, guard, alive, cache, crashes>>

\* The deadline has passed, or link() or mkdir() rejects.
GiveUp(c) ==
    /\ \/ call[c].pc = "wait"
       \/ call[c].pc \in {"link", "guard"} /\ "write" \in Faults
    /\ Return(c)
    /\ UNCHANGED <<file, lock, guard, alive, cache, crashes>>

-------------------------------------------------------------------------------
(***************************************************************************)
(* evictDeadLock                                                           *)
(***************************************************************************)
Guard(c) ==
    /\ call[c].pc = "guard"
    /\ IF guard
       THEN call' = [call EXCEPT ![c].pc = "wait", ![c].expected = NoLock]
       ELSE Goto(c, "check")
    /\ guard' = TRUE
    /\ UNCHANGED <<file, lock, alive, cache, crashes>>

\* Mutant: the lock is not read again under the guard.
CheckNothing(c) ==
    /\ call[c].pc = "check"
    /\ Goto(c, "rename")
    /\ UNCHANGED <<file, lock, guard, alive, cache, crashes>>

Check(c) ==
    /\ call[c].pc = "check"
    /\ \E seen \in LockReads :
         Goto(c, IF seen = call[c].expected /\ seen.pid \notin alive
                 THEN "rename" ELSE "unguard")
    /\ UNCHANGED <<file, lock, guard, alive, cache, crashes>>

\* rename() takes away whatever lock file is there.
Rename(c) ==
    /\ call[c].pc = "rename"
    /\ lock' = NoLock
    /\ call' = [call EXCEPT ![c].pc = "unguard", ![c].evicted = TRUE]
    /\ UNCHANGED <<file, guard, alive, cache, crashes>>

\* Mutant: the guard is removed only after a successful eviction.
UnguardIfEvicted(c) ==
    /\ call[c].pc = "unguard"
    /\ guard' = ~call[c].evicted
    /\ call' = [call EXCEPT ![c].pc = IF call[c].evicted THEN "link" ELSE "wait",
                            ![c].expected = NoLock, ![c].evicted = FALSE]
    /\ UNCHANGED <<file, lock, alive, cache, crashes>>

Unguard(c) ==
    /\ call[c].pc = "unguard"
    /\ guard' = FALSE
    /\ call' = [call EXCEPT ![c].pc = IF call[c].evicted THEN "link" ELSE "wait",
                            ![c].expected = NoLock, ![c].evicted = FALSE]
    /\ UNCHANGED <<file, lock, alive, cache, crashes>>

-------------------------------------------------------------------------------
(***************************************************************************)
(* cachedVerifiedJournal: the key is read before the content.              *)
(***************************************************************************)
\* A call that has its content: append goes on, verify returns it.
Seen(c, frame) ==
    call' = [call EXCEPT ![c] =
               IF frame.kind \in Appends THEN [frame EXCEPT !.pc = "apply"] ELSE Idle]

\* The entry is in the cache before its content is read; a call that finds it
\* pending reads the content as well.
Stat(c) ==
    LET entry == cache[call[c].proc]
        hit   == entry.key = Key(file)
    IN  /\ call[c].pc = "stat"
        /\ IF hit /\ ~entry.pending
           THEN Seen(c, [call[c] EXCEPT !.view = entry.view])
           ELSE call' = [call EXCEPT ![c].pc = "read", ![c].key = Key(file)]
        /\ cache' = IF hit THEN cache
                    ELSE [cache EXCEPT ![call[c].proc] =
                            [key |-> Key(file), view |-> NoFile, pending |-> TRUE]]
        /\ UNCHANGED <<file, lock, guard, alive, crashes>>

Read(c) ==
    LET entry == cache[call[c].proc] IN
    /\ call[c].pc = "read"
    /\ Seen(c, [call[c] EXCEPT !.view = Content(file)])
    /\ cache' = IF entry.pending /\ entry.key = call[c].key
                THEN [cache EXCEPT ![call[c].proc] = Resolved(entry.key, Content(file))]
                ELSE cache
    /\ UNCHANGED <<file, lock, guard, alive, crashes>>

\* The stat or the read rejects; a failed read takes its entry away.
ReadFails(c) ==
    LET entry == cache[call[c].proc] IN
    /\ call[c].pc \in {"stat", "read", "raw"}
    /\ "read" \in Faults
    /\ IF call[c].kind = "verify" THEN Return(c) ELSE Goto(c, "release")
    /\ cache' = IF call[c].pc = "read" /\ entry.pending /\ entry.key = call[c].key
                THEN [cache EXCEPT ![call[c].proc] = NoCache] ELSE cache
    /\ UNCHANGED <<file, lock, guard, alive, crashes>>

-------------------------------------------------------------------------------
(***************************************************************************)
(* transaction and appendLocked                                            *)
(***************************************************************************)
Existing(view, id) == {i \in 1 .. Len(view.lines) : view.lines[i].id = id}

Record(c) ==
    [id |-> call[c].input.id, fact |-> call[c].input.fact,
     seq |-> Len(call[c].view.lines) + 1]

\* Mutant: a known commit id is acknowledged without comparing its fact.
ApplyAnyFact(c) ==
    LET found == Existing(call[c].view, call[c].input.id) IN
    /\ call[c].pc = "apply"
    /\ call' = [call EXCEPT ![c].pc = IF Verified(call[c].view) /\ found = {}
                                     THEN "write" ELSE "release",
                            ![c].acked = Verified(call[c].view) /\ found # {}]
    /\ UNCHANGED <<file, lock, guard, alive, cache, crashes>>

\* A commit id that is already there is acknowledged when its fact is the
\* same, after the file was synced, and refused otherwise.
Apply(c) ==
    LET view  == call[c].view
        input == call[c].input
        found == Existing(view, input.id)
    IN  /\ call[c].pc = "apply"
        /\ IF ~Verified(view) THEN Goto(c, "release")
           ELSE IF found = {} THEN Goto(c, "write")
           ELSE \E synced \in {TRUE} \cup (IF "write" \in Faults THEN {FALSE} ELSE {}) :
                  call' = [call EXCEPT ![c].pc = "release",
                             ![c].acked = synced /\ \E i \in found :
                                                      view.lines[i].fact = input.fact]
        /\ UNCHANGED <<file, lock, guard, alive, cache, crashes>>

\* A part of the line is in the file.
WriteBegins(c) ==
    /\ call[c].pc = "write"
    /\ file' = [file EXCEPT !.tail = TRUE]
    /\ Goto(c, "writing")
    /\ UNCHANGED <<lock, guard, alive, cache, crashes>>

WriteEnds(c) ==
    /\ call[c].pc = "writing"
    /\ file' = [file EXCEPT !.lines = Append(@, Record(c)), !.tail = FALSE]
    /\ Goto(c, "sync")
    /\ UNCHANGED <<lock, guard, alive, cache, crashes>>

\* The write or the sync rejects, and leaves what it has written; so do the
\* replacement of recover and the stat of rememberVerifiedJournalState.
WriteFails(c) ==
    /\ call[c].pc \in {"write", "writing", "sync", "replace", "known"}
    /\ "write" \in Faults
    /\ Goto(c, "release")
    /\ UNCHANGED <<file, lock, guard, alive, cache, crashes>>

\* sync() and rememberVerifiedJournalState, then the record is returned.
Remember(c) ==
    LET view == [lines |-> Append(call[c].view.lines, Record(c)), tail |-> FALSE] IN
    /\ call[c].pc = "sync"
    /\ cache' = [cache EXCEPT ![call[c].proc] = Resolved(Key(file), view)]
    /\ call' = [call EXCEPT ![c].pc = "release", ![c].acked = TRUE, ![c].view = view]
    /\ UNCHANGED <<file, lock, guard, alive, crashes>>

\* A transaction appends again, to the verification the last append returned.
AppendMore(c, input) ==
    /\ call[c].pc = "release" /\ call[c].kind = "transaction" /\ call[c].acked
    /\ call' = [call EXCEPT ![c].pc = "apply", ![c].input = input, ![c].acked = FALSE]
    /\ UNCHANGED <<file, lock, guard, alive, cache, crashes>>

-------------------------------------------------------------------------------
(***************************************************************************)
(* recover: the only operation that removes an incomplete trailing line.   *)
(***************************************************************************)
ReadRaw(c) ==
    /\ call[c].pc = "raw"
    /\ call' = [call EXCEPT ![c].view = Content(file),
                  ![c].pc = CASE ~ChainIsValid(file.lines) -> "release"
                              [] file.tail -> "replace"
                              [] OTHER -> "known"]
    /\ UNCHANGED <<file, lock, guard, alive, cache, crashes>>

\* Mutant: the last whole line is dropped with the torn one.
ReplaceShorter(c) ==
    LET lines == call[c].view.lines IN
    /\ call[c].pc = "replace"
    /\ file' = [lines |-> SubSeq(lines, 1, Len(lines) - 1), tail |-> FALSE,
                ino   |-> file.ino + 1]
    /\ Goto(c, "known")
    /\ UNCHANGED <<lock, guard, alive, cache, crashes>>

\* replaceFileDurably: rename of a complete temporary file.
Replace(c) ==
    /\ call[c].pc = "replace"
    /\ file' = [lines |-> call[c].view.lines, tail |-> FALSE, ino |-> file.ino + 1]
    /\ Goto(c, "known")
    /\ UNCHANGED <<lock, guard, alive, cache, crashes>>

Recovered(c) ==
    /\ call[c].pc = "known"
    /\ cache' = [cache EXCEPT ![call[c].proc] =
                   Resolved(Key(file), [lines |-> call[c].view.lines, tail |-> FALSE])]
    /\ Goto(c, "release")
    /\ UNCHANGED <<file, lock, guard, alive, crashes>>

-------------------------------------------------------------------------------
(***************************************************************************)
(* releaseLock: the lock file is removed only if it is read as its own.    *)
(***************************************************************************)
Release(c) ==
    /\ call[c].pc = "release"
    /\ \E seen \in LockReads :
         IF seen = [pid |-> call[c].proc, token |-> call[c].token]
         THEN Goto(c, "unlink") ELSE Return(c)
    /\ UNCHANGED <<file, lock, guard, alive, cache, crashes>>

Unlink(c) ==
    /\ call[c].pc = "unlink"
    /\ lock' = NoLock
    /\ Return(c)
    /\ UNCHANGED <<file, guard, alive, cache, crashes>>

-------------------------------------------------------------------------------
Evicting(c) == call[c].pc \in {"check", "rename", "unguard"}

\* A process dies: the file system stays as it is.
Crash(p) ==
    /\ p \in alive
    /\ crashes < MaxCrashes
    /\ EvictorsDie \/ ~\E c \in Callers : call[c].proc = p /\ Evicting(c)
    /\ crashes' = crashes + 1
    /\ alive' = alive \ {p}
    /\ cache' = [cache EXCEPT ![p] = NoCache]
    /\ call' = [c \in Callers |-> IF call[c].proc = p THEN Idle ELSE call[c]]
    /\ UNCHANGED <<file, lock, guard>>

\* A new process has the id of a dead one.
Reuse(p) ==
    /\ PidReuse
    /\ p \notin alive
    /\ alive' = alive \cup {p}
    /\ UNCHANGED <<file, lock, guard, cache, call, crashes>>

Step(c) ==
    \/ Link(c) \/ Contend(c) \/ Retry(c)
    \/ Guard(c) \/ Check(c) \/ Rename(c) \/ Unguard(c)
    \/ Stat(c) \/ Read(c) \/ ReadFails(c)
    \/ Apply(c) \/ WriteBegins(c) \/ WriteEnds(c) \/ WriteFails(c) \/ Remember(c)
    \/ ReadRaw(c) \/ Replace(c) \/ Recovered(c)
    \/ Release(c) \/ Unlink(c)

Next ==
    \/ \E c \in Callers :
         \/ \E p \in Processes, kind \in Appends, input \in Inputs :
              Start(c, p, kind, input)
         \/ \E p \in Processes, kind \in {"recover", "verify"} :
              Start(c, p, kind, NoInput)
         \/ \E input \in Inputs : AppendMore(c, input)
         \/ GiveUp(c) \/ Step(c)
    \/ \E p \in Processes : Crash(p) \/ Reuse(p)

Spec == Init /\ [][Next]_vars

\* The file system answers, and a waiting call retries.
FairSpec == Spec /\ \A c \in Callers : WF_vars(Step(c))
===============================================================================
