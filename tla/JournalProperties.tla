--------------------------- MODULE JournalProperties ---------------------------
(***************************************************************************)
(* What JsonlOrganJournal promises, stated over OrganJournal.              *)
(***************************************************************************)
EXTENDS OrganJournal

Line == [id : {i.id : i \in Inputs}, fact : {i.fact : i \in Inputs}, seq : Nat]
FileView == [lines : Seq(Line), tail : BOOLEAN]
FileKey == [ino : Nat, size : Nat]
LockInfo == {NoLock} \cup [pid : Processes, token : Nat \ {0}]

\* The steps between taking the lock and giving it back.
HeldPC == {"apply", "write", "writing", "sync", "raw", "replace", "known",
           "release", "unlink"}

CallState ==
    [pc       : HeldPC \cup {"idle", "link", "contend", "wait", "guard", "check",
                             "rename", "unguard", "stat", "read"},
     kind     : {"none"} \cup EntryPoints,
     proc     : Processes \cup {NoProcess},
     input    : Inputs \cup {NoInput},
     token    : Nat,
     expected : LockInfo,
     evicted  : BOOLEAN,
     key      : FileKey,
     view     : FileView,
     acked    : BOOLEAN]

CacheEntry == [key : FileKey, view : FileView, pending : BOOLEAN]
File == [lines : Seq(Line), tail : BOOLEAN, ino : Nat]

\* Every variable of the journal holds a value of its type.
TypeOK ==
    /\ file \in File
    /\ lock \in LockInfo
    /\ guard \in BOOLEAN
    /\ alive \subseteq Processes
    /\ cache \in [Processes -> CacheEntry]
    /\ call \in [Callers -> CallState]
    /\ crashes \in Nat

Holds(f) ==
    \/ f.pc \in HeldPC
    \/ f.kind # "verify" /\ f.pc \in {"stat", "read"}

Holding(c) == Holds(call[c])

\* Two calls are never between acquireLock and releaseLock together, however
\* they race to evict the lock of a dead process (index.ts evictDeadLock).
MutualExclusion ==
    \A c, d \in Callers : Holding(c) /\ Holding(d) => c = d

\* The content an append decides on is the content of the file, although it
\* may come from a cache that reads without the lock and other processes know
\* nothing of (cachedVerifiedJournal).
TransactionSeesFile ==
    \A c \in Callers :
        call[c].pc \in {"apply", "write"} => call[c].view = Content(file)

\* An append that reports success has its record in the file, with the fact
\* it was called with (appendLocked, including the idempotent path).
AcknowledgedIsDurable ==
    \A c \in Callers : call[c].acked =>
        \E i \in 1 .. Len(file.lines) :
            /\ file.lines[i].id = call[c].input.id
            /\ file.lines[i].fact = call[c].input.fact

-------------------------------------------------------------------------------
\* The whole lines of the file, without their sequence numbers, are the log of
\* the contract: crashes, torn lines and recoveries never lose or repeat one.
CommittedLog ==
    [i \in 1 .. Len(file.lines) |->
        [id |-> file.lines[i].id, fact |-> file.lines[i].fact]]

Log == INSTANCE JournalLog WITH
    Records <- [id : {i.id : i \in Inputs}, fact : {i.fact : i \in Inputs}],
    log     <- CommittedLog

ImplementsLog == Log!Spec

-------------------------------------------------------------------------------
\* tests/adapters/jsonl/journal.test.ts:510 "releases a real transaction lock
\* after owner termination": if calls keep finding the lock held, the lock of a
\* dead process does not stay.
DeadLockIsEvicted ==
    []<>(\E c \in Callers : call[c].pc = "contend") =>
        \A p \in Processes :
            lock.pid = p /\ p \notin alive ~> lock.pid # p \/ p \in alive
===============================================================================
