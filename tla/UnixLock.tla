------------------------------ MODULE UnixLock ------------------------------
(***************************************************************************)
(* Locking one database file through POSIX advisory locks, as os_unix.c    *)
(* does it: the locks belong to the process, not to the file handle, so    *)
(* the connections of a process share one unixInodeInfo and settle among   *)
(* themselves, under the VFS mutex, what the system cannot tell apart;     *)
(* system calls of different processes interleave between any two calls.   *)
(* With SQLITE_WCDB_SIGNAL_RETRY a connection that a sibling holds up      *)
(* sleeps in the wait queue of os_wcdb.c, signalled when the way is free.  *)
(*                                                                         *)
(* A connection is used by one thread at a time and is identified with it. *)
(* A system call fails only with a conflicting lock of another process.    *)
(***************************************************************************)
EXTENDS Naturals, Sequences, FiniteSets

CONSTANTS Conn,          \* the unixFile handles on the database file
          Proc,          \* the processes
          Home,          \* the process of each handle
          Main,          \* the handles used on the main thread
          NoConn,        \* no handle: the mutex is free
          MaxQueue       \* bound: entries in a wait queue

ASSUME UnixLockAssumption ==
  /\ IsFiniteSet(Conn)
  /\ Home \in [Conn -> Proc]
  /\ Main \subseteq Conn
  /\ NoConn \notin Conn
  /\ MaxQueue \in Nat

VARIABLES eFileLock,     \* unixFile.eFileLock
          ilock,         \* unixInodeInfo.eFileLock
          nShared,       \* unixInodeInfo.nShared
          nLock,         \* unixInodeInfo.nLock
          os,            \* the fcntl locks of each process
          mutex,         \* who is inside unixEnterMutex
          pc,            \* where each handle's thread is
          want,          \* the level its call is for, NO_LOCK outside a call
          queue          \* unixInodeInfo.qWaitQueue

inodeVars == <<ilock, nShared, nLock>>
vars == <<eFileLock, ilock, nShared, nLock, os, mutex, pc, want, queue>>

NO_LOCK        == 0
SHARED_LOCK    == 1
RESERVED_LOCK  == 2
PENDING_LOCK   == 3
EXCLUSIVE_LOCK == 4
Level == NO_LOCK .. EXCLUSIVE_LOCK

Byte == {"pending", "reserved", "range"}     \* PENDING_BYTE, RESERVED_BYTE, SHARED_FIRST..
Mode == {"none", "read", "write"}
NoLocks == [b \in Byte |-> "none"]

\* The points at which a thread is inside the mutex between two system calls,
\* and those at which it is outside.
Inside  == {"pending", "shared", "got", "refused", "exclusive", "downgrade",
            "bytes", "last"}
Outside == {"closed", "idle", "asleep", "woken", "unlocked"}

Siblings(p) == {c \in Conn : Home[c] = p}

\* An entry of the queue; one whose handle was closed meanwhile is not "open".
Entry == [conn : Conn, want : Level, flag : {"SHARED", "EXCLUSIVE"}, open : BOOLEAN]

-----------------------------------------------------------------------------
Init ==
  /\ eFileLock = [c \in Conn |-> NO_LOCK]
  /\ ilock = [p \in Proc |-> NO_LOCK]
  /\ nShared = [p \in Proc |-> 0]
  /\ nLock = [p \in Proc |-> 0]
  /\ os = [p \in Proc |-> NoLocks]
  /\ mutex = [p \in Proc |-> NoConn]
  /\ pc = [c \in Conn |-> "closed"]
  /\ want = [c \in Conn |-> NO_LOCK]
  /\ queue = [p \in Proc |-> <<>>]

\* fcntl(F_SETLK) of process p: refused by a conflicting lock of another one.
CanRead(p, b)  == \A q \in Proc \ {p} : os[q][b] # "write"
CanWrite(p, b) == \A q \in Proc \ {p} : os[q][b] = "none"

-----------------------------------------------------------------------------
(* The wait queue. *)

\* WCDBOsTrySignal: whether the front entry's request would pass now, given
\* the inode's lock, the number of readers, and the level read from its handle.
Grantable(e, level, lock, shared) ==
  CASE e.flag = "SHARED" ->
         \/ level = lock
         \/ lock < PENDING_LOCK /\ e.want <= SHARED_LOCK
    [] e.flag = "EXCLUSIVE" ->
         ~(e.want = EXCLUSIVE_LOCK /\ shared > 1)

\* Anything may be read from a handle that has been freed.
LevelsRead(e) == IF e.open THEN {eFileLock[e.conn]} ELSE Level

\* WCDBOsTrySignal takes the first n entries off the queue, one after the other.
TakesOff(q, n, lock, shared) ==
  /\ \A i \in 1 .. n : \E l \in LevelsRead(q[i]) : Grantable(q[i], l, lock, shared)
  /\ n < Len(q) =>
       \E l \in LevelsRead(q[n + 1]) : ~Grantable(q[n + 1], l, lock, shared)

\* The signal reaches the thread of the entry only while it sleeps.
Woken(cs) == [c \in Conn |-> IF c \in cs /\ pc[c] = "asleep" THEN "woken" ELSE pc[c]]

\* WCDBOsTrySignal, with which posixUnlock ends, and leaving the mutex; the
\* handle's own eFileLock is lowered after that.
SignalAndLeave(c, lock, shared) ==
  LET p == Home[c]
      q == queue[p]
  IN /\ \E n \in 0 .. Len(q) :
          /\ TakesOff(q, n, lock, shared)
          /\ queue' = [queue EXCEPT ![p] = SubSeq(q, n + 1, Len(q))]
          /\ pc' = [Woken({q[i].conn : i \in 1 .. n}) EXCEPT ![c] = "unlocked"]
     /\ mutex' = [mutex EXCEPT ![p] = NoConn]

\* The sleeper at the front and the newcomer would wait for each other.
CircularWait(w, e) ==
  \/ w = EXCLUSIVE_LOCK /\ e.want > SHARED_LOCK
  \/ e.want = EXCLUSIVE_LOCK /\ w > SHARED_LOCK

\* unixLock ends with SQLITE_BUSY because of a sibling: WCDBOsWait returns at
\* once if the caller did not set bWait, or wakes the front sleeper instead of
\* sleeping, or sleeps.  pager.c asks for EXCLUSIVE_LOCK from SHARED_LOCK, to
\* roll a journal back, only without bWait.
BusyBySibling(c, w, flag) ==
  LET p == Home[c]
      q == queue[p]
      e == [conn |-> c, want |-> w, flag |-> flag, open |-> TRUE]
      mayWait == w = EXCLUSIVE_LOCK => eFileLock[c] # SHARED_LOCK
  IN /\ mutex' = [mutex EXCEPT ![p] = NoConn]
     /\ \/ /\ pc' = [pc EXCEPT ![c] = "idle"]
           /\ UNCHANGED queue
        \/ /\ mayWait
           /\ q # <<>>
           /\ CircularWait(w, Head(q))
           /\ pc' = [Woken({Head(q).conn}) EXCEPT ![c] = "idle"]
           /\ queue' = [queue EXCEPT ![p] = Tail(q)]
        \/ /\ mayWait
           /\ q # <<>> => ~CircularWait(w, Head(q))
           /\ Len(q) < MaxQueue
           /\ pc' = [pc EXCEPT ![c] = "asleep"]
           /\ queue' = [queue EXCEPT ![p] = IF c \in Main THEN <<e>> \o q ELSE Append(q, e)]

\* Back from pthreadCondWait, signalled or after ten seconds: the caller gets
\* SQLITE_BUSY either way, and an entry nobody took off the queue stays there.
WakeUp(c) ==
  /\ pc[c] \in {"asleep", "woken"}
  /\ mutex[Home[c]] = NoConn
  /\ pc' = [pc EXCEPT ![c] = "idle"]
  /\ UNCHANGED <<eFileLock, inodeVars, os, mutex, want, queue>>

-----------------------------------------------------------------------------
(* unixLock: raising a lock. *)

\* Mutants: two siblings may both reserve; a sibling's PENDING_LOCK is overlooked.
PrecludedByPendingSlip(c, w) == eFileLock[c] # ilock[Home[c]] /\ ilock[Home[c]] >= PENDING_LOCK
PrecludedForWritersSlip(c, w) == eFileLock[c] # ilock[Home[c]] /\ w > SHARED_LOCK

\* A sibling's lock precludes the request.
Precluded(c, w) ==
  LET p == Home[c]
  IN /\ eFileLock[c] # ilock[p]
     /\ ilock[p] >= PENDING_LOCK \/ w > SHARED_LOCK

Request(c, w) ==
  LET p == Home[c]
  IN /\ pc[c] = "idle"
     /\ eFileLock[c] < w
     /\ eFileLock[c] # NO_LOCK \/ w = SHARED_LOCK
     /\ w # RESERVED_LOCK \/ eFileLock[c] = SHARED_LOCK
     /\ mutex[p] = NoConn
     /\ UNCHANGED os
     /\ \/ /\ Precluded(c, w)
           /\ BusyBySibling(c, w, "SHARED")
           /\ UNCHANGED <<eFileLock, inodeVars, want>>
        \/ /\ ~Precluded(c, w)
           /\ w = SHARED_LOCK
           /\ ilock[p] \in {SHARED_LOCK, RESERVED_LOCK}
           /\ eFileLock' = [eFileLock EXCEPT ![c] = SHARED_LOCK]
           /\ nShared' = [nShared EXCEPT ![p] = @ + 1]
           /\ nLock' = [nLock EXCEPT ![p] = @ + 1]
           /\ UNCHANGED <<ilock, mutex, pc, want, queue>>
        \/ /\ ~Precluded(c, w)
           /\ w = SHARED_LOCK => ilock[p] \notin {SHARED_LOCK, RESERVED_LOCK}
           /\ \/ w = SHARED_LOCK
              \/ w = EXCLUSIVE_LOCK /\ eFileLock[c] < PENDING_LOCK
           /\ mutex' = [mutex EXCEPT ![p] = c]
           /\ pc' = [pc EXCEPT ![c] = "pending"]
           /\ want' = [want EXCEPT ![c] = w]
           /\ UNCHANGED <<eFileLock, inodeVars, queue>>
        \/ /\ ~Precluded(c, w)
           /\ w = RESERVED_LOCK \/ (w = EXCLUSIVE_LOCK /\ eFileLock[c] = PENDING_LOCK)
           /\ mutex' = [mutex EXCEPT ![p] = c]
           /\ pc' = [pc EXCEPT ![c] = "exclusive"]
           /\ want' = [want EXCEPT ![c] = w]
           /\ UNCHANGED <<eFileLock, inodeVars, queue>>

\* The pending byte: for the time of taking SHARED_LOCK, and for good on the
\* way to EXCLUSIVE_LOCK.
LockPendingByte(c) ==
  LET p    == Home[c]
      mode == IF want[c] = SHARED_LOCK THEN "read" ELSE "write"
      free == IF want[c] = SHARED_LOCK THEN CanRead(p, "pending") ELSE CanWrite(p, "pending")
  IN /\ pc[c] = "pending"
     /\ \/ /\ free
           /\ os' = [os EXCEPT ![p]["pending"] = mode]
           /\ pc' = [pc EXCEPT ![c] = IF want[c] = SHARED_LOCK THEN "shared" ELSE "exclusive"]
           /\ UNCHANGED <<mutex, want>>
        \/ /\ ~free
           /\ pc' = [pc EXCEPT ![c] = "idle"]
           /\ want' = [want EXCEPT ![c] = NO_LOCK]
           /\ mutex' = [mutex EXCEPT ![p] = NoConn]
           /\ UNCHANGED os
     /\ UNCHANGED <<eFileLock, inodeVars, queue>>

ReadLockRange(c) ==
  LET p == Home[c]
  IN /\ pc[c] = "shared"
     /\ \/ /\ CanRead(p, "range")
           /\ os' = [os EXCEPT ![p]["range"] = "read"]
           /\ pc' = [pc EXCEPT ![c] = "got"]
        \/ /\ ~CanRead(p, "range")
           /\ pc' = [pc EXCEPT ![c] = "refused"]
           /\ UNCHANGED os
     /\ UNCHANGED <<eFileLock, inodeVars, mutex, want, queue>>

\* The temporary pending lock is dropped either way.
DropPendingByte(c) ==
  LET p == Home[c]
  IN /\ pc[c] \in {"got", "refused"}
     /\ os' = [os EXCEPT ![p]["pending"] = "none"]
     /\ mutex' = [mutex EXCEPT ![p] = NoConn]
     /\ pc' = [pc EXCEPT ![c] = "idle"]
     /\ want' = [want EXCEPT ![c] = NO_LOCK]
     /\ \/ /\ pc[c] = "got"
           /\ eFileLock' = [eFileLock EXCEPT ![c] = SHARED_LOCK]
           /\ ilock' = [ilock EXCEPT ![p] = SHARED_LOCK]
           /\ nShared' = [nShared EXCEPT ![p] = 1]
           /\ nLock' = [nLock EXCEPT ![p] = @ + 1]
        \/ /\ pc[c] = "refused"
           /\ UNCHANGED <<eFileLock, inodeVars>>
     /\ UNCHANGED queue

\* Mutant: the readers of the same process are forgotten.
NeverCrowdedSlip(c) == FALSE

\* Readers of the same process, which the system cannot see, are in the way.
Crowded(c) == want[c] = EXCLUSIVE_LOCK /\ nShared[Home[c]] > 1

\* The write lock on the reserved byte or on the whole range.  A failed
\* attempt at EXCLUSIVE_LOCK leaves PENDING_LOCK behind.
WriteLock(c) ==
  LET p == Home[c]
      b == IF want[c] = RESERVED_LOCK THEN "reserved" ELSE "range"
      SetLevel(l) == /\ eFileLock' = [eFileLock EXCEPT ![c] = l]
                     /\ ilock' = [ilock EXCEPT ![p] = l]
  IN /\ pc[c] = "exclusive"
     /\ want' = [want EXCEPT ![c] = NO_LOCK]
     /\ \/ /\ Crowded(c)
           /\ SetLevel(PENDING_LOCK)
           /\ BusyBySibling(c, want[c], "EXCLUSIVE")
           /\ UNCHANGED os
        \/ /\ ~Crowded(c)
           /\ mutex' = [mutex EXCEPT ![p] = NoConn]
           /\ pc' = [pc EXCEPT ![c] = "idle"]
           /\ UNCHANGED queue
           /\ \/ /\ CanWrite(p, b)
                 /\ os' = [os EXCEPT ![p][b] = "write"]
                 /\ SetLevel(want[c])
              \/ /\ ~CanWrite(p, b)
                 /\ want[c] = EXCLUSIVE_LOCK
                 /\ SetLevel(PENDING_LOCK)
                 /\ UNCHANGED os
              \/ /\ ~CanWrite(p, b)
                 /\ want[c] = RESERVED_LOCK
                 /\ UNCHANGED <<eFileLock, ilock, os>>
     /\ UNCHANGED <<nShared, nLock>>

-----------------------------------------------------------------------------
(* posixUnlock: lowering a lock to SHARED_LOCK or NO_LOCK. *)

Unlock(c, to) ==
  LET p == Home[c]
  IN /\ pc[c] = "idle"
     /\ eFileLock[c] > to
     /\ mutex[p] = NoConn
     /\ mutex' = [mutex EXCEPT ![p] = c]
     /\ want' = [want EXCEPT ![c] = to]
     /\ pc' = [pc EXCEPT ![c] = IF eFileLock[c] <= SHARED_LOCK THEN "last"
                                ELSE IF to = SHARED_LOCK THEN "downgrade"
                                ELSE "bytes"]
     /\ UNCHANGED <<eFileLock, inodeVars, os, queue>>

DowngradeRange(c) ==
  /\ pc[c] = "downgrade"
  /\ os' = [os EXCEPT ![Home[c]]["range"] = "read"]
  /\ pc' = [pc EXCEPT ![c] = "bytes"]
  /\ UNCHANGED <<eFileLock, inodeVars, mutex, want, queue>>

UnlockBytes(c) ==
  LET p == Home[c]
  IN /\ pc[c] = "bytes"
     /\ os' = [os EXCEPT ![p]["pending"] = "none", ![p]["reserved"] = "none"]
     /\ ilock' = [ilock EXCEPT ![p] = SHARED_LOCK]
     /\ \/ /\ want[c] = SHARED_LOCK
           /\ SignalAndLeave(c, SHARED_LOCK, nShared[p])
        \/ /\ want[c] = NO_LOCK
           /\ pc' = [pc EXCEPT ![c] = "last"]
           /\ UNCHANGED <<mutex, queue>>
     /\ UNCHANGED <<eFileLock, nShared, nLock, want>>

\* Mutant: a reader gives back the locks its siblings rely on.
AnyReaderIsLastSlip(left) == TRUE

LastReader(left) == left = 0

\* Only the last reader of the process gives the system's locks back; with
\* the last lock the descriptors whose close was put off are closed too.
UnlockLast(c) ==
  LET p    == Home[c]
      left == nShared[p] - 1
      lock == IF LastReader(left) THEN NO_LOCK ELSE ilock[p]
  IN /\ pc[c] = "last"
     /\ nShared' = [nShared EXCEPT ![p] = left]
     /\ nLock' = [nLock EXCEPT ![p] = @ - 1]
     /\ ilock' = [ilock EXCEPT ![p] = lock]
     /\ os' = IF LastReader(left) THEN [os EXCEPT ![p] = NoLocks] ELSE os
     /\ SignalAndLeave(c, lock, left)
     /\ UNCHANGED <<eFileLock, want>>

\* pFile->eFileLock is assigned after the mutex has been left.
FinishUnlock(c) ==
  /\ pc[c] = "unlocked"
  /\ eFileLock' = [eFileLock EXCEPT ![c] = want[c]]
  /\ want' = [want EXCEPT ![c] = NO_LOCK]
  /\ pc' = [pc EXCEPT ![c] = "idle"]
  /\ UNCHANGED <<inodeVars, os, mutex, queue>>

-----------------------------------------------------------------------------
(* Handles and processes come and go. *)

Open(c) ==
  /\ pc[c] = "closed"
  /\ mutex[Home[c]] = NoConn
  /\ pc' = [pc EXCEPT ![c] = "idle"]
  /\ UNCHANGED <<eFileLock, inodeVars, os, mutex, want, queue>>

\* Mutant: closing a handle empties the queue under the sleepers.
FreedAllSlip(q, c) == <<>>

\* The entries of a handle that is freed.
Freed(q, c) == [i \in 1 .. Len(q) |-> [q[i] EXCEPT !.open = @ /\ q[i].conn # c]]

\* Mutant: a descriptor is closed at once whatever locks are outstanding.
ClosesAtOnceSlip(p) == TRUE

\* A descriptor is closed only when no lock of the process is outstanding, and
\* parked with the inode otherwise: closing it would take them all.
ClosesDescriptor(p) == nLock[p] = 0

\* unixClose after its unixUnlock(NO_LOCK).  The last handle frees the inode
\* with its wait queue.
Close(c) ==
  LET p == Home[c]
  IN /\ pc[c] = "idle"
     /\ eFileLock[c] = NO_LOCK
     /\ mutex[p] = NoConn
     /\ os' = IF ClosesDescriptor(p) THEN [os EXCEPT ![p] = NoLocks] ELSE os
     /\ queue' = [queue EXCEPT ![p] = IF \A d \in Siblings(p) \ {c} : pc[d] = "closed"
                                      THEN <<>> ELSE Freed(@, c)]
     /\ pc' = [pc EXCEPT ![c] = "closed"]
     /\ UNCHANGED <<eFileLock, inodeVars, mutex, want>>

\* The process ends at any point: its memory and its locks are gone.
Crash(p) ==
  /\ eFileLock' = [c \in Conn |-> IF Home[c] = p THEN NO_LOCK ELSE eFileLock[c]]
  /\ pc' = [c \in Conn |-> IF Home[c] = p THEN "closed" ELSE pc[c]]
  /\ want' = [c \in Conn |-> IF Home[c] = p THEN NO_LOCK ELSE want[c]]
  /\ ilock' = [ilock EXCEPT ![p] = NO_LOCK]
  /\ nShared' = [nShared EXCEPT ![p] = 0]
  /\ nLock' = [nLock EXCEPT ![p] = 0]
  /\ os' = [os EXCEPT ![p] = NoLocks]
  /\ mutex' = [mutex EXCEPT ![p] = NoConn]
  /\ queue' = [queue EXCEPT ![p] = <<>>]

-----------------------------------------------------------------------------
Step(c) ==
  \/ LockPendingByte(c) \/ ReadLockRange(c) \/ DropPendingByte(c) \/ WriteLock(c)
  \/ DowngradeRange(c) \/ UnlockBytes(c) \/ UnlockLast(c) \/ FinishUnlock(c)

Next ==
  \/ \E c \in Conn :
       \/ \E w \in {SHARED_LOCK, RESERVED_LOCK, EXCLUSIVE_LOCK} : Request(c, w)
       \/ \E to \in {NO_LOCK, SHARED_LOCK} : Unlock(c, to)
       \/ Step(c) \/ WakeUp(c) \/ Open(c) \/ Close(c)
  \/ \E p \in Proc : Crash(p)

Spec == Init /\ [][Next]_vars

-----------------------------------------------------------------------------
(* Properties *)

\* The lock a connection may rely on: from the moment the system granted it
\* until the first system call that gives it back.
Held == [c \in Conn |->
           IF pc[c] = "unlocked" THEN want[c]
           ELSE IF pc[c] = "last" \/ (pc[c] = "bytes" /\ want[c] = SHARED_LOCK)
                THEN SHARED_LOCK
           ELSE eFileLock[c]]

Ladder == INSTANCE FileLock WITH held <- Held

TypeOK ==
  /\ eFileLock \in [Conn -> Level]
  /\ ilock \in [Proc -> Level]
  /\ nShared \in [Proc -> Nat]
  /\ nLock \in [Proc -> Nat]
  /\ os \in [Proc -> [Byte -> Mode]]
  /\ mutex \in [Proc -> Conn \cup {NoConn}]
  /\ pc \in [Conn -> Inside \cup Outside]
  /\ want \in [Conn -> Level]
  /\ queue \in [Proc -> Seq(Entry)]

\* The connection with EXCLUSIVE_LOCK is alone with the file: no other one, of
\* this or of another process, relies on any lock at that moment.
WriterIsAlone ==
  \A c, d \in Conn : c # d /\ Held[c] = EXCLUSIVE_LOCK => Held[d] = NO_LOCK

\* At most one connection keeps new readers out, and at most one has reserved
\* the right to write.
OneOfAKind ==
  \A c, d \in Conn : c # d /\ Held[c] = Held[d] => Held[c] <= SHARED_LOCK

\* What a connection relies on is what the system holds for its process: no
\* closed descriptor, sibling's unlock or failed attempt has taken it away.
SystemHoldsIt ==
  \A c \in Conn :
    LET lock == os[Home[c]]
    IN /\ Held[c] >= SHARED_LOCK => lock["range"] # "none"
       /\ Held[c] = RESERVED_LOCK => lock["reserved"] = "write"
       /\ Held[c] >= PENDING_LOCK => lock["pending"] = "write"
       /\ Held[c] = EXCLUSIVE_LOCK => lock["range"] = "write"

\* The ladder of os_unix.c implements the lock ladder of FileLock.
LadderSpec == Ladder!Spec

Queued(q, c) == \E i \in 1 .. Len(q) : q[i].conn = c /\ q[i].open

\* Nobody sleeps without a place in the queue from which a sibling can wake it:
\* no wake-up is lost, whatever is signalled, cleared or timed out meanwhile.
SleeperIsQueued ==
  \A c \in Conn : pc[c] = "asleep" => Queued(queue[Home[c]], c)

\* Of two connections that hold each other up one gives way, so that the
\* process never sleeps as a whole; only siblings wake each other.
SomeoneAwake ==
  \A p \in Proc : \E c \in Siblings(p) : pc[c] # "asleep"

-----------------------------------------------------------------------------
(* The invariant behind the exclusion properties. *)

\* The level a handle has for its siblings, who see it only outside the mutex.
Lev == [c \in Conn |-> IF pc[c] = "unlocked" THEN want[c]
                       ELSE IF pc[c] = "last" THEN SHARED_LOCK
                       ELSE eFileLock[c]]

ReadersIn(lev, p) == {c \in Siblings(p) : lev[c] >= SHARED_LOCK}

MutexOK ==
  /\ \A p \in Proc : mutex[p] # NoConn => Home[mutex[p]] = p /\ pc[mutex[p]] \in Inside
  /\ \A c \in Conn : pc[c] \in Inside => mutex[Home[c]] = c

CallOK(c) ==
  LET p == Home[c]
  IN /\ pc[c] = "closed" => eFileLock[c] = NO_LOCK
     /\ pc[c] = "pending" =>
          /\ want[c] \in {SHARED_LOCK, EXCLUSIVE_LOCK}
          /\ eFileLock[c] = ilock[p]
          /\ want[c] = SHARED_LOCK <=> eFileLock[c] = NO_LOCK
          /\ eFileLock[c] < PENDING_LOCK
     /\ pc[c] \in {"shared", "got", "refused"} =>
          /\ want[c] = SHARED_LOCK
          /\ eFileLock[c] = NO_LOCK /\ ilock[p] = NO_LOCK
          /\ os[p]["pending"] = "read"
     /\ pc[c] = "exclusive" =>
          /\ eFileLock[c] = ilock[p]
          /\ \/ want[c] = RESERVED_LOCK /\ eFileLock[c] = SHARED_LOCK
             \/ /\ want[c] = EXCLUSIVE_LOCK
                /\ eFileLock[c] \in SHARED_LOCK .. PENDING_LOCK
                /\ os[p]["pending"] = "write"
     /\ pc[c] \in {"downgrade", "bytes"} =>
          /\ eFileLock[c] >= RESERVED_LOCK
          /\ want[c] \in {NO_LOCK, SHARED_LOCK}
     /\ pc[c] = "downgrade" => want[c] = SHARED_LOCK
     /\ pc[c] = "last" => want[c] = NO_LOCK /\ eFileLock[c] >= SHARED_LOCK
     /\ pc[c] = "unlocked" => want[c] \in {NO_LOCK, SHARED_LOCK}

InodeOK(p) ==
  /\ nShared[p] = Cardinality(ReadersIn(Lev, p))
  /\ nLock[p] = nShared[p]
  /\ ilock[p] = NO_LOCK <=> ReadersIn(Lev, p) = {}
  /\ \A c \in Siblings(p) :
       Lev[c] >= RESERVED_LOCK =>
         /\ ilock[p] = Lev[c]
         /\ \A d \in Siblings(p) \ {c} : Lev[d] <= SHARED_LOCK
         /\ Lev[c] = EXCLUSIVE_LOCK => ReadersIn(Lev, p) = {c}

SystemOK(p) ==
  /\ ReadersIn(Lev, p) = {} =>
       \/ os[p]["range"] = "none"
       \/ mutex[p] # NoConn /\ pc[mutex[p]] = "got"
  /\ ReadersIn(Lev, p) # {} => os[p]["range"] # "none"
  /\ \A c \in Siblings(p) :
       /\ pc[c] = "got" => os[p]["range"] # "none"
       /\ Lev[c] = RESERVED_LOCK => os[p]["reserved"] = "write"
       /\ Lev[c] >= PENDING_LOCK => os[p]["pending"] = "write"
       /\ Lev[c] = EXCLUSIVE_LOCK /\ ~(pc[c] = "bytes" /\ want[c] = SHARED_LOCK) =>
            os[p]["range"] = "write"

\* The system grants no process a lock that conflicts with another's.
NoConflict ==
  \A p, q \in Proc : p # q =>
    \A b \in Byte : os[p][b] = "write" => os[q][b] = "none"

LockInv ==
  /\ TypeOK
  /\ MutexOK
  /\ \A c \in Conn : CallOK(c)
  /\ \A p \in Proc : InodeOK(p) /\ SystemOK(p)
  /\ NoConflict
=============================================================================
