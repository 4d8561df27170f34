--------------------------- MODULE UnixLockProofs ---------------------------
(***************************************************************************)
(* Proofs about UnixLock: the inductive invariant LockInv, the exclusion   *)
(* properties that follow from it, and the refinement of FileLock.         *)
(***************************************************************************)
EXTENDS UnixLock, TLAPS, FiniteSetTheorems, SequenceTheorems

USE UnixLockAssumption

-----------------------------------------------------------------------------
(* Counting the readers of a process. *)

LEMMA SiblingsFinite == \A p \in Proc : IsFiniteSet(Siblings(p))
  BY FS_Subset DEF Siblings

LEMMA ReadersFinite ==
  ASSUME NEW lev, NEW p \in Proc
  PROVE  /\ IsFiniteSet(ReadersIn(lev, p))
         /\ Cardinality(ReadersIn(lev, p)) \in Nat
         /\ Cardinality(ReadersIn(lev, p)) = 0 <=> ReadersIn(lev, p) = {}
<1>1. ReadersIn(lev, p) \subseteq Siblings(p)
  BY DEF ReadersIn
<1>2. IsFiniteSet(ReadersIn(lev, p))
  BY <1>1, SiblingsFinite, FS_Subset
<1> QED
  BY <1>2, FS_CardinalityType, FS_EmptySet

\* The levels lev and new agree but for the handle c.
Differ(lev, new, c) ==
  /\ lev \in [Conn -> Level] /\ new \in [Conn -> Level]
  /\ \A d \in Conn \ {c} : new[d] = lev[d]

\* A handle that gets its first lock is one reader more.
LEMMA ReaderComes ==
  ASSUME NEW lev, NEW new, NEW c \in Conn, Differ(lev, new, c),
         lev[c] = NO_LOCK, new[c] # NO_LOCK
  PROVE  /\ ReadersIn(new, Home[c]) = ReadersIn(lev, Home[c]) \cup {c}
         /\ Cardinality(ReadersIn(new, Home[c])) = Cardinality(ReadersIn(lev, Home[c])) + 1
<1>1. ReadersIn(new, Home[c]) = ReadersIn(lev, Home[c]) \cup {c}
  BY DEF Differ, ReadersIn, Siblings, Level, NO_LOCK, SHARED_LOCK, EXCLUSIVE_LOCK
<1>2. c \notin ReadersIn(lev, Home[c])
  BY DEF ReadersIn, NO_LOCK, SHARED_LOCK
<1>3. IsFiniteSet(ReadersIn(lev, Home[c]))
  BY ReadersFinite
<1> QED
  BY <1>1, <1>2, <1>3, FS_AddElement

\* A handle that gives its last lock back is one reader less.
LEMMA ReaderLeaves ==
  ASSUME NEW lev, NEW new, NEW c \in Conn, Differ(lev, new, c),
         lev[c] # NO_LOCK, new[c] = NO_LOCK
  PROVE  /\ ReadersIn(new, Home[c]) = ReadersIn(lev, Home[c]) \ {c}
         /\ c \in ReadersIn(lev, Home[c])
         /\ Cardinality(ReadersIn(new, Home[c])) = Cardinality(ReadersIn(lev, Home[c])) - 1
<1>1. ReadersIn(new, Home[c]) = ReadersIn(lev, Home[c]) \ {c}
  BY DEF Differ, ReadersIn, Siblings, Level, NO_LOCK, SHARED_LOCK, EXCLUSIVE_LOCK
<1>2. c \in ReadersIn(lev, Home[c])
  BY DEF Differ, ReadersIn, Siblings, Level, NO_LOCK, SHARED_LOCK, EXCLUSIVE_LOCK
<1>3. IsFiniteSet(ReadersIn(lev, Home[c]))
  BY ReadersFinite
<1>4. Cardinality(ReadersIn(lev, Home[c]) \ {c}) = Cardinality(ReadersIn(lev, Home[c])) - 1
  BY <1>2, <1>3, FS_RemoveElement
<1> QED
  BY <1>1, <1>2, <1>4

\* A change of level of a handle that reads before and after.
LEMMA ReaderStays ==
  ASSUME NEW lev, NEW new, NEW c \in Conn, Differ(lev, new, c),
         lev[c] # NO_LOCK, new[c] # NO_LOCK
  PROVE  ReadersIn(new, Home[c]) = ReadersIn(lev, Home[c])
BY DEF Differ, ReadersIn, Siblings, Level, NO_LOCK, SHARED_LOCK, EXCLUSIVE_LOCK

-----------------------------------------------------------------------------
(* What the two ways of leaving the mutex do to the other threads. *)

Disturbs(c) ==
  \A d \in Conn \ {c} : pc'[d] = pc[d] \/ (pc[d] = "asleep" /\ pc'[d] = "woken")

LEMMA BusyLeaves ==
  ASSUME TypeOK, NEW c \in Conn, NEW w \in Level, NEW flag \in {"SHARED", "EXCLUSIVE"},
         BusyBySibling(c, w, flag)
  PROVE  /\ mutex' = [mutex EXCEPT ![Home[c]] = NoConn]
         /\ pc' \in [Conn -> Inside \cup Outside]
         /\ pc'[c] \in {"idle", "asleep"}
         /\ Disturbs(c)
         /\ queue' \in [Proc -> Seq(Entry)]
<1> DEFINE p == Home[c]
           q == queue[p]
           e == [conn |-> c, want |-> w, flag |-> flag, open |-> TRUE]
<1>1. p \in Proc /\ q \in Seq(Entry) /\ e \in Entry
  BY DEF TypeOK, Entry
<1>2. CASE pc' = [pc EXCEPT ![c] = "idle"] /\ UNCHANGED queue
  BY <1>2 DEF BusyBySibling, TypeOK, Outside, Disturbs
<1>3. CASE /\ q # <<>>
           /\ pc' = [Woken({Head(q).conn}) EXCEPT ![c] = "idle"]
           /\ queue' = [queue EXCEPT ![p] = Tail(q)]
  <2>1. Tail(q) \in Seq(Entry)
    BY <1>1, <1>3
  <2>2. queue' \in [Proc -> Seq(Entry)]
    BY <1>3, <2>1 DEF TypeOK
  <2> QED
    BY <1>3, <2>2 DEF BusyBySibling, TypeOK, Outside, Disturbs, Woken
<1>4. CASE /\ pc' = [pc EXCEPT ![c] = "asleep"]
           /\ queue' = [queue EXCEPT ![p] = IF c \in Main THEN <<e>> \o q ELSE Append(q, e)]
  <2>1. <<e>> \in Seq(Entry)
    BY <1>1
  <2>2. <<e>> \o q \in Seq(Entry)
    BY <1>1, <2>1, ConcatProperties
  <2>3. Append(q, e) \in Seq(Entry)
    BY <1>1
  <2>4. queue' \in [Proc -> Seq(Entry)]
    BY <1>4, <2>2, <2>3 DEF TypeOK
  <2> QED
    BY <1>4, <2>4 DEF BusyBySibling, TypeOK, Outside, Disturbs
<1> QED
  BY <1>2, <1>3, <1>4 DEF BusyBySibling

LEMMA SignalLeaves ==
  ASSUME TypeOK, NEW c \in Conn, NEW lock, NEW shared, SignalAndLeave(c, lock, shared)
  PROVE  /\ mutex' = [mutex EXCEPT ![Home[c]] = NoConn]
         /\ pc' \in [Conn -> Inside \cup Outside]
         /\ pc'[c] = "unlocked"
         /\ Disturbs(c)
         /\ queue' \in [Proc -> Seq(Entry)]
<1> DEFINE p == Home[c]
           q == queue[p]
<1>1. p \in Proc /\ q \in Seq(Entry)
  BY DEF TypeOK
<1>2. PICK n \in 0 .. Len(q) :
        /\ queue' = [queue EXCEPT ![p] = SubSeq(q, n + 1, Len(q))]
        /\ pc' = [Woken({q[i].conn : i \in 1 .. n}) EXCEPT ![c] = "unlocked"]
  BY DEF SignalAndLeave
<1>3. SubSeq(q, n + 1, Len(q)) \in Seq(Entry)
  BY <1>1, SubSeqProperties
<1>4. queue' \in [Proc -> Seq(Entry)]
  BY <1>2, <1>3 DEF TypeOK
<1>5. mutex' = [mutex EXCEPT ![p] = NoConn]
  BY DEF SignalAndLeave
<1> HIDE DEF q
<1>6. pc' \in [Conn -> Inside \cup Outside] /\ pc'[c] = "unlocked" /\ Disturbs(c)
  BY <1>2 DEF Woken, TypeOK, Outside, Disturbs
<1> QED
  BY <1>4, <1>5, <1>6

-----------------------------------------------------------------------------
(* The initial states. *)

LEMMA InitLockInv == Init => LockInv
<1> SUFFICES ASSUME Init PROVE LockInv
  OBVIOUS
<1>1. TypeOK
  BY DEF Init, TypeOK, NoLocks, Mode, Level, NO_LOCK, EXCLUSIVE_LOCK, Outside
<1>2. MutexOK
  BY DEF Init, MutexOK, Inside
<1>3. ASSUME NEW c \in Conn PROVE CallOK(c)
  BY DEF Init, CallOK
<1>4. Lev = [c \in Conn |-> NO_LOCK]
  BY DEF Init, Lev
<1>5. ASSUME NEW p \in Proc PROVE InodeOK(p)
  <2>1. ReadersIn(Lev, p) = {}
    BY <1>4 DEF ReadersIn, Siblings, NO_LOCK, SHARED_LOCK
  <2>2. nShared[p] = 0 /\ nLock[p] = 0 /\ ilock[p] = NO_LOCK
    BY DEF Init
  <2>3. \A c \in Siblings(p) : ~(Lev[c] >= RESERVED_LOCK)
    BY <1>4 DEF Siblings, NO_LOCK, RESERVED_LOCK
  <2> QED
    BY <2>1, <2>2, <2>3, FS_EmptySet DEF InodeOK
<1>6. ASSUME NEW p \in Proc PROVE SystemOK(p)
  <2>1. ReadersIn(Lev, p) = {}
    BY <1>4 DEF ReadersIn, Siblings, NO_LOCK, SHARED_LOCK
  <2> QED
    BY <1>4, <2>1 DEF Init, SystemOK, Siblings, NoLocks, Byte, NO_LOCK, SHARED_LOCK,
                      RESERVED_LOCK, PENDING_LOCK, EXCLUSIVE_LOCK
<1>7. NoConflict
  BY DEF Init, NoConflict, NoLocks
<1> QED
  BY <1>1, <1>2, <1>3, <1>5, <1>6, <1>7 DEF LockInv

-----------------------------------------------------------------------------
(* Facts of every state the invariant describes. *)

LEMMA LevType == TypeOK => Lev \in [Conn -> Level]
BY DEF TypeOK, Lev, Level, NO_LOCK, SHARED_LOCK, EXCLUSIVE_LOCK

\* Inside the mutex there is no second handle of the process.
LEMMA OneInside ==
  ASSUME MutexOK, NEW c \in Conn, pc[c] \in Inside, NEW d \in Conn, d # c, Home[d] = Home[c]
  PROVE  pc[d] \notin Inside /\ mutex[Home[c]] = c
BY DEF MutexOK

-----------------------------------------------------------------------------
(* A step of one handle leaves the other handles and processes alone. *)

Frame(c) ==
  /\ Disturbs(c)
  /\ \A d \in Conn \ {c} : eFileLock'[d] = eFileLock[d] /\ want'[d] = want[d]
  /\ \A q \in Proc \ {Home[c]} :
       /\ ilock'[q] = ilock[q] /\ nShared'[q] = nShared[q] /\ nLock'[q] = nLock[q]
       /\ os'[q] = os[q] /\ mutex'[q] = mutex[q]

NobodyElseInside(c) ==
  \A d \in Conn \ {c} : Home[d] = Home[c] => pc[d] \notin Inside

LEMMA NobodyElse ==
  ASSUME TypeOK, MutexOK, NEW c \in Conn, mutex[Home[c]] = NoConn \/ pc[c] \in Inside
  PROVE  NobodyElseInside(c)
BY DEF MutexOK, NobodyElseInside

LEMMA LevFrame ==
  ASSUME TypeOK, TypeOK', NEW c \in Conn, Frame(c)
  PROVE  Lev' = [Lev EXCEPT ![c] = Lev'[c]]
<1>1. ASSUME NEW d \in Conn \ {c} PROVE Lev'[d] = Lev[d]
  BY DEF Frame, Disturbs, Lev
<1>2. Lev \in [Conn -> Level] /\ Lev' \in [Conn -> Level]
  <2>1. Lev' = [d \in Conn |-> Lev'[d]]
    BY DEF Lev
  <2>2. (TypeOK => Lev \in [Conn -> Level])'
    BY LevType, PTL
  <2> QED
    BY <2>2, LevType
<1> QED
  BY <1>1, <1>2

LEMMA MutexLeft ==
  ASSUME TypeOK, MutexOK, NEW c \in Conn, Frame(c), NobodyElseInside(c),
         mutex' = [mutex EXCEPT ![Home[c]] = NoConn], pc'[c] \notin Inside
  PROVE  MutexOK'
<1>1. mutex \in [Proc -> Conn \cup {NoConn}] /\ Home[c] \in Proc
  BY DEF TypeOK
<1>2. ASSUME NEW d \in Conn \ {c}, pc[d] \in Inside \/ pc'[d] \in Inside PROVE pc'[d] = pc[d]
  BY <1>2 DEF Frame, Disturbs, Inside
<1>3. ASSUME NEW p \in Proc, mutex'[p] # NoConn
      PROVE  Home[mutex'[p]] = p /\ pc'[mutex'[p]] \in Inside
  BY <1>1, <1>2, <1>3 DEF MutexOK
<1>4. ASSUME NEW d \in Conn, pc'[d] \in Inside PROVE mutex'[Home[d]] = d
  BY <1>1, <1>2, <1>4 DEF MutexOK, NobodyElseInside
<1> QED
  BY <1>3, <1>4 DEF MutexOK

LEMMA MutexHeld ==
  ASSUME TypeOK, MutexOK, NEW c \in Conn, Frame(c), NobodyElseInside(c),
         mutex' = [mutex EXCEPT ![Home[c]] = c], pc'[c] \in Inside
  PROVE  MutexOK'
<1>1. mutex \in [Proc -> Conn \cup {NoConn}] /\ Home[c] \in Proc
  BY DEF TypeOK
<1>2. ASSUME NEW d \in Conn \ {c}, pc[d] \in Inside \/ pc'[d] \in Inside PROVE pc'[d] = pc[d]
  BY <1>2 DEF Frame, Disturbs, Inside
<1>3. ASSUME NEW p \in Proc, mutex'[p] # NoConn
      PROVE  Home[mutex'[p]] = p /\ pc'[mutex'[p]] \in Inside
  BY <1>1, <1>2, <1>3 DEF MutexOK
<1>4. ASSUME NEW d \in Conn, pc'[d] \in Inside PROVE mutex'[Home[d]] = d
  BY <1>1, <1>2, <1>4 DEF MutexOK, NobodyElseInside
<1> QED
  BY <1>3, <1>4 DEF MutexOK

\* A handle outside the mutex of its process.
LEMMA MutexUntouched ==
  ASSUME TypeOK, MutexOK, NEW c \in Conn, Frame(c), mutex' = mutex,
         pc[c] \notin Inside, pc'[c] \notin Inside
  PROVE  MutexOK'
<1>1. mutex \in [Proc -> Conn \cup {NoConn}] /\ Home[c] \in Proc
  BY DEF TypeOK
<1>2. ASSUME NEW d \in Conn \ {c}, pc[d] \in Inside \/ pc'[d] \in Inside PROVE pc'[d] = pc[d]
  BY <1>2 DEF Frame, Disturbs, Inside
<1>3. ASSUME NEW p \in Proc, mutex'[p] # NoConn
      PROVE  Home[mutex'[p]] = p /\ pc'[mutex'[p]] \in Inside
  BY <1>1, <1>2, <1>3 DEF MutexOK
<1>4. ASSUME NEW d \in Conn, pc'[d] \in Inside PROVE mutex'[Home[d]] = d
  BY <1>1, <1>2, <1>4 DEF MutexOK
<1> QED
  BY <1>3, <1>4 DEF MutexOK

LEMMA OthersCall ==
  ASSUME TypeOK, NEW c \in Conn, Frame(c),
         NobodyElseInside(c) \/ (ilock' = ilock /\ os' = os),
         NEW d \in Conn \ {c}, CallOK(d)
  PROVE  CallOK(d)'
<1>1. CASE pc[d] \in Inside
  <2>1. pc'[d] = pc[d] /\ eFileLock'[d] = eFileLock[d] /\ want'[d] = want[d]
    BY <1>1 DEF Frame, Disturbs, Inside
  <2>2. ilock'[Home[d]] = ilock[Home[d]] /\ os'[Home[d]] = os[Home[d]]
    BY <1>1 DEF Frame, NobodyElseInside
  <2> QED
    BY <2>1, <2>2 DEF CallOK
<1>2. CASE pc[d] \notin Inside
  <2>1. pc'[d] \notin Inside /\ (pc'[d] = pc[d] \/ pc'[d] = "woken")
    BY <1>2 DEF Frame, Disturbs, Inside
  <2> QED
    BY <2>1 DEF Frame, CallOK, Inside
<1> QED
  BY <1>1, <1>2

LEMMA OthersInode ==
  ASSUME TypeOK, TypeOK', NEW c \in Conn, Frame(c), NEW q \in Proc, q # Home[c], InodeOK(q)
  PROVE  InodeOK(q)'
<1>1. Lev' = [Lev EXCEPT ![c] = Lev'[c]] /\ Lev \in [Conn -> Level]
  BY LevFrame, LevType
<1> DEFINE L2 == Lev'
<1>2. \A d \in Siblings(q) : L2[d] = Lev[d]
  BY <1>1 DEF Siblings
<1> HIDE DEF L2
<1>3. ReadersIn(L2, q) = ReadersIn(Lev, q)
  BY <1>2 DEF ReadersIn
<1>4. ilock'[q] = ilock[q] /\ nShared'[q] = nShared[q] /\ nLock'[q] = nLock[q]
  BY DEF Frame
<1> QED
  BY <1>2, <1>3, <1>4 DEF InodeOK, L2

LEMMA OthersSystem ==
  ASSUME TypeOK, TypeOK', MutexOK, NEW c \in Conn, Frame(c),
         NEW q \in Proc, q # Home[c], SystemOK(q)
  PROVE  SystemOK(q)'
<1>1. Lev' = [Lev EXCEPT ![c] = Lev'[c]] /\ Lev \in [Conn -> Level]
  BY LevFrame, LevType
<1> DEFINE L2 == Lev'
<1>2. \A d \in Siblings(q) : L2[d] = Lev[d] /\ d # c
  BY <1>1 DEF Siblings
<1> HIDE DEF L2
<1>3. ReadersIn(L2, q) = ReadersIn(Lev, q)
  BY <1>2 DEF ReadersIn
<1>4. os'[q] = os[q] /\ mutex'[q] = mutex[q]
  BY DEF Frame
<1>5. \A d \in Siblings(q) : want'[d] = want[d] /\ (pc'[d] = pc[d] \/ (pc[d] = "asleep" /\ pc'[d] = "woken"))
  BY <1>2 DEF Frame, Disturbs, Siblings
<1>6. mutex[q] # NoConn => mutex[q] \in Siblings(q) /\ pc'[mutex[q]] = pc[mutex[q]]
  <2>1. mutex[q] \in Conn \cup {NoConn} /\ "asleep" \notin Inside
    BY DEF TypeOK, Inside
  <2> QED
    BY <1>5, <2>1 DEF MutexOK, Siblings
<1> QED
  BY <1>2, <1>3, <1>4, <1>5, <1>6 DEF SystemOK, L2

\* What a step of a handle has to establish of its own process.
LEMMA StepPreserves ==
  ASSUME LockInv, TypeOK', MutexOK', NEW c \in Conn, Frame(c),
         NobodyElseInside(c) \/ (ilock' = ilock /\ os' = os),
         CallOK(c)', InodeOK(Home[c])', SystemOK(Home[c])', NoConflict'
  PROVE  LockInv'
<1>1. ASSUME NEW d \in Conn PROVE CallOK(d)'
  BY OthersCall DEF LockInv
<1>2. ASSUME NEW q \in Proc PROVE InodeOK(q)' /\ SystemOK(q)'
  BY OthersInode, OthersSystem DEF LockInv
<1> QED
  BY <1>1, <1>2 DEF LockInv

-----------------------------------------------------------------------------
(* System calls. *)

\* The locks of process p change at the byte b to m.
OneByte(p, b, m) ==
  /\ os' \in [Proc -> [Byte -> Mode]]
  /\ os'[p][b] = m
  /\ \A a \in Byte \ {b} : os'[p][a] = os[p][a]
  /\ \A q \in Proc \ {p} : os'[q] = os[q]

LEMMA LockGranted ==
  ASSUME TypeOK, NoConflict, NEW p \in Proc, NEW b \in Byte, NEW m \in Mode,
         m = "write" => CanWrite(p, b), m = "read" => CanRead(p, b), OneByte(p, b, m)
  PROVE  NoConflict'
<1>1. os \in [Proc -> [Byte -> Mode]]
  BY DEF TypeOK
<1>2. os'[p][b] = m /\ \A a \in Byte \ {b} : os'[p][a] = os[p][a]
  BY DEF OneByte
<1>3. \A q \in Proc \ {p} : os'[q] = os[q]
  BY DEF OneByte
<1>4. ASSUME NEW q \in Proc, NEW r \in Proc, q # r, NEW a \in Byte, os'[q][a] = "write"
      PROVE  os'[r][a] = "none"
  <2>1. CASE q = p
    BY <1>2, <1>3, <1>4, <2>1 DEF NoConflict, CanWrite
  <2>2. CASE r = p
    <3>1. CASE a = b
      BY <1>2, <1>3, <1>4, <2>2, <3>1 DEF NoConflict, CanWrite, CanRead, Mode
    <3>2. CASE a # b
      BY <1>2, <1>3, <1>4, <2>2, <3>2 DEF NoConflict
    <3> QED
      BY <3>1, <3>2
  <2>3. CASE q # p /\ r # p
    BY <1>3, <1>4, <2>3 DEF NoConflict
  <2> QED
    BY <2>1, <2>2, <2>3
<1> QED
  BY <1>4 DEF NoConflict

\* Process p gives locks back, or weakens them.
GivesBack(p) ==
  /\ os' \in [Proc -> [Byte -> Mode]]
  /\ \A b \in Byte : \/ os'[p][b] \in {"none", os[p][b]}
                     \/ os'[p][b] = "read" /\ os[p][b] = "write"
  /\ \A q \in Proc \ {p} : os'[q] = os[q]

LEMMA LockDropped ==
  ASSUME TypeOK, NoConflict, NEW p \in Proc, GivesBack(p)
  PROVE  NoConflict'
<1> SUFFICES ASSUME NEW q \in Proc, NEW r \in Proc, q # r, NEW a \in Byte, os'[q][a] = "write"
             PROVE  os'[r][a] = "none"
  BY DEF NoConflict
<1>1. os[q][a] = "write" /\ os[r][a] = "none"
  BY DEF NoConflict, GivesBack
<1> QED
  BY <1>1 DEF GivesBack

LEMMA NoSystemCall ==
  ASSUME TypeOK, NoConflict, os' = os
  PROVE  NoConflict' /\ os' \in [Proc -> [Byte -> Mode]]
BY DEF TypeOK, NoConflict

-----------------------------------------------------------------------------
(* The inode of the process after a step of one of its handles. *)

LEMMA InodeSame ==
  ASSUME TypeOK, NEW c \in Conn, InodeOK(Home[c]), Lev' = Lev,
         ilock'[Home[c]] = ilock[Home[c]], nShared'[Home[c]] = nShared[Home[c]],
         nLock'[Home[c]] = nLock[Home[c]]
  PROVE  InodeOK(Home[c])'
<1> DEFINE L2 == Lev'
<1>1. L2 = Lev
  OBVIOUS
<1> HIDE DEF L2
<1> QED
  BY <1>1 DEF InodeOK, L2

\* A handle at the level of the inode takes both to another level.
LEMMA InodeRaise ==
  ASSUME TypeOK, NEW c \in Conn, InodeOK(Home[c]), NEW l \in Level, l # NO_LOCK,
         Lev[c] # NO_LOCK, Lev[c] = ilock[Home[c]],
         l = EXCLUSIVE_LOCK => ReadersIn(Lev, Home[c]) = {c},
         Lev' = [Lev EXCEPT ![c] = l], ilock'[Home[c]] = l,
         nShared'[Home[c]] = nShared[Home[c]], nLock'[Home[c]] = nLock[Home[c]]
  PROVE  InodeOK(Home[c])'
<1> DEFINE L2 == Lev'
           p == Home[c]
<1>1. Lev \in [Conn -> Level] /\ p \in Proc
  BY LevType
<1>2. ReadersIn(L2, p) = ReadersIn(Lev, p)
  <2>1. Differ(Lev, L2, c) /\ L2[c] = l
    BY <1>1 DEF Differ, Level, NO_LOCK, EXCLUSIVE_LOCK
  <2> HIDE DEF L2
  <2> QED
    BY <1>1, <2>1, ReaderStays
<1>3. L2[c] = l /\ \A d \in Conn \ {c} : L2[d] = Lev[d]
  BY <1>1
<1>4. c \in Siblings(p) /\ c \in ReadersIn(Lev, p)
  BY <1>1 DEF Siblings, ReadersIn, Level, NO_LOCK, SHARED_LOCK, EXCLUSIVE_LOCK
<1> HIDE DEF L2
<1>5. \A d \in Siblings(p) \ {c} : Lev[d] <= SHARED_LOCK
  <2>1. CASE Lev[c] >= RESERVED_LOCK
    BY <1>4, <2>1 DEF InodeOK
  <2>2. CASE ~(Lev[c] >= RESERVED_LOCK)
    <3>1. \A d \in Siblings(p) : ~(Lev[d] >= RESERVED_LOCK)
      BY <2>2 DEF InodeOK
    <3> QED
      BY <1>1, <3>1 DEF Siblings, Level, NO_LOCK, SHARED_LOCK, RESERVED_LOCK, EXCLUSIVE_LOCK
  <2> QED
    BY <2>1, <2>2
<1>6. \A d \in Siblings(p) \ {c} : ~(L2[d] >= RESERVED_LOCK)
  BY <1>1, <1>3, <1>5 DEF Siblings, Level, NO_LOCK, SHARED_LOCK, RESERVED_LOCK, EXCLUSIVE_LOCK
<1>7. ASSUME NEW d \in Siblings(p), L2[d] >= RESERVED_LOCK
      PROVE  /\ ilock'[p] = L2[d]
             /\ \A e \in Siblings(p) \ {d} : L2[e] <= SHARED_LOCK
             /\ L2[d] = EXCLUSIVE_LOCK => ReadersIn(L2, p) = {d}
  <2>1. d = c
    BY <1>6, <1>7
  <2>2. \A e \in Siblings(p) \ {c} : L2[e] <= SHARED_LOCK
    BY <1>3, <1>5 DEF Siblings
  <2> QED
    BY <1>2, <1>3, <2>1, <2>2
<1>8. (ilock'[p] = NO_LOCK) = (ReadersIn(L2, p) = {})
  BY <1>2, <1>4
<1> QED
  BY <1>2, <1>7, <1>8 DEF InodeOK, L2

\* A handle joins the readers.
LEMMA InodeShare ==
  ASSUME TypeOK, NEW c \in Conn, InodeOK(Home[c]), Lev[c] = NO_LOCK,
         \/ ilock[Home[c]] = NO_LOCK /\ ilock'[Home[c]] = SHARED_LOCK
         \/ ilock[Home[c]] \in {SHARED_LOCK, RESERVED_LOCK} /\ ilock'[Home[c]] = ilock[Home[c]],
         Lev' = [Lev EXCEPT ![c] = SHARED_LOCK],
         nShared'[Home[c]] = nShared[Home[c]] + 1, nLock'[Home[c]] = nLock[Home[c]] + 1
  PROVE  InodeOK(Home[c])'
<1> DEFINE L2 == Lev'
           p == Home[c]
<1>1. Lev \in [Conn -> Level] /\ p \in Proc /\ SHARED_LOCK \in Level /\ SHARED_LOCK # NO_LOCK
  BY LevType DEF Level, NO_LOCK, SHARED_LOCK, EXCLUSIVE_LOCK
<1>2. /\ ReadersIn(L2, p) = ReadersIn(Lev, p) \cup {c}
      /\ Cardinality(ReadersIn(L2, p)) = Cardinality(ReadersIn(Lev, p)) + 1
  <2>1. Differ(Lev, L2, c) /\ L2[c] = SHARED_LOCK
    BY <1>1 DEF Differ, Level, NO_LOCK, EXCLUSIVE_LOCK
  <2> HIDE DEF L2
  <2> QED
    BY <1>1, <2>1, ReaderComes
<1>3. L2[c] = SHARED_LOCK /\ \A d \in Conn \ {c} : L2[d] = Lev[d]
  BY <1>1
<1> HIDE DEF L2
<1>4. nShared'[p] = Cardinality(ReadersIn(L2, p)) /\ nLock'[p] = nShared'[p]
  BY <1>2 DEF InodeOK
<1>5. (ilock'[p] = NO_LOCK) = (ReadersIn(L2, p) = {})
  BY <1>2 DEF NO_LOCK, SHARED_LOCK, RESERVED_LOCK
<1>6. ASSUME NEW d \in Siblings(p), L2[d] >= RESERVED_LOCK
      PROVE  /\ ilock'[p] = L2[d]
             /\ \A e \in Siblings(p) \ {d} : L2[e] <= SHARED_LOCK
             /\ L2[d] = EXCLUSIVE_LOCK => ReadersIn(L2, p) = {d}
  <2>1. d # c /\ Lev[d] = L2[d]
    BY <1>3, <1>6 DEF Siblings, SHARED_LOCK, RESERVED_LOCK
  <2>2. ilock[p] = Lev[d] /\ \A e \in Siblings(p) \ {d} : Lev[e] <= SHARED_LOCK
    BY <1>6, <2>1 DEF InodeOK
  <2>3. \A e \in Siblings(p) \ {d} : L2[e] <= SHARED_LOCK
    BY <1>3, <2>2 DEF Siblings, SHARED_LOCK
  <2>4. ilock[p] # NO_LOCK
    BY <1>6, <2>1, <2>2 DEF NO_LOCK, RESERVED_LOCK
  <2>5. L2[d] # EXCLUSIVE_LOCK
    BY <2>1, <2>2, <2>4 DEF SHARED_LOCK, RESERVED_LOCK, EXCLUSIVE_LOCK
  <2> QED
    BY <2>1, <2>2, <2>3, <2>4, <2>5
<1> QED
  BY <1>4, <1>5, <1>6 DEF InodeOK, L2

\* A reader goes.
LEMMA InodeLeave ==
  ASSUME TypeOK, NEW c \in Conn, InodeOK(Home[c]), Lev[c] = SHARED_LOCK,
         Lev' = [Lev EXCEPT ![c] = NO_LOCK],
         nShared'[Home[c]] = nShared[Home[c]] - 1, nLock'[Home[c]] = nLock[Home[c]] - 1,
         ilock'[Home[c]] = IF nShared[Home[c]] - 1 = 0 THEN NO_LOCK ELSE ilock[Home[c]]
  PROVE  /\ InodeOK(Home[c])'
         /\ (nShared[Home[c]] - 1 = 0) = (ReadersIn(Lev', Home[c]) = {})
         /\ nShared[Home[c]] > 0
<1> DEFINE L2 == Lev'
           p == Home[c]
<1>1. Lev \in [Conn -> Level] /\ p \in Proc /\ Lev[c] # NO_LOCK
  BY LevType DEF NO_LOCK, SHARED_LOCK
<1>2. /\ ReadersIn(L2, p) = ReadersIn(Lev, p) \ {c}
      /\ c \in ReadersIn(Lev, p)
      /\ Cardinality(ReadersIn(L2, p)) = Cardinality(ReadersIn(Lev, p)) - 1
  <2>1. Differ(Lev, L2, c) /\ L2[c] = NO_LOCK
    BY <1>1 DEF Differ, Level, NO_LOCK, EXCLUSIVE_LOCK
  <2> HIDE DEF L2
  <2> QED
    BY <1>1, <2>1, ReaderLeaves
<1>3. L2[c] = NO_LOCK /\ \A d \in Conn \ {c} : L2[d] = Lev[d]
  BY <1>1
<1> HIDE DEF L2
<1>4. /\ nShared[p] - 1 = Cardinality(ReadersIn(L2, p))
      /\ nShared'[p] = Cardinality(ReadersIn(L2, p)) /\ nLock'[p] = nShared'[p]
  BY <1>2 DEF InodeOK
<1>5. /\ (nShared[p] - 1 = 0) = (ReadersIn(L2, p) = {})
      /\ Cardinality(ReadersIn(L2, p)) \in Nat
  <2>1. \A lev : /\ Cardinality(ReadersIn(lev, p)) \in Nat
                 /\ Cardinality(ReadersIn(lev, p)) = 0 <=> ReadersIn(lev, p) = {}
    BY <1>1, ReadersFinite
  <2> QED
    BY <1>4, <2>1
<1>6. nShared[p] > 0
  BY <1>4, <1>5 DEF TypeOK
<1>7. ilock[p] # NO_LOCK
  BY <1>2 DEF InodeOK
<1>8. (ilock'[p] = NO_LOCK) = (ReadersIn(L2, p) = {})
  BY <1>5, <1>7
<1>9. ASSUME NEW d \in Siblings(p), L2[d] >= RESERVED_LOCK
      PROVE  /\ ilock'[p] = L2[d]
             /\ \A e \in Siblings(p) \ {d} : L2[e] <= SHARED_LOCK
             /\ L2[d] = EXCLUSIVE_LOCK => ReadersIn(L2, p) = {d}
  <2>1. d # c /\ Lev[d] = L2[d] /\ d \in Conn
    BY <1>3, <1>9 DEF Siblings, NO_LOCK, RESERVED_LOCK
  <2>2. /\ ilock[p] = Lev[d] /\ \A e \in Siblings(p) \ {d} : Lev[e] <= SHARED_LOCK
        /\ Lev[d] = EXCLUSIVE_LOCK => ReadersIn(Lev, p) = {d}
    BY <1>9, <2>1 DEF InodeOK
  <2>3. \A e \in Siblings(p) \ {d} : L2[e] <= SHARED_LOCK
    BY <1>3, <2>2 DEF Siblings, NO_LOCK, SHARED_LOCK
  <2>4. d \in ReadersIn(L2, p)
    BY <1>1, <1>9, <2>1 DEF ReadersIn, Level, SHARED_LOCK, RESERVED_LOCK, NO_LOCK, EXCLUSIVE_LOCK
  <2>5. ilock'[p] = ilock[p]
    BY <1>5, <2>4
  <2>6. L2[d] # EXCLUSIVE_LOCK
    BY <1>2, <2>1, <2>2
  <2> QED
    BY <2>1, <2>2, <2>3, <2>5, <2>6
<1> QED
  BY <1>4, <1>5, <1>6, <1>8, <1>9 DEF InodeOK, L2

LEMMA LevelOrder ==
  /\ NO_LOCK = 0 /\ SHARED_LOCK = 1 /\ RESERVED_LOCK = 2 /\ PENDING_LOCK = 3
  /\ EXCLUSIVE_LOCK = 4 /\ Level = 0 .. 4
BY DEF NO_LOCK, SHARED_LOCK, RESERVED_LOCK, PENDING_LOCK, EXCLUSIVE_LOCK, Level

LEMMA Places ==
  /\ Inside \cap Outside = {}
  /\ {"pending", "shared", "got", "refused", "exclusive", "downgrade", "bytes", "last"} = Inside
  /\ {"closed", "idle", "asleep", "woken", "unlocked"} = Outside
BY DEF Inside, Outside

\* A handle moves to x, its call to l.
LEMMA Moves ==
  ASSUME TypeOK, NEW c \in Conn, NEW x \in Inside \cup Outside, pc' = [pc EXCEPT ![c] = x]
  PROVE  pc' \in [Conn -> Inside \cup Outside] /\ pc'[c] = x /\ Disturbs(c)
<1>1. pc \in [Conn -> Inside \cup Outside]
  BY DEF TypeOK
<1> QED
  BY <1>1 DEF Disturbs

LEMMA Wants ==
  ASSUME TypeOK, NEW c \in Conn, NEW l \in Level, want' = [want EXCEPT ![c] = l]
  PROVE  want' \in [Conn -> Level] /\ want'[c] = l /\ \A d \in Conn \ {c} : want'[d] = want[d]
BY DEF TypeOK

LEMMA Frees ==
  ASSUME TypeOK, NEW c \in Conn, NEW x \in {c, NoConn}, mutex' = [mutex EXCEPT ![Home[c]] = x]
  PROVE  /\ mutex' \in [Proc -> Conn \cup {NoConn}] /\ mutex'[Home[c]] = x
         /\ \A q \in Proc \ {Home[c]} : mutex'[q] = mutex[q]
BY DEF TypeOK

LEMMA Calls ==
  ASSUME TypeOK, NEW c \in Conn, NEW b \in Byte, NEW m \in Mode, os' = [os EXCEPT ![Home[c]][b] = m]
  PROVE  /\ os'[Home[c]][b] = m
         /\ \A a \in Byte \ {b} : os'[Home[c]][a] = os[Home[c]][a]
         /\ \A q \in Proc \ {Home[c]} : os'[q] = os[q]
<1>1. os \in [Proc -> [Byte -> Mode]] /\ Home[c] \in Proc
  BY DEF TypeOK
<1> QED
  BY <1>1

-----------------------------------------------------------------------------
(* The steps inside the mutex, one lemma each. *)

\* A step that leaves the levels and the inode alone and touches at most the
\* pending byte, by a handle that is neither lowering nor has just got the range.
LEMMA SystemPending ==
  ASSUME LockInv, TypeOK', NEW c \in Conn, NobodyElseInside(c), Frame(c), Lev' = Lev,
         \A a \in {"range", "reserved"} : os'[Home[c]][a] = os[Home[c]][a],
         ilock[Home[c]] >= PENDING_LOCK => os'[Home[c]]["pending"] = os[Home[c]]["pending"],
         pc[c] \notin {"got", "bytes"}, pc'[c] \notin {"got", "bytes"}
  PROVE  SystemOK(Home[c])'
<1> DEFINE p == Home[c]
           L2 == Lev'
<1>1. /\ TypeOK /\ MutexOK /\ InodeOK(p) /\ SystemOK(p) /\ p \in Proc /\ L2 = Lev
  BY DEF LockInv
<1> HIDE DEF L2
<1>2. \A d \in Siblings(p) : pc[d] # "got" /\ pc[d] # "bytes" /\ pc'[d] # "got" /\ pc'[d] # "bytes"
  BY Places DEF NobodyElseInside, Frame, Disturbs, Siblings
<1>3. mutex[p] # NoConn => pc[mutex[p]] # "got"
  BY <1>1, <1>2 DEF MutexOK, Siblings, TypeOK
<1>4. (\E d \in Siblings(p) : Lev[d] >= PENDING_LOCK) => os'[p]["pending"] = "write"
  <2>1. SUFFICES ASSUME NEW d \in Siblings(p), Lev[d] >= PENDING_LOCK
                 PROVE  os'[p]["pending"] = "write"
    OBVIOUS
  <2>2. ilock[p] = Lev[d]
    BY <1>1, <2>1, LevelOrder, LevType DEF InodeOK, Siblings
  <2> QED
    BY <1>1, <2>1, <2>2 DEF SystemOK
<1> QED
  BY <1>1, <1>2, <1>3, <1>4 DEF SystemOK, L2

LEMMA LockPendingByteStep ==
  ASSUME LockInv, NEW c \in Conn, LockPendingByte(c)
  PROVE  LockInv' /\ Frame(c)
<1> DEFINE p == Home[c]
<1>1. /\ TypeOK /\ MutexOK /\ NoConflict /\ CallOK(c) /\ InodeOK(p) /\ SystemOK(p)
      /\ p \in Proc /\ pc[c] = "pending" /\ pc[c] \in Inside /\ mutex[p] = c
  BY DEF LockInv, MutexOK, Inside, LockPendingByte
<1>2. NobodyElseInside(c)
  BY <1>1, NobodyElse
<1>3. UNCHANGED <<eFileLock, ilock, nShared, nLock, queue>>
  BY DEF LockPendingByte, inodeVars
<1>4. /\ want[c] \in {SHARED_LOCK, EXCLUSIVE_LOCK} /\ eFileLock[c] = ilock[p]
      /\ want[c] = SHARED_LOCK <=> eFileLock[c] = NO_LOCK
      /\ eFileLock[c] < PENDING_LOCK
  BY <1>1 DEF CallOK
<1>5. CASE /\ os' = [os EXCEPT ![p]["pending"] = IF want[c] = SHARED_LOCK THEN "read" ELSE "write"]
           /\ IF want[c] = SHARED_LOCK THEN CanRead(p, "pending") ELSE CanWrite(p, "pending")
           /\ pc' = [pc EXCEPT ![c] = IF want[c] = SHARED_LOCK THEN "shared" ELSE "exclusive"]
           /\ UNCHANGED <<mutex, want>>
  <2> DEFINE m == IF want[c] = SHARED_LOCK THEN "read" ELSE "write"
             x == IF want[c] = SHARED_LOCK THEN "shared" ELSE "exclusive"
  <2>1. m \in Mode /\ "pending" \in Byte /\ x \in Inside /\ x \in Inside \cup Outside
    BY DEF Mode, Byte, Inside
  <2>2. OneByte(p, "pending", m)
    <3>1. os \in [Proc -> [Byte -> Mode]] /\ os' = [os EXCEPT ![p]["pending"] = m]
      BY <1>1, <1>5 DEF TypeOK
    <3> QED
      BY <1>1, <2>1, <3>1 DEF OneByte
  <2>3. NoConflict'
    BY <1>1, <1>5, <2>1, <2>2, LockGranted
  <2>4. pc' \in [Conn -> Inside \cup Outside] /\ pc'[c] = x /\ Disturbs(c)
    BY <1>1, <1>5, <2>1, Moves
  <2>5. TypeOK'
    BY <1>1, <1>3, <1>5, <2>2, <2>4 DEF TypeOK, OneByte
  <2>6. Frame(c)
    BY <1>3, <1>5, <2>2, <2>4 DEF Frame, OneByte
  <2>7. MutexOK'
    BY <1>1, <1>2, <1>5, <2>1, <2>4, <2>6, MutexHeld DEF TypeOK
  <2>8. CallOK(c)'
    BY <1>1, <1>3, <1>4, <1>5, <2>2, <2>4, LevelOrder DEF CallOK, TypeOK, OneByte
  <2>9. Lev' = Lev
    <3>1. Lev'[c] = Lev[c]
      BY <1>1, <1>3, <2>4 DEF Lev
    <3> QED
      BY <1>1, <2>5, <2>6, <3>1, LevFrame, LevType
  <2>10. InodeOK(p)'
    BY <1>1, <1>3, <2>9, InodeSame
  <2>11. SystemOK(p)'
    <3>1. ~(ilock[p] >= PENDING_LOCK)
      <4>1. ilock[p] \in Level
        BY <1>1 DEF TypeOK
      <4> QED
        BY <1>4, <4>1, LevelOrder
    <3> QED
      BY <1>1, <1>2, <2>2, <2>4, <2>5, <2>6, <2>9, <3>1, SystemPending DEF Byte, OneByte
  <2> QED
    BY <1>2, <2>3, <2>5, <2>6, <2>7, <2>8, <2>10, <2>11, StepPreserves
<1>6. CASE /\ os' = os
           /\ pc' = [pc EXCEPT ![c] = "idle"]
           /\ want' = [want EXCEPT ![c] = NO_LOCK]
           /\ mutex' = [mutex EXCEPT ![p] = NoConn]
  <2>1. "idle" \in Outside /\ "idle" \notin Inside /\ NO_LOCK \in Level
    BY Places, LevelOrder
  <2>2. NoConflict' /\ os' \in [Proc -> [Byte -> Mode]]
    BY <1>1, <1>6, NoSystemCall
  <2>3. pc' \in [Conn -> Inside \cup Outside] /\ pc'[c] = "idle" /\ Disturbs(c)
    BY <1>1, <1>6, <2>1, Moves
  <2>4. want' \in [Conn -> Level] /\ \A d \in Conn \ {c} : want'[d] = want[d]
    BY <1>1, <1>6, <2>1, Wants
  <2>5. /\ mutex' \in [Proc -> Conn \cup {NoConn}]
        /\ \A q \in Proc \ {p} : mutex'[q] = mutex[q]
    BY <1>1, <1>6, Frees
  <2>6. TypeOK'
    BY <1>1, <1>3, <2>2, <2>3, <2>4, <2>5 DEF TypeOK
  <2>7. Frame(c)
    BY <1>3, <1>6, <2>3, <2>4, <2>5 DEF Frame
  <2>8. MutexOK'
    BY <1>1, <1>2, <1>6, <2>1, <2>3, <2>7, MutexLeft
  <2>9. CallOK(c)'
    BY <2>3 DEF CallOK
  <2>10. Lev' = Lev
    <3>1. Lev'[c] = Lev[c]
      BY <1>1, <1>3, <2>3 DEF Lev
    <3> QED
      BY <1>1, <2>6, <2>7, <3>1, LevFrame, LevType
  <2>11. InodeOK(p)'
    BY <1>1, <1>3, <2>10, InodeSame
  <2>12. SystemOK(p)'
    BY <1>1, <1>2, <1>6, <2>3, <2>6, <2>7, <2>10, SystemPending
  <2> QED
    BY <1>2, <2>2, <2>6, <2>7, <2>8, <2>9, <2>11, <2>12, StepPreserves
<1> QED
  BY <1>5, <1>6 DEF LockPendingByte

\* Without readers nobody relies on the system's locks.
LEMMA SystemNoReaders ==
  ASSUME LockInv, TypeOK', NEW c \in Conn, NobodyElseInside(c), Frame(c),
         ReadersIn(Lev', Home[c]) = {},
         \/ pc'[c] # "got" /\ os'[Home[c]]["range"] = "none"
         \/ pc'[c] = "got" /\ os'[Home[c]]["range"] # "none" /\ mutex'[Home[c]] = c
  PROVE  SystemOK(Home[c])'
<1> DEFINE p == Home[c]
           L2 == Lev'
<1>1. ASSUME NEW d \in Siblings(p) PROVE ~(L2[d] >= SHARED_LOCK) /\ L2[d] \in Level
  <2>1. (TypeOK => Lev \in [Conn -> Level])'
    BY LevType, PTL
  <2> QED
    BY <2>1 DEF ReadersIn, Siblings
<1>2. ReadersIn(L2, p) = {}
  OBVIOUS
<1> HIDE DEF L2
<1>3. \A d \in Siblings(p) : pc'[d] = "got" => d = c
  BY Places DEF NobodyElseInside, Frame, Disturbs, Siblings
<1>4. c # NoConn
  OBVIOUS
<1> QED
  BY <1>1, <1>2, <1>3, <1>4, LevelOrder DEF SystemOK, L2

LEMMA ReadLockRangeStep ==
  ASSUME LockInv, NEW c \in Conn, ReadLockRange(c)
  PROVE  LockInv' /\ Frame(c)
<1> DEFINE p == Home[c]
<1>1. /\ TypeOK /\ MutexOK /\ NoConflict /\ CallOK(c) /\ InodeOK(p) /\ SystemOK(p)
      /\ p \in Proc /\ pc[c] = "shared" /\ pc[c] \in Inside /\ mutex[p] = c
  BY DEF LockInv, MutexOK, Inside, ReadLockRange
<1>2. NobodyElseInside(c)
  BY <1>1, NobodyElse
<1>3. UNCHANGED <<eFileLock, ilock, nShared, nLock, mutex, want, queue>>
  BY DEF ReadLockRange, inodeVars
<1>4. /\ want[c] = SHARED_LOCK /\ eFileLock[c] = NO_LOCK /\ ilock[p] = NO_LOCK
      /\ os[p]["pending"] = "read" /\ ReadersIn(Lev, p) = {} /\ os[p]["range"] = "none"
  BY <1>1 DEF CallOK, InodeOK, SystemOK
<1>5. /\ NoConflict' /\ os' \in [Proc -> [Byte -> Mode]]
      /\ os'[p]["pending"] = "read" /\ \A q \in Proc \ {p} : os'[q] = os[q]
      /\ \/ pc' = [pc EXCEPT ![c] = "got"] /\ os'[p]["range"] = "read"
         \/ pc' = [pc EXCEPT ![c] = "refused"] /\ os'[p]["range"] = "none"
  <2>1. CASE CanRead(p, "range") /\ os' = [os EXCEPT ![p]["range"] = "read"]
             /\ pc' = [pc EXCEPT ![c] = "got"]
    <3>1. "range" \in Byte /\ "pending" \in Byte /\ "read" \in Mode
      BY DEF Byte, Mode
    <3>2. os \in [Proc -> [Byte -> Mode]]
      BY <1>1 DEF TypeOK
    <3>3. OneByte(p, "range", "read")
      BY <1>1, <2>1, <3>1, <3>2 DEF OneByte
    <3>4. NoConflict'
      BY <1>1, <2>1, <3>1, <3>3, LockGranted
    <3> QED
      BY <1>4, <2>1, <3>1, <3>3, <3>4 DEF OneByte
  <2>2. CASE os' = os /\ pc' = [pc EXCEPT ![c] = "refused"]
    BY <1>1, <1>4, <2>2, NoSystemCall
  <2> QED
    BY <2>1, <2>2 DEF ReadLockRange
<1>6. pc' \in [Conn -> Inside \cup Outside] /\ pc'[c] \in {"got", "refused"} /\ Disturbs(c)
  BY <1>1, <1>5, Moves, Places
<1>7. TypeOK'
  BY <1>1, <1>3, <1>5, <1>6 DEF TypeOK
<1>8. Frame(c)
  BY <1>3, <1>5, <1>6 DEF Frame
<1>9. MutexOK'
  <2>1. mutex' = [mutex EXCEPT ![p] = c] /\ pc'[c] \in Inside
    BY <1>1, <1>3, <1>6, Places DEF TypeOK
  <2> QED
    BY <1>1, <1>2, <1>8, <2>1, MutexHeld
<1>10. CallOK(c)'
  BY <1>3, <1>4, <1>5, <1>6 DEF CallOK
<1>11. Lev' = Lev
  <2>1. Lev'[c] = Lev[c]
    BY <1>1, <1>3, <1>6 DEF Lev
  <2> QED
    BY <1>1, <1>7, <1>8, <2>1, LevFrame, LevType
<1>12. InodeOK(p)'
  BY <1>1, <1>3, <1>11, InodeSame
<1>13. SystemOK(p)'
  <2>1. \/ pc'[c] # "got" /\ os'[p]["range"] = "none"
        \/ pc'[c] = "got" /\ os'[p]["range"] # "none" /\ mutex'[p] = c
    BY <1>1, <1>3, <1>5 DEF TypeOK
  <2>2. ReadersIn(Lev', p) = {}
    BY <1>4, <1>11
  <2> QED
    BY <1>2, <1>7, <1>8, <2>1, <2>2, SystemNoReaders
<1> QED
  BY <1>2, <1>5, <1>7, <1>8, <1>9, <1>10, <1>12, <1>13, StepPreserves

LEMMA DropPendingByteStep ==
  ASSUME LockInv, NEW c \in Conn, DropPendingByte(c)
  PROVE  LockInv' /\ Frame(c)
<1> DEFINE p == Home[c]
<1>1. /\ TypeOK /\ MutexOK /\ NoConflict /\ CallOK(c) /\ InodeOK(p) /\ SystemOK(p)
      /\ p \in Proc /\ pc[c] \in {"got", "refused"} /\ pc[c] \in Inside /\ mutex[p] = c
  BY DEF LockInv, MutexOK, Inside, DropPendingByte
<1>2. NobodyElseInside(c)
  BY <1>1, NobodyElse
<1>3. /\ os' = [os EXCEPT ![p]["pending"] = "none"]
      /\ mutex' = [mutex EXCEPT ![p] = NoConn]
      /\ pc' = [pc EXCEPT ![c] = "idle"]
      /\ want' = [want EXCEPT ![c] = NO_LOCK]
      /\ queue' = queue
  BY DEF DropPendingByte
<1>4. /\ eFileLock[c] = NO_LOCK /\ ilock[p] = NO_LOCK /\ ReadersIn(Lev, p) = {} /\ nShared[p] = 0
      /\ pc[c] = "got" => os[p]["range"] # "none"
      /\ pc[c] # "got" => os[p]["range"] = "none"
  <2>1. ReadersIn(Lev, p) = {} /\ eFileLock[c] = NO_LOCK /\ ilock[p] = NO_LOCK
    BY <1>1 DEF CallOK, InodeOK
  <2>2. nShared[p] = 0
    BY <1>1, <2>1, FS_EmptySet DEF InodeOK
  <2>3. pc[c] = "got" => os[p]["range"] # "none"
    BY <1>1 DEF SystemOK, Siblings
  <2>4. pc[c] # "got" => os[p]["range"] = "none"
    BY <1>1, <2>1 DEF SystemOK
  <2> QED
    BY <2>1, <2>2, <2>3, <2>4
<1>5. /\ NoConflict' /\ os' \in [Proc -> [Byte -> Mode]]
      /\ os'[p]["range"] = os[p]["range"] /\ \A q \in Proc \ {p} : os'[q] = os[q]
  <2>1. os \in [Proc -> [Byte -> Mode]] /\ {"range", "pending"} \subseteq Byte /\ "none" \in Mode
    BY <1>1 DEF TypeOK, Byte, Mode
  <2>2. OneByte(p, "pending", "none")
    BY <1>1, <1>3, <2>1 DEF OneByte
  <2>3. NoConflict'
    BY <1>1, <2>1, <2>2, LockGranted
  <2> QED
    BY <2>1, <2>2, <2>3 DEF OneByte
<1>6. "idle" \in Outside /\ "idle" \notin Inside /\ NO_LOCK \in Level
  BY Places, LevelOrder
<1>7. pc' \in [Conn -> Inside \cup Outside] /\ pc'[c] = "idle" /\ Disturbs(c)
  BY <1>1, <1>3, <1>6, Moves
<1>8. want' \in [Conn -> Level] /\ \A d \in Conn \ {c} : want'[d] = want[d]
  BY <1>1, <1>3, <1>6, Wants
<1>9. mutex' \in [Proc -> Conn \cup {NoConn}] /\ \A q \in Proc \ {p} : mutex'[q] = mutex[q]
  BY <1>1, <1>3, Frees
<1>10. CASE pc[c] = "got"
  <2>1. /\ eFileLock' = [eFileLock EXCEPT ![c] = SHARED_LOCK]
        /\ ilock' = [ilock EXCEPT ![p] = SHARED_LOCK]
        /\ nShared' = [nShared EXCEPT ![p] = 1]
        /\ nLock' = [nLock EXCEPT ![p] = @ + 1]
    BY <1>10 DEF DropPendingByte
  <2>2. /\ eFileLock' \in [Conn -> Level] /\ ilock' \in [Proc -> Level]
        /\ nShared' \in [Proc -> Nat] /\ nLock' \in [Proc -> Nat]
    BY <1>1, <2>1, LevelOrder DEF TypeOK
  <2>3. /\ eFileLock'[c] = SHARED_LOCK /\ ilock'[p] = SHARED_LOCK
        /\ nShared'[p] = nShared[p] + 1 /\ nLock'[p] = nLock[p] + 1
    BY <1>1, <1>4, <2>1 DEF TypeOK
  <2>4. TypeOK'
    BY <1>1, <1>3, <1>5, <1>7, <1>8, <1>9, <2>2 DEF TypeOK
  <2>5. Frame(c)
    BY <1>1, <1>5, <1>7, <1>8, <1>9, <2>1 DEF Frame, TypeOK
  <2>6. MutexOK'
    BY <1>1, <1>2, <1>3, <1>6, <1>7, <2>5, MutexLeft
  <2>7. CallOK(c)'
    BY <1>7 DEF CallOK
  <2>8. Lev[c] = NO_LOCK /\ Lev' = [Lev EXCEPT ![c] = SHARED_LOCK]
    <3>1. Lev'[c] = SHARED_LOCK /\ Lev[c] = NO_LOCK
      BY <1>1, <1>4, <1>7, <2>3 DEF Lev
    <3> QED
      BY <1>1, <2>4, <2>5, <3>1, LevFrame
  <2>9. InodeOK(p)'
    BY <1>1, <1>4, <2>3, <2>8, InodeShare
  <2>10. SystemOK(p)'
    <3> DEFINE L2 == Lev'
    <3>1. L2[c] = SHARED_LOCK /\ \A d \in Conn \ {c} : L2[d] = Lev[d]
      BY <1>1, <2>8, LevType
    <3>2. Lev \in [Conn -> Level]
      BY <1>1, LevType
    <3> HIDE DEF L2
    <3>3. ASSUME NEW d \in Siblings(p) PROVE L2[d] \in {NO_LOCK, SHARED_LOCK} /\ pc'[d] # "got"
      <4>1. d # c => Lev[d] = NO_LOCK /\ pc'[d] # "got"
        BY <1>2, <1>4, <1>7, <3>2, Places, LevelOrder DEF ReadersIn, Siblings, NobodyElseInside, Disturbs
      <4> QED
        BY <1>7, <3>1, <4>1 DEF Siblings
    <3>4. c \in ReadersIn(L2, p)
      BY <3>1, LevelOrder DEF ReadersIn, Siblings
    <3> QED
      BY <1>4, <1>5, <1>10, <3>3, <3>4, LevelOrder DEF SystemOK, L2
  <2> QED
    BY <1>2, <1>5, <2>4, <2>5, <2>6, <2>7, <2>9, <2>10, StepPreserves
<1>11. CASE pc[c] = "refused"
  <2>1. UNCHANGED <<eFileLock, ilock, nShared, nLock>>
    BY <1>11 DEF DropPendingByte, inodeVars
  <2>2. TypeOK'
    BY <1>1, <1>3, <1>5, <1>7, <1>8, <1>9, <2>1 DEF TypeOK
  <2>3. Frame(c)
    BY <1>5, <1>7, <1>8, <1>9, <2>1 DEF Frame
  <2>4. MutexOK'
    BY <1>1, <1>2, <1>3, <1>6, <1>7, <2>3, MutexLeft
  <2>5. CallOK(c)'
    BY <1>7 DEF CallOK
  <2>6. Lev' = Lev
    <3>1. Lev'[c] = Lev[c]
      BY <1>7, <1>11, <2>1 DEF Lev
    <3> QED
      BY <1>1, <2>2, <2>3, <3>1, LevFrame, LevType
  <2>7. InodeOK(p)'
    BY <1>1, <2>1, <2>6, InodeSame
  <2>8. SystemOK(p)'
    <3>1. os'[p]["range"] = "none" /\ pc'[c] # "got"
      BY <1>4, <1>5, <1>7, <1>11
    <3> QED
      BY <1>2, <1>4, <2>2, <2>3, <2>6, <3>1, SystemNoReaders
  <2> QED
    BY <1>2, <1>5, <2>2, <2>3, <2>4, <2>5, <2>7, <2>8, StepPreserves
<1> QED
  BY <1>1, <1>10, <1>11

\* A handle of the inode's level is the only one above SHARED_LOCK.
LEMMA OneAbove ==
  ASSUME TypeOK, NEW p \in Proc, InodeOK(p), NEW c \in Siblings(p), Lev[c] = ilock[p],
         NEW d \in Siblings(p) \ {c}
  PROVE  Lev[d] \in {NO_LOCK, SHARED_LOCK}
<1>1. Lev \in [Conn -> Level] /\ c \in Conn /\ d \in Conn
  BY LevType DEF Siblings
<1>2. ~(Lev[d] >= RESERVED_LOCK)
  <2>1. SUFFICES ASSUME Lev[d] >= RESERVED_LOCK PROVE FALSE
    OBVIOUS
  <2>2. Lev[c] >= RESERVED_LOCK /\ Lev[c] <= SHARED_LOCK
    BY <2>1 DEF InodeOK
  <2> QED
    BY <1>1, <2>2, LevelOrder
<1> QED
  BY <1>1, <1>2, LevelOrder

\* The inode's lock and the system's, when one handle changes its level.
LEMMA SystemRaise ==
  ASSUME LockInv, TypeOK', NEW c \in Conn, NobodyElseInside(c), Frame(c),
         Lev[c] = ilock[Home[c]], NEW l \in Level, l # NO_LOCK,
         Lev' = [Lev EXCEPT ![c] = l], pc'[c] # "got",
         os'[Home[c]]["range"] # "none",
         l = RESERVED_LOCK => os'[Home[c]]["reserved"] = "write",
         l >= PENDING_LOCK => os'[Home[c]]["pending"] = "write",
         l = EXCLUSIVE_LOCK /\ ~(pc'[c] = "bytes" /\ want'[c] = SHARED_LOCK) =>
           os'[Home[c]]["range"] = "write"
  PROVE  SystemOK(Home[c])'
<1> DEFINE p == Home[c]
           L2 == Lev'
<1>1. TypeOK /\ InodeOK(p) /\ p \in Proc /\ c \in Siblings(p)
  BY DEF LockInv, Siblings
<1>2. L2[c] = l /\ \A d \in Conn \ {c} : L2[d] = Lev[d]
  BY <1>1, LevType
<1> HIDE DEF L2
<1>3. ASSUME NEW d \in Siblings(p) \ {c} PROVE L2[d] \in {NO_LOCK, SHARED_LOCK} /\ pc'[d] # "got"
  BY <1>1, <1>2, OneAbove, Places DEF Siblings, NobodyElseInside, Frame, Disturbs
<1>4. c \in ReadersIn(L2, p)
  BY <1>1, <1>2, LevelOrder DEF ReadersIn
<1> QED
  BY <1>2, <1>3, <1>4, LevelOrder DEF SystemOK, L2

\* One reader: whoever counts one is it.
LEMMA OnlyReader ==
  ASSUME TypeOK, NEW c \in Conn, InodeOK(Home[c]), Lev[c] # NO_LOCK, ~(nShared[Home[c]] > 1)
  PROVE  ReadersIn(Lev, Home[c]) = {c}
<1> DEFINE S == ReadersIn(Lev, Home[c])
<1>1. c \in S
  BY LevType, LevelOrder DEF ReadersIn, Siblings
<1>2. IsFiniteSet(S) /\ Cardinality(S) \in Nat /\ Cardinality(S) # 0
  BY <1>1, ReadersFinite
<1>3. Cardinality(S) = 1
  BY <1>2 DEF InodeOK
<1>4. PICK x : S = {x}
  BY <1>2, <1>3, FS_Singleton
<1> QED
  BY <1>1, <1>4

LEMMA WriteLockStep ==
  ASSUME LockInv, NEW c \in Conn, WriteLock(c)
  PROVE  LockInv' /\ Frame(c)
<1> DEFINE p == Home[c]
           crowded == want[c] = EXCLUSIVE_LOCK /\ nShared[p] > 1
           b == IF want[c] = RESERVED_LOCK THEN "reserved" ELSE "range"
<1>1. /\ TypeOK /\ MutexOK /\ NoConflict /\ CallOK(c) /\ InodeOK(p) /\ SystemOK(p)
      /\ p \in Proc /\ pc[c] = "exclusive" /\ pc[c] \in Inside /\ mutex[p] = c
      /\ c \in Siblings(p)
  BY DEF LockInv, MutexOK, Inside, WriteLock, Crowded, Siblings
<1>2. NobodyElseInside(c)
  BY <1>1, NobodyElse
<1>3. want' = [want EXCEPT ![c] = NO_LOCK] /\ nShared' = nShared /\ nLock' = nLock
  BY DEF WriteLock, Crowded
<1>4. /\ eFileLock[c] = ilock[p] /\ Lev[c] = eFileLock[c] /\ Lev[c] # NO_LOCK
      /\ want[c] \in {RESERVED_LOCK, EXCLUSIVE_LOCK}
      /\ want[c] = RESERVED_LOCK => eFileLock[c] = SHARED_LOCK
      /\ want[c] = EXCLUSIVE_LOCK => os[p]["pending"] = "write"
      /\ os[p]["range"] # "none"
  <2>1. Lev[c] = eFileLock[c]
    BY <1>1 DEF Lev
  <2>2. /\ eFileLock[c] = ilock[p] /\ eFileLock[c] # NO_LOCK
        /\ want[c] \in {RESERVED_LOCK, EXCLUSIVE_LOCK}
        /\ want[c] = RESERVED_LOCK => eFileLock[c] = SHARED_LOCK
        /\ want[c] = EXCLUSIVE_LOCK => os[p]["pending"] = "write"
    BY <1>1, LevelOrder DEF CallOK
  <2>3. ReadersIn(Lev, p) # {}
    BY <1>1, <2>2 DEF InodeOK
  <2> QED
    BY <1>1, <2>1, <2>2, <2>3 DEF SystemOK
<1>5. want' \in [Conn -> Level] /\ want'[c] = NO_LOCK /\ \A d \in Conn \ {c} : want'[d] = want[d]
  <2>1. NO_LOCK \in Level
    BY LevelOrder
  <2> QED
    BY <1>1, <1>3, <2>1, Wants
<1>6. /\ mutex' = [mutex EXCEPT ![p] = NoConn] /\ pc' \in [Conn -> Inside \cup Outside]
      /\ pc'[c] \in {"idle", "asleep"} /\ Disturbs(c) /\ queue' \in [Proc -> Seq(Entry)]
  <2>1. CASE crowded
    <3>1. BusyBySibling(c, want[c], "EXCLUSIVE") /\ want[c] \in Level
      BY <1>1, <2>1 DEF WriteLock, Crowded, TypeOK
    <3> QED
      BY <1>1, <3>1, BusyLeaves
  <2>2. CASE ~crowded
    <3>1. mutex' = [mutex EXCEPT ![p] = NoConn] /\ pc' = [pc EXCEPT ![c] = "idle"] /\ queue' = queue
      BY <2>2 DEF WriteLock, Crowded
    <3> QED
      BY <1>1, <3>1, Moves, Places DEF TypeOK
  <2> QED
    BY <2>1, <2>2
<1>7. mutex' \in [Proc -> Conn \cup {NoConn}] /\ \A q \in Proc \ {p} : mutex'[q] = mutex[q]
  BY <1>1, <1>6, Frees
<1>8. /\ pc'[c] \notin Inside /\ pc'[c] # "got" /\ pc'[c] # "bytes" /\ pc'[c] # "unlocked"
      /\ pc'[c] # "last" /\ pc'[c] # "closed"
  BY <1>6, Places
\* The three outcomes: refused without a change, PENDING_LOCK, or the lock.
<1>9. CASE UNCHANGED <<eFileLock, ilock, os>>
  <2>1. TypeOK'
    BY <1>1, <1>3, <1>5, <1>6, <1>7, <1>9 DEF TypeOK
  <2>2. Frame(c)
    BY <1>3, <1>5, <1>6, <1>7, <1>9 DEF Frame
  <2>3. MutexOK'
    BY <1>1, <1>2, <1>6, <1>8, <2>2, MutexLeft
  <2>4. CallOK(c)'
    BY <1>6 DEF CallOK
  <2>5. Lev' = Lev
    <3>1. Lev'[c] = Lev[c]
      BY <1>4, <1>8, <1>9 DEF Lev
    <3> QED
      BY <1>1, <2>1, <2>2, <3>1, LevFrame, LevType
  <2>6. InodeOK(p)'
    BY <1>1, <1>3, <1>9, <2>5, InodeSame
  <2>7. SystemOK(p)'
    BY <1>1, <1>2, <1>8, <1>9, <2>1, <2>2, <2>5, SystemPending
  <2>8. NoConflict'
    BY <1>1, <1>9, NoSystemCall
  <2> QED
    BY <1>2, <2>1, <2>2, <2>3, <2>4, <2>6, <2>7, <2>8, StepPreserves
<1>10. ASSUME NEW l \in {RESERVED_LOCK, PENDING_LOCK, EXCLUSIVE_LOCK},
              eFileLock' = [eFileLock EXCEPT ![c] = l], ilock' = [ilock EXCEPT ![p] = l],
              NoConflict', os' \in [Proc -> [Byte -> Mode]],
              \A q \in Proc \ {p} : os'[q] = os[q],
              os'[p]["range"] # "none",
              l = RESERVED_LOCK => os'[p]["reserved"] = "write",
              l >= PENDING_LOCK => os'[p]["pending"] = "write",
              l = EXCLUSIVE_LOCK => os'[p]["range"] = "write" /\ ~(nShared[p] > 1)
       PROVE  LockInv' /\ Frame(c)
  <2>1. /\ eFileLock' \in [Conn -> Level] /\ ilock' \in [Proc -> Level]
        /\ eFileLock'[c] = l /\ ilock'[p] = l /\ l \in Level /\ l # NO_LOCK
        /\ \A d \in Conn \ {c} : eFileLock'[d] = eFileLock[d]
        /\ \A q \in Proc \ {p} : ilock'[q] = ilock[q]
    BY <1>1, <1>10, LevelOrder DEF TypeOK
  <2>2. TypeOK'
    BY <1>1, <1>3, <1>5, <1>6, <1>7, <1>10, <2>1 DEF TypeOK
  <2>3. Frame(c)
    BY <1>3, <1>5, <1>6, <1>7, <1>10, <2>1 DEF Frame
  <2>4. MutexOK'
    BY <1>1, <1>2, <1>6, <1>8, <2>3, MutexLeft
  <2>5. CallOK(c)'
    BY <1>6 DEF CallOK
  <2>6. Lev' = [Lev EXCEPT ![c] = l]
    <3>1. Lev'[c] = l
      BY <1>8, <2>1 DEF Lev
    <3> QED
      BY <1>1, <2>2, <2>3, <3>1, LevFrame
  <2>7. l = EXCLUSIVE_LOCK => ReadersIn(Lev, p) = {c}
    BY <1>1, <1>4, <1>10, OnlyReader
  <2>8. InodeOK(p)'
    BY <1>1, <1>3, <1>4, <2>1, <2>6, <2>7, InodeRaise
  <2>9. SystemOK(p)'
    BY <1>2, <1>4, <1>8, <1>10, <2>1, <2>2, <2>3, <2>6, SystemRaise
  <2> QED
    BY <1>2, <1>10, <2>2, <2>3, <2>4, <2>5, <2>8, <2>9, StepPreserves
<1>11. CASE /\ eFileLock' = [eFileLock EXCEPT ![c] = PENDING_LOCK]
            /\ ilock' = [ilock EXCEPT ![p] = PENDING_LOCK]
            /\ os' = os /\ want[c] = EXCLUSIVE_LOCK
  <2>1. NoConflict' /\ os' \in [Proc -> [Byte -> Mode]]
    BY <1>1, <1>11, NoSystemCall
  <2> QED
    BY <1>4, <1>10, <1>11, <2>1, LevelOrder
<1>12. CASE /\ ~crowded /\ CanWrite(p, b) /\ os' = [os EXCEPT ![p][b] = "write"]
            /\ eFileLock' = [eFileLock EXCEPT ![c] = want[c]]
            /\ ilock' = [ilock EXCEPT ![p] = want[c]]
  <2>1. os \in [Proc -> [Byte -> Mode]] /\ b \in Byte /\ "write" \in Mode
        /\ {"range", "pending", "reserved"} \subseteq Byte
    BY <1>1 DEF TypeOK, Byte, Mode
  <2> HIDE DEF b
  <2>2. OneByte(p, b, "write")
    BY <1>1, <1>12, <2>1 DEF OneByte
  <2>3. NoConflict'
    BY <1>1, <1>12, <2>1, <2>2, LockGranted
  <2>4. /\ os'[p][b] = "write" /\ \A a \in Byte \ {b} : os'[p][a] = os[p][a]
        /\ os' \in [Proc -> [Byte -> Mode]] /\ \A q \in Proc \ {p} : os'[q] = os[q]
    BY <2>2 DEF OneByte
  <2>5. CASE want[c] = RESERVED_LOCK
    <3>1. os'[p]["reserved"] = "write" /\ os'[p]["range"] # "none"
      BY <1>4, <2>1, <2>4, <2>5 DEF b
    <3> QED
      BY <1>10, <1>12, <2>3, <2>4, <2>5, <3>1, LevelOrder
  <2>6. CASE want[c] = EXCLUSIVE_LOCK
    <3>1. os'[p]["range"] = "write" /\ os'[p]["pending"] = "write"
      BY <1>4, <2>1, <2>4, <2>6, LevelOrder DEF b
    <3> QED
      BY <1>10, <1>12, <2>3, <2>4, <2>6, <3>1, LevelOrder
  <2> QED
    BY <1>4, <2>5, <2>6
<1> QED
  BY <1>9, <1>11, <1>12 DEF WriteLock, Crowded

LEMMA DowngradeRangeStep ==
  ASSUME LockInv, NEW c \in Conn, DowngradeRange(c)
  PROVE  LockInv' /\ Frame(c)
<1> DEFINE p == Home[c]
<1>1. /\ TypeOK /\ MutexOK /\ NoConflict /\ CallOK(c) /\ InodeOK(p) /\ SystemOK(p)
      /\ p \in Proc /\ pc[c] = "downgrade" /\ pc[c] \in Inside /\ mutex[p] = c
      /\ c \in Siblings(p)
  BY DEF LockInv, MutexOK, Inside, DowngradeRange, Siblings
<1>2. NobodyElseInside(c)
  BY <1>1, NobodyElse
<1>3. UNCHANGED <<eFileLock, ilock, nShared, nLock, mutex, want, queue>>
  BY DEF DowngradeRange, inodeVars
<1>4. /\ os' = [os EXCEPT ![p]["range"] = "read"]
      /\ pc' = [pc EXCEPT ![c] = "bytes"]
  BY DEF DowngradeRange
<1>5. /\ Lev[c] = eFileLock[c] /\ Lev[c] \in Level /\ Lev[c] >= RESERVED_LOCK
      /\ Lev[c] # NO_LOCK /\ Lev[c] = ilock[p] /\ want[c] = SHARED_LOCK
      /\ Lev[c] = RESERVED_LOCK => os[p]["reserved"] = "write"
      /\ Lev[c] >= PENDING_LOCK => os[p]["pending"] = "write"
      /\ os[p]["range"] # "none"
  <2>1. eFileLock[c] >= RESERVED_LOCK /\ want[c] = SHARED_LOCK
    BY <1>1 DEF CallOK
  <2>2. Lev[c] = eFileLock[c] /\ Lev[c] \in Level
    BY <1>1, LevType DEF Lev
  <2>3. Lev[c] # NO_LOCK /\ Lev[c] = ilock[p] /\ ReadersIn(Lev, p) # {}
    BY <1>1, <2>1, <2>2, LevelOrder DEF InodeOK, ReadersIn
  <2> QED
    BY <1>1, <2>1, <2>2, <2>3 DEF SystemOK
<1>6. OneByte(p, "range", "read")
  <2>1. os \in [Proc -> [Byte -> Mode]] /\ "range" \in Byte /\ "read" \in Mode
    BY <1>1 DEF TypeOK, Byte, Mode
  <2> QED
    BY <1>1, <1>4, <2>1 DEF OneByte
<1>7. NoConflict'
  <2>1. os[p]["range"] \in {"read", "write"} /\ "range" \in Byte
    BY <1>1, <1>5 DEF TypeOK, Byte, Mode
  <2>2. GivesBack(p)
    BY <1>6, <2>1 DEF OneByte, GivesBack
  <2> QED
    BY <1>1, <2>2, LockDropped
<1>8. pc' \in [Conn -> Inside \cup Outside] /\ pc'[c] = "bytes" /\ pc'[c] \in Inside /\ Disturbs(c)
  BY <1>1, <1>4, Moves, Places
<1>9. TypeOK'
  BY <1>1, <1>3, <1>6, <1>8 DEF TypeOK, OneByte
<1>10. Frame(c)
  BY <1>3, <1>6, <1>8 DEF Frame, OneByte
<1>11. MutexOK'
  <2>1. mutex' = [mutex EXCEPT ![p] = c]
    BY <1>1, <1>3 DEF TypeOK
  <2> QED
    BY <1>1, <1>2, <1>8, <1>10, <2>1, MutexHeld
<1>12. CallOK(c)'
  <2>1. eFileLock'[c] >= RESERVED_LOCK /\ want'[c] = SHARED_LOCK
    BY <1>3, <1>5
  <2> QED
    BY <1>8, <2>1 DEF CallOK
<1>13. Lev' = Lev
  <2>1. Lev'[c] = Lev[c]
    BY <1>1, <1>3, <1>8 DEF Lev
  <2> QED
    BY <1>1, <1>9, <1>10, <2>1, LevFrame, LevType
<1>14. InodeOK(p)'
  BY <1>1, <1>3, <1>13, InodeSame
<1>15. SystemOK(p)'
  <2>1. Lev' = [Lev EXCEPT ![c] = Lev[c]]
    BY <1>1, <1>13, LevType
  <2>2. /\ os'[p]["range"] # "none"
        /\ os'[p]["reserved"] = os[p]["reserved"] /\ os'[p]["pending"] = os[p]["pending"]
    BY <1>6 DEF OneByte, Byte
  <2>3. pc'[c] # "got" /\ pc'[c] = "bytes" /\ want'[c] = SHARED_LOCK
    BY <1>3, <1>5, <1>8
  <2> QED
    BY <1>2, <1>5, <1>9, <1>10, <2>1, <2>2, <2>3, SystemRaise
<1> QED
  BY <1>2, <1>7, <1>9, <1>10, <1>11, <1>12, <1>14, <1>15, StepPreserves

LEMMA UnlockBytesStep ==
  ASSUME LockInv, NEW c \in Conn, UnlockBytes(c)
  PROVE  LockInv' /\ Frame(c)
<1> DEFINE p == Home[c]
<1>1. /\ TypeOK /\ MutexOK /\ NoConflict /\ CallOK(c) /\ InodeOK(p) /\ SystemOK(p)
      /\ p \in Proc /\ pc[c] = "bytes" /\ pc[c] \in Inside /\ mutex[p] = c
      /\ c \in Siblings(p)
  BY DEF LockInv, MutexOK, Inside, UnlockBytes, Siblings
<1>2. NobodyElseInside(c)
  BY <1>1, NobodyElse
<1>3. /\ UNCHANGED <<eFileLock, nShared, nLock, want>>
      /\ os' = [os EXCEPT ![p]["pending"] = "none", ![p]["reserved"] = "none"]
      /\ ilock' = [ilock EXCEPT ![p] = SHARED_LOCK]
  BY DEF UnlockBytes
<1>4. /\ Lev[c] # NO_LOCK /\ Lev[c] = ilock[p] /\ os[p]["range"] # "none"
      /\ eFileLock[c] >= RESERVED_LOCK /\ want[c] \in {NO_LOCK, SHARED_LOCK}
  <2>1. eFileLock[c] >= RESERVED_LOCK /\ want[c] \in {NO_LOCK, SHARED_LOCK}
    BY <1>1 DEF CallOK
  <2>2. Lev[c] = eFileLock[c] /\ Lev[c] \in Level
    BY <1>1, LevType DEF Lev
  <2>3. Lev[c] # NO_LOCK /\ Lev[c] = ilock[p] /\ ReadersIn(Lev, p) # {}
    BY <1>1, <2>1, <2>2, LevelOrder DEF InodeOK, ReadersIn
  <2> QED
    BY <1>1, <2>1, <2>3 DEF SystemOK
<1>5. /\ os' \in [Proc -> [Byte -> Mode]] /\ os'[p]["range"] = os[p]["range"]
      /\ GivesBack(p) /\ \A q \in Proc \ {p} : os'[q] = os[q]
  <2>1. /\ os \in [Proc -> [Byte -> Mode]] /\ Byte = {"pending", "reserved", "range"}
        /\ "none" \in Mode
    BY <1>1 DEF TypeOK, Byte, Mode
  <2>2. os' \in [Proc -> [Byte -> Mode]]
    BY <1>1, <1>3, <2>1
  <2>3. /\ os'[p]["range"] = os[p]["range"] /\ os'[p]["pending"] = "none"
        /\ os'[p]["reserved"] = "none" /\ \A q \in Proc \ {p} : os'[q] = os[q]
    BY <1>1, <1>3, <2>1
  <2> QED
    BY <2>1, <2>2, <2>3 DEF GivesBack
<1>6. NoConflict'
  BY <1>1, <1>5, LockDropped
<1>7. ilock' \in [Proc -> Level] /\ ilock'[p] = SHARED_LOCK /\ \A q \in Proc \ {p} : ilock'[q] = ilock[q]
  BY <1>1, <1>3, LevelOrder DEF TypeOK
<1>8. SHARED_LOCK \in Level /\ SHARED_LOCK # NO_LOCK /\ SHARED_LOCK # EXCLUSIVE_LOCK
      /\ SHARED_LOCK # RESERVED_LOCK /\ ~(SHARED_LOCK >= PENDING_LOCK)
  BY LevelOrder
<1>9. ASSUME TypeOK', Frame(c), MutexOK', CallOK(c)', Lev'[c] = SHARED_LOCK, pc'[c] # "got"
      PROVE  LockInv' /\ Frame(c)
  <2>1. Lev' = [Lev EXCEPT ![c] = SHARED_LOCK]
    BY <1>1, <1>9, LevFrame
  <2>2. InodeOK(p)'
    BY <1>1, <1>3, <1>4, <1>7, <1>8, <2>1, InodeRaise
  <2>3. SystemOK(p)'
    BY <1>2, <1>4, <1>5, <1>8, <1>9, <2>1, SystemRaise
  <2> QED
    BY <1>2, <1>6, <1>9, <2>2, <2>3, StepPreserves
<1>10. CASE want[c] = SHARED_LOCK /\ SignalAndLeave(c, SHARED_LOCK, nShared[p])
  <2>1. /\ mutex' = [mutex EXCEPT ![p] = NoConn] /\ pc' \in [Conn -> Inside \cup Outside]
        /\ pc'[c] = "unlocked" /\ Disturbs(c) /\ queue' \in [Proc -> Seq(Entry)]
    BY <1>1, <1>10, SignalLeaves
  <2>2. mutex' \in [Proc -> Conn \cup {NoConn}] /\ \A q \in Proc \ {p} : mutex'[q] = mutex[q]
    BY <1>1, <2>1, Frees
  <2>3. TypeOK'
    BY <1>1, <1>3, <1>5, <1>7, <2>1, <2>2 DEF TypeOK
  <2>4. Frame(c)
    BY <1>3, <1>5, <1>7, <2>1, <2>2 DEF Frame
  <2>5. MutexOK'
    BY <1>1, <1>2, <2>1, <2>4, MutexLeft, Places
  <2>6. CallOK(c)'
    BY <1>3, <1>4, <2>1 DEF CallOK
  <2>7. Lev'[c] = SHARED_LOCK
    BY <1>3, <1>10, <2>1 DEF Lev
  <2> QED
    BY <1>9, <2>1, <2>3, <2>4, <2>5, <2>6, <2>7
<1>11. CASE want[c] = NO_LOCK /\ pc' = [pc EXCEPT ![c] = "last"] /\ UNCHANGED <<mutex, queue>>
  <2>1. pc' \in [Conn -> Inside \cup Outside] /\ pc'[c] = "last" /\ pc'[c] \in Inside /\ Disturbs(c)
    BY <1>1, <1>11, Moves, Places
  <2>2. TypeOK'
    BY <1>1, <1>3, <1>5, <1>7, <1>11, <2>1 DEF TypeOK
  <2>3. Frame(c)
    BY <1>3, <1>5, <1>7, <1>11, <2>1 DEF Frame
  <2>4. MutexOK'
    <3>1. mutex' = [mutex EXCEPT ![p] = c]
      BY <1>1, <1>11 DEF TypeOK
    <3> QED
      BY <1>1, <1>2, <2>1, <2>3, <3>1, MutexHeld
  <2>5. CallOK(c)'
    <3>1. eFileLock'[c] >= SHARED_LOCK /\ want'[c] = NO_LOCK
      <4>1. eFileLock[c] \in Level
        BY <1>1 DEF TypeOK
      <4> QED
        BY <1>3, <1>4, <1>11, <4>1, LevelOrder
    <3> QED
      BY <2>1, <3>1 DEF CallOK
  <2>6. Lev'[c] = SHARED_LOCK
    BY <2>1 DEF Lev
  <2> QED
    BY <1>9, <2>1, <2>2, <2>3, <2>4, <2>5, <2>6
<1> QED
  BY <1>10, <1>11 DEF UnlockBytes

LEMMA UnlockLastStep ==
  ASSUME LockInv, NEW c \in Conn, UnlockLast(c)
  PROVE  LockInv' /\ Frame(c)
<1> DEFINE p    == Home[c]
           left == nShared[p] - 1
           lock == IF left = 0 THEN NO_LOCK ELSE ilock[p]
<1>1. /\ TypeOK /\ MutexOK /\ NoConflict /\ CallOK(c) /\ InodeOK(p) /\ SystemOK(p)
      /\ p \in Proc /\ pc[c] = "last" /\ pc[c] \in Inside /\ mutex[p] = c
      /\ c \in Siblings(p)
  BY DEF LockInv, MutexOK, Inside, UnlockLast, LastReader, Siblings
<1>2. NobodyElseInside(c)
  BY <1>1, NobodyElse
<1>3. /\ UNCHANGED <<eFileLock, want>>
      /\ nShared' = [nShared EXCEPT ![p] = left]
      /\ nLock' = [nLock EXCEPT ![p] = @ - 1]
      /\ ilock' = [ilock EXCEPT ![p] = lock]
      /\ os' = IF left = 0 THEN [os EXCEPT ![p] = NoLocks] ELSE os
      /\ SignalAndLeave(c, lock, left)
  BY DEF UnlockLast, LastReader
<1>4. /\ nShared'[p] = left /\ nLock'[p] = nLock[p] - 1 /\ ilock'[p] = lock
      /\ \A q \in Proc \ {p} : nShared'[q] = nShared[q] /\ nLock'[q] = nLock[q] /\ ilock'[q] = ilock[q]
  BY <1>1, <1>3 DEF TypeOK
<1>5. /\ mutex' = [mutex EXCEPT ![p] = NoConn] /\ pc' \in [Conn -> Inside \cup Outside]
      /\ pc'[c] = "unlocked" /\ Disturbs(c) /\ queue' \in [Proc -> Seq(Entry)]
  BY <1>1, <1>3, SignalLeaves
<1>6. mutex' \in [Proc -> Conn \cup {NoConn}] /\ \A q \in Proc \ {p} : mutex'[q] = mutex[q]
  BY <1>1, <1>5, Frees
<1>7. /\ os' \in [Proc -> [Byte -> Mode]] /\ GivesBack(p) /\ \A q \in Proc \ {p} : os'[q] = os[q]
      /\ left = 0 => os'[p]["range"] = "none"
      /\ left # 0 => os' = os
  <2>1. os \in [Proc -> [Byte -> Mode]] /\ "none" \in Mode /\ "range" \in Byte
    BY <1>1 DEF TypeOK, Byte, Mode
  <2>2. CASE left = 0
    BY <1>1, <1>3, <2>1, <2>2 DEF GivesBack, NoLocks
  <2>3. CASE left # 0
    BY <1>1, <1>3, <2>1, <2>3 DEF GivesBack
  <2> QED
    BY <2>2, <2>3
<1>8. NoConflict'
  BY <1>1, <1>7, LockDropped
<1>9. Frame(c)
  BY <1>3, <1>4, <1>5, <1>6, <1>7 DEF Frame
<1>10. Lev[c] = SHARED_LOCK /\ Lev'[c] = NO_LOCK
  <2>1. want[c] = NO_LOCK
    BY <1>1 DEF CallOK
  <2> QED
    BY <1>1, <1>3, <1>5, <2>1 DEF Lev
<1>11. nShared[p] > 0 /\ nLock[p] = nShared[p]
  <2>1. c \in ReadersIn(Lev, p)
    BY <1>1, <1>10, LevelOrder DEF ReadersIn
  <2>2. Cardinality(ReadersIn(Lev, p)) # 0 /\ Cardinality(ReadersIn(Lev, p)) \in Nat
    BY <1>1, <2>1, ReadersFinite
  <2> QED
    BY <1>1, <2>2 DEF InodeOK
<1>12. TypeOK'
  <2>1. ilock' \in [Proc -> Level]
    BY <1>1, <1>3, LevelOrder DEF TypeOK
  <2>2. left \in Nat
    BY <1>1, <1>11 DEF TypeOK
  <2>3. nShared' \in [Proc -> Nat]
    BY <1>1, <1>3, <2>2 DEF TypeOK
  <2>4. nLock' \in [Proc -> Nat]
    BY <1>1, <1>3, <1>11, <2>2 DEF TypeOK
  <2> QED
    BY <1>1, <1>3, <1>5, <1>6, <1>7, <2>1, <2>3, <2>4 DEF TypeOK
<1>13. MutexOK'
  BY <1>1, <1>2, <1>5, <1>9, MutexLeft, Places
<1>14. CallOK(c)'
  <2>1. want'[c] = NO_LOCK
    BY <1>1, <1>3 DEF CallOK
  <2> QED
    BY <1>5, <2>1 DEF CallOK
<1>15. Lev' = [Lev EXCEPT ![c] = NO_LOCK]
  BY <1>1, <1>9, <1>10, <1>12, LevFrame
<1>16. InodeOK(p)' /\ (left = 0) = (ReadersIn(Lev', p) = {})
  BY <1>1, <1>4, <1>10, <1>15, InodeLeave
<1>17. SystemOK(p)'
  <2>1. CASE left = 0
    BY <1>2, <1>5, <1>7, <1>9, <1>12, <1>16, <2>1, SystemNoReaders
  <2>2. CASE left # 0
    <3> DEFINE L2 == Lev'
    <3>1. L2[c] = NO_LOCK /\ \A d \in Conn \ {c} : L2[d] = Lev[d]
      BY <1>1, <1>15, LevType
    <3>2. ReadersIn(L2, p) # {}
      BY <1>16, <2>2
    <3> HIDE DEF L2
    <3>3. \A d \in Siblings(p) : pc[d] # "got" /\ pc[d] # "bytes" /\ pc'[d] # "got" /\ pc'[d] # "bytes"
      BY <1>1, <1>2, <1>5, Places DEF NobodyElseInside, Disturbs, Siblings
    <3>4. os' = os /\ os[p]["range"] # "none"
      <4>1. ReadersIn(Lev, p) # {}
        BY <1>1, <1>10, LevelOrder DEF ReadersIn
      <4> QED
        BY <1>1, <1>7, <2>2, <4>1 DEF SystemOK
    <3>5. \A d \in Siblings(p) : L2[d] = NO_LOCK \/ L2[d] = Lev[d]
      BY <3>1 DEF Siblings
    <3> QED
      BY <1>1, <3>2, <3>3, <3>4, <3>5, LevelOrder DEF SystemOK, L2
  <2> QED
    BY <2>1, <2>2
<1> QED
  BY <1>2, <1>8, <1>9, <1>12, <1>13, <1>14, <1>16, <1>17, StepPreserves

-----------------------------------------------------------------------------
(* The steps outside the mutex, and those that enter it. *)

\* A step of a handle outside the mutex that moves neither a level nor a lock.
LEMMA SystemQuiet ==
  ASSUME LockInv, NEW c \in Conn, Frame(c), Lev' = Lev, os' = os,
         \/ mutex' = mutex
         \/ mutex[Home[c]] = NoConn /\ mutex'[Home[c]] = c,
         pc[c] \notin Inside, pc'[c] \notin {"got", "bytes"}
  PROVE  SystemOK(Home[c])'
<1> DEFINE p == Home[c]
           L2 == Lev'
<1>1. TypeOK /\ MutexOK /\ SystemOK(p) /\ p \in Proc /\ L2 = Lev
  BY DEF LockInv
<1> HIDE DEF L2
<1>2. \A d \in Siblings(p) \ {c} :
        /\ want'[d] = want[d]
        /\ pc'[d] # pc[d] => pc[d] = "asleep" /\ pc'[d] = "woken"
  BY DEF Frame, Disturbs, Siblings
<1>3. pc[c] \notin {"got", "bytes"}
  BY Places
<1>4. mutex[p] # NoConn /\ pc[mutex[p]] = "got" => mutex'[p] = mutex[p] /\ pc'[mutex[p]] = "got"
  BY <1>1, <1>2, <1>3 DEF MutexOK, TypeOK, Siblings
<1> QED
  BY <1>1, <1>2, <1>3, <1>4 DEF SystemOK, L2

LEMMA FinishUnlockStep ==
  ASSUME LockInv, NEW c \in Conn, FinishUnlock(c)
  PROVE  LockInv' /\ Frame(c)
<1>1. /\ TypeOK /\ MutexOK /\ NoConflict /\ CallOK(c) /\ InodeOK(Home[c]) /\ Home[c] \in Proc
      /\ pc[c] = "unlocked" /\ pc[c] \notin Inside
  BY DEF LockInv, FinishUnlock, Inside
<1>2. /\ eFileLock' = [eFileLock EXCEPT ![c] = want[c]]
      /\ want' = [want EXCEPT ![c] = NO_LOCK]
      /\ pc' = [pc EXCEPT ![c] = "idle"]
      /\ UNCHANGED <<ilock, nShared, nLock, os, mutex, queue>>
  BY DEF FinishUnlock, inodeVars
<1>3. /\ eFileLock' \in [Conn -> Level] /\ eFileLock'[c] = want[c]
      /\ \A d \in Conn \ {c} : eFileLock'[d] = eFileLock[d]
  BY <1>1, <1>2 DEF TypeOK
<1>4. want' \in [Conn -> Level] /\ \A d \in Conn \ {c} : want'[d] = want[d]
  <2>1. NO_LOCK \in Level
    BY LevelOrder
  <2> QED
    BY <1>1, <1>2, <2>1, Wants
<1>5. pc' \in [Conn -> Inside \cup Outside] /\ pc'[c] = "idle" /\ Disturbs(c) /\ "idle" \notin Inside
  BY <1>1, <1>2, Moves, Places
<1>6. TypeOK'
  BY <1>1, <1>2, <1>3, <1>4, <1>5 DEF TypeOK
<1>7. Frame(c)
  BY <1>2, <1>3, <1>4, <1>5 DEF Frame
<1>8. MutexOK'
  BY <1>1, <1>2, <1>5, <1>7, MutexUntouched
<1>9. CallOK(c)'
  BY <1>5 DEF CallOK
<1>10. Lev' = Lev
  <2>1. Lev'[c] = Lev[c]
    BY <1>1, <1>3, <1>5 DEF Lev
  <2> QED
    BY <1>1, <1>6, <1>7, <2>1, LevFrame, LevType
<1>11. InodeOK(Home[c])'
  BY <1>1, <1>2, <1>10, InodeSame
<1>12. SystemOK(Home[c])'
  BY <1>1, <1>2, <1>5, <1>7, <1>10, SystemQuiet
<1>13. NoConflict'
  BY <1>1, <1>2, NoSystemCall
<1> QED
  BY <1>2, <1>6, <1>7, <1>8, <1>9, <1>11, <1>12, <1>13, StepPreserves

\* Coming back from the wait, and opening.
LEMMA MoveStep ==
  ASSUME LockInv, NEW c \in Conn, WakeUp(c) \/ Open(c)
  PROVE  LockInv' /\ Frame(c)
<1>1. /\ TypeOK /\ MutexOK /\ NoConflict /\ CallOK(c) /\ InodeOK(Home[c]) /\ Home[c] \in Proc
      /\ pc[c] \in {"asleep", "woken", "closed"} /\ pc[c] \notin Inside
  BY DEF LockInv, WakeUp, Open, Inside
<1>2. /\ pc' = [pc EXCEPT ![c] = "idle"]
      /\ UNCHANGED <<eFileLock, ilock, nShared, nLock, os, mutex, want, queue>>
  BY DEF WakeUp, Open, inodeVars
<1>3. pc' \in [Conn -> Inside \cup Outside] /\ pc'[c] = "idle" /\ Disturbs(c) /\ "idle" \notin Inside
  BY <1>1, <1>2, Moves, Places
<1>4. TypeOK'
  BY <1>1, <1>2, <1>3 DEF TypeOK
<1>5. Frame(c)
  BY <1>2, <1>3 DEF Frame
<1>6. MutexOK'
  BY <1>1, <1>2, <1>3, <1>5, MutexUntouched
<1>7. CallOK(c)'
  BY <1>3 DEF CallOK
<1>8. Lev' = Lev
  <2>1. Lev'[c] = Lev[c]
    BY <1>1, <1>2, <1>3 DEF Lev
  <2> QED
    BY <1>1, <1>4, <1>5, <2>1, LevFrame, LevType
<1>9. InodeOK(Home[c])'
  BY <1>1, <1>2, <1>8, InodeSame
<1>10. SystemOK(Home[c])'
  BY <1>1, <1>2, <1>3, <1>5, <1>8, SystemQuiet
<1>11. NoConflict'
  BY <1>1, <1>2, NoSystemCall
<1> QED
  BY <1>2, <1>4, <1>5, <1>6, <1>7, <1>9, <1>10, <1>11, StepPreserves

LEMMA FreedType ==
  ASSUME NEW q \in Seq(Entry), NEW c \in Conn
  PROVE  /\ Freed(q, c) \in Seq(Entry)
         /\ Len(Freed(q, c)) = Len(q)
<1>1. \A i \in 1 .. Len(q) : q[i] \in Entry
  OBVIOUS
<1>2. \A i \in 1 .. Len(q) : [q[i] EXCEPT !.open = @ /\ q[i].conn # c] \in Entry
  BY <1>1 DEF Entry
<1>3. Len(q) \in Nat
  OBVIOUS
<1> QED
  BY <1>2, <1>3 DEF Freed

LEMMA CloseStep ==
  ASSUME LockInv, NEW c \in Conn, Close(c)
  PROVE  LockInv' /\ Frame(c)
<1> DEFINE p == Home[c]
<1>1. /\ TypeOK /\ MutexOK /\ NoConflict /\ CallOK(c) /\ InodeOK(p) /\ SystemOK(p) /\ p \in Proc
      /\ pc[c] = "idle" /\ pc[c] \notin Inside /\ mutex[p] = NoConn /\ eFileLock[c] = NO_LOCK
  BY DEF LockInv, Close, Inside
<1>2. /\ pc' = [pc EXCEPT ![c] = "closed"]
      /\ UNCHANGED <<eFileLock, ilock, nShared, nLock, mutex, want>>
      /\ os' = IF nLock[p] = 0 THEN [os EXCEPT ![p] = NoLocks] ELSE os
      /\ queue' = [queue EXCEPT ![p] = IF \A d \in Siblings(p) \ {c} : pc[d] = "closed"
                                       THEN <<>> ELSE Freed(@, c)]
  BY DEF Close, ClosesDescriptor, inodeVars
<1>3. NobodyElseInside(c)
  BY <1>1, NobodyElse
<1>4. /\ os' \in [Proc -> [Byte -> Mode]] /\ GivesBack(p) /\ \A q \in Proc \ {p} : os'[q] = os[q]
      /\ nLock[p] = 0 => os'[p]["range"] = "none"
      /\ nLock[p] # 0 => os' = os
  <2>1. os \in [Proc -> [Byte -> Mode]] /\ "none" \in Mode /\ "range" \in Byte
    BY <1>1 DEF TypeOK, Byte, Mode
  <2>2. CASE nLock[p] = 0
    BY <1>1, <1>2, <2>1, <2>2 DEF GivesBack, NoLocks
  <2>3. CASE nLock[p] # 0
    BY <1>1, <1>2, <2>1, <2>3 DEF GivesBack
  <2> QED
    BY <2>2, <2>3
<1>5. NoConflict'
  BY <1>1, <1>4, LockDropped
<1>6. pc' \in [Conn -> Inside \cup Outside] /\ pc'[c] = "closed" /\ Disturbs(c) /\ "closed" \notin Inside
  BY <1>1, <1>2, Moves, Places
<1>7. queue' \in [Proc -> Seq(Entry)]
  <2>1. <<>> \in Seq(Entry) /\ queue \in [Proc -> Seq(Entry)] /\ queue[p] \in Seq(Entry)
    BY <1>1 DEF TypeOK
  <2>2. Freed(queue[p], c) \in Seq(Entry)
    BY <2>1, FreedType
  <2> QED
    BY <1>1, <1>2, <2>1, <2>2
<1>8. TypeOK'
  BY <1>1, <1>2, <1>4, <1>6, <1>7 DEF TypeOK
<1>9. Frame(c)
  BY <1>2, <1>4, <1>6 DEF Frame
<1>10. MutexOK'
  BY <1>1, <1>2, <1>6, <1>9, MutexUntouched
<1>11. CallOK(c)'
  BY <1>1, <1>2, <1>6 DEF CallOK
<1>12. Lev' = Lev
  <2>1. Lev'[c] = Lev[c]
    BY <1>1, <1>2, <1>6 DEF Lev
  <2> QED
    BY <1>1, <1>8, <1>9, <2>1, LevFrame, LevType
<1>13. InodeOK(p)'
  BY <1>1, <1>2, <1>12, InodeSame
<1>14. SystemOK(p)'
  <2>1. CASE nLock[p] = 0
    <3>1. ReadersIn(Lev, p) = {}
      BY <1>1, <2>1, ReadersFinite DEF InodeOK
    <3>2. ReadersIn(Lev', p) = {}
      BY <1>12, <3>1
    <3> QED
      BY <1>3, <1>4, <1>6, <1>8, <1>9, <2>1, <3>2, SystemNoReaders
  <2>2. CASE nLock[p] # 0
    BY <1>1, <1>2, <1>4, <1>6, <1>9, <1>12, <2>2, SystemQuiet
  <2> QED
    BY <2>1, <2>2
<1> QED
  BY <1>3, <1>5, <1>8, <1>9, <1>10, <1>11, <1>13, <1>14, StepPreserves

LEMMA UnlockStep ==
  ASSUME LockInv, NEW c \in Conn, NEW to \in {NO_LOCK, SHARED_LOCK}, Unlock(c, to)
  PROVE  LockInv' /\ Frame(c)
<1> DEFINE p == Home[c]
           x == IF eFileLock[c] <= SHARED_LOCK THEN "last"
                ELSE IF to = SHARED_LOCK THEN "downgrade" ELSE "bytes"
<1>1. /\ TypeOK /\ MutexOK /\ NoConflict /\ CallOK(c) /\ InodeOK(p) /\ SystemOK(p) /\ p \in Proc
      /\ pc[c] = "idle" /\ pc[c] \notin Inside /\ mutex[p] = NoConn /\ eFileLock[c] > to
  BY DEF LockInv, Unlock, Inside
<1>2. /\ mutex' = [mutex EXCEPT ![p] = c]
      /\ want' = [want EXCEPT ![c] = to]
      /\ pc' = [pc EXCEPT ![c] = x]
      /\ UNCHANGED <<eFileLock, ilock, nShared, nLock, os, queue>>
  BY DEF Unlock, inodeVars
<1>3. NobodyElseInside(c)
  BY <1>1, NobodyElse
<1>4. /\ eFileLock[c] \in Level /\ to \in Level
      /\ x = "last" => to = NO_LOCK /\ eFileLock[c] = SHARED_LOCK
      /\ x # "last" => eFileLock[c] >= RESERVED_LOCK
      /\ x = "downgrade" => to = SHARED_LOCK
      /\ x = "bytes" => to = NO_LOCK
  <2>1. eFileLock[c] \in Level
    BY <1>1 DEF TypeOK
  <2> QED
    BY <1>1, <2>1, LevelOrder
<1> HIDE DEF x
<1>5. x \in {"last", "downgrade", "bytes"} /\ x \in Inside
  BY Places DEF x
<1>6. pc' \in [Conn -> Inside \cup Outside] /\ pc'[c] = x /\ Disturbs(c)
  BY <1>1, <1>2, <1>5, Moves
<1>7. want' \in [Conn -> Level] /\ want'[c] = to /\ \A d \in Conn \ {c} : want'[d] = want[d]
  BY <1>1, <1>2, <1>4, Wants
<1>8. /\ mutex' \in [Proc -> Conn \cup {NoConn}] /\ mutex'[p] = c
      /\ \A q \in Proc \ {p} : mutex'[q] = mutex[q]
  BY <1>1, <1>2, Frees
<1>9. TypeOK'
  BY <1>1, <1>2, <1>6, <1>7, <1>8 DEF TypeOK
<1>10. Frame(c)
  BY <1>2, <1>6, <1>7, <1>8 DEF Frame
<1>11. MutexOK'
  BY <1>1, <1>2, <1>3, <1>5, <1>6, <1>10, MutexHeld
<1>12. CallOK(c)'
  <2>1. eFileLock'[c] >= SHARED_LOCK
    BY <1>2, <1>4, LevelOrder
  <2> QED
    BY <1>2, <1>4, <1>5, <1>6, <1>7, <2>1 DEF CallOK
<1>13. Lev' = Lev
  <2>1. Lev'[c] = Lev[c]
    BY <1>1, <1>2, <1>4, <1>5, <1>6 DEF Lev
  <2> QED
    BY <1>1, <1>9, <1>10, <2>1, LevFrame, LevType
<1>14. InodeOK(p)'
  BY <1>1, <1>2, <1>13, InodeSame
<1>15. SystemOK(p)'
  <2>1. CASE x = "bytes"
    \* The whole range stays write-locked until the end: nothing is excused.
    <3> DEFINE L2 == Lev'
    <3>1. L2 = Lev
      BY <1>13
    <3> HIDE DEF L2
    <3>2. \A d \in Siblings(p) \ {c} :
            /\ want'[d] = want[d]
            /\ pc'[d] # pc[d] => pc[d] = "asleep" /\ pc'[d] = "woken"
      BY <1>10 DEF Frame, Disturbs, Siblings
    <3>3. pc'[c] = "bytes" /\ want'[c] = NO_LOCK /\ pc[c] = "idle" /\ NO_LOCK # SHARED_LOCK
      BY <1>1, <1>4, <1>6, <1>7, <2>1, LevelOrder
    <3> QED
      BY <1>1, <1>2, <3>1, <3>2, <3>3 DEF SystemOK, L2
  <2>2. CASE x # "bytes"
    BY <1>1, <1>2, <1>5, <1>6, <1>8, <1>10, <1>13, <2>2, SystemQuiet
  <2> QED
    BY <2>1, <2>2
<1>16. NoConflict'
  BY <1>1, <1>2, NoSystemCall
<1> QED
  BY <1>3, <1>9, <1>10, <1>11, <1>12, <1>14, <1>15, <1>16, StepPreserves

LEMMA RequestStep ==
  ASSUME LockInv, NEW c \in Conn, NEW w \in {SHARED_LOCK, RESERVED_LOCK, EXCLUSIVE_LOCK},
         Request(c, w)
  PROVE  LockInv' /\ Frame(c)
<1> DEFINE p == Home[c]
<1>1. /\ TypeOK /\ MutexOK /\ NoConflict /\ CallOK(c) /\ InodeOK(p) /\ SystemOK(p) /\ p \in Proc
      /\ pc[c] = "idle" /\ pc[c] \notin Inside /\ mutex[p] = NoConn /\ w \in Level
      /\ eFileLock[c] < w
      /\ (eFileLock[c] # NO_LOCK \/ w = SHARED_LOCK)
      /\ (w # RESERVED_LOCK \/ eFileLock[c] = SHARED_LOCK)
      /\ Lev[c] = eFileLock[c] /\ eFileLock[c] \in Level /\ ilock[p] \in Level
  BY LevelOrder DEF LockInv, Request, Inside, Lev, TypeOK
<1>2. NobodyElseInside(c)
  BY <1>1, NobodyElse
<1>3. os' = os
  BY DEF Request
<1>4. NoConflict' /\ os' \in [Proc -> [Byte -> Mode]]
  BY <1>1, <1>3, NoSystemCall
<1>5. CASE /\ BusyBySibling(c, w, "SHARED")
           /\ UNCHANGED <<eFileLock, ilock, nShared, nLock, want>>
  <2>1. /\ mutex' = [mutex EXCEPT ![p] = NoConn] /\ pc' \in [Conn -> Inside \cup Outside]
        /\ pc'[c] \in {"idle", "asleep"} /\ Disturbs(c) /\ queue' \in [Proc -> Seq(Entry)]
    BY <1>1, <1>5, BusyLeaves
  <2>2. mutex' = mutex
    BY <1>1, <2>1 DEF TypeOK
  <2>3. TypeOK'
    BY <1>1, <1>4, <1>5, <2>1, <2>2 DEF TypeOK
  <2>4. Frame(c)
    BY <1>3, <1>5, <2>1, <2>2 DEF Frame
  <2>5. pc'[c] \notin Inside
    BY <2>1, Places
  <2>6. MutexOK'
    BY <1>1, <2>2, <2>4, <2>5, MutexUntouched
  <2>7. CallOK(c)'
    BY <2>1 DEF CallOK
  <2>8. Lev' = Lev
    <3>1. Lev'[c] = Lev[c]
      BY <1>1, <1>5, <2>1 DEF Lev
    <3> QED
      BY <1>1, <2>3, <2>4, <3>1, LevFrame, LevType
  <2>9. InodeOK(p)'
    BY <1>1, <1>5, <2>8, InodeSame
  <2>10. SystemOK(p)'
    BY <1>1, <1>3, <2>1, <2>2, <2>4, <2>8, SystemQuiet
  <2> QED
    BY <1>2, <1>4, <2>3, <2>4, <2>6, <2>7, <2>9, <2>10, StepPreserves
<1>6. CASE /\ w = SHARED_LOCK /\ ilock[p] \in {SHARED_LOCK, RESERVED_LOCK}
           /\ eFileLock' = [eFileLock EXCEPT ![c] = SHARED_LOCK]
           /\ nShared' = [nShared EXCEPT ![p] = @ + 1]
           /\ nLock' = [nLock EXCEPT ![p] = @ + 1]
           /\ UNCHANGED <<ilock, mutex, pc, want, queue>>
  <2>1. Lev[c] = NO_LOCK
    BY <1>1, <1>6, LevelOrder
  <2>2. /\ eFileLock' \in [Conn -> Level] /\ eFileLock'[c] = SHARED_LOCK
        /\ \A d \in Conn \ {c} : eFileLock'[d] = eFileLock[d]
        /\ nShared' \in [Proc -> Nat] /\ nShared'[p] = nShared[p] + 1
        /\ nLock' \in [Proc -> Nat] /\ nLock'[p] = nLock[p] + 1
        /\ \A q \in Proc \ {p} : nShared'[q] = nShared[q] /\ nLock'[q] = nLock[q]
    BY <1>1, <1>6, LevelOrder DEF TypeOK
  <2>3. TypeOK'
    BY <1>1, <1>4, <1>6, <2>2 DEF TypeOK
  <2>4. Frame(c)
    BY <1>3, <1>6, <2>2 DEF Frame, Disturbs
  <2>5. MutexOK'
    BY <1>1, <1>6 DEF MutexOK
  <2>6. CallOK(c)'
    BY <1>1, <1>6 DEF CallOK
  <2>7. Lev' = [Lev EXCEPT ![c] = SHARED_LOCK]
    <3>1. Lev'[c] = SHARED_LOCK
      BY <1>1, <1>6, <2>2 DEF Lev
    <3> QED
      BY <1>1, <2>3, <2>4, <3>1, LevFrame
  <2>8. InodeOK(p)'
    BY <1>1, <1>6, <2>1, <2>2, <2>7, InodeShare
  <2>9. SystemOK(p)'
    <3> DEFINE L2 == Lev'
    <3>1. L2[c] = SHARED_LOCK /\ \A d \in Conn \ {c} : L2[d] = Lev[d]
      BY <1>1, <2>7, LevType
    <3> HIDE DEF L2
    <3>2. c \in ReadersIn(L2, p)
      BY <3>1, LevelOrder DEF ReadersIn, Siblings
    <3>3. os[p]["range"] # "none"
      <4>1. ReadersIn(Lev, p) # {}
        BY <1>1, <1>6, LevelOrder DEF InodeOK
      <4> QED
        BY <1>1, <4>1 DEF SystemOK
    <3> QED
      BY <1>1, <1>3, <1>6, <3>1, <3>2, <3>3, LevelOrder DEF SystemOK, Siblings, L2
  <2> QED
    BY <1>2, <1>4, <2>3, <2>4, <2>5, <2>6, <2>8, <2>9, StepPreserves
\* Into the system calls.
<1>7. ASSUME NEW x \in {"pending", "exclusive"},
             mutex' = [mutex EXCEPT ![p] = c],
             pc' = [pc EXCEPT ![c] = x],
             want' = [want EXCEPT ![c] = w],
             UNCHANGED <<eFileLock, ilock, nShared, nLock, queue>>,
             CallOK(c)'
      PROVE  LockInv' /\ Frame(c)
  <2>1. x \in Inside /\ x \notin {"got", "bytes"}
    BY Places
  <2>2. pc' \in [Conn -> Inside \cup Outside] /\ pc'[c] = x /\ Disturbs(c)
    BY <1>1, <1>7, <2>1, Moves
  <2>3. want' \in [Conn -> Level] /\ want'[c] = w /\ \A d \in Conn \ {c} : want'[d] = want[d]
    BY <1>1, <1>7, Wants
  <2>4. /\ mutex' \in [Proc -> Conn \cup {NoConn}] /\ mutex'[p] = c
        /\ \A q \in Proc \ {p} : mutex'[q] = mutex[q]
    BY <1>1, <1>7, Frees
  <2>5. TypeOK'
    BY <1>1, <1>4, <1>7, <2>2, <2>3, <2>4 DEF TypeOK
  <2>6. Frame(c)
    BY <1>3, <1>7, <2>2, <2>3, <2>4 DEF Frame
  <2>7. MutexOK'
    BY <1>1, <1>2, <1>7, <2>1, <2>2, <2>6, MutexHeld
  <2>8. Lev' = Lev
    <3>1. Lev'[c] = Lev[c]
      BY <1>1, <1>7, <2>2 DEF Lev
    <3> QED
      BY <1>1, <2>5, <2>6, <3>1, LevFrame, LevType
  <2>9. InodeOK(p)'
    BY <1>1, <1>7, <2>8, InodeSame
  <2>10. SystemOK(p)'
    BY <1>1, <1>3, <2>1, <2>2, <2>4, <2>6, <2>8, SystemQuiet
  <2> QED
    BY <1>2, <1>4, <1>7, <2>5, <2>6, <2>7, <2>9, <2>10, StepPreserves
<1>8. CASE /\ ~Precluded(c, w)
           /\ w = SHARED_LOCK => ilock[p] \notin {SHARED_LOCK, RESERVED_LOCK}
           /\ w = SHARED_LOCK \/ (w = EXCLUSIVE_LOCK /\ eFileLock[c] < PENDING_LOCK)
           /\ mutex' = [mutex EXCEPT ![p] = c]
           /\ pc' = [pc EXCEPT ![c] = "pending"]
           /\ want' = [want EXCEPT ![c] = w]
           /\ UNCHANGED <<eFileLock, ilock, nShared, nLock, queue>>
  <2>1. pc'[c] = "pending" /\ want'[c] = w
    BY <1>1, <1>8 DEF TypeOK
  <2>2. eFileLock[c] = ilock[p]
    BY <1>1, <1>8, LevelOrder DEF Precluded
  <2>3. (w = SHARED_LOCK) = (eFileLock[c] = NO_LOCK)
    BY <1>1, <1>8, LevelOrder
  <2>4. eFileLock[c] < PENDING_LOCK
    BY <1>1, <1>8, LevelOrder
  <2>5. CallOK(c)'
    BY <1>8, <2>1, <2>2, <2>3, <2>4 DEF CallOK
  <2> QED
    BY <1>7, <1>8, <2>5
<1>9. CASE /\ ~Precluded(c, w)
           /\ w = RESERVED_LOCK \/ (w = EXCLUSIVE_LOCK /\ eFileLock[c] = PENDING_LOCK)
           /\ mutex' = [mutex EXCEPT ![p] = c]
           /\ pc' = [pc EXCEPT ![c] = "exclusive"]
           /\ want' = [want EXCEPT ![c] = w]
           /\ UNCHANGED <<eFileLock, ilock, nShared, nLock, queue>>
  <2>1. pc'[c] = "exclusive" /\ want'[c] = w
    BY <1>1, <1>9 DEF TypeOK
  <2>2. eFileLock[c] = ilock[p]
    BY <1>1, <1>9, LevelOrder DEF Precluded
  <2>3. \/ w = RESERVED_LOCK /\ eFileLock[c] = SHARED_LOCK
        \/ w = EXCLUSIVE_LOCK /\ eFileLock[c] = PENDING_LOCK /\ os[p]["pending"] = "write"
    BY <1>1, <1>9, LevelOrder DEF SystemOK, Siblings
  <2>4. PENDING_LOCK \in SHARED_LOCK .. PENDING_LOCK
    BY LevelOrder
  <2>5. CallOK(c)'
    BY <1>3, <1>9, <2>1, <2>2, <2>3, <2>4 DEF CallOK
  <2> QED
    BY <1>7, <1>9, <2>5
<1> QED
  BY <1>5, <1>6, <1>8, <1>9 DEF Request, inodeVars

\* The end of a process: its handles have no lock any more, and nobody else's
\* changes.
LEMMA CrashStep ==
  ASSUME LockInv, NEW p \in Proc, Crash(p)
  PROVE  LockInv'
<1>1. /\ TypeOK /\ MutexOK /\ NoConflict
      /\ \A c \in Conn : CallOK(c)
      /\ \A q \in Proc : InodeOK(q) /\ SystemOK(q)
  BY DEF LockInv
<1>2. /\ eFileLock' = [c \in Conn |-> IF Home[c] = p THEN NO_LOCK ELSE eFileLock[c]]
      /\ pc' = [c \in Conn |-> IF Home[c] = p THEN "closed" ELSE pc[c]]
      /\ want' = [c \in Conn |-> IF Home[c] = p THEN NO_LOCK ELSE want[c]]
      /\ ilock' = [ilock EXCEPT ![p] = NO_LOCK]
      /\ nShared' = [nShared EXCEPT ![p] = 0]
      /\ nLock' = [nLock EXCEPT ![p] = 0]
      /\ os' = [os EXCEPT ![p] = NoLocks]
      /\ mutex' = [mutex EXCEPT ![p] = NoConn]
      /\ queue' = [queue EXCEPT ![p] = <<>>]
  BY DEF Crash
<1>3. /\ os' \in [Proc -> [Byte -> Mode]] /\ GivesBack(p) /\ os'[p] = NoLocks
      /\ \A q \in Proc \ {p} : os'[q] = os[q]
  <2>1. os \in [Proc -> [Byte -> Mode]] /\ NoLocks \in [Byte -> Mode]
    BY <1>1 DEF TypeOK, NoLocks, Mode
  <2>2. os' \in [Proc -> [Byte -> Mode]] /\ os'[p] = NoLocks /\ \A q \in Proc \ {p} : os'[q] = os[q]
    BY <1>2, <2>1
  <2> QED
    BY <2>2 DEF GivesBack, NoLocks
<1>4. TypeOK'
  <2>1. eFileLock' \in [Conn -> Level] /\ want' \in [Conn -> Level] /\ ilock' \in [Proc -> Level]
    BY <1>1, <1>2, LevelOrder DEF TypeOK
  <2>2. nShared' \in [Proc -> Nat] /\ nLock' \in [Proc -> Nat]
    BY <1>1, <1>2 DEF TypeOK
  <2>3. pc' \in [Conn -> Inside \cup Outside]
    <3>1. "closed" \in Inside \cup Outside /\ pc \in [Conn -> Inside \cup Outside]
      BY <1>1, Places DEF TypeOK
    <3> QED
      BY <1>2, <3>1
  <2>4. mutex' \in [Proc -> Conn \cup {NoConn}]
    BY <1>1, <1>2 DEF TypeOK
  <2>5. queue' \in [Proc -> Seq(Entry)]
    <3>1. <<>> \in Seq(Entry) /\ queue \in [Proc -> Seq(Entry)]
      BY <1>1 DEF TypeOK
    <3> QED
      BY <1>2, <3>1
  <2> QED
    BY <1>3, <2>1, <2>2, <2>3, <2>4, <2>5 DEF TypeOK
<1>5. /\ mutex'[p] = NoConn /\ ilock'[p] = NO_LOCK /\ nShared'[p] = 0 /\ nLock'[p] = 0
      /\ \A q \in Proc \ {p} : /\ mutex'[q] = mutex[q] /\ ilock'[q] = ilock[q]
                               /\ nShared'[q] = nShared[q] /\ nLock'[q] = nLock[q]
  BY <1>1, <1>2 DEF TypeOK
<1>6. /\ \A c \in Conn : Home[c] = p =>
           pc'[c] = "closed" /\ eFileLock'[c] = NO_LOCK /\ pc'[c] \notin Inside
      /\ \A c \in Conn : Home[c] # p =>
           pc'[c] = pc[c] /\ eFileLock'[c] = eFileLock[c] /\ want'[c] = want[c]
  BY <1>2, Places
<1>7. MutexOK'
  <2>1. mutex \in [Proc -> Conn \cup {NoConn}] /\ Home \in [Conn -> Proc]
    BY <1>1 DEF TypeOK
  <2> QED
    BY <1>1, <1>5, <1>6, <2>1 DEF MutexOK
<1>8. ASSUME NEW c \in Conn PROVE CallOK(c)'
  <2>1. CASE Home[c] = p
    BY <1>6, <2>1 DEF CallOK
  <2>2. CASE Home[c] # p
    BY <1>1, <1>3, <1>5, <1>6, <2>2 DEF CallOK
  <2> QED
    BY <2>1, <2>2
<1> DEFINE L2 == Lev'
<1>9. /\ \A c \in Conn : Home[c] = p => L2[c] = NO_LOCK
      /\ \A c \in Conn : Home[c] # p => L2[c] = Lev[c]
  BY <1>6 DEF Lev
<1> HIDE DEF L2
<1>10. ASSUME NEW q \in Proc PROVE InodeOK(q)' /\ SystemOK(q)'
  <2>1. CASE q = p
    <3>1. \A c \in Siblings(q) : L2[c] = NO_LOCK /\ pc'[c] = "closed"
      BY <1>6, <1>9, <2>1 DEF Siblings
    <3>2. ReadersIn(L2, q) = {}
      BY <3>1, LevelOrder DEF ReadersIn
    <3>3. InodeOK(q)'
      BY <1>5, <2>1, <3>1, <3>2, FS_EmptySet, LevelOrder DEF InodeOK, L2
    <3>4. os'[q]["range"] = "none"
      BY <1>3, <2>1 DEF NoLocks, Byte
    <3> QED
      BY <3>1, <3>2, <3>3, <3>4, LevelOrder DEF SystemOK, L2
  <2>2. CASE q # p
    <3>1. \A c \in Siblings(q) : L2[c] = Lev[c] /\ pc'[c] = pc[c] /\ want'[c] = want[c]
      BY <1>6, <1>9, <2>2 DEF Siblings
    <3>2. ReadersIn(L2, q) = ReadersIn(Lev, q)
      BY <3>1 DEF ReadersIn
    <3>3. InodeOK(q)'
      BY <1>1, <1>5, <2>2, <3>1, <3>2 DEF InodeOK, L2
    <3>4. mutex[q] # NoConn => pc'[mutex[q]] = pc[mutex[q]]
      BY <1>1, <3>1 DEF MutexOK, TypeOK, Siblings
    <3> QED
      BY <1>1, <1>3, <1>5, <2>2, <3>1, <3>2, <3>3, <3>4 DEF SystemOK, L2
  <2> QED
    BY <2>1, <2>2
<1>11. NoConflict'
  BY <1>1, <1>3, LockDropped
<1> QED
  BY <1>4, <1>7, <1>8, <1>10, <1>11 DEF LockInv

-----------------------------------------------------------------------------
(* The invariant and what follows from it. *)

LEMMA ConnStep ==
  ASSUME LockInv, NEW c \in Conn,
         \/ \E w \in {SHARED_LOCK, RESERVED_LOCK, EXCLUSIVE_LOCK} : Request(c, w)
         \/ \E to \in {NO_LOCK, SHARED_LOCK} : Unlock(c, to)
         \/ Step(c) \/ WakeUp(c) \/ Open(c) \/ Close(c)
  PROVE  LockInv' /\ Frame(c)
<1>1. CASE \E w \in {SHARED_LOCK, RESERVED_LOCK, EXCLUSIVE_LOCK} : Request(c, w)
  BY <1>1, RequestStep
<1>2. CASE \E to \in {NO_LOCK, SHARED_LOCK} : Unlock(c, to)
  BY <1>2, UnlockStep
<1>3. CASE Step(c)
  BY <1>3, LockPendingByteStep, ReadLockRangeStep, DropPendingByteStep, WriteLockStep,
     DowngradeRangeStep, UnlockBytesStep, UnlockLastStep, FinishUnlockStep DEF Step
<1>4. CASE WakeUp(c) \/ Open(c)
  BY <1>4, MoveStep
<1>5. CASE Close(c)
  BY <1>5, CloseStep
<1> QED
  BY <1>1, <1>2, <1>3, <1>4, <1>5

LEMMA NextLockInv == LockInv /\ [Next]_vars => LockInv'
<1> SUFFICES ASSUME LockInv, [Next]_vars PROVE LockInv'
  OBVIOUS
<1>1. CASE Next
  BY <1>1, ConnStep, CrashStep DEF Next
<1>2. CASE UNCHANGED vars
  <2>1. UNCHANGED <<eFileLock, ilock, nShared, nLock, os, mutex, pc, want, queue>>
    BY <1>2 DEF vars, inodeVars
  <2>2. Lev' = Lev
    BY <2>1 DEF Lev
  <2>3. TypeOK' /\ MutexOK' /\ NoConflict'
    BY <2>1 DEF LockInv, TypeOK, MutexOK, NoConflict
  <2>4. ASSUME NEW c \in Conn PROVE CallOK(c)'
    BY <2>1 DEF LockInv, CallOK
  <2>5. ASSUME NEW p \in Proc PROVE InodeOK(p)' /\ SystemOK(p)'
    <3> DEFINE L2 == Lev'
    <3>1. L2 = Lev
      BY <2>2
    <3> HIDE DEF L2
    <3> QED
      BY <2>1, <3>1 DEF LockInv, InodeOK, SystemOK, L2
  <2> QED
    BY <2>3, <2>4, <2>5 DEF LockInv
<1> QED
  BY <1>1, <1>2

\* The invariant of os_unix.c's locking: what a handle believes, what the inode
\* counts and what the system has granted fit together in every state.
THEOREM LockInvHolds == Spec => []LockInv
<1>1. Init => LockInv
  BY InitLockInv
<1>2. LockInv /\ [Next]_vars => LockInv'
  BY NextLockInv
<1> QED
  BY <1>1, <1>2, PTL DEF Spec

-----------------------------------------------------------------------------
(* Nobody sleeps without a place in the queue. *)

LEMMA KeepsPlaceTail ==
  ASSUME NEW q \in Seq(Entry), q # <<>>, NEW c \in Conn, Queued(q, c), Head(q).conn # c
  PROVE  Queued(Tail(q), c)
<1>1. PICK i \in 1 .. Len(q) : q[i].conn = c /\ q[i].open
  BY DEF Queued
<1>2. i # 1 /\ Len(q) \in Nat /\ Len(Tail(q)) = Len(q) - 1
  BY <1>1
<1>3. i - 1 \in 1 .. Len(Tail(q)) /\ Tail(q)[i - 1] = q[i]
  BY <1>2
<1> QED
  BY <1>1, <1>3 DEF Queued

LEMMA KeepsPlaceSub ==
  ASSUME NEW q \in Seq(Entry), NEW n \in 0 .. Len(q), NEW c \in Conn, Queued(q, c),
         c \notin {q[i].conn : i \in 1 .. n}
  PROVE  Queued(SubSeq(q, n + 1, Len(q)), c)
<1> DEFINE r == SubSeq(q, n + 1, Len(q))
<1>1. PICK i \in 1 .. Len(q) : q[i].conn = c /\ q[i].open
  BY DEF Queued
<1>2. i > n /\ Len(q) \in Nat /\ n \in Nat
  BY <1>1
<1>3. Len(r) = Len(q) - n /\ \A j \in 1 .. Len(q) - n : r[j] = q[n + j]
  BY <1>2, SubSeqProperties
<1>4. i - n \in 1 .. Len(r) /\ r[i - n] = q[i]
  BY <1>2, <1>3
<1> QED
  BY <1>1, <1>4 DEF Queued

LEMMA KeepsPlaceJoined ==
  ASSUME NEW q \in Seq(Entry), NEW e \in Entry, NEW c \in Conn,
         Queued(q, c) \/ (e.conn = c /\ e.open)
  PROVE  Queued(Append(q, e), c) /\ Queued(<<e>> \o q, c)
<1>1. Len(q) \in Nat /\ <<e>> \in Seq(Entry) /\ Len(<<e>>) = 1 /\ <<e>>[1] = e
  OBVIOUS
<1>2. /\ Len(Append(q, e)) = Len(q) + 1 /\ Append(q, e)[Len(q) + 1] = e
      /\ \A i \in 1 .. Len(q) : Append(q, e)[i] = q[i]
  BY <1>1
<1>3. /\ Len(<<e>> \o q) = Len(q) + 1 /\ (<<e>> \o q)[1] = e
      /\ \A i \in 1 .. Len(q) : (<<e>> \o q)[i + 1] = q[i]
  BY <1>1, ConcatProperties
<1>4. CASE e.conn = c /\ e.open
  BY <1>1, <1>2, <1>3, <1>4 DEF Queued
<1>5. CASE Queued(q, c)
  <2>1. PICK i \in 1 .. Len(q) : q[i].conn = c /\ q[i].open
    BY <1>5 DEF Queued
  <2>2. i \in 1 .. Len(q) + 1 /\ i + 1 \in 1 .. Len(q) + 1
    BY <1>1
  <2> QED
    BY <1>2, <1>3, <2>1, <2>2 DEF Queued
<1> QED
  BY <1>4, <1>5

LEMMA KeepsPlaceFreed ==
  ASSUME NEW q \in Seq(Entry), NEW c \in Conn, NEW d \in Conn, c # d, Queued(q, c)
  PROVE  Queued(Freed(q, d), c)
<1>1. PICK i \in 1 .. Len(q) : q[i].conn = c /\ q[i].open
  BY DEF Queued
<1>2. q[i] \in Entry /\ Len(Freed(q, d)) = Len(q)
  BY FreedType
<1>3. Freed(q, d)[i] = [q[i] EXCEPT !.open = @ /\ q[i].conn # d]
  BY DEF Freed
<1>4. Freed(q, d)[i].conn = c /\ Freed(q, d)[i].open
  BY <1>1, <1>2, <1>3 DEF Entry
<1> QED
  BY <1>2, <1>4 DEF Queued

\* No step but a busy answer puts a thread to sleep.
LEMMA SleepersKeepPlaces ==
  ASSUME TypeOK, SleeperIsQueued,
         \A d \in Conn : pc'[d] = "asleep" => pc[d] = "asleep",
         UNCHANGED queue
  PROVE  SleeperIsQueued'
BY DEF SleeperIsQueued, Queued

LEMMA BusyPlaces ==
  ASSUME TypeOK, SleeperIsQueued, NEW c \in Conn, NEW w \in Level,
         NEW flag \in {"SHARED", "EXCLUSIVE"}, BusyBySibling(c, w, flag)
  PROVE  SleeperIsQueued'
<1> DEFINE p == Home[c]
           q == queue[p]
           e == [conn |-> c, want |-> w, flag |-> flag, open |-> TRUE]
<1>1. /\ p \in Proc /\ q \in Seq(Entry) /\ e \in Entry /\ e.conn = c /\ e.open
      /\ pc \in [Conn -> Inside \cup Outside] /\ queue \in [Proc -> Seq(Entry)]
  BY DEF TypeOK, Entry
<1>2. CASE pc' = [pc EXCEPT ![c] = "idle"] /\ UNCHANGED queue
  BY <1>1, <1>2, SleepersKeepPlaces
<1>3. CASE /\ q # <<>>
           /\ pc' = [Woken({Head(q).conn}) EXCEPT ![c] = "idle"]
           /\ queue' = [queue EXCEPT ![p] = Tail(q)]
  <2> SUFFICES ASSUME NEW d \in Conn, pc'[d] = "asleep"
               PROVE  Queued(queue'[Home[d]], d)
    BY DEF SleeperIsQueued, Queued
  <2>1. pc[d] = "asleep" /\ d # Head(q).conn
    BY <1>1, <1>3 DEF Woken
  <2>2. Queued(queue[Home[d]], d) /\ Home[d] \in Proc
    BY <2>1 DEF SleeperIsQueued
  <2>3. CASE Home[d] = p
    <3>1. Queued(Tail(q), d)
      BY <1>1, <1>3, <2>1, <2>2, <2>3, KeepsPlaceTail
    <3> QED
      BY <1>1, <1>3, <2>3, <3>1
  <2>4. CASE Home[d] # p
    BY <1>1, <1>3, <2>2, <2>4
  <2> QED
    BY <2>3, <2>4
<1>4. CASE /\ pc' = [pc EXCEPT ![c] = "asleep"]
           /\ queue' = [queue EXCEPT ![p] = IF c \in Main THEN <<e>> \o q ELSE Append(q, e)]
  <2> SUFFICES ASSUME NEW d \in Conn, pc'[d] = "asleep"
               PROVE  Queued(queue'[Home[d]], d)
    BY DEF SleeperIsQueued, Queued
  <2>1. d = c \/ Queued(queue[Home[d]], d)
    BY <1>1, <1>4 DEF SleeperIsQueued
  <2>2. CASE Home[d] = p
    <3>1. Queued(<<e>> \o q, d) /\ Queued(Append(q, e), d)
      <4>1. Queued(q, d) \/ (e.conn = d /\ e.open)
        BY <1>1, <2>1, <2>2
      <4> HIDE DEF e, q
      <4> QED
        BY <1>1, <4>1, KeepsPlaceJoined
    <3>2. queue'[p] = IF c \in Main THEN <<e>> \o q ELSE Append(q, e)
      BY <1>1, <1>4
    <3> HIDE DEF e, q
    <3> QED
      BY <2>2, <3>1, <3>2
  <2>3. CASE Home[d] # p
    <3>1. queue'[Home[d]] = queue[Home[d]]
      BY <1>1, <1>4, <2>3
    <3> QED
      BY <2>1, <2>3, <3>1
  <2> QED
    BY <2>2, <2>3
<1> QED
  BY <1>2, <1>3, <1>4 DEF BusyBySibling

LEMMA SignalPlaces ==
  ASSUME TypeOK, SleeperIsQueued, NEW c \in Conn, NEW lock, NEW shared,
         SignalAndLeave(c, lock, shared)
  PROVE  SleeperIsQueued'
<1> DEFINE p == Home[c]
           q == queue[p]
<1>1. /\ p \in Proc /\ q \in Seq(Entry)
      /\ pc \in [Conn -> Inside \cup Outside] /\ queue \in [Proc -> Seq(Entry)]
  BY DEF TypeOK
<1>2. PICK n \in 0 .. Len(q) :
        /\ queue' = [queue EXCEPT ![p] = SubSeq(q, n + 1, Len(q))]
        /\ pc' = [Woken({q[i].conn : i \in 1 .. n}) EXCEPT ![c] = "unlocked"]
  BY DEF SignalAndLeave
<1> SUFFICES ASSUME NEW d \in Conn, pc'[d] = "asleep"
             PROVE  Queued(queue'[Home[d]], d)
  BY DEF SleeperIsQueued, Queued
<1>3. pc[d] = "asleep" /\ d \notin {q[i].conn : i \in 1 .. n}
  BY <1>1, <1>2 DEF Woken
<1>4. Queued(queue[Home[d]], d) /\ Home[d] \in Proc
  BY <1>3 DEF SleeperIsQueued
<1>5. CASE Home[d] = p
  <2>1. Queued(q, d)
    BY <1>4, <1>5
  <2>2. queue'[Home[d]] = SubSeq(q, n + 1, Len(q))
    BY <1>1, <1>2, <1>5
  <2> HIDE DEF q
  <2>3. Queued(SubSeq(q, n + 1, Len(q)), d)
    BY <1>1, <1>3, <2>1, KeepsPlaceSub
  <2> QED
    BY <2>2, <2>3
<1>6. CASE Home[d] # p
  BY <1>1, <1>2, <1>4, <1>6
<1> QED
  BY <1>5, <1>6

LEMMA ClosePlaces ==
  ASSUME TypeOK, SleeperIsQueued, NEW c \in Conn, Close(c)
  PROVE  SleeperIsQueued'
<1> DEFINE p == Home[c]
           q == queue[p]
<1>1. /\ p \in Proc /\ q \in Seq(Entry)
      /\ pc \in [Conn -> Inside \cup Outside] /\ queue \in [Proc -> Seq(Entry)]
  BY DEF TypeOK
<1>2. /\ pc' = [pc EXCEPT ![c] = "closed"]
      /\ queue' = [queue EXCEPT ![p] = IF \A d \in Siblings(p) \ {c} : pc[d] = "closed"
                                       THEN <<>> ELSE Freed(@, c)]
  BY DEF Close
<1> SUFFICES ASSUME NEW d \in Conn, pc'[d] = "asleep"
             PROVE  Queued(queue'[Home[d]], d)
  BY DEF SleeperIsQueued, Queued
<1>3. pc[d] = "asleep" /\ d # c
  BY <1>1, <1>2
<1>4. Queued(queue[Home[d]], d) /\ Home[d] \in Proc
  BY <1>3 DEF SleeperIsQueued
<1>5. CASE Home[d] = p
  <2>1. d \in Siblings(p) \ {c} /\ pc[d] # "closed"
    BY <1>3, <1>5 DEF Siblings
  <2>2. queue'[Home[d]] = Freed(q, c)
    BY <1>1, <1>2, <1>5, <2>1
  <2>3. Queued(Freed(q, c), d)
    BY <1>1, <1>3, <1>4, <1>5, KeepsPlaceFreed
  <2> QED
    BY <2>2, <2>3
<1>6. CASE Home[d] # p
  BY <1>1, <1>2, <1>4, <1>6
<1> QED
  BY <1>5, <1>6

LEMMA ConnPlaces ==
  ASSUME TypeOK, SleeperIsQueued, NEW c \in Conn,
         \/ \E w \in {SHARED_LOCK, RESERVED_LOCK, EXCLUSIVE_LOCK} : Request(c, w)
         \/ \E to \in {NO_LOCK, SHARED_LOCK} : Unlock(c, to)
         \/ Step(c) \/ WakeUp(c) \/ Open(c) \/ Close(c)
  PROVE  SleeperIsQueued'
<1>1. pc \in [Conn -> Inside \cup Outside] /\ want[c] \in Level
  BY DEF TypeOK
<1>2. CASE \E w \in {SHARED_LOCK, RESERVED_LOCK, EXCLUSIVE_LOCK} : Request(c, w)
  <2>1. PICK w \in {SHARED_LOCK, RESERVED_LOCK, EXCLUSIVE_LOCK} : Request(c, w)
    BY <1>2
  <2>2. w \in Level
    BY DEF Level, NO_LOCK, SHARED_LOCK, RESERVED_LOCK, EXCLUSIVE_LOCK
  <2>3. CASE BusyBySibling(c, w, "SHARED")
    BY <2>2, <2>3, BusyPlaces
  <2>4. CASE UNCHANGED queue /\ \/ UNCHANGED pc
                                \/ pc' = [pc EXCEPT ![c] = "pending"]
                                \/ pc' = [pc EXCEPT ![c] = "exclusive"]
    BY <1>1, <2>4, SleepersKeepPlaces
  <2> QED
    BY <2>1, <2>3, <2>4 DEF Request
<1>3. CASE WriteLock(c)
  <2>1. CASE BusyBySibling(c, want[c], "EXCLUSIVE")
    BY <1>1, <2>1, BusyPlaces
  <2>2. CASE UNCHANGED queue /\ pc' = [pc EXCEPT ![c] = "idle"]
    BY <1>1, <2>2, SleepersKeepPlaces
  <2> QED
    BY <1>3, <2>1, <2>2 DEF WriteLock, Crowded
<1>4. CASE UnlockBytes(c)
  <2>1. CASE SignalAndLeave(c, SHARED_LOCK, nShared[Home[c]])
    BY <2>1, SignalPlaces
  <2>2. CASE UNCHANGED queue /\ pc' = [pc EXCEPT ![c] = "last"]
    BY <1>1, <2>2, SleepersKeepPlaces
  <2> QED
    BY <1>4, <2>1, <2>2 DEF UnlockBytes
<1>5. CASE UnlockLast(c)
  <2> DEFINE left == nShared[Home[c]] - 1
             lock == IF left = 0 THEN NO_LOCK ELSE ilock[Home[c]]
  <2>1. SignalAndLeave(c, lock, left)
    BY <1>5 DEF UnlockLast, LastReader
  <2> HIDE DEF left, lock
  <2> QED
    BY <2>1, SignalPlaces
<1>6. CASE Close(c)
  BY <1>6, ClosePlaces
<1>7. CASE \/ \E to \in {NO_LOCK, SHARED_LOCK} : Unlock(c, to)
           \/ LockPendingByte(c) \/ ReadLockRange(c) \/ DropPendingByte(c)
           \/ DowngradeRange(c) \/ FinishUnlock(c) \/ WakeUp(c) \/ Open(c)
  <2>1. UNCHANGED queue /\ \E x \in Inside \cup {"idle"} : pc' = [pc EXCEPT ![c] = x]
    BY <1>7 DEF Unlock, LockPendingByte, ReadLockRange, DropPendingByte, DowngradeRange,
                FinishUnlock, WakeUp, Open, Inside
  <2>2. "asleep" \notin Inside \cup {"idle"}
    BY DEF Inside
  <2> QED
    BY <1>1, <2>1, <2>2, SleepersKeepPlaces
<1> QED
  BY <1>2, <1>3, <1>4, <1>5, <1>6, <1>7 DEF Step

\* Whatever is signalled, cleared or timed out: who sleeps has a place in the
\* queue of os_wcdb.c from which a sibling can wake it.
THEOREM SleeperIsQueuedHolds == Spec => []SleeperIsQueued
<1>1. Init => SleeperIsQueued
  BY DEF Init, SleeperIsQueued
<1>2. LockInv /\ SleeperIsQueued /\ [Next]_vars => SleeperIsQueued'
  <2> SUFFICES ASSUME LockInv, SleeperIsQueued, [Next]_vars PROVE SleeperIsQueued'
    OBVIOUS
  <2>1. TypeOK
    BY DEF LockInv
  <2>2. CASE \E c \in Conn :
               \/ \E w \in {SHARED_LOCK, RESERVED_LOCK, EXCLUSIVE_LOCK} : Request(c, w)
               \/ \E to \in {NO_LOCK, SHARED_LOCK} : Unlock(c, to)
               \/ Step(c) \/ WakeUp(c) \/ Open(c) \/ Close(c)
    BY <2>1, <2>2, ConnPlaces
  <2>3. CASE \E p \in Proc : Crash(p)
    <3>1. PICK p \in Proc : Crash(p)
      BY <2>3
    <3> SUFFICES ASSUME NEW d \in Conn, pc'[d] = "asleep"
                 PROVE  Queued(queue'[Home[d]], d)
      BY DEF SleeperIsQueued, Queued
    <3>2. pc[d] = "asleep" /\ Home[d] # p
      BY <2>1, <3>1 DEF Crash, TypeOK
    <3>3. queue'[Home[d]] = queue[Home[d]]
      BY <2>1, <3>1, <3>2 DEF Crash, TypeOK
    <3> QED
      BY <3>2, <3>3 DEF SleeperIsQueued
  <2>4. CASE UNCHANGED vars
    BY <2>1, <2>4, SleepersKeepPlaces DEF vars, inodeVars
  <2> QED
    BY <2>2, <2>3, <2>4 DEF Next
<1> QED
  BY <1>1, <1>2, LockInvHolds, PTL DEF Spec

LEMMA HeldAndLev ==
  ASSUME LockInv, NEW c \in Conn
  PROVE  /\ Held[c] \in Level /\ Lev[c] \in Level
         /\ Held[c] >= SHARED_LOCK => Lev[c] >= SHARED_LOCK
         /\ Lev[c] >= SHARED_LOCK => Held[c] >= SHARED_LOCK
         /\ Held[c] >= RESERVED_LOCK => Held[c] = Lev[c]
         /\ Held[c] = EXCLUSIVE_LOCK => ~(pc[c] = "bytes" /\ want[c] = SHARED_LOCK)
<1>1. eFileLock[c] \in Level /\ want[c] \in Level
  BY DEF LockInv, TypeOK
<1>2. pc[c] = "last" => eFileLock[c] >= SHARED_LOCK
  BY DEF LockInv, CallOK
<1>3. pc[c] = "bytes" => eFileLock[c] >= RESERVED_LOCK
  BY DEF LockInv, CallOK
<1> QED
  BY <1>1, <1>2, <1>3, LevelOrder DEF Held, Lev

\* A process some handle of which reads has the range locked.
LEMMA ReaderHoldsRange ==
  ASSUME LockInv, NEW c \in Conn, Held[c] >= SHARED_LOCK
  PROVE  os[Home[c]]["range"] # "none"
<1>1. c \in ReadersIn(Lev, Home[c])
  BY HeldAndLev DEF ReadersIn, Siblings
<1> QED
  BY <1>1 DEF LockInv, SystemOK

LEMMA HoldsWhatItHas ==
  ASSUME LockInv, NEW c \in Conn
  PROVE  /\ Held[c] >= SHARED_LOCK => os[Home[c]]["range"] # "none"
         /\ Held[c] = RESERVED_LOCK => os[Home[c]]["reserved"] = "write"
         /\ Held[c] >= PENDING_LOCK => os[Home[c]]["pending"] = "write"
         /\ Held[c] = EXCLUSIVE_LOCK => os[Home[c]]["range"] = "write"
<1>1. SystemOK(Home[c]) /\ c \in Siblings(Home[c])
  BY DEF LockInv, Siblings
<1>2. /\ Held[c] = RESERVED_LOCK => Lev[c] = RESERVED_LOCK
      /\ Held[c] >= PENDING_LOCK => Lev[c] >= PENDING_LOCK
      /\ Held[c] = EXCLUSIVE_LOCK => Lev[c] = EXCLUSIVE_LOCK /\ ~(pc[c] = "bytes" /\ want[c] = SHARED_LOCK)
  BY HeldAndLev, LevelOrder
<1> QED
  BY <1>1, <1>2, ReaderHoldsRange DEF SystemOK

LEMMA InvWriterIsAlone == LockInv => WriterIsAlone
<1> SUFFICES ASSUME LockInv, NEW c \in Conn, NEW d \in Conn, c # d, Held[c] = EXCLUSIVE_LOCK
             PROVE  Held[d] = NO_LOCK
  BY DEF WriterIsAlone
<1>1. Lev[c] = EXCLUSIVE_LOCK /\ os[Home[c]]["range"] = "write"
  BY HeldAndLev, HoldsWhatItHas, LevelOrder
<1>2. CASE Home[d] = Home[c]
  <2>1. ReadersIn(Lev, Home[c]) = {c}
    BY <1>1, LevelOrder DEF LockInv, InodeOK, Siblings
  <2>2. ~(Lev[d] >= SHARED_LOCK)
    BY <1>2, <2>1 DEF ReadersIn, Siblings
  <2> QED
    BY <2>2, HeldAndLev, LevelOrder
<1>3. CASE Home[d] # Home[c]
  <2>1. os[Home[d]]["range"] = "none"
    BY <1>1, <1>3 DEF LockInv, NoConflict, Byte
  <2>2. ~(Held[d] >= SHARED_LOCK)
    BY <2>1, ReaderHoldsRange
  <2> QED
    BY <2>2, HeldAndLev, LevelOrder
<1> QED
  BY <1>2, <1>3

LEMMA InvOneOfAKind == LockInv => OneOfAKind
<1> SUFFICES ASSUME LockInv, NEW c \in Conn, NEW d \in Conn, c # d, Held[c] = Held[d],
                    ~(Held[c] <= SHARED_LOCK)
             PROVE  FALSE
  BY DEF OneOfAKind
<1>1. /\ Held[c] \in {RESERVED_LOCK, PENDING_LOCK, EXCLUSIVE_LOCK}
      /\ Lev[c] = Held[c] /\ Lev[d] = Held[c] /\ Lev[c] >= RESERVED_LOCK
  BY HeldAndLev, LevelOrder
<1>2. CASE Home[d] = Home[c]
  <2>1. Lev[d] <= SHARED_LOCK
    BY <1>1, <1>2 DEF LockInv, InodeOK, Siblings
  <2> QED
    BY <1>1, <2>1, LevelOrder
<1>3. CASE Home[d] # Home[c]
  <2>1. \E b \in Byte : os[Home[c]][b] = "write" /\ os[Home[d]][b] = "write"
    <3>1. CASE Held[c] = RESERVED_LOCK
      BY <3>1, HoldsWhatItHas DEF Byte
    <3>2. CASE Held[c] >= PENDING_LOCK
      BY <3>2, HoldsWhatItHas DEF Byte
    <3> QED
      BY <1>1, <3>1, <3>2, LevelOrder
  <2> QED
    BY <1>3, <2>1 DEF LockInv, NoConflict
<1> QED
  BY <1>2, <1>3

\* Whoever has EXCLUSIVE_LOCK is alone with the database file, in every state
\* and for any number of processes and connections.
THEOREM WriterIsAloneHolds == Spec => []WriterIsAlone
BY LockInvHolds, InvWriterIsAlone, PTL

\* RESERVED_LOCK and PENDING_LOCK have one owner each at any time.
THEOREM OneOfAKindHolds == Spec => []OneOfAKind
BY LockInvHolds, InvOneOfAKind, PTL

\* A lock a connection relies on is never taken away under it by a sibling's
\* unlock, failed attempt or close.
THEOREM SystemHoldsItHolds == Spec => []SystemHoldsIt
<1>1. LockInv => SystemHoldsIt
  BY HoldsWhatItHas DEF SystemHoldsIt
<1> QED
  BY <1>1, LockInvHolds, PTL

-----------------------------------------------------------------------------
(* The refinement: os_unix.c implements the ladder of FileLock. *)

\* The level of every connection stays but that of c.
OnlyC(c, l) == Held' = [Held EXCEPT ![c] = l]

LEMMA HeldFrame ==
  ASSUME LockInv, LockInv', NEW c \in Conn, Frame(c)
  PROVE  OnlyC(c, Held'[c]) /\ \A d \in Conn \ {c} : Held'[d] = Held[d]
<1>1. ASSUME NEW d \in Conn \ {c} PROVE Held'[d] = Held[d]
  BY DEF Frame, Disturbs, Held
<1>2. Held = [d \in Conn |-> Held[d]] /\ Held' = [d \in Conn |-> Held'[d]]
  BY DEF Held
<1> QED
  BY <1>1, <1>2 DEF OnlyC

LadderStep == Ladder!Next \/ Held' = Held

LEMMA LadderLevels ==
  /\ Ladder!NO_LOCK = 0 /\ Ladder!SHARED_LOCK = 1 /\ Ladder!RESERVED_LOCK = 2
  /\ Ladder!PENDING_LOCK = 3 /\ Ladder!EXCLUSIVE_LOCK = 4
BY DEF Ladder!NO_LOCK, Ladder!SHARED_LOCK, Ladder!RESERVED_LOCK, Ladder!PENDING_LOCK,
       Ladder!EXCLUSIVE_LOCK

LEMMA StutterRefines ==
  ASSUME LockInv, LockInv', NEW c \in Conn, Frame(c), Held'[c] = Held[c]
  PROVE  LadderStep
<1>1. Held = [d \in Conn |-> Held[d]]
  BY DEF Held
<1> QED
  BY <1>1, HeldFrame DEF OnlyC, LadderStep

LEMMA ReleaseRefines ==
  ASSUME LockInv, LockInv', NEW c \in Conn, Frame(c), Held'[c] \in {NO_LOCK, SHARED_LOCK},
         Held[c] > Held'[c]
  PROVE  LadderStep
<1>1. Ladder!Release(c, Held'[c])
  BY HeldFrame DEF OnlyC, Ladder!Release
<1>2. Held'[c] \in {Ladder!NO_LOCK, Ladder!SHARED_LOCK}
  BY LevelOrder, LadderLevels
<1> QED
  BY <1>1, <1>2 DEF LadderStep, Ladder!Next

\* A new reader: the invariant of the new state says that nobody else excludes it.
LEMMA ShareRefines ==
  ASSUME LockInv, LockInv', NEW c \in Conn, Frame(c), Held[c] = NO_LOCK, Held'[c] = SHARED_LOCK,
         \/ \A d \in Conn \ {c} : Held[d] < PENDING_LOCK
         \/ /\ \E d \in Conn \ {c} : Home[d] = Home[c] /\ Held[d] >= SHARED_LOCK
            /\ \A d \in Conn \ {c} : Home[d] = Home[c] => Held[d] < PENDING_LOCK
  PROVE  LadderStep
<1>1. WriterIsAlone'
  BY InvWriterIsAlone, PTL
<1>2. ASSUME NEW d \in Conn \ {c} PROVE Held[d] # EXCLUSIVE_LOCK
  <2>1. Held'[d] = Held[d]
    BY HeldFrame
  <2>2. Held'[d] = EXCLUSIVE_LOCK => Held'[c] = NO_LOCK
    BY <1>1 DEF WriterIsAlone
  <2> QED
    BY <2>1, <2>2, LevelOrder
<1>3. Held' = [Held EXCEPT ![c] = SHARED_LOCK]
  BY HeldFrame DEF OnlyC
<1>4. Ladder!Share(c)
  BY <1>2, <1>3, LevelOrder, LadderLevels DEF Ladder!Share, Ladder!Others, Ladder!Siblings
<1> QED
  BY <1>4 DEF LadderStep, Ladder!Next

LEMMA RaiseRefines ==
  ASSUME LockInv, LockInv', NEW c \in Conn, Frame(c),
         Held'[c] \in {RESERVED_LOCK, PENDING_LOCK, EXCLUSIVE_LOCK},
         Held[c] \in {SHARED_LOCK, RESERVED_LOCK, PENDING_LOCK},
         Held'[c] = RESERVED_LOCK => Held[c] = SHARED_LOCK
  PROVE  LadderStep
<1>1. WriterIsAlone' /\ OneOfAKind'
  BY InvWriterIsAlone, InvOneOfAKind, PTL
<1>2. \A d \in Conn \ {c} : Held'[d] = Held[d] /\ Held[d] \in Level
  BY HeldFrame, HeldAndLev
<1>3. ASSUME NEW d \in Conn \ {c}
      PROVE  /\ Held[d] = EXCLUSIVE_LOCK => Held'[c] = NO_LOCK
             /\ Held'[c] = EXCLUSIVE_LOCK => Held[d] = NO_LOCK
             /\ Held'[c] = Held[d] => Held[d] <= SHARED_LOCK
  BY <1>1, <1>2 DEF WriterIsAlone, OneOfAKind
<1>4. Held' = [Held EXCEPT ![c] = Held'[c]]
  BY HeldFrame DEF OnlyC
<1>5. CASE Held'[c] = RESERVED_LOCK
  <2>1. \A d \in Conn \ {c} : Held[d] \notin {RESERVED_LOCK, EXCLUSIVE_LOCK}
    BY <1>2, <1>3, <1>5, LevelOrder
  <2>2. Ladder!Reserve(c)
    BY <1>4, <1>5, <2>1, LevelOrder, LadderLevels DEF Ladder!Reserve, Ladder!Others
  <2> QED
    BY <2>2 DEF LadderStep, Ladder!Next
<1>6. CASE Held'[c] = PENDING_LOCK /\ Held[c] # PENDING_LOCK
  <2>1. \A d \in Conn \ {c} : Held[d] < PENDING_LOCK
    BY <1>2, <1>3, <1>6, LevelOrder
  <2>2. Ladder!Pend(c)
    BY <1>4, <1>6, <2>1, LevelOrder, LadderLevels DEF Ladder!Pend, Ladder!Others
  <2> QED
    BY <2>2 DEF LadderStep, Ladder!Next
<1>7. CASE Held'[c] = PENDING_LOCK /\ Held[c] = PENDING_LOCK
  BY <1>7, StutterRefines
<1>8. CASE Held'[c] = EXCLUSIVE_LOCK
  <2>1. \A d \in Conn \ {c} : Held[d] = NO_LOCK
    BY <1>3, <1>8
  <2>2. Ladder!Exclude(c)
    BY <1>4, <1>8, <2>1, LevelOrder, LadderLevels DEF Ladder!Exclude, Ladder!Others
  <2> QED
    BY <2>2 DEF LadderStep, Ladder!Next
<1> QED
  BY <1>5, <1>6, <1>7, <1>8

LEMMA RequestRefines ==
  ASSUME LockInv, LockInv', NEW c \in Conn, Frame(c),
         NEW w \in {SHARED_LOCK, RESERVED_LOCK, EXCLUSIVE_LOCK}, Request(c, w)
  PROVE  LadderStep
<1>1. TypeOK /\ InodeOK(Home[c]) /\ pc[c] = "idle" /\ Held[c] = eFileLock[c] /\ c \in Siblings(Home[c])
  BY DEF LockInv, Request, Held, Siblings
<1>2. CASE eFileLock' = eFileLock
  <2>1. pc'[c] \in {"idle", "asleep", "pending", "exclusive"}
    <3>1. CASE BusyBySibling(c, w, "SHARED")
      BY <1>1, <3>1, BusyLeaves, LevelOrder
    <3>2. CASE pc' = pc \/ pc' = [pc EXCEPT ![c] = "pending"] \/ pc' = [pc EXCEPT ![c] = "exclusive"]
      BY <1>1, <3>2 DEF TypeOK
    <3> QED
      BY <3>1, <3>2 DEF Request
  <2>2. Held'[c] = Held[c]
    BY <1>1, <1>2, <2>1 DEF Held
  <2> QED
    BY <2>2, StutterRefines
<1>3. CASE /\ ~Precluded(c, w) /\ w = SHARED_LOCK
           /\ ilock[Home[c]] \in {SHARED_LOCK, RESERVED_LOCK}
           /\ eFileLock' = [eFileLock EXCEPT ![c] = SHARED_LOCK] /\ pc' = pc
           /\ eFileLock[c] < w
  <2>1. Held[c] = NO_LOCK /\ Held'[c] = SHARED_LOCK /\ Lev[c] = NO_LOCK
    <3>1. eFileLock \in [Conn -> Level]
      BY <1>1 DEF TypeOK
    <3>2. eFileLock[c] = NO_LOCK
      BY <1>3, <3>1, LevelOrder
    <3>3. eFileLock'[c] = SHARED_LOCK /\ pc'[c] = "idle"
      BY <1>1, <1>3, <3>1
    <3> QED
      BY <1>1, <3>2, <3>3 DEF Held, Lev
  <2>2. PICK d \in Siblings(Home[c]) : Lev[d] >= SHARED_LOCK
    BY <1>1, <1>3, LevelOrder DEF InodeOK, ReadersIn
  <2>3. d \in Conn \ {c} /\ Home[d] = Home[c] /\ Held[d] >= SHARED_LOCK
    BY <2>1, <2>2, HeldAndLev, LevelOrder DEF Siblings
  <2>4. ASSUME NEW e \in Conn \ {c}, Home[e] = Home[c] PROVE Held[e] < PENDING_LOCK
    <3>1. SUFFICES ASSUME Held[e] >= PENDING_LOCK PROVE FALSE
      BY HeldAndLev, LevelOrder
    <3>2. Lev[e] >= PENDING_LOCK /\ Lev[e] >= RESERVED_LOCK
      BY <3>1, HeldAndLev, LevelOrder
    <3>3. ilock[Home[c]] = Lev[e]
      BY <1>1, <2>4, <3>2 DEF InodeOK, Siblings
    <3> QED
      BY <1>3, <3>2, <3>3, LevelOrder
  <2> QED
    BY <2>1, <2>3, <2>4, ShareRefines
<1> QED
  BY <1>2, <1>3 DEF Request

LEMMA DropPendingByteRefines ==
  ASSUME LockInv, LockInv', NEW c \in Conn, Frame(c), DropPendingByte(c)
  PROVE  LadderStep
<1> DEFINE p == Home[c]
<1>1. /\ TypeOK /\ CallOK(c) /\ InodeOK(p) /\ pc[c] \in {"got", "refused"} /\ c \in Siblings(p)
  BY DEF LockInv, DropPendingByte, Siblings
<1>2. pc'[c] = "idle"
  BY <1>1 DEF DropPendingByte, TypeOK
<1>3. Held[c] = eFileLock[c] /\ Held'[c] = eFileLock'[c] /\ eFileLock[c] = NO_LOCK /\ ilock[p] = NO_LOCK
      /\ os[p]["pending"] = "read"
  BY <1>1, <1>2 DEF Held, CallOK
<1>4. CASE eFileLock' = eFileLock
  BY <1>3, <1>4, StutterRefines
<1>5. CASE eFileLock' = [eFileLock EXCEPT ![c] = SHARED_LOCK]
  <2>1. Held'[c] = SHARED_LOCK
    BY <1>1, <1>3, <1>5 DEF TypeOK
  <2>2. ASSUME NEW d \in Conn \ {c} PROVE Held[d] < PENDING_LOCK
    <3>1. SUFFICES ASSUME Held[d] >= PENDING_LOCK PROVE FALSE
      BY HeldAndLev, LevelOrder
    <3>2. CASE Home[d] = p
      <4>1. d \in ReadersIn(Lev, p)
        BY <3>1, <3>2, HeldAndLev, LevelOrder DEF ReadersIn, Siblings
      <4> QED
        BY <1>1, <1>3, <4>1 DEF InodeOK
    <3>3. CASE Home[d] # p
      <4>1. os[Home[d]]["pending"] = "write"
        BY <3>1, HoldsWhatItHas
      <4> QED
        BY <1>3, <3>3, <4>1 DEF LockInv, NoConflict, Byte
    <3> QED
      BY <3>2, <3>3
  <2> QED
    BY <1>3, <2>1, <2>2, ShareRefines
<1> QED
  BY <1>4, <1>5 DEF DropPendingByte

LEMMA WriteLockRefines ==
  ASSUME LockInv, LockInv', NEW c \in Conn, Frame(c), WriteLock(c)
  PROVE  LadderStep
<1>1. TypeOK /\ CallOK(c) /\ pc[c] = "exclusive" /\ want[c] \in Level
  BY DEF LockInv, WriteLock, Crowded, TypeOK
<1>2. pc'[c] \in {"idle", "asleep"}
  <2>1. CASE BusyBySibling(c, want[c], "EXCLUSIVE")
    BY <1>1, <2>1, BusyLeaves
  <2>2. CASE pc' = [pc EXCEPT ![c] = "idle"]
    BY <1>1, <2>2 DEF TypeOK
  <2> QED
    BY <2>1, <2>2 DEF WriteLock, Crowded
<1>3. Held[c] = eFileLock[c] /\ Held'[c] = eFileLock'[c]
  BY <1>1, <1>2 DEF Held
<1>4. /\ eFileLock[c] \in {SHARED_LOCK, RESERVED_LOCK, PENDING_LOCK}
      /\ want[c] \in {RESERVED_LOCK, EXCLUSIVE_LOCK}
      /\ want[c] = RESERVED_LOCK => eFileLock[c] = SHARED_LOCK
  BY <1>1, LevelOrder DEF CallOK, TypeOK
<1>5. \/ eFileLock' = eFileLock
      \/ eFileLock' = [eFileLock EXCEPT ![c] = PENDING_LOCK]
      \/ eFileLock' = [eFileLock EXCEPT ![c] = want[c]]
  BY DEF WriteLock, Crowded
<1>6. eFileLock'[c] \in {eFileLock[c], PENDING_LOCK, want[c]}
  BY <1>1, <1>5 DEF TypeOK
<1>7. CASE eFileLock'[c] = eFileLock[c]
  BY <1>3, <1>7, StutterRefines
<1>8. CASE eFileLock'[c] \in {PENDING_LOCK, want[c]}
  BY <1>3, <1>4, <1>8, LevelOrder, RaiseRefines
<1> QED
  BY <1>6, <1>7, <1>8

LEMMA LowerRefines ==
  ASSUME LockInv, LockInv', NEW c \in Conn, Frame(c),
         \/ \E to \in {NO_LOCK, SHARED_LOCK} : Unlock(c, to)
         \/ DowngradeRange(c) \/ UnlockBytes(c) \/ UnlockLast(c) \/ FinishUnlock(c)
  PROVE  LadderStep
<1>1. TypeOK /\ CallOK(c) /\ CallOK(c)' /\ eFileLock[c] \in Level /\ want[c] \in Level
  BY DEF LockInv, TypeOK
<1>2. CASE \E to \in {NO_LOCK, SHARED_LOCK} : Unlock(c, to)
  <2>1. PICK to \in {NO_LOCK, SHARED_LOCK} : Unlock(c, to)
    BY <1>2
  <2>2. /\ pc[c] = "idle" /\ eFileLock' = eFileLock /\ want'[c] = to /\ eFileLock[c] > to
        /\ pc'[c] = IF eFileLock[c] <= SHARED_LOCK THEN "last"
                    ELSE IF to = SHARED_LOCK THEN "downgrade" ELSE "bytes"
    BY <1>1, <2>1 DEF Unlock, TypeOK
  <2>3. Held'[c] = Held[c]
    BY <1>1, <2>2, LevelOrder DEF Held
  <2> QED
    BY <2>3, StutterRefines
<1>3. CASE DowngradeRange(c)
  <2>1. /\ pc[c] = "downgrade" /\ pc'[c] = "bytes" /\ want'[c] = want[c] /\ want[c] = SHARED_LOCK
        /\ eFileLock[c] >= RESERVED_LOCK
    BY <1>1, <1>3 DEF DowngradeRange, CallOK, TypeOK
  <2>2. Held[c] = eFileLock[c] /\ Held'[c] = SHARED_LOCK
    BY <2>1 DEF Held
  <2> QED
    BY <1>1, <2>1, <2>2, LevelOrder, ReleaseRefines
<1>4. CASE UnlockBytes(c)
  <2>1. pc[c] = "bytes" /\ eFileLock[c] >= RESERVED_LOCK /\ want'[c] = want[c]
    BY <1>1, <1>4 DEF UnlockBytes, CallOK
  <2>2. CASE want[c] = SHARED_LOCK
    <3>1. pc'[c] = "unlocked"
      BY <1>1, <1>4, <2>2, SignalLeaves, LevelOrder DEF UnlockBytes
    <3>2. Held[c] = SHARED_LOCK /\ Held'[c] = SHARED_LOCK
      BY <2>1, <2>2, <3>1 DEF Held
    <3> QED
      BY <3>2, StutterRefines
  <2>3. CASE want[c] = NO_LOCK
    <3>1. pc'[c] = "last"
      BY <1>1, <1>4, <2>3, LevelOrder DEF UnlockBytes, TypeOK
    <3>2. Held[c] = eFileLock[c] /\ Held'[c] = SHARED_LOCK
      BY <2>1, <2>3, <3>1, LevelOrder DEF Held
    <3> QED
      BY <1>1, <2>1, <3>2, LevelOrder, ReleaseRefines
  <2> QED
    BY <1>4, <2>2, <2>3 DEF UnlockBytes
<1>5. CASE UnlockLast(c)
  <2>1. pc[c] = "last" /\ want[c] = NO_LOCK /\ want'[c] = want[c] /\ pc'[c] = "unlocked"
    BY <1>1, <1>5, SignalLeaves DEF UnlockLast, LastReader, CallOK
  <2>2. Held[c] = SHARED_LOCK /\ Held'[c] = NO_LOCK
    BY <2>1 DEF Held
  <2> QED
    BY <2>2, LevelOrder, ReleaseRefines
<1>6. CASE FinishUnlock(c)
  <2>1. pc[c] = "unlocked" /\ pc'[c] = "idle" /\ eFileLock'[c] = want[c]
    BY <1>1, <1>6 DEF FinishUnlock, TypeOK
  <2>2. Held'[c] = Held[c]
    BY <2>1 DEF Held
  <2> QED
    BY <2>2, StutterRefines
<1> QED
  BY <1>2, <1>3, <1>4, <1>5, <1>6

LEMMA QuietRefines ==
  ASSUME LockInv, LockInv', NEW c \in Conn, Frame(c),
         LockPendingByte(c) \/ ReadLockRange(c) \/ WakeUp(c) \/ Open(c) \/ Close(c)
  PROVE  LadderStep
<1>1. /\ pc[c] \in {"pending", "shared", "asleep", "woken", "closed", "idle"}
      /\ pc'[c] \in {"shared", "exclusive", "got", "refused", "closed", "idle"}
      /\ eFileLock' = eFileLock
  BY DEF LockPendingByte, ReadLockRange, WakeUp, Open, Close, LockInv, TypeOK
<1>2. Held'[c] = Held[c]
  BY <1>1 DEF Held
<1> QED
  BY <1>2, StutterRefines

LEMMA CrashRefines ==
  ASSUME LockInv, NEW p \in Proc, Crash(p)
  PROVE  LadderStep
<1>1. Held' = [c \in Conn |-> IF c \in Siblings(p) THEN NO_LOCK ELSE Held[c]]
  BY DEF Crash, Held, Siblings
<1>2. Ladder!Abandon(Siblings(p))
  BY <1>1, LevelOrder, LadderLevels DEF Ladder!Abandon
<1>3. Siblings(p) \in SUBSET Conn
  BY DEF Siblings
<1> QED
  BY <1>2, <1>3 DEF LadderStep, Ladder!Next

LEMMA NextRefines == LockInv /\ LockInv' /\ [Next]_vars => [Ladder!Next]_Held
<1> SUFFICES ASSUME LockInv, LockInv', [Next]_vars PROVE LadderStep
  BY DEF LadderStep
<1>1. CASE UNCHANGED vars
  BY <1>1 DEF vars, inodeVars, Held, LadderStep
<1>2. ASSUME NEW p \in Proc, Crash(p) PROVE LadderStep
  BY <1>2, CrashRefines
<1>3. ASSUME NEW c \in Conn,
             \/ \E w \in {SHARED_LOCK, RESERVED_LOCK, EXCLUSIVE_LOCK} : Request(c, w)
             \/ \E to \in {NO_LOCK, SHARED_LOCK} : Unlock(c, to)
             \/ Step(c) \/ WakeUp(c) \/ Open(c) \/ Close(c)
      PROVE  LadderStep
  <2>1. Frame(c)
    BY <1>3, ConnStep
  <2> QED
    BY <1>3, <2>1, RequestRefines, DropPendingByteRefines, WriteLockRefines, LowerRefines,
       QuietRefines DEF Step
<1> QED
  BY <1>1, <1>2, <1>3 DEF Next

\* The locking of os_unix.c, system call by system call and with any number of
\* processes that may end at any point, implements the ladder of FileLock.
THEOREM LadderHolds == Spec => LadderSpec
<1>1. Init => Ladder!Init
  BY LevelOrder, LadderLevels DEF Init, Ladder!Init, Held
<1>2. LockInv /\ LockInv' /\ [Next]_vars => [Ladder!Next]_Held
  BY NextRefines
<1> QED
  BY <1>1, <1>2, LockInvHolds, PTL DEF Spec, LadderSpec, Ladder!Spec
=============================================================================
