----------------------------- MODULE PagerProofs -----------------------------
(***************************************************************************)
(* Proofs about Pager, for connections that live in processes of their     *)
(* own: PagerInv is inductive, what readers see follows from it, and the   *)
(* pager implements SnapshotStore.                                         *)
(***************************************************************************)
EXTENDS Pager, TLAPS

LEMMA Constants ==
  /\ 1 \in Page
  /\ NoPage \notin Nat /\ Torn \notin Nat /\ NoView \notin Nat
  /\ NoFile \notin Journal
  /\ EmptyJournal \in Journal
  /\ Recorded(EmptyJournal) = {}
<1>1. 1 \in Page
  BY PagerAssumption DEF Page
<1>2. NoPage \notin Nat /\ Torn \notin Nat /\ NoView \notin Nat
  BY PagerAssumption
<1>3. EmptyJournal \in Journal
  BY DEF EmptyJournal, Journal
<1>4. Recorded(EmptyJournal) = {}
  BY DEF EmptyJournal, Recorded
<1> QED
  BY <1>1, <1>2, <1>3, <1>4, JournalAssumption

\* With every connection in a process of its own, only the other side of
\* unixCheckReservedLock is left, and nobody has a sibling.
LEMMA NoSiblings ==
  ASSUME OneEach, NEW c \in Conn
  PROVE  /\ Ladder!Siblings(c) = {}
         /\ Reserved(c) <=> \E d \in Conn \ {c} : /\ held[d] > Ladder!SHARED_LOCK
                                                  /\ pc[d] # "failed"
<1>1. \A d \in Conn \ {c} : Home[d] # Home[c]
  BY DEF OneEach
<1>2. Ladder!Siblings(c) = {}
  BY <1>1 DEF Ladder!Siblings, Ladder!Others
<1> QED
  BY <1>1, <1>2 DEF Reserved

-----------------------------------------------------------------------------
(* The files. *)

Files == TypeOK /\ JournalOK /\ WriteAhead

FileFacts ==
  /\ Current = [p \in Page |-> Current[p]]
  /\ \A p \in Page : Current[p] \in Nat
  /\ NotHot => \A p \in Page : /\ Current[p] = db[p]
                               /\ db[p] # Torn
                               /\ platter[p] = {db[p]}
  /\ jrnl # NoFile =>
       /\ jrnl \in Journal
       /\ jrnl.sealed \subseteq Recorded(jrnl)
       /\ \A p \in jrnl.sealed : Current[p] = jrnl.rec[p]
       /\ \A p \in Page \ jrnl.sealed : Current[p] = db[p]

LEMMA CurrentAt ==
  /\ Current = [p \in Page |-> Current[p]]
  /\ jrnl = NoFile => \A p \in Page : Current[p] = db[p]
  /\ jrnl # NoFile =>
       \A p \in Page : Current[p] = IF p \in jrnl.sealed \cap Recorded(jrnl)
                                    THEN jrnl.rec[p] ELSE db[p]
  BY DEF Current, Recovered, Recorded

LEMMA CurrentAtNext ==
  /\ Current' = [p \in Page |-> Current'[p]]
  /\ jrnl' = NoFile => \A p \in Page : Current'[p] = db'[p]
  /\ jrnl' # NoFile =>
       \A p \in Page : Current'[p] = IF p \in jrnl'.sealed \cap Recorded(jrnl')
                                     THEN jrnl'.rec[p] ELSE db'[p]
  BY DEF Current, Recovered, Recorded

\* The records under a sealed header survive in Base.
LEMMA FilesHold == Files => FileFacts
<1> SUFFICES ASSUME Files PROVE FileFacts
  OBVIOUS
<1>1. /\ db \in [Page -> Content]
      /\ jrnl # NoFile => jrnl \in Journal
      /\ jsync # NoFile => jsync \in Journal
  BY DEF Files, TypeOK
<1>2. ASSUME jrnl # NoFile
      PROVE  /\ jrnl.sealed \subseteq Recorded(jrnl)
             /\ Base.sealed \subseteq jrnl.sealed
  <2>1. Base.rec \in [Page -> Nat \cup {NoPage}]
    BY <1>1, Constants DEF Base, Journal
  <2> QED
    BY <1>2, <2>1 DEF Files, JournalOK, Recorded
<1>3. \A p \in Page : jrnl # NoFile /\ p \in jrnl.sealed => jrnl.rec[p] \in Nat
  BY <1>1, <1>2 DEF Journal, Recorded
<1>4. \A p \in Page : jrnl = NoFile \/ p \notin jrnl.sealed
                        => db[p] \in Nat /\ db[p] # Torn /\ platter[p] = {db[p]}
  BY <1>1, <1>2 DEF Files, WriteAhead, Content
<1>5. jrnl # NoFile => /\ \A p \in jrnl.sealed : Current[p] = jrnl.rec[p]
                       /\ \A p \in Page \ jrnl.sealed : Current[p] = db[p]
  BY <1>2, CurrentAt DEF Recorded
<1>6. \A p \in Page : Current[p] \in Nat
  BY <1>3, <1>4, <1>5, CurrentAt
<1>7. NotHot => \A p \in Page : /\ Current[p] = db[p]
                                /\ db[p] # Torn
                                /\ platter[p] = {db[p]}
  BY <1>4, <1>5, CurrentAt DEF NotHot
<1> QED
  BY <1>1, <1>2, <1>5, <1>6, <1>7, CurrentAt DEF FileFacts

LEMMA FilesHoldNext == Files' => FileFacts'
  BY FilesHold, PTL

-----------------------------------------------------------------------------
(* The connections that do not move. *)

Stays(d) == /\ held'[d] = held[d] /\ pc'[d] = pc[d] /\ call'[d] = call[d]
            /\ todo'[d] = todo[d] /\ cache'[d] = cache[d]
            /\ dirty'[d] = dirty[d] /\ vers'[d] = vers[d]

OthersStay(c) == \A d \in Conn \ {c} : Stays(d)

OneConn(c) == LockOK(c) /\ CallOK(c) /\ ConnOK(c)

LEMMA Parts == PagerInv <=> Files /\ Alone /\ \A c \in Conn : OneConn(c)
  BY DEF PagerInv, Files, OneConn

LEMMA PartsNext == PagerInv' <=> Files' /\ Alone' /\ \A c \in Conn : OneConn(c)'
  BY DEF PagerInv, Files, OneConn

LEMMA LevelsStay ==
  ASSUME NEW d \in Conn, Stays(d), OneConn(d)
  PROVE  LockOK(d)' /\ CallOK(d)'
  BY DEF Stays, OneConn, LockOK, CallOK, Owner

\* What a connection stands on is the files alone, or for one that owns no
\* transaction the committed image and the promise that nothing is to be undone.
LEMMA StaysOnFiles ==
  ASSUME NEW d \in Conn, Stays(d), OneConn(d), UNCHANGED fileVars
  PROVE  OneConn(d)'
<1>1. LockOK(d)' /\ CallOK(d)'
  BY LevelsStay
<1>2. Current' = Current /\ Base' = Base /\ NotHot' = NotHot
  BY DEF fileVars, Current, Recovered, Base, NotHot
<1>3. Idle(d)' = Idle(d) /\ Writer(d)' = Writer(d)
  BY DEF Stays, Idle, Writer
<1>4. IdleOK(d)' = IdleOK(d) /\ ViewOK(d)' = ViewOK(d)
  BY <1>2 DEF Stays, IdleOK, ViewOK
<1>5. ChangeOK(d)' = ChangeOK(d)
  BY <1>2 DEF Stays, ChangeOK, Sealing, Committing, fileVars
<1>6. RestoreOK(d)' = RestoreOK(d)
  BY <1>2 DEF Stays, RestoreOK, fileVars
<1> QED
  BY <1>1, <1>2, <1>3, <1>4, <1>5, <1>6 DEF OneConn, ConnOK, Stays, fileVars

LEMMA StaysOnImage ==
  ASSUME NEW d \in Conn, Stays(d), OneConn(d), pc[d] \notin Owner,
         Current' = Current,
         NotHot => NotHot' \/ pc[d] = "open"
  PROVE  OneConn(d)'
<1>1. LockOK(d)' /\ CallOK(d)'
  BY LevelsStay
<1>2. Idle(d)' = Idle(d) /\ ~Writer(d)'
  BY DEF Stays, Idle, Writer, Owner
<1>3. IdleOK(d)' = IdleOK(d) /\ ViewOK(d)' = ViewOK(d)
  BY DEF Stays, IdleOK, ViewOK
<1>4. /\ pc'[d] \notin {"locked", "unlock", "pages", "dbsync", "delete"}
      /\ pc'[d] = pc[d]
  BY DEF Stays, Owner, Writing, Playing
<1> QED
  BY <1>1, <1>2, <1>3, <1>4 DEF OneConn, ConnOK, Stays, CallOK

\* A step of one connection that leaves the files alone.
LEMMA QuietStep ==
  ASSUME PagerInv, NEW c \in Conn, OthersStay(c), UNCHANGED fileVars,
         TypeOK', Alone', OneConn(c)'
  PROVE  PagerInv'
<1>1. Files'
  BY DEF PagerInv, Files, JournalOK, WriteAhead, Base, fileVars
<1>2. \A d \in Conn : OneConn(d)'
  BY StaysOnFiles, Parts DEF OthersStay
<1> QED
  BY <1>1, <1>2, PartsNext

\* A step of the owner that changes the files and not the committed image.
LEMMA OwnerStep ==
  ASSUME PagerInv, NEW c \in Conn, OthersStay(c), pc[c] \in Owner,
         Files', Alone', OneConn(c)', Current' = Current,
         NotHot => NotHot' \/ held[c] = Ladder!EXCLUSIVE_LOCK
  PROVE  PagerInv'
<1>1. ASSUME NEW d \in Conn \ {c}
      PROVE  OneConn(d)'
  <2>1. pc[d] \notin Owner
    BY DEF PagerInv, Alone
  <2>2. held[c] = Ladder!EXCLUSIVE_LOCK => held[d] = Ladder!NO_LOCK
    BY DEF PagerInv, Alone
  <2>3. OneConn(d) /\ Stays(d)
    BY Parts DEF OthersStay
  <2>4. held[d] = Ladder!NO_LOCK => pc[d] = "open"
    BY <2>3 DEF OneConn, LockOK
  <2> QED
    BY <2>1, <2>2, <2>3, <2>4, StaysOnImage
<1> QED
  BY <1>1, PartsNext

LEMMA AloneStays ==
  ASSUME PagerInv, NEW c \in Conn, OthersStay(c),
         held'[c] = Ladder!EXCLUSIVE_LOCK =>
           held[c] = Ladder!EXCLUSIVE_LOCK \/ \A d \in Conn \ {c} : held[d] = Ladder!NO_LOCK,
         held'[c] # Ladder!NO_LOCK =>
           held[c] # Ladder!NO_LOCK \/ \A d \in Conn \ {c} : held[d] # Ladder!EXCLUSIVE_LOCK,
         pc'[c] \in Owner => pc[c] \in Owner \/ \A d \in Conn \ {c} : pc[d] \notin Owner
  PROVE  Alone'
<1> SUFFICES ASSUME NEW a \in Conn, NEW b \in Conn, a # b
             PROVE  /\ held'[a] = Ladder!EXCLUSIVE_LOCK => held'[b] = Ladder!NO_LOCK
                    /\ ~(pc'[a] \in Owner /\ pc'[b] \in Owner)
  BY DEF Alone, Owner
<1>1. \A d \in Conn \ {c} : held'[d] = held[d] /\ pc'[d] = pc[d]
  BY DEF OthersStay, Stays
<1>2. \A d, e \in Conn : d # e =>
        /\ held[d] = Ladder!EXCLUSIVE_LOCK => held[e] = Ladder!NO_LOCK
        /\ ~(pc[d] \in Owner /\ pc[e] \in Owner)
  BY DEF PagerInv, Alone
<1>3. CASE a = c
  BY <1>1, <1>2, <1>3
<1>4. CASE b = c
  BY <1>1, <1>2, <1>4
<1>5. CASE a # c /\ b # c
  BY <1>1, <1>2, <1>5
<1> QED
  BY <1>3, <1>4, <1>5

\* The fields of a connection, each with its type.
LEMMA Types ==
  ASSUME PagerInv
  PROVE  /\ held \in [Conn -> Ladder!Level]
         /\ pc \in [Conn -> {"open", "validate", "reader"}
                              \cup Starting \cup Writing \cup Playing]
         /\ call \in [Conn -> {"none", "hot", "spill", "commit", "undo"}]
         /\ todo \in [Conn -> SUBSET Page]
         /\ cache \in [Conn -> [Page -> Nat \cup {NoPage}]]
         /\ dirty \in [Conn -> SUBSET Page]
         /\ vers \in [Conn -> Nat]
  BY DEF PagerInv, TypeOK

\* Steps that move the point of the code and the lock only.
Mover(c) == /\ OthersStay(c) /\ UNCHANGED fileVars
            /\ todo' = todo /\ cache' = cache /\ dirty' = dirty /\ vers' = vers
            /\ pc' \in [Conn -> {"open", "validate", "reader"}
                                  \cup Starting \cup Writing \cup Playing]
            /\ held' \in [Conn -> Ladder!Level]
            /\ call' = call

LEMMA Moves ==
  ASSUME PagerInv, NEW c \in Conn, Mover(c), Alone', LockOK(c)', CallOK(c)', ConnOK(c)'
  PROVE  PagerInv'
<1>1. TypeOK'
  BY DEF PagerInv, TypeOK, Mover, fileVars
<1> QED
  BY <1>1, QuietStep DEF Mover, OneConn

LEMMA StepsTo ==
  ASSUME PagerInv, NEW c \in Conn, NEW from, NEW to, Step(c, from, to)
  PROVE  /\ pc[c] = from
         /\ pc'[c] = to
         /\ \A d \in Conn \ {c} : pc'[d] = pc[d]
         /\ to \in {"open", "validate", "reader"} \cup Starting \cup Writing \cup Playing
              => pc' \in [Conn -> {"open", "validate", "reader"}
                                     \cup Starting \cup Writing \cup Playing]
  BY Types DEF Step, Goto

\* An idle connection stays one on the way to the cache.
LEMMA IdleStays ==
  ASSUME NEW c \in Conn, ConnOK(c), UNCHANGED fileVars, Idle(c),
         dirty'[c] = dirty[c], cache'[c] = cache[c], vers'[c] = vers[c]
  PROVE  IdleOK(c)'
<1>1. Current' = Current
  BY DEF fileVars, Current, Recovered
<1> QED
  BY <1>1 DEF ConnOK, IdleOK

\* The levels, as numbers.
LEMMA Levels ==
  /\ Ladder!NO_LOCK = 0 /\ Ladder!SHARED_LOCK = 1 /\ Ladder!RESERVED_LOCK = 2
  /\ Ladder!PENDING_LOCK = 3 /\ Ladder!EXCLUSIVE_LOCK = 4
  /\ Ladder!Level = 0 .. 4
  BY DEF Ladder!NO_LOCK, Ladder!SHARED_LOCK, Ladder!RESERVED_LOCK, Ladder!PENDING_LOCK,
     Ladder!EXCLUSIVE_LOCK, Ladder!Level

Outside == {"open", "validate"} \cup Starting

\* Steps from one point before the transaction to another.
LEMMA OutsideKeeps ==
  ASSUME PagerInv, NEW c \in Conn, Mover(c), Alone', LockOK(c)',
         pc[c] \in Outside, pc'[c] \in Outside,
         pc'[c] = "validate" => NotHot
  PROVE  PagerInv'
<1>1. OneConn(c)
  BY Parts
<1>2. call'[c] = "none"
  BY <1>1 DEF OneConn, CallOK, Outside, Mover, Starting
<1>3. IdleOK(c)'
  BY <1>1, IdleStays DEF Mover, OneConn, Idle, Outside
<1>4. NotHot' = NotHot
  BY DEF Mover, fileVars, NotHot
<1>5. CallOK(c)'
  BY <1>2 DEF CallOK, Outside, Starting
<1>6. ConnOK(c)'
  BY <1>2, <1>3, <1>4 DEF ConnOK, Idle, Outside, Starting, Writer, Writing, Playing
<1> QED
  BY <1>5, <1>6, Moves

\* The lock stays.
LEMMA StepMoves ==
  ASSUME PagerInv, NEW c \in Conn, NEW from, NEW to, Step(c, from, to),
         to \in {"open", "validate", "reader"} \cup Starting \cup Writing \cup Playing,
         UNCHANGED <<held, call, todo, cache, dirty, vers, fileVars>>
  PROVE  Mover(c)
<1>1. /\ \A d \in Conn \ {c} : pc'[d] = pc[d]
      /\ pc' \in [Conn -> {"open", "validate", "reader"}
                             \cup Starting \cup Writing \cup Playing]
  BY StepsTo
<1> QED
  BY <1>1, Types DEF Mover, OthersStay, Stays

LEMMA SharedLockKeeps ==
  ASSUME PagerInv, OneEach, NEW c \in Conn, SharedLock(c)
  PROVE  PagerInv'
<1>1. held' = [held EXCEPT ![c] = 1]
  BY Levels DEF SharedLock, Ladder!Share
<1>2. held' \in [Conn -> Ladder!Level]
  BY <1>1, Types, Levels
<1>3. Step(c, "open", "exists")
  BY DEF SharedLock
<1>4. \A d \in Conn \ {c} : held'[d] = held[d]
  BY <1>1, Types
<1>5. Mover(c)
  BY <1>2, <1>3, <1>4, StepsTo DEF SharedLock, Mover, OthersStay, Stays, Starting
<1>6. /\ pc[c] = "open" /\ pc'[c] = "exists"
      /\ held'[c] = Ladder!SHARED_LOCK
      /\ \A d \in Conn \ {c} : held[d] # Ladder!EXCLUSIVE_LOCK
  BY <1>1, <1>3, StepsTo, Types, Levels DEF SharedLock, Ladder!Share, Ladder!Others
<1>7. Alone'
  BY <1>5, <1>6, AloneStays, Levels DEF Mover, Owner, Writing, Playing
<1>8. LockOK(c)'
  BY <1>6, Levels DEF LockOK, Owner, Writing, Playing
<1> QED
  BY <1>5, <1>6, <1>7, <1>8, OutsideKeeps DEF Outside, Starting

\* Steps on the way that leave the lock.
LEMMA LookingKeeps ==
  ASSUME PagerInv, NEW c \in Conn, NEW from, NEW to, Step(c, from, to),
         from \in {"exists", "reserved", "byte"},
         to \in {"reserved", "byte", "hot", "validate"},
         to = "validate" => NotHot,
         UNCHANGED <<held, call, todo, cache, dirty, vers, fileVars>>
  PROVE  PagerInv'
<1>1. pc[c] = from /\ pc'[c] = to
  BY StepsTo
<1>2. Mover(c)
  BY StepMoves DEF Starting
<1>3. Alone'
  BY <1>1, <1>2, AloneStays, Levels DEF Mover, Owner, Writing, Playing
<1>4. LockOK(c)
  BY Parts DEF OneConn
<1>5. LockOK(c)'
  BY <1>1, <1>4, Levels DEF LockOK, Owner, Writing, Playing
<1> QED
  BY <1>1, <1>2, <1>3, <1>5, OutsideKeeps DEF Outside, Starting

LEMMA JournalExistsKeeps ==
  ASSUME PagerInv, NEW c \in Conn, JournalExists(c)
  PROVE  PagerInv'
  BY LookingKeeps DEF JournalExists, NotHot

\* An owner below EXCLUSIVE_LOCK has no sealed header in its journal.
LEMMA BelowExclusive ==
  ASSUME PagerInv, NEW d \in Conn, pc[d] \in Owner, held[d] # Ladder!EXCLUSIVE_LOCK
  PROVE  NotHot
<1>1. OneConn(d)
  BY Parts
<1>2. pc[d] \in {"locked", "mod", "sync", "delete", "unlock"}
  BY <1>1 DEF OneConn, LockOK, Owner, Writing, Playing
<1>3. CASE pc[d] \in {"locked", "unlock"}
  BY <1>1, <1>3 DEF OneConn, ConnOK
<1>4. CASE pc[d] \in {"mod", "sync"}
  BY <1>1, <1>4 DEF OneConn, ConnOK, Writer, Writing, ChangeOK, NotHot
<1>5. CASE pc[d] = "delete"
  <2>1. call[d] \in {"hot", "commit", "undo"}
    BY <1>1, <1>5 DEF OneConn, CallOK
  <2>2. CASE call[d] = "commit"
    BY <1>1, <1>5, <2>2 DEF OneConn, ConnOK, Writer, Playing, ChangeOK, NotHot
  <2>3. CASE call[d] \in {"hot", "undo"}
    BY <1>1, <1>5, <2>3 DEF OneConn, ConnOK, RestoreOK, NotHot
  <2> QED
    BY <2>1, <2>2, <2>3
<1> QED
  BY <1>2, <1>3, <1>4, <1>5

\* Who holds more than SHARED_LOCK, and is not about to give it back, owns
\* the journal.
LEMMA AboveShared ==
  ASSUME PagerInv, NEW d \in Conn, held[d] > Ladder!SHARED_LOCK, pc[d] # "failed"
  PROVE  pc[d] \in Owner
<1>1. LockOK(d)
  BY Parts DEF OneConn
<1>2. pc[d] \notin {"open", "exists", "reserved", "byte", "hot", "validate", "reader"}
  BY <1>1, Levels DEF LockOK
<1> QED
  BY <1>2, Types DEF Owner, Starting

LEMMA CheckReservedLockKeeps ==
  ASSUME PagerInv, OneEach, NEW c \in Conn, CheckReservedLock(c)
  PROVE  PagerInv'
<1>1. ASSUME Reserved(c)
      PROVE  NotHot
  <2>1. PICK d \in Conn \ {c} : held[d] > Ladder!SHARED_LOCK /\ pc[d] # "failed"
    BY <1>1, NoSiblings
  <2>2. pc[d] \in Owner
    BY <2>1, AboveShared
  <2>3. pc[c] = "reserved"
    BY StepsTo DEF CheckReservedLock
  <2>4. held[c] # Ladder!NO_LOCK
    BY <2>3, Parts, Levels DEF OneConn, LockOK
  <2>5. held[d] # Ladder!EXCLUSIVE_LOCK
    BY <2>4 DEF PagerInv, Alone
  <2> QED
    BY <2>2, <2>5, BelowExclusive
<1> QED
  BY <1>1, LookingKeeps DEF CheckReservedLock

LEMMA ReadFirstByteKeeps ==
  ASSUME PagerInv, NEW c \in Conn, ReadFirstByte(c)
  PROVE  PagerInv'
  BY LookingKeeps DEF ReadFirstByte, FirstByteSet, NotHot

\* One lock changes.
Locks(c, k) == held' = [held EXCEPT ![c] = k]

LEMMA LockMoves ==
  ASSUME PagerInv, NEW c \in Conn, NEW from, NEW to, Step(c, from, to),
         to \in {"open", "validate", "reader"} \cup Starting \cup Writing \cup Playing,
         NEW k \in 0 .. 4, Locks(c, k),
         UNCHANGED <<call, todo, cache, dirty, vers, fileVars>>
  PROVE  Mover(c) /\ held'[c] = k
<1>1. /\ \A d \in Conn \ {c} : pc'[d] = pc[d]
      /\ pc' \in [Conn -> {"open", "validate", "reader"}
                             \cup Starting \cup Writing \cup Playing]
  BY StepsTo
<1>2. /\ held' \in [Conn -> Ladder!Level]
      /\ held'[c] = k
      /\ \A d \in Conn \ {c} : held'[d] = held[d]
  BY Types, Levels DEF Locks
<1> QED
  BY <1>1, <1>2 DEF Mover, OthersStay, Stays

\* What the attempts on the ladder do to the one who makes them.
LEMMA ExcludeAlone ==
  ASSUME PagerInv, NEW c \in Conn, Ladder!Exclude(c)
  PROVE  /\ Locks(c, 4)
         /\ \A d \in Conn \ {c} : /\ held[d] = Ladder!NO_LOCK
                                  /\ pc[d] = "open"
                                  /\ pc[d] \notin Owner
<1>1. /\ Locks(c, 4)
      /\ \A d \in Conn \ {c} : held[d] = Ladder!NO_LOCK
  BY Levels DEF Ladder!Exclude, Ladder!Others, Locks
<1>2. \A d \in Conn \ {c} : pc[d] = "open"
  BY <1>1, Parts DEF OneConn, LockOK
<1> QED
  BY <1>1, <1>2 DEF Owner, Writing, Playing

LEMMA RefusedLock ==
  ASSUME PagerInv, NEW c \in Conn, Refused(c)
  PROVE  \/ Locks(c, 3) /\ held[c] \in {1, 2}
         \/ UNCHANGED held
  BY Levels DEF Refused, Ladder!Pend, Locks

LEMMA LockHotJournalKeeps ==
  ASSUME PagerInv, NEW c \in Conn, LockHotJournal(c)
  PROVE  PagerInv'
<1>0. UNCHANGED <<call, todo, cache, dirty, vers, fileVars>>
  BY DEF LockHotJournal
<1>1. CASE Step(c, "hot", "recheck") /\ Ladder!Exclude(c)
  <2>1. Locks(c, 4)
    BY <1>1, ExcludeAlone
  <2>2. Mover(c) /\ held'[c] = 4
    BY <1>0, <1>1, <2>1, LockMoves DEF Starting
  <2>3. pc[c] = "hot" /\ pc'[c] = "recheck"
    BY <1>1, StepsTo
  <2>4. Alone'
    BY <1>1, <2>2, ExcludeAlone, AloneStays, Levels DEF Mover
  <2>5. LockOK(c)'
    BY <2>2, <2>3, Levels DEF LockOK
  <2> QED
    BY <2>2, <2>3, <2>4, <2>5, OutsideKeeps DEF Outside, Starting
<1>2. CASE Step(c, "hot", "failed") /\ Refused(c)
  <2>1. pc[c] = "hot" /\ pc'[c] = "failed"
    BY <1>2, StepsTo
  <2>2. held[c] = 1
    BY <2>1, Parts, Levels DEF OneConn, LockOK
  <2>3. Mover(c) /\ held'[c] \in {1, 3}
    BY <1>0, <1>2, <2>2, RefusedLock, LockMoves, StepMoves DEF Starting, Mover
  <2>4. Alone'
    BY <2>1, <2>2, <2>3, AloneStays, Levels DEF Mover, Owner, Writing, Playing
  <2>5. LockOK(c)'
    BY <2>1, <2>3, Levels DEF LockOK, Owner, Writing, Playing
  <2> QED
    BY <2>1, <2>3, <2>4, <2>5, OutsideKeeps DEF Outside, Starting
<1> QED
  BY <1>1, <1>2 DEF LockHotJournal

LEMMA Releases ==
  ASSUME NEW c \in Conn, NEW to, Ladder!Release(c, to)
  PROVE  Locks(c, to) /\ held[c] > to
  BY DEF Ladder!Release, Locks

LEMMA GiveUpKeeps ==
  ASSUME PagerInv, NEW c \in Conn, GiveUp(c)
  PROVE  PagerInv'
<1>1. Locks(c, 0)
  BY Releases, Levels DEF GiveUp
<1>2. Mover(c) /\ held'[c] = 0
  BY <1>1, LockMoves DEF GiveUp
<1>3. pc[c] = "failed" /\ pc'[c] = "open"
  BY StepsTo DEF GiveUp
<1>4. Alone'
  BY <1>2, <1>3, AloneStays, Levels DEF Mover, Owner, Writing, Playing
<1>5. LockOK(c)'
  BY <1>2, <1>3, Levels DEF LockOK, Owner, Writing, Playing
<1> QED
  BY <1>2, <1>3, <1>4, <1>5, OutsideKeeps DEF Outside, Starting

-----------------------------------------------------------------------------
(* Readers. *)

\* A reader sees the file, which is the committed image.
LEMMA EndReadKeeps ==
  ASSUME PagerInv, NEW c \in Conn, EndRead(c)
  PROVE  PagerInv'
<1>1. Locks(c, 0)
  BY Releases, Levels DEF EndRead
<1>2. Mover(c) /\ held'[c] = 0
  BY <1>1, LockMoves DEF EndRead
<1>3. pc[c] = "reader" /\ pc'[c] = "open"
  BY StepsTo DEF EndRead
<1>4. Alone'
  BY <1>2, <1>3, AloneStays, Levels DEF Mover, Owner, Writing, Playing
<1>5. LockOK(c)'
  BY <1>2, <1>3, Levels DEF LockOK, Owner, Writing, Playing
<1>6. OneConn(c)
  BY Parts
<1>7. call[c] = "none" /\ call'[c] = "none"
  BY <1>2, <1>3, <1>6 DEF OneConn, CallOK, Mover
<1>8. ViewOK(c)
  BY <1>3, <1>6, <1>7 DEF OneConn, ConnOK, Idle, Starting
<1>9. IdleOK(c)'
  <2>1. Current' = Current
    BY <1>2 DEF Mover, fileVars, Current, Recovered
  <2>2. vers[c] <= vers[c]
    BY Types
  <2> QED
    BY <1>2, <1>8, <2>1, <2>2 DEF ViewOK, IdleOK, Mover
<1>10. CallOK(c)'
  BY <1>3, <1>7 DEF CallOK
<1>11. ConnOK(c)'
  BY <1>3, <1>7, <1>9 DEF ConnOK, Idle, Writer, Writing, Playing
<1> QED
  BY <1>2, <1>4, <1>5, <1>10, <1>11, Moves

\* What a mover that is neither idle nor in the files keeps.
LEMMA ViewStays ==
  ASSUME NEW c \in Conn, ViewOK(c), UNCHANGED fileVars,
         dirty'[c] = dirty[c], cache'[c] = cache[c], vers'[c] = vers[c]
  PROVE  ViewOK(c)'
<1>1. Current' = Current
  BY DEF fileVars, Current, Recovered
<1> QED
  BY <1>1 DEF ViewOK

\* Steps between the points where a connection has a view and no journal.
Inside == {"reader", "locked", "unlock"}

LEMMA InsideKeeps ==
  ASSUME PagerInv, NEW c \in Conn, Mover(c), Alone', LockOK(c)',
         ViewOK(c), NotHot, call[c] = "none", pc'[c] \in Inside
  PROVE  PagerInv'
<1>1. call'[c] = "none"
  BY DEF Mover
<1>2. ViewOK(c)' /\ NotHot' = NotHot
  BY ViewStays DEF Mover, fileVars, NotHot
<1>3. CallOK(c)'
  BY <1>1 DEF CallOK, Inside
<1>4. ConnOK(c)'
  BY <1>1, <1>2 DEF ConnOK, Idle, Inside, Starting, Writer, Writing, Playing
<1> QED
  BY <1>3, <1>4, Moves

LEMMA ReaderFacts ==
  ASSUME PagerInv, NEW c \in Conn, pc[c] \in {"reader", "locked"}
  PROVE  ViewOK(c) /\ NotHot /\ call[c] = "none"
<1>1. OneConn(c)
  BY Parts
<1>2. call[c] = "none"
  BY <1>1 DEF OneConn, CallOK
<1> QED
  BY <1>1, <1>2 DEF OneConn, ConnOK, Idle, Starting

LEMMA BeginKeeps ==
  ASSUME PagerInv, OneEach, NEW c \in Conn, Begin(c)
  PROVE  PagerInv'
<1>1. Locks(c, 2)
  BY Levels DEF Begin, Ladder!Reserve, Locks
<1>2. Mover(c) /\ held'[c] = 2
  BY <1>1, LockMoves DEF Begin, Writing
<1>3. pc[c] = "reader" /\ pc'[c] = "locked" /\ ~Reserved(c)
  BY StepsTo DEF Begin
<1>4. \A d \in Conn \ {c} : pc[d] \notin Owner
  <2> SUFFICES ASSUME NEW d \in Conn \ {c}, pc[d] \in Owner PROVE FALSE
    OBVIOUS
  <2>1. held[d] > Ladder!SHARED_LOCK
    BY Parts DEF OneConn, LockOK
  <2>2. pc[d] # "failed"
    BY DEF Owner, Writing, Playing
  <2> QED
    BY <1>3, <2>1, <2>2, NoSiblings
<1>5. held[c] = 1
  BY <1>3, Parts, Levels DEF OneConn, LockOK
<1>6. Alone'
  BY <1>2, <1>4, <1>5, AloneStays, Levels DEF Mover
<1>7. LockOK(c)'
  BY <1>2, <1>3, Levels DEF LockOK, Owner, Writing, Playing
<1> QED
  BY <1>2, <1>3, <1>6, <1>7, ReaderFacts, InsideKeeps DEF Inside

LEMMA EndUnchangedKeeps ==
  ASSUME PagerInv, NEW c \in Conn, EndUnchanged(c)
  PROVE  PagerInv'
<1>1. pc[c] = "locked" /\ pc'[c] = "unlock"
  BY StepsTo DEF EndUnchanged
<1>2. Mover(c)
  BY StepMoves DEF EndUnchanged, Playing
<1>3. Alone'
  BY <1>1, <1>2, AloneStays DEF Mover, Owner, Writing, EndUnchanged
<1>4. LockOK(c)'
  <2>1. LockOK(c)
    BY Parts DEF OneConn
  <2>2. held'[c] = held[c] /\ held[c] > Ladder!SHARED_LOCK
    BY <1>1, <2>1 DEF EndUnchanged, LockOK, Owner, Writing
  <2> QED
    BY <1>1, <2>2, Types, Levels DEF LockOK
<1> QED
  BY <1>1, <1>2, <1>3, <1>4, ReaderFacts, InsideKeeps DEF Inside

\* A page of one cache changes.
Caches(c, p, x) == cache' = [cache EXCEPT ![c][p] = x]

LEMMA CachesAt ==
  ASSUME PagerInv, NEW c \in Conn, NEW p \in Page, NEW x \in Nat \cup {NoPage},
         Caches(c, p, x)
  PROVE  /\ cache' \in [Conn -> [Page -> Nat \cup {NoPage}]]
         /\ cache'[c][p] = x
         /\ \A q \in Page \ {p} : cache'[c][q] = cache[c][q]
         /\ \A d \in Conn \ {c} : cache'[d] = cache[d]
<1>1. cache \in [Conn -> [Page -> Nat \cup {NoPage}]]
  BY Types
<1> QED
  BY <1>1 DEF Caches

\* A step that changes one page of a cache and nothing else.
LEMMA CacheStep ==
  ASSUME PagerInv, NEW c \in Conn, NEW p \in Page, NEW x \in Nat \cup {NoPage},
         Caches(c, p, x), ConnOK(c)',
         UNCHANGED <<held, pc, call, todo, dirty, vers, fileVars>>
  PROVE  PagerInv'
<1>1. OthersStay(c)
  BY CachesAt DEF OthersStay, Stays
<1>2. TypeOK'
  BY CachesAt DEF PagerInv, TypeOK, fileVars
<1>3. Alone'
  BY DEF PagerInv, Alone
<1>4. LockOK(c)' /\ CallOK(c)'
  BY Parts DEF OneConn, LockOK, CallOK
<1> QED
  BY <1>1, <1>2, <1>3, <1>4, QuietStep DEF OneConn

LEMMA FilesNow ==
  ASSUME PagerInv
  PROVE  Files /\ FileFacts
  BY Parts, FilesHold

\* What a page of a cache may be without a connection seeing a difference.
LEMMA CacheOK ==
  ASSUME PagerInv, NEW c \in Conn, NEW p \in Page, NEW x \in Nat \cup {NoPage},
         Caches(c, p, x), p \notin dirty[c], x = NoPage => p # 1,
         x \in {NoPage, db[p]},
         UNCHANGED <<held, pc, call, todo, dirty, vers, fileVars>>,
         pc[c] \in {"open", "reader", "locked", "mod"},
         pc[c] = "open" => x = NoPage
  PROVE  PagerInv'
<1>1. OneConn(c)
  BY Parts
<1>2. /\ Current' = Current /\ Base' = Base /\ NotHot' = NotHot
      /\ Idle(c)' = Idle(c) /\ Writer(c)' = Writer(c)
      /\ call[c] = "none"
  BY <1>1 DEF fileVars, Current, Recovered, Base, NotHot, Idle, Writer, OneConn, CallOK
<1>3. CASE pc[c] = "open"
  <2>1. \A q \in Page : cache[c][q] = NoPage => cache'[c][q] = NoPage
    BY <1>3, CachesAt
  <2>2. cache[c] = NoCache => cache'[c] = NoCache
    <3>1. cache'[c] \in [Page -> Nat \cup {NoPage}]
      BY CachesAt
    <3> QED
      BY <2>1, <3>1 DEF NoCache
  <2>3. IdleOK(c)
    BY <1>1, <1>3 DEF OneConn, ConnOK, Idle
  <2>4. \A q \in Page : cache'[c][q] \in {NoPage, cache[c][q]}
    BY <1>3, CachesAt
  <2>5. IdleOK(c)'
    BY <1>2, <2>2, <2>3, <2>4 DEF IdleOK
  <2>6. ConnOK(c)'
    BY <1>2, <1>3, <2>5 DEF ConnOK, Writer, Writing, Playing, Idle
  <2> QED
    BY <2>6, CacheStep
<1>4. CASE pc[c] \in {"reader", "locked"}
  <2>1. ViewOK(c) /\ NotHot
    BY <1>4, ReaderFacts
  <2>2. \A q \in Page : cache'[c][q] \in {NoPage, cache[c][q], db[q]}
    BY CachesAt
  <2>3. \A q \in Page : Current[q] = db[q]
    BY <2>1, FilesNow DEF FileFacts
  <2>4. cache'[c][1] # NoPage
    <3>1. 1 \in Page /\ cache[c][1] # NoPage
      BY <2>1, Constants DEF ViewOK
    <3> QED
      BY <3>1, CachesAt
  <2>5. ViewOK(c)'
    BY <1>2, <2>1, <2>2, <2>3, <2>4 DEF ViewOK
  <2>6. ConnOK(c)'
    BY <1>2, <1>4, <2>1, <2>5 DEF ConnOK, Idle, Starting, Writer, Writing, Playing
  <2> QED
    BY <2>6, CacheStep
<1>5. CASE pc[c] = "mod"
  <2>1. ChangeOK(c)
    BY <1>1, <1>5 DEF OneConn, ConnOK, Writer, Writing
  <2>2. \A q \in dirty[c] : cache'[c][q] = cache[c][q]
    BY Types, CachesAt
  <2>3. \A q \in Page : q \notin dirty[c] => cache'[c][q] \in {NoPage, cache[c][q], db[q]}
    BY CachesAt
  <2>4. cache'[c][1] # NoPage /\ (1 \in Recorded(jrnl) => cache'[c][1] = cache[c][1])
    <3>1. 1 \in Page /\ cache[c][1] # NoPage /\ (1 \notin dirty[c] => cache[c][1] = db[1])
      BY <2>1, Constants DEF ChangeOK
    <3> QED
      BY <3>1, CachesAt
  <2>5. ChangeOK(c)'
    BY <1>2, <1>5, <2>1, <2>2, <2>3, <2>4 DEF ChangeOK, fileVars, Sealing, Committing
  <2>6. ConnOK(c)'
    BY <1>2, <1>5, <2>5 DEF ConnOK, Idle, Starting, Writer, Writing, Playing
  <2> QED
    BY <2>6, CacheStep
<1> QED
  BY <1>3, <1>4, <1>5

LEMMA ReadPageKeeps ==
  ASSUME PagerInv, NEW c \in Conn, NEW p \in Page, ReadPage(c, p)
  PROVE  PagerInv'
<1>1. pc[c] \in {"reader", "locked", "mod"} /\ cache[c][p] = NoPage
  BY DEF ReadPage
<1>2. OneConn(c)
  BY Parts
<1>3. CASE pc[c] \in {"reader", "locked"}
  <2>1. ViewOK(c) /\ NotHot
    BY <1>3, ReaderFacts
  <2>2. p \notin dirty[c] /\ db[p] \in Nat
    BY <2>1, FilesNow DEF ViewOK, FileFacts
  <2> QED
    BY <1>1, <2>2, Constants, CacheOK DEF ReadPage, Caches
<1>4. CASE pc[c] = "mod"
  <2>1. ChangeOK(c)
    BY <1>2, <1>4 DEF OneConn, ConnOK, Writer, Writing
  <2>2. p \notin dirty[c] /\ db[p] \in Nat
    BY <1>1, <2>1, FilesNow DEF ChangeOK, Files, TypeOK, Content
  <2> QED
    BY <1>1, <1>4, <2>2, Constants, CacheOK DEF ReadPage, Caches
<1> QED
  BY <1>1, <1>3, <1>4

LEMMA RecycleKeeps ==
  ASSUME PagerInv, NEW c \in Conn, NEW p \in Page, Recycle(c, p)
  PROVE  PagerInv'
  BY CacheOK DEF Recycle, Caches

\* A validated cache holds what is committed.
LEMMA ValidateKeeps ==
  ASSUME PagerInv, NEW c \in Conn, Validate(c)
  PROVE  PagerInv'
<1> DEFINE kept == IF vers[c] = db[1] THEN cache[c] ELSE NoCache
<1>1. /\ pc[c] = "validate" /\ pc'[c] = "reader"
      /\ \A d \in Conn \ {c} : pc'[d] = pc[d]
      /\ pc' \in [Conn -> {"open", "validate", "reader"}
                             \cup Starting \cup Writing \cup Playing]
  BY StepsTo DEF Validate
<1>2. OneConn(c)
  BY Parts
<1>3. call[c] = "none" /\ NotHot /\ IdleOK(c)
  BY <1>1, <1>2 DEF OneConn, CallOK, ConnOK, Idle
<1>4. \A q \in Page : db[q] = Current[q] /\ db[q] \in Nat
  BY <1>3, FilesNow DEF FileFacts
<1>5. kept \in [Page -> Nat \cup {NoPage}]
  BY Types DEF NoCache
<1>6. \A q \in Page : kept[q] \in {NoPage, Current[q]}
  BY <1>3, <1>4, Constants DEF IdleOK, NoCache
<1>7. /\ cache' \in [Conn -> [Page -> Nat \cup {NoPage}]]
      /\ vers' \in [Conn -> Nat]
      /\ \A d \in Conn \ {c} : cache'[d] = cache[d] /\ vers'[d] = vers[d]
      /\ vers'[c] = db[1]
      /\ cache'[c][1] # NoPage
      /\ \A q \in Page : cache'[c][q] \in {NoPage, Current[q]}
  <2>1. 1 \in Page /\ db[1] \in Nat /\ db[1] = Current[1] /\ db[1] # NoPage
    BY <1>4, Constants
  <2>2. CASE /\ cache' = [cache EXCEPT ![c] = [kept EXCEPT ![1] = db[1]]]
             /\ vers' = [vers EXCEPT ![c] = db[1]]
    <3> DEFINE new == [kept EXCEPT ![1] = db[1]]
    <3>1. /\ new \in [Page -> Nat \cup {NoPage}]
          /\ new[1] = db[1]
          /\ \A q \in Page : new[q] \in {NoPage, Current[q]}
      BY <1>5, <1>6, <2>1
    <3>2. cache' = [cache EXCEPT ![c] = new]
      BY <2>2
    <3> HIDE DEF new
    <3>3. /\ cache' \in [Conn -> [Page -> Nat \cup {NoPage}]]
          /\ cache'[c] = new
          /\ \A d \in Conn \ {c} : cache'[d] = cache[d]
      BY <3>1, <3>2, Types
    <3>4. /\ vers' \in [Conn -> Nat] /\ vers'[c] = db[1]
          /\ \A d \in Conn \ {c} : vers'[d] = vers[d]
      BY <2>1, <2>2, Types
    <3> QED
      BY <2>1, <3>1, <3>3, <3>4
  <2>3. CASE kept[1] # NoPage /\ UNCHANGED <<cache, vers>>
    <3>1. vers[c] = db[1] /\ kept = cache[c]
      BY <2>1, <2>3 DEF NoCache
    <3> QED
      BY <1>6, <2>3, <3>1, Types
  <2> QED
    BY <2>2, <2>3 DEF Validate
<1>8. UNCHANGED <<held, call, todo, dirty, fileVars>>
  BY DEF Validate
<1>9. OthersStay(c)
  BY <1>1, <1>7, <1>8 DEF OthersStay, Stays
<1>10. TypeOK'
  BY <1>1, <1>7, <1>8 DEF PagerInv, TypeOK, fileVars
<1>11. Alone'
  BY <1>1, <1>8, <1>9, AloneStays DEF Owner, Writing, Playing
<1>12. LockOK(c)' /\ CallOK(c)'
  <2>1. held[c] = Ladder!SHARED_LOCK
    BY <1>1, <1>2 DEF OneConn, LockOK
  <2> QED
    BY <1>1, <1>3, <1>8, <2>1, Levels DEF LockOK, CallOK, Owner, Writing, Playing
<1>13. ConnOK(c)'
  <2>1. Current' = Current /\ NotHot' = NotHot
    BY <1>8 DEF fileVars, Current, Recovered, NotHot
  <2>2. ViewOK(c)'
    BY <1>3, <1>4, <1>7, <1>8, <2>1, Constants DEF ViewOK, IdleOK
  <2> QED
    BY <1>1, <1>3, <1>8, <2>1, <2>2 DEF ConnOK, Idle, Starting, Writer, Writing, Playing
<1> QED
  BY <1>8, <1>9, <1>10, <1>11, <1>12, <1>13, QuietStep DEF OneConn

\* A step of c that changes its point, its lock, its call and its list only.
Turns(c, to, l, what, list) ==
  /\ pc' = [pc EXCEPT ![c] = to]
  /\ held' = [held EXCEPT ![c] = l]
  /\ call' = [call EXCEPT ![c] = what]
  /\ todo' = [todo EXCEPT ![c] = list]
  /\ UNCHANGED <<cache, dirty, vers, fileVars>>

LEMMA TurnKeeps ==
  ASSUME PagerInv, NEW c \in Conn,
         NEW to \in {"open", "validate", "reader"} \cup Starting \cup Writing \cup Playing,
         NEW l \in Ladder!Level,
         NEW what \in {"none", "hot", "spill", "commit", "undo"},
         NEW list \in SUBSET Page,
         Turns(c, to, l, what, list), Alone',
         pc'[c] = to /\ held'[c] = l /\ call'[c] = what /\ todo'[c] = list
           => LockOK(c)' /\ CallOK(c)' /\ ConnOK(c)'
  PROVE  PagerInv'
<1>1. /\ pc' \in [Conn -> {"open", "validate", "reader"}
                             \cup Starting \cup Writing \cup Playing]
      /\ held' \in [Conn -> Ladder!Level]
      /\ call' \in [Conn -> {"none", "hot", "spill", "commit", "undo"}]
      /\ todo' \in [Conn -> SUBSET Page]
  BY Types DEF Turns
<1>2. /\ pc'[c] = to /\ held'[c] = l /\ call'[c] = what /\ todo'[c] = list
      /\ \A d \in Conn \ {c} : /\ pc'[d] = pc[d] /\ held'[d] = held[d]
                               /\ call'[d] = call[d] /\ todo'[d] = todo[d]
  BY Types DEF Turns
<1>3. OthersStay(c)
  BY <1>2 DEF OthersStay, Stays, Turns
<1>4. TypeOK'
  BY <1>1 DEF PagerInv, TypeOK, fileVars, Turns
<1> QED
  BY <1>2, <1>3, <1>4, QuietStep DEF OneConn, Turns

-----------------------------------------------------------------------------
(* Writers. *)

LEMMA WriterFacts ==
  ASSUME PagerInv, NEW c \in Conn,
         \/ pc[c] \in Writing \ {"locked"}
         \/ pc[c] \in Playing \ {"unlock"} /\ call[c] \in {"spill", "commit"}
  PROVE  ChangeOK(c) /\ OneConn(c)
<1>1. OneConn(c)
  BY Parts
<1> QED
  BY <1>1 DEF OneConn, ConnOK, Writer, Writing, Playing

\* A point of the code with a lock that suits it.
LEMMA OwnerStays ==
  ASSUME PagerInv, NEW c \in Conn, OthersStay(c), pc[c] \in Owner,
         held'[c] = held[c]
  PROVE  Alone'
<1>1. held[c] # Ladder!NO_LOCK
  BY Parts, Levels DEF OneConn, LockOK
<1>2. held'[c] = Ladder!EXCLUSIVE_LOCK =>
        \A d \in Conn \ {c} : held[d] = Ladder!NO_LOCK
  BY DEF PagerInv, Alone
<1> QED
  BY <1>1, <1>2, AloneStays

LEMMA TurnStays ==
  ASSUME PagerInv, NEW c \in Conn, NEW to, NEW l, NEW what, NEW list,
         Turns(c, to, l, what, list)
  PROVE  /\ OthersStay(c)
         /\ Current' = Current /\ Base' = Base /\ NotHot' = NotHot
         /\ pc'[c] = to /\ held'[c] = l /\ call'[c] = what /\ todo'[c] = list
         /\ cache'[c] = cache[c] /\ dirty'[c] = dirty[c] /\ vers'[c] = vers[c]
         /\ jrnl' = jrnl /\ jsync' = jsync /\ jnew' = jnew /\ db' = db /\ platter' = platter
<1>1. /\ \A d \in Conn \ {c} : /\ pc'[d] = pc[d] /\ held'[d] = held[d]
                               /\ call'[d] = call[d] /\ todo'[d] = todo[d]
      /\ pc'[c] = to /\ held'[c] = l /\ call'[c] = what /\ todo'[c] = list
  BY Types DEF Turns
<1> QED
  BY <1>1 DEF Turns, OthersStay, Stays, fileVars, Current, Recovered, Base, NotHot

LEMMA SpillKeeps ==
  ASSUME PagerInv, NEW c \in Conn, NEW p \in Page, Spill(c, p)
  PROVE  PagerInv'
<1> DEFINE to == IF p \in jrnl.sealed THEN "pages" ELSE "sync"
<1>1. pc[c] = "mod" /\ p \in dirty[c]
  BY StepsTo DEF Spill
<1>2. ChangeOK(c) /\ OneConn(c)
  BY <1>1, WriterFacts DEF Writing
<1>3. Turns(c, to, held[c], "spill", {p})
  BY Types DEF Spill, Turns, Step, Goto
<1>4. /\ to \in {"open", "validate", "reader"} \cup Starting \cup Writing \cup Playing
      /\ to \in {"pages", "sync"}
      /\ to = "pages" => p \in jrnl.sealed
  BY DEF Writing, Playing
<1>5. held[c] \in Ladder!Level /\ held[c] > Ladder!SHARED_LOCK
  BY <1>1, <1>2, Types DEF OneConn, LockOK, Owner, Writing
<1> HIDE DEF to
<1>6. /\ OthersStay(c)
      /\ Current' = Current /\ Base' = Base /\ NotHot' = NotHot
      /\ pc'[c] = to /\ held'[c] = held[c] /\ call'[c] = "spill" /\ todo'[c] = {p}
      /\ cache'[c] = cache[c] /\ dirty'[c] = dirty[c] /\ vers'[c] = vers[c]
      /\ jrnl' = jrnl /\ jsync' = jsync /\ jnew' = jnew /\ db' = db /\ platter' = platter
  BY <1>3, TurnStays
<1>7. Alone'
  BY <1>1, <1>6, OwnerStays DEF Owner, Writing
<1>8. LockOK(c)'
  <2>1. to = "pages" => held[c] = Ladder!EXCLUSIVE_LOCK
    BY <1>2, <1>4 DEF ChangeOK
  <2> QED
    BY <1>4, <1>5, <1>6, <2>1, Levels DEF LockOK
<1>9. CallOK(c)'
  BY <1>4, <1>6 DEF CallOK, Starting
<1>10. ChangeOK(c)'
  BY <1>1, <1>2, <1>4, <1>6 DEF ChangeOK, Sealing, Committing
<1>11. ConnOK(c)'
  BY <1>4, <1>6, <1>10 DEF ConnOK, Idle, Starting
<1> QED
  BY <1>3, <1>4, <1>5, <1>7, <1>8, <1>9, <1>11, TurnKeeps

LEMMA ExclusiveLockKeeps ==
  ASSUME PagerInv, NEW c \in Conn, ExclusiveLock(c)
  PROVE  PagerInv'
<1>0. UNCHANGED <<cache, dirty, vers, fileVars>>
  BY DEF ExclusiveLock
<1>1. pc[c] = "sync"
  BY StepsTo DEF ExclusiveLock
<1>2. ChangeOK(c) /\ OneConn(c)
  BY <1>1, WriterFacts DEF Writing
<1>3. /\ held[c] \in Ladder!Level /\ held[c] > Ladder!SHARED_LOCK
      /\ call[c] \in {"spill", "commit"} /\ todo[c] \in SUBSET Page
  BY <1>1, <1>2, Types DEF OneConn, LockOK, CallOK, Owner, Writing
<1>4. CASE /\ Step(c, "sync", "records")
           /\ Ladder!Exclude(c) \/ (held[c] = Ladder!EXCLUSIVE_LOCK /\ UNCHANGED held)
           /\ UNCHANGED <<call, todo>>
  <2>1. Turns(c, "records", 4, call[c], todo[c])
    <3>1. held' = [held EXCEPT ![c] = 4]
      BY <1>4, ExcludeAlone, Types, Levels DEF Locks
    <3> QED
      BY <1>0, <1>4, <3>1, Types DEF Turns, Step, Goto
  <2>2. /\ OthersStay(c)
        /\ Current' = Current /\ Base' = Base /\ NotHot' = NotHot
        /\ pc'[c] = "records" /\ held'[c] = 4 /\ call'[c] = call[c] /\ todo'[c] = todo[c]
        /\ cache'[c] = cache[c] /\ dirty'[c] = dirty[c] /\ vers'[c] = vers[c]
        /\ jrnl' = jrnl /\ jsync' = jsync /\ jnew' = jnew /\ db' = db /\ platter' = platter
    BY <2>1, TurnStays
  <2>3. Alone'
    BY <1>1, <1>3, <1>4, <2>2, ExcludeAlone, AloneStays, Levels DEF Owner, Writing
  <2>4. LockOK(c)' /\ CallOK(c)'
    BY <1>3, <2>2, Levels DEF LockOK, CallOK, Starting
  <2>5. ChangeOK(c)'
    BY <1>1, <1>2, <2>2, Levels DEF ChangeOK, Sealing, Committing
  <2>6. ConnOK(c)'
    BY <1>3, <2>2, <2>5 DEF ConnOK, Idle, Starting
  <2> QED
    BY <1>3, <2>1, <2>3, <2>4, <2>6, TurnKeeps, Levels DEF Writing
<1>5. CASE /\ Step(c, "sync", "mod")
           /\ Refused(c)
           /\ call' = [call EXCEPT ![c] = "none"]
           /\ todo' = [todo EXCEPT ![c] = {}]
  <2>1. PICK l \in {held[c], 3} : held' = [held EXCEPT ![c] = l]
    BY <1>5, RefusedLock, Types DEF Locks
  <2>2. Turns(c, "mod", l, "none", {})
    BY <1>0, <1>5, <2>1 DEF Turns, Step, Goto
  <2>3. /\ OthersStay(c)
        /\ Current' = Current /\ Base' = Base /\ NotHot' = NotHot
        /\ pc'[c] = "mod" /\ held'[c] = l /\ call'[c] = "none" /\ todo'[c] = {}
        /\ cache'[c] = cache[c] /\ dirty'[c] = dirty[c] /\ vers'[c] = vers[c]
        /\ jrnl' = jrnl /\ jsync' = jsync /\ jnew' = jnew /\ db' = db /\ platter' = platter
    BY <2>2, TurnStays
  <2>4. l \in Ladder!Level /\ l > Ladder!SHARED_LOCK
    BY <1>3, Levels
  <2>5. held[c] = Ladder!EXCLUSIVE_LOCK => l = held[c]
    <3>1. held[c] = 4 => UNCHANGED held
      BY <1>5, RefusedLock
    <3> QED
      BY <2>3, <3>1, Levels
  <2>6. Alone'
    BY <1>1, <1>3, <2>3, <2>5, AloneStays, Levels DEF Owner, Writing
  <2>7. LockOK(c)' /\ CallOK(c)'
    BY <2>3, <2>4, Levels DEF LockOK, CallOK, Starting
  <2>8. ChangeOK(c)'
    BY <1>1, <1>2, <2>3, <2>5 DEF ChangeOK, Sealing, Committing
  <2>9. ConnOK(c)'
    BY <2>3, <2>8 DEF ConnOK, Idle, Starting
  <2>10. /\ "mod" \in {"open", "validate", "reader"} \cup Starting \cup Writing \cup Playing
         /\ {} \in SUBSET Page
    BY DEF Writing
  <2> QED
    BY <2>2, <2>4, <2>6, <2>7, <2>9, <2>10, TurnKeeps
<1> QED
  BY <1>4, <1>5 DEF ExclusiveLock

LEMMA PagesDoneKeeps ==
  ASSUME PagerInv, NEW c \in Conn, PagesDone(c)
  PROVE  PagerInv'
<1>0. UNCHANGED <<held, todo, cache, dirty, vers, fileVars>> /\ todo[c] = {}
  BY DEF PagesDone
<1>1. pc[c] = "pages"
  BY StepsTo DEF PagesDone
<1>2. OneConn(c)
  BY Parts
<1>3. /\ held[c] = Ladder!EXCLUSIVE_LOCK /\ held[c] \in Ladder!Level
      /\ todo[c] \in SUBSET Page
      /\ call[c] \in {"hot", "spill", "commit", "undo"}
  BY <1>1, <1>2, Types DEF OneConn, LockOK, CallOK
<1>4. CASE /\ Step(c, "pages", "mod") /\ call[c] = "spill"
           /\ call' = [call EXCEPT ![c] = "none"]
  <2>1. Turns(c, "mod", held[c], "none", todo[c])
    BY <1>0, <1>4, Types DEF Turns, Step, Goto
  <2>2. /\ OthersStay(c)
        /\ Current' = Current /\ Base' = Base /\ NotHot' = NotHot
        /\ pc'[c] = "mod" /\ held'[c] = held[c] /\ call'[c] = "none" /\ todo'[c] = todo[c]
        /\ cache'[c] = cache[c] /\ dirty'[c] = dirty[c] /\ vers'[c] = vers[c]
        /\ jrnl' = jrnl /\ jsync' = jsync /\ jnew' = jnew /\ db' = db /\ platter' = platter
    BY <2>1, TurnStays
  <2>3. ChangeOK(c)
    BY <1>1, <1>4, WriterFacts DEF Playing
  <2>4. Alone'
    BY <1>1, <2>2, OwnerStays DEF Owner, Playing
  <2>5. LockOK(c)' /\ CallOK(c)'
    BY <1>3, <2>2, Levels DEF LockOK, CallOK, Starting
  <2>6. ChangeOK(c)'
    BY <1>0, <1>1, <2>2, <2>3 DEF ChangeOK, Sealing, Committing
  <2>7. ConnOK(c)'
    BY <2>2, <2>6 DEF ConnOK, Idle, Starting
  <2> QED
    BY <1>3, <2>1, <2>4, <2>5, <2>7, TurnKeeps DEF Writing
<1>5. CASE Step(c, "pages", "dbsync") /\ call[c] # "spill" /\ UNCHANGED call
  <2>1. Turns(c, "dbsync", held[c], call[c], todo[c])
    BY <1>0, <1>5, Types DEF Turns, Step, Goto
  <2>2. /\ OthersStay(c)
        /\ Current' = Current /\ Base' = Base /\ NotHot' = NotHot
        /\ pc'[c] = "dbsync" /\ held'[c] = held[c] /\ call'[c] = call[c] /\ todo'[c] = todo[c]
        /\ cache'[c] = cache[c] /\ dirty'[c] = dirty[c] /\ vers'[c] = vers[c]
        /\ jrnl' = jrnl /\ jsync' = jsync /\ jnew' = jnew /\ db' = db /\ platter' = platter
    BY <2>1, TurnStays
  <2>3. Alone'
    BY <1>1, <2>2, OwnerStays DEF Owner, Playing
  <2>4. LockOK(c)' /\ CallOK(c)'
    BY <1>3, <1>5, <2>2, Levels DEF LockOK, CallOK, Starting
  <2>5. CASE call[c] = "commit"
    <3>1. ChangeOK(c)
      BY <1>1, <2>5, WriterFacts DEF Playing
    <3>2. ChangeOK(c)'
      BY <1>0, <1>1, <2>2, <2>5, <3>1 DEF ChangeOK, Sealing, Committing
    <3>3. ConnOK(c)'
      BY <2>2, <2>5, <3>2 DEF ConnOK, Idle, Starting
    <3> QED
      BY <1>3, <2>1, <2>3, <2>4, <3>3, TurnKeeps DEF Playing
  <2>6. CASE call[c] \in {"hot", "undo"}
    <3>1. RestoreOK(c)
      BY <1>1, <1>2, <2>6 DEF OneConn, ConnOK
    <3>2. RestoreOK(c)'
      BY <1>0, <2>2, <3>1 DEF RestoreOK
    <3>3. (Idle(c) => IdleOK(c)) /\ (call[c] = "undo" => ViewOK(c))
      BY <1>1, <1>2 DEF OneConn, ConnOK, Idle, Starting
    <3>4. /\ Idle(c)' = Idle(c) /\ (IdleOK(c) => IdleOK(c)') /\ (ViewOK(c) => ViewOK(c)')
      BY <1>1, <2>2 DEF Idle, Starting, IdleOK, ViewOK
    <3>5. ConnOK(c)'
      BY <2>2, <2>6, <3>2, <3>3, <3>4 DEF ConnOK, Writer, Writing
    <3> QED
      BY <1>3, <2>1, <2>3, <2>4, <3>5, TurnKeeps DEF Playing
  <2> QED
    BY <1>3, <1>5, <2>5, <2>6
<1> QED
  BY <1>4, <1>5 DEF PagesDone

LEMMA UnlockToSharedKeeps ==
  ASSUME PagerInv, NEW c \in Conn, UnlockToShared(c)
  PROVE  PagerInv'
<1> DEFINE to == IF call[c] = "hot" THEN "validate" ELSE "reader"
<1>1. pc[c] = "unlock"
  BY StepsTo DEF UnlockToShared
<1>2. OneConn(c)
  BY Parts
<1>3. /\ NotHot /\ todo[c] \in SUBSET Page
      /\ call[c] = "hot" => IdleOK(c)
      /\ call[c] # "hot" => ViewOK(c)
  BY <1>1, <1>2, Types DEF OneConn, ConnOK, Idle, Starting
<1>4. Turns(c, to, 1, "none", todo[c])
  <2>1. held' = [held EXCEPT ![c] = 1]
    BY Releases, Levels DEF UnlockToShared, Locks
  <2> QED
    BY <2>1, Types DEF UnlockToShared, Turns, Step, Goto
<1>5. to \in {"validate", "reader"} /\ (to = "validate" <=> call[c] = "hot")
  OBVIOUS
<1> HIDE DEF to
<1>6. /\ OthersStay(c)
      /\ Current' = Current /\ Base' = Base /\ NotHot' = NotHot
      /\ pc'[c] = to /\ held'[c] = 1 /\ call'[c] = "none" /\ todo'[c] = todo[c]
      /\ cache'[c] = cache[c] /\ dirty'[c] = dirty[c] /\ vers'[c] = vers[c]
      /\ jrnl' = jrnl /\ jsync' = jsync /\ jnew' = jnew /\ db' = db /\ platter' = platter
  BY <1>4, TurnStays
<1>7. held[c] # Ladder!NO_LOCK
  BY <1>1, <1>2 DEF OneConn, LockOK
<1>8. Alone'
  BY <1>5, <1>6, <1>7, AloneStays, Levels DEF Owner, Writing, Playing
<1>9. LockOK(c)' /\ CallOK(c)'
  BY <1>5, <1>6, Levels DEF LockOK, CallOK, Owner, Writing, Playing
<1>10. (IdleOK(c) => IdleOK(c)') /\ (ViewOK(c) => ViewOK(c)')
  BY <1>6 DEF IdleOK, ViewOK
<1>11. ConnOK(c)'
  BY <1>3, <1>5, <1>6, <1>10 DEF ConnOK, Idle, Starting, Writer, Writing, Playing
<1> QED
  BY <1>3, <1>4, <1>5, <1>8, <1>9, <1>11, TurnKeeps, Levels

\* A rollback puts the committed pages back into the cache.
LEMMA RollbackKeeps ==
  ASSUME PagerInv, NEW c \in Conn, Rollback(c)
  PROVE  PagerInv'
<1> DEFINE to   == IF jrnl.sealed = {} THEN "delete" ELSE "pages"
           back == [p \in Page |-> IF cache[c][p] # NoPage /\ p \in Recorded(jrnl)
                                   THEN jrnl.rec[p] ELSE cache[c][p]]
           v    == IF 1 \in Recorded(jrnl) THEN jrnl.rec[1] ELSE vers[c]
<1>0. UNCHANGED <<held, fileVars>>
  BY DEF Rollback
<1>1. pc[c] = "mod" \/ (pc[c] = "delete" /\ call[c] = "commit")
  BY DEF Rollback
<1>2. ChangeOK(c) /\ OneConn(c)
  BY <1>1, WriterFacts DEF Writing, Playing
<1>3. /\ jrnl # NoFile /\ jrnl \in Journal /\ jrnl.sealed \in SUBSET Page
      /\ jrnl.sealed \subseteq Recorded(jrnl)
      /\ \A p \in Recorded(jrnl) : jrnl.rec[p] = Current[p]
      /\ \A p \in Page \ Recorded(jrnl) : db[p] = Current[p]
      /\ \A p \in Page : Current[p] \in Nat /\ Current[p] # NoPage
  BY <1>2, FilesNow, Constants DEF ChangeOK, FileFacts, Journal
<1>4. /\ back \in [Page -> Nat \cup {NoPage}]
      /\ \A p \in Page : back[p] \in {NoPage, Current[p]}
      /\ back[1] # NoPage
  <2>1. cache[c] \in [Page -> Nat \cup {NoPage}] /\ 1 \in Page
    BY Types, Constants
  <2>2. back \in [Page -> Nat \cup {NoPage}]
    BY <1>3, <2>1 DEF Journal, Recorded
  <2>3. ASSUME NEW p \in Page PROVE back[p] \in {NoPage, Current[p]}
    BY <1>2, <1>3 DEF ChangeOK
  <2>4. back[1] # NoPage
    BY <1>2, <1>3, <2>1 DEF ChangeOK
  <2> QED
    BY <2>2, <2>3, <2>4
<1>5. v = Current[1] /\ v \in Nat
  BY <1>2, <1>3, Constants DEF ChangeOK
<1>6. /\ pc' = [pc EXCEPT ![c] = to] /\ call' = [call EXCEPT ![c] = "undo"]
      /\ todo' = [todo EXCEPT ![c] = jrnl.sealed]
      /\ cache' = [cache EXCEPT ![c] = back]
      /\ dirty' = [dirty EXCEPT ![c] = {}]
      /\ vers' = [vers EXCEPT ![c] = v]
  BY Types DEF Rollback, Goto
<1>7. to \in {"delete", "pages"} /\ (to = "delete" <=> jrnl.sealed = {})
  OBVIOUS
<1> HIDE DEF to, back, v
<1>8. /\ pc'[c] = to /\ call'[c] = "undo" /\ todo'[c] = jrnl.sealed
      /\ cache'[c] = back /\ dirty'[c] = {} /\ vers'[c] = v /\ held'[c] = held[c]
      /\ \A d \in Conn \ {c} :
           /\ pc'[d] = pc[d] /\ call'[d] = call[d] /\ todo'[d] = todo[d]
           /\ cache'[d] = cache[d] /\ dirty'[d] = dirty[d] /\ vers'[d] = vers[d]
  BY <1>0, <1>6, Types
<1>9. /\ pc' \in [Conn -> {"open", "validate", "reader"}
                             \cup Starting \cup Writing \cup Playing]
      /\ call' \in [Conn -> {"none", "hot", "spill", "commit", "undo"}]
      /\ todo' \in [Conn -> SUBSET Page]
      /\ cache' \in [Conn -> [Page -> Nat \cup {NoPage}]]
      /\ dirty' \in [Conn -> SUBSET Page]
      /\ vers' \in [Conn -> Nat]
  BY <1>3, <1>4, <1>5, <1>6, <1>7, Types DEF Playing
<1>10. TypeOK'
  BY <1>0, <1>9 DEF PagerInv, TypeOK, fileVars
<1>11. OthersStay(c)
  BY <1>0, <1>8 DEF OthersStay, Stays
<1>12. Alone'
  BY <1>1, <1>8, <1>11, OwnerStays DEF Owner, Writing, Playing
<1>13. held[c] > Ladder!SHARED_LOCK /\ (jrnl.sealed # {} => held[c] = Ladder!EXCLUSIVE_LOCK)
  BY <1>1, <1>2 DEF OneConn, LockOK, ChangeOK, Owner, Writing, Playing
<1>14. LockOK(c)' /\ CallOK(c)'
  BY <1>7, <1>8, <1>13, Types, Levels DEF LockOK, CallOK, Starting
<1>15. Current' = Current /\ Base' = Base
  BY <1>0 DEF fileVars, Current, Recovered, Base
<1>16. ViewOK(c)'
  BY <1>4, <1>5, <1>8, <1>15 DEF ViewOK
<1>17. RestoreOK(c)'
  <2>1. Base.sealed = jrnl.sealed
    BY <1>1, <1>2 DEF ChangeOK
  <2>2. jrnl.sealed = {} => \A p \in Page : platter[p] = {db[p]}
    BY FilesNow DEF FileFacts, NotHot
  <2> QED
    BY <1>0, <1>3, <1>7, <1>8, <1>13, <1>15, <2>1, <2>2 DEF RestoreOK, fileVars
<1>18. ConnOK(c)'
  BY <1>7, <1>8, <1>16, <1>17 DEF ConnOK, Idle, Starting, Writer, Writing
<1> QED
  BY <1>0, <1>10, <1>11, <1>12, <1>14, <1>18, QuietStep DEF OneConn

-----------------------------------------------------------------------------
(* Failures of a process or of a system call leave the files as they are. *)

LEMMA ForgetKeeps ==
  ASSUME PagerInv, NEW S \in SUBSET Conn, Forget(S), UNCHANGED fileVars,
         \A c \in Conn : vers'[c] = vers[c] \/ c \in S,
         vers' \in [Conn -> Nat]
  PROVE  PagerInv'
<1>1. /\ held' = [c \in Conn |-> IF c \in S THEN 0 ELSE held[c]]
      /\ pc' = [c \in Conn |-> IF c \in S THEN "open" ELSE pc[c]]
      /\ call' = [c \in Conn |-> IF c \in S THEN "none" ELSE call[c]]
      /\ todo' = [c \in Conn |-> IF c \in S THEN {} ELSE todo[c]]
      /\ cache' = [c \in Conn |-> IF c \in S THEN NoCache ELSE cache[c]]
      /\ dirty' = [c \in Conn |-> IF c \in S THEN {} ELSE dirty[c]]
  BY Levels DEF Forget, Ladder!Abandon
<1>2. TypeOK'
  <2>1. NoCache \in [Page -> Nat \cup {NoPage}]
    BY DEF NoCache
  <2> QED
    BY <1>1, <2>1, Types, Levels DEF PagerInv, TypeOK, fileVars
<1>3. Files'
  BY <1>2 DEF PagerInv, Files, JournalOK, WriteAhead, Base, fileVars
<1>4. Alone'
  <2>1. \A d, e \in Conn : d # e =>
          /\ held[d] = 4 => held[e] = 0
          /\ ~(pc[d] \in Owner /\ pc[e] \in Owner)
    BY Levels DEF PagerInv, Alone
  <2>2. \A d \in Conn : \/ held'[d] = held[d] /\ pc'[d] = pc[d]
                        \/ held'[d] = 0 /\ pc'[d] \notin Owner
    BY <1>1 DEF Owner, Writing, Playing
  <2> QED
    BY <2>1, <2>2, Levels DEF Alone, Owner
<1>5. ASSUME NEW c \in Conn PROVE OneConn(c)'
  <2>1. CASE c \in S
    <3>1. /\ held'[c] = 0 /\ pc'[c] = "open" /\ call'[c] = "none"
          /\ cache'[c] = NoCache /\ dirty'[c] = {}
      BY <1>1, <2>1
    <3> QED
      BY <3>1, Levels DEF OneConn, LockOK, CallOK, ConnOK, IdleOK, Idle,
         Owner, Writer, Writing, Playing
  <2>2. CASE c \notin S
    <3>1. Stays(c)
      BY <1>1, <2>2 DEF Stays
    <3> QED
      BY <3>1, Parts, StaysOnFiles
  <2> QED
    BY <2>1, <2>2
<1> QED
  BY <1>3, <1>4, <1>5, PartsNext

LEMMA IOErrorKeeps ==
  ASSUME PagerInv, NEW c \in Conn, IOError(c)
  PROVE  PagerInv'
  BY ForgetKeeps, Types DEF IOError

LEMMA CrashKeeps ==
  ASSUME PagerInv, NEW c \in Conn, Crash(Home[c])
  PROVE  PagerInv'
<1> DEFINE S == {d \in Conn : Home[d] = Home[c]}
<1>1. Forget(S) /\ UNCHANGED fileVars /\ vers' = [d \in Conn |-> IF d \in S THEN 0 ELSE vers[d]]
  BY DEF Crash
<1>2. S \in SUBSET Conn
  OBVIOUS
<1> HIDE DEF S
<1>3. vers' \in [Conn -> Nat] /\ \A d \in Conn : vers'[d] = vers[d] \/ d \in S
  BY <1>1, Types
<1> QED
  BY <1>1, <1>2, <1>3, ForgetKeeps

-----------------------------------------------------------------------------
(* Writers in the journal. *)

\* The journal a change finds or opens, and the one it leaves.
LEMMA ChangedJournal ==
  ASSUME PagerInv, NEW c \in Conn, NEW p \in Page, NEW x, Change(c, p, x),
         pc[c] \in {"locked", "mod"}, cache[c][p] # NoPage
  PROVE  /\ jrnl' \in Journal
         /\ jrnl'.sealed = IF pc[c] = "locked" THEN {} ELSE jrnl.sealed
         /\ Recorded(jrnl') = {p} \cup (IF pc[c] = "locked" THEN {} ELSE Recorded(jrnl))
         /\ \A q \in Recorded(jrnl') : jrnl'.rec[q] = Current[q]
         /\ pc[c] = "mod" => \A q \in Recorded(jrnl) : jrnl'.rec[q] = jrnl.rec[q]
<1> DEFINE j == IF pc[c] = "locked" THEN EmptyJournal ELSE jrnl
<1>1. pc[c] = "locked" => ViewOK(c)
  BY ReaderFacts
<1>2. pc[c] = "mod" => ChangeOK(c)
  BY WriterFacts DEF Writing
<1>3. cache[c][p] \in Nat
  BY Types
<1>4. /\ j \in Journal
      /\ \A q \in Recorded(j) : j.rec[q] = Current[q]
  BY <1>2, FilesNow, Constants DEF ChangeOK, FileFacts
<1>5. p \notin Recorded(j) => cache[c][p] = Current[p]
  <2>1. CASE pc[c] = "locked"
    BY <1>1, <2>1 DEF ViewOK
  <2>2. CASE pc[c] = "mod"
    BY <1>2, <2>2, FilesNow DEF ChangeOK, FileFacts
  <2> QED
    BY <2>1, <2>2
<1>6. jrnl' = IF p \in Recorded(j) THEN j ELSE [j EXCEPT !.rec[p] = cache[c][p]]
  BY DEF Change, Original
<1>7. /\ j.sealed = IF pc[c] = "locked" THEN {} ELSE jrnl.sealed
      /\ Recorded(j) = IF pc[c] = "locked" THEN {} ELSE Recorded(jrnl)
      /\ pc[c] = "mod" => j = jrnl
  BY Constants DEF EmptyJournal
<1> HIDE DEF j
<1>8. CASE p \in Recorded(j)
  BY <1>4, <1>6, <1>7, <1>8
<1>9. CASE p \notin Recorded(j)
  <2>1. /\ j.rec \in [Page -> Nat \cup {NoPage}]
        /\ j = [rec |-> j.rec, sealed |-> j.sealed]
        /\ j.sealed \in SUBSET Page
    BY <1>4 DEF Journal
  <2>2. /\ jrnl' = [rec |-> [j.rec EXCEPT ![p] = cache[c][p]], sealed |-> j.sealed]
    BY <1>6, <1>9, <2>1
  <2>3. /\ jrnl'.rec = [j.rec EXCEPT ![p] = cache[c][p]]
        /\ jrnl'.sealed = j.sealed
    BY <2>2
  <2>4. jrnl' \in Journal
    BY <1>3, <2>1, <2>2 DEF Journal
  <2>5. /\ jrnl'.rec[p] = cache[c][p]
        /\ \A q \in Page \ {p} : jrnl'.rec[q] = j.rec[q]
    BY <2>1, <2>3
  <2>6. Recorded(jrnl') = {p} \cup Recorded(j)
    BY <1>3, <2>5, Constants DEF Recorded
  <2>7. \A q \in Recorded(jrnl') : jrnl'.rec[q] = Current[q]
    BY <1>4, <1>5, <1>9, <2>5, <2>6 DEF Recorded
  <2>8. \A q \in Recorded(j) : jrnl'.rec[q] = j.rec[q]
    BY <1>9, <2>5 DEF Recorded
  <2> QED
    BY <1>7, <2>3, <2>4, <2>6, <2>7, <2>8
<1> QED
  BY <1>8, <1>9

LEMMA ChangedFiles ==
  ASSUME PagerInv, NEW c \in Conn, NEW p \in Page, NEW x, Change(c, p, x),
         pc[c] \in {"locked", "mod"}, cache[c][p] # NoPage,
         UNCHANGED <<db, platter, jsync>>
  PROVE  /\ jrnl' # NoFile /\ jnew' \in BOOLEAN
         /\ JournalOK' /\ WriteAhead'
         /\ Current' = Current
         /\ NotHot => NotHot'
         /\ Base'.sealed = jrnl'.sealed
<1>1. pc[c] = "mod" => ChangeOK(c)
  BY WriterFacts DEF Writing
<1>2. pc[c] = "locked" => NotHot
  BY ReaderFacts
<1>3. /\ jrnl' \in Journal
      /\ jrnl'.sealed = IF pc[c] = "locked" THEN {} ELSE jrnl.sealed
      /\ Recorded(jrnl') = {p} \cup (IF pc[c] = "locked" THEN {} ELSE Recorded(jrnl))
      /\ \A q \in Recorded(jrnl') : jrnl'.rec[q] = Current[q]
      /\ pc[c] = "mod" => \A q \in Recorded(jrnl) : jrnl'.rec[q] = jrnl.rec[q]
  BY ChangedJournal
<1>4. /\ jnew' = (jnew \/ pc[c] = "locked")
      /\ pc[c] = "mod" => jnew' = jnew
  <2>1. jnew' = (jnew \/ pc[c] = "locked")
    BY DEF Change
  <2>2. jnew \in BOOLEAN
    BY FilesNow DEF Files, TypeOK
  <2>3. pc[c] = "mod" => pc[c] # "locked"
    OBVIOUS
  <2> HIDE DEF Change
  <2>4. ASSUME pc[c] # "locked" PROVE jnew' = jnew
    BY <2>1, <2>2, <2>4, Zenon
  <2> QED
    BY <2>1, <2>3, <2>4
<1>5. jrnl' # NoFile /\ jnew' \in BOOLEAN
  BY <1>3, <1>4, Constants, FilesNow DEF Files, TypeOK
<1>6. Base' = IF pc[c] = "locked" THEN EmptyJournal ELSE Base
  BY <1>4 DEF Base
<1>7. Base'.sealed = jrnl'.sealed
  BY <1>1, <1>3, <1>6 DEF EmptyJournal, ChangeOK
<1>8. JournalOK'
  <2>1. CASE pc[c] = "locked"
    <3>1. Recorded(Base') = {} /\ Base'.sealed = {} /\ jnew'
      BY <1>4, <1>6, <2>1, Constants DEF EmptyJournal
    <3> QED
      BY <1>3, <1>5, <2>1, <3>1, FilesNow DEF Files, JournalOK
  <2>2. CASE pc[c] = "mod"
    <3>1. /\ jrnl # NoFile /\ Base' = Base /\ jnew' = jnew /\ jsync' = jsync
      BY <1>1, <1>4, <1>6, <2>2 DEF ChangeOK
    <3>2. /\ jnew \/ jsync # NoFile
          /\ \A q \in Recorded(Base) : Base.rec[q] = jrnl.rec[q]
          /\ jrnl.sealed \subseteq Recorded(Base)
          /\ jsync # NoFile => jsync.sealed \subseteq Recorded(jsync)
      BY <3>1, FilesNow DEF Files, JournalOK
    <3>3. \A q \in Recorded(Base) : q \in Recorded(jrnl)
      BY <3>2 DEF Recorded
    <3> QED
      BY <1>3, <1>5, <1>7, <2>2, <3>1, <3>2, <3>3 DEF JournalOK
  <2> QED
    BY <2>1, <2>2
<1>9. WriteAhead'
  <2>1. CASE pc[c] = "locked"
    BY <1>2, <2>1, FilesNow DEF WriteAhead, FileFacts
  <2>2. CASE pc[c] = "mod"
    <3>1. jrnl # NoFile /\ Base' = Base
      BY <1>1, <1>6, <2>2 DEF ChangeOK
    <3>2. \A q \in Page : /\ db[q] \in platter[q]
                          /\ q \notin Base.sealed => db[q] # Torn /\ platter[q] = {db[q]}
      BY <3>1, FilesNow DEF Files, WriteAhead
    <3> QED
      BY <1>5, <3>1, <3>2 DEF WriteAhead
  <2> QED
    BY <2>1, <2>2
<1>10. Current' = Current
  <2>1. \A q \in Page : Current'[q] = Current[q]
    <3>1. CASE pc[c] = "locked"
      BY <1>2, <1>3, <1>5, <3>1, CurrentAtNext, FilesNow DEF FileFacts
    <3>2. CASE pc[c] = "mod"
      <4>1. jrnl # NoFile /\ jrnl.sealed \subseteq Recorded(jrnl)
        BY <1>1, <3>2, FilesNow DEF ChangeOK, FileFacts
      <4> QED
        BY <1>3, <1>5, <3>2, <4>1, CurrentAt, CurrentAtNext
    <3> QED
      BY <3>1, <3>2
  <2> QED
    BY <2>1, CurrentAt, CurrentAtNext
<1>11. NotHot => NotHot'
  BY <1>3, <1>5, <1>1 DEF NotHot, ChangeOK
<1> QED
  BY <1>5, <1>7, <1>8, <1>9, <1>10, <1>11

\* Where a change leaves the one who made it.
LEMMA ChangedOK ==
  ASSUME PagerInv, NEW c \in Conn, NEW p \in Page, NEW x \in Nat, Change(c, p, x),
         pc[c] \in {"locked", "mod"}, cache[c][p] # NoPage,
         UNCHANGED <<held, vers, db, platter, jsync>>,
         pc'[c] \in {"mod", "sync"},
         pc'[c] = "sync" => /\ call'[c] \in {"spill", "commit"}
                            /\ todo'[c] \subseteq dirty'[c],
         call'[c] = "commit" => todo'[c] = dirty'[c] /\ (p = 1 \/ 1 \in Recorded(jrnl)),
         call'[c] = "commit" => pc[c] = "mod",
         p = 1 => /\ pc[c] = "mod" /\ 1 \notin Recorded(jrnl)
                  /\ x = vers[c] + 1
  PROVE  ChangeOK(c)'
<1>1. pc[c] = "mod" => ChangeOK(c)
  BY WriterFacts DEF Writing
<1>2. pc[c] = "locked" => ViewOK(c) /\ NotHot
  BY ReaderFacts
<1>3. /\ jrnl'.sealed = IF pc[c] = "locked" THEN {} ELSE jrnl.sealed
      /\ Recorded(jrnl') = {p} \cup (IF pc[c] = "locked" THEN {} ELSE Recorded(jrnl))
      /\ \A q \in Recorded(jrnl') : jrnl'.rec[q] = Current[q]
  BY ChangedJournal
<1>4. /\ jrnl' # NoFile /\ Current' = Current /\ Base'.sealed = jrnl'.sealed
  BY ChangedFiles
<1>5. /\ cache'[c][p] = x
      /\ \A q \in Page \ {p} : cache'[c][q] = cache[c][q]
      /\ dirty'[c] = dirty[c] \cup {p}
      /\ x # NoPage
  BY CachesAt, Types, Constants DEF Change, Caches
<1>6. /\ 1 \in Page
      /\ \A q \in Page : Current[q] \in Nat
      /\ pc[c] = "locked" => \A q \in Page : /\ db[q] # Torn
                                             /\ cache[c][q] \in {NoPage, db[q]}
      /\ pc[c] = "locked" => dirty[c] = {} /\ vers[c] = Current[1]
      /\ cache[c][1] # NoPage
  BY <1>1, <1>2, Constants, FilesNow DEF FileFacts, ViewOK, ChangeOK
<1>7. \A q \in Page : /\ db'[q] # Torn
                      /\ IF q \in dirty'[c] THEN cache'[c][q] # NoPage
                         ELSE cache'[c][q] \in {NoPage, db'[q]}
  BY <1>1, <1>5, <1>6 DEF ChangeOK
<1>8. dirty'[c] \subseteq Recorded(jrnl') /\ Recorded(jrnl') \ jrnl'.sealed \subseteq dirty'[c]
  BY <1>1, <1>3, <1>5, <1>6 DEF ChangeOK
<1>9. jrnl'.sealed # {} => held'[c] = Ladder!EXCLUSIVE_LOCK
  BY <1>1, <1>3 DEF ChangeOK
<1>10. vers'[c] = IF 1 \in Recorded(jrnl') \ dirty'[c] THEN Current'[1] + 1 ELSE Current'[1]
  <2>1. CASE pc[c] = "locked"
    BY <1>3, <1>4, <1>5, <1>6, <2>1
  <2>2. CASE pc[c] = "mod"
    BY <1>1, <1>3, <1>4, <1>5, <2>2 DEF ChangeOK
  <2> QED
    BY <2>1, <2>2
<1>11. 1 \in Recorded(jrnl') => cache'[c][1] = Current'[1] + 1
  <2>1. CASE p = 1
    BY <1>1, <1>4, <1>5, <2>1 DEF ChangeOK
  <2>2. CASE p # 1
    BY <1>1, <1>3, <1>4, <1>5, <1>6, <2>2 DEF ChangeOK
  <2> QED
    BY <2>1, <2>2
<1>12. cache'[c][1] # NoPage
  BY <1>5, <1>6
<1>13. call'[c] = "commit" => 1 \in Recorded(jrnl') /\ todo'[c] = dirty'[c]
  BY <1>3
<1>14. ~Sealing(c)' /\ ~Committing(c)' /\ pc'[c] \notin {"pages", "dbsync", "delete"}
  BY DEF Sealing, Committing
<1> QED
  BY <1>3, <1>4, <1>7, <1>8, <1>9, <1>10, <1>11, <1>12, <1>13, <1>14 DEF ChangeOK

LEMMA WriteKeeps ==
  ASSUME PagerInv, NEW c \in Conn, NEW p \in Page, NEW x \in Val, Write(c, p, x)
  PROVE  PagerInv'
<1>1. /\ pc[c] \in {"locked", "mod"} /\ p # 1 /\ cache[c][p] # NoPage
      /\ x \in Nat /\ Change(c, p, x)
      /\ UNCHANGED <<held, call, todo, vers, db, platter, jsync>>
  BY PagerAssumption DEF Write
<1>2. /\ pc'[c] = "mod"
      /\ pc' \in [Conn -> {"open", "validate", "reader"}
                             \cup Starting \cup Writing \cup Playing]
      /\ \A d \in Conn \ {c} : pc'[d] = pc[d]
  BY Types DEF Write, Goto, Writing
<1>3. OneConn(c) /\ call[c] = "none"
  BY <1>1, Parts DEF OneConn, CallOK
<1>4. /\ jrnl' \in Journal /\ jrnl' # NoFile /\ jnew' \in BOOLEAN
      /\ JournalOK' /\ WriteAhead' /\ Current' = Current
      /\ NotHot => NotHot'
  BY <1>1, ChangedFiles, ChangedJournal
<1>5. /\ cache' \in [Conn -> [Page -> Nat \cup {NoPage}]]
      /\ \A d \in Conn \ {c} : cache'[d] = cache[d] /\ dirty'[d] = dirty[d]
      /\ dirty' \in [Conn -> SUBSET Page]
  BY <1>1, CachesAt, Types DEF Change, Caches
<1>6. TypeOK'
  BY <1>1, <1>2, <1>4, <1>5 DEF PagerInv, TypeOK
<1>7. OthersStay(c)
  BY <1>1, <1>2, <1>5 DEF OthersStay, Stays
<1>8. Alone'
  BY <1>1, <1>7, OwnerStays DEF Owner, Writing
<1>9. LockOK(c)' /\ CallOK(c)'
  <2>1. held[c] > Ladder!SHARED_LOCK
    BY <1>1, <1>3 DEF OneConn, LockOK, Owner, Writing
  <2> QED
    BY <1>1, <1>2, <1>3, <2>1, Types, Levels DEF LockOK, CallOK, Starting
<1>10. ChangeOK(c)'
  BY <1>1, <1>2, <1>3, ChangedOK
<1>11. ConnOK(c)'
  BY <1>1, <1>2, <1>3, <1>10 DEF ConnOK, Idle, Starting
<1> QED
  BY <1>1, <1>4, <1>6, <1>7, <1>8, <1>9, <1>11, OwnerStep DEF OneConn, Files, Owner, Writing

LEMMA CommitPhaseOneKeeps ==
  ASSUME PagerInv, NEW c \in Conn, CommitPhaseOne(c)
  PROVE  PagerInv'
<1>1. /\ pc[c] = "mod" /\ pc'[c] = "sync"
      /\ pc' = [pc EXCEPT ![c] = "sync"]
      /\ \A d \in Conn \ {c} : pc'[d] = pc[d]
      /\ pc' \in [Conn -> {"open", "validate", "reader"}
                             \cup Starting \cup Writing \cup Playing]
  BY StepsTo DEF CommitPhaseOne, Writing, Step, Goto
<1>2. /\ UNCHANGED <<held, vers, db, platter, jsync>>
      /\ call' = [call EXCEPT ![c] = "commit"]
      /\ todo' = [todo EXCEPT ![c] = dirty'[c]]
  BY DEF CommitPhaseOne
<1>3. ChangeOK(c) /\ OneConn(c)
  BY <1>1, WriterFacts DEF Writing
<1>4. held[c] > Ladder!SHARED_LOCK /\ held[c] \in Ladder!Level
  BY <1>1, <1>3, Types DEF OneConn, LockOK, Owner, Writing
<1>5. CASE 1 \notin Recorded(jrnl) /\ Change(c, 1, NextCount(c))
  <2>1. /\ 1 \in Page /\ cache[c][1] # NoPage
        /\ NextCount(c) \in Nat /\ NextCount(c) = vers[c] + 1
    BY <1>3, Types, Constants DEF ChangeOK, NextCount
  <2>2. /\ jrnl' \in Journal /\ jrnl' # NoFile /\ jnew' \in BOOLEAN
        /\ JournalOK' /\ WriteAhead' /\ Current' = Current
        /\ NotHot => NotHot'
    BY <1>1, <1>2, <1>5, <2>1, ChangedFiles, ChangedJournal
  <2>3. /\ cache' \in [Conn -> [Page -> Nat \cup {NoPage}]]
        /\ \A d \in Conn \ {c} : cache'[d] = cache[d] /\ dirty'[d] = dirty[d]
        /\ dirty' \in [Conn -> SUBSET Page]
    BY <1>5, <2>1, CachesAt, Types DEF Change, Caches
  <2>4. /\ call'[c] = "commit" /\ todo'[c] = dirty'[c]
        /\ \A d \in Conn \ {c} : call'[d] = call[d] /\ todo'[d] = todo[d]
        /\ call' \in [Conn -> {"none", "hot", "spill", "commit", "undo"}]
        /\ todo' \in [Conn -> SUBSET Page]
    BY <1>2, <2>3, Types
  <2>5. TypeOK'
    BY <1>1, <1>2, <2>2, <2>3, <2>4 DEF PagerInv, TypeOK
  <2>6. OthersStay(c)
    BY <1>1, <1>2, <2>3, <2>4 DEF OthersStay, Stays
  <2>7. Alone'
    BY <1>1, <1>2, <2>6, OwnerStays DEF Owner, Writing
  <2>8. LockOK(c)' /\ CallOK(c)'
    BY <1>1, <1>2, <1>4, <2>4, Levels DEF LockOK, CallOK, Starting
  <2>9. ChangeOK(c)'
    BY <1>1, <1>2, <1>5, <2>1, <2>4, ChangedOK
  <2>10. ConnOK(c)'
    BY <1>1, <2>4, <2>9 DEF ConnOK, Idle, Starting
  <2> QED
    BY <1>1, <2>2, <2>5, <2>6, <2>7, <2>8, <2>10, OwnerStep
       DEF OneConn, Files, Owner, Writing
<1>6. CASE 1 \in Recorded(jrnl) /\ UNCHANGED <<cache, dirty, jrnl, jnew>>
  <2>1. Turns(c, "sync", held[c], "commit", dirty[c])
    BY <1>1, <1>2, <1>6, Types DEF Turns, fileVars
  <2>2. /\ OthersStay(c)
        /\ Current' = Current /\ Base' = Base /\ NotHot' = NotHot
        /\ pc'[c] = "sync" /\ held'[c] = held[c] /\ call'[c] = "commit" /\ todo'[c] = dirty[c]
        /\ cache'[c] = cache[c] /\ dirty'[c] = dirty[c] /\ vers'[c] = vers[c]
        /\ jrnl' = jrnl /\ jsync' = jsync /\ jnew' = jnew /\ db' = db /\ platter' = platter
    BY <2>1, TurnStays
  <2>3. Alone'
    BY <1>1, <2>2, OwnerStays DEF Owner, Writing
  <2>4. LockOK(c)' /\ CallOK(c)'
    BY <1>4, <2>2, Levels DEF LockOK, CallOK, Starting
  <2>5. ChangeOK(c)'
    BY <1>1, <1>3, <1>6, <2>2 DEF ChangeOK, Sealing, Committing
  <2>6. ConnOK(c)'
    BY <2>2, <2>5 DEF ConnOK, Idle, Starting
  <2>7. /\ "sync" \in {"open", "validate", "reader"} \cup Starting \cup Writing \cup Playing
        /\ dirty[c] \in SUBSET Page
    BY Types DEF Writing
  <2> QED
    BY <1>4, <2>1, <2>3, <2>4, <2>6, <2>7, TurnKeeps
<1> QED
  BY <1>5, <1>6 DEF CommitPhaseOne

\* A step of c that changes its point of the code and the files.
Handles(c, to) == /\ pc' = [pc EXCEPT ![c] = to]
                  /\ UNCHANGED <<held, call, todo, cache, dirty, vers>>

LEMMA HandlesAt ==
  ASSUME PagerInv, NEW c \in Conn, NEW to, Handles(c, to),
         pc[c] \in Owner, to \in Writing \cup Playing,
         to \in {"records", "header", "headersync", "pages", "dbsync"}
           => held[c] = Ladder!EXCLUSIVE_LOCK
  PROVE  /\ pc'[c] = to /\ OthersStay(c) /\ Alone' /\ LockOK(c)'
         /\ held'[c] = held[c] /\ call'[c] = call[c] /\ todo'[c] = todo[c]
         /\ cache'[c] = cache[c] /\ dirty'[c] = dirty[c] /\ vers'[c] = vers[c]
         /\ pc' \in [Conn -> {"open", "validate", "reader"}
                                \cup Starting \cup Writing \cup Playing]
<1>1. /\ pc'[c] = to
      /\ \A d \in Conn \ {c} : pc'[d] = pc[d]
      /\ pc' \in [Conn -> {"open", "validate", "reader"}
                             \cup Starting \cup Writing \cup Playing]
  BY Types DEF Handles, Owner, Starting
<1>2. OthersStay(c)
  BY <1>1 DEF OthersStay, Stays, Handles
<1>3. Alone'
  BY <1>1, <1>2, OwnerStays DEF Handles
<1>4. LockOK(c)'
  <2>1. held[c] > Ladder!SHARED_LOCK /\ held[c] # Ladder!NO_LOCK /\ held'[c] = held[c]
    BY Parts, Types, Levels DEF OneConn, LockOK, Handles
  <2> QED
    BY <1>1, <2>1, Levels DEF LockOK, Owner, Writing, Playing
<1> QED
  BY <1>1, <1>2, <1>3, <1>4 DEF Handles

\* Syncing the journal makes more of it durable and changes nothing else.
LEMMA SyncedFiles ==
  ASSUME PagerInv, SyncJournalFile, jrnl # NoFile, UNCHANGED <<db, platter, jrnl>>
  PROVE  /\ jsync' \in Journal \cup {NoFile} /\ jnew' = FALSE /\ jsync' = jrnl
         /\ JournalOK' /\ WriteAhead'
         /\ Current' = Current /\ NotHot' = NotHot /\ Base' = jrnl
<1>1. /\ jrnl \in Journal /\ jrnl.sealed \subseteq Recorded(jrnl)
      /\ Base.sealed \subseteq jrnl.sealed
  BY FilesNow DEF FileFacts, Files, JournalOK
<1>2. jsync' = jrnl /\ jnew' = FALSE /\ Base' = jrnl
  BY DEF SyncJournalFile, Base
<1>3. Current' = Current /\ NotHot' = NotHot
  BY DEF Current, Recovered, NotHot
<1>4. JournalOK'
  BY <1>1, <1>2 DEF JournalOK
<1>5. WriteAhead'
  BY <1>1, <1>2, FilesNow DEF WriteAhead, Files
<1> QED
  BY <1>1, <1>2, <1>3, <1>4, <1>5

LEMMA SyncRecordsKeeps ==
  ASSUME PagerInv, NEW c \in Conn, SyncRecords(c)
  PROVE  PagerInv'
<1>1. pc[c] = "records" /\ Handles(c, "header") /\ SyncJournalFile
      /\ UNCHANGED <<db, platter, jrnl>>
  BY StepsTo DEF SyncRecords, Handles, Step, Goto
<1>2. ChangeOK(c) /\ OneConn(c)
  BY <1>1, WriterFacts DEF Writing
<1>3. /\ held[c] = Ladder!EXCLUSIVE_LOCK /\ jrnl # NoFile
      /\ call[c] \in {"spill", "commit"}
  BY <1>1, <1>2 DEF OneConn, LockOK, CallOK, ChangeOK
<1>4. /\ pc'[c] = "header" /\ OthersStay(c) /\ Alone' /\ LockOK(c)'
      /\ held'[c] = held[c] /\ call'[c] = call[c] /\ todo'[c] = todo[c]
      /\ cache'[c] = cache[c] /\ dirty'[c] = dirty[c] /\ vers'[c] = vers[c]
      /\ pc' \in [Conn -> {"open", "validate", "reader"}
                             \cup Starting \cup Writing \cup Playing]
  BY <1>1, <1>3, HandlesAt DEF Owner, Writing
<1>5. /\ jsync' \in Journal \cup {NoFile} /\ jnew' = FALSE /\ jsync' = jrnl
      /\ JournalOK' /\ WriteAhead'
      /\ Current' = Current /\ NotHot' = NotHot /\ Base' = jrnl
  BY <1>1, <1>3, SyncedFiles
<1>6. TypeOK'
  BY <1>1, <1>4, <1>5 DEF PagerInv, TypeOK, Handles
<1>7. CallOK(c)'
  BY <1>3, <1>4 DEF CallOK, Starting
<1>8. ChangeOK(c)'
  BY <1>1, <1>2, <1>4, <1>5 DEF ChangeOK, Sealing, Committing
<1>9. ConnOK(c)'
  BY <1>3, <1>4, <1>8 DEF ConnOK, Idle, Starting
<1> QED
  BY <1>1, <1>4, <1>5, <1>6, <1>7, <1>9, OwnerStep DEF OneConn, Files, Owner, Writing

LEMMA SyncHeaderKeeps ==
  ASSUME PagerInv, NEW c \in Conn, SyncHeader(c)
  PROVE  PagerInv' /\ Current' = Current
<1>1. pc[c] = "headersync" /\ Handles(c, "pages") /\ SyncJournalFile
      /\ UNCHANGED <<db, platter, jrnl>>
  BY StepsTo DEF SyncHeader, Handles, Step, Goto, HeaderSynced
<1>2. ChangeOK(c) /\ OneConn(c)
  BY <1>1, WriterFacts DEF Writing
<1>3. /\ held[c] = Ladder!EXCLUSIVE_LOCK /\ jrnl # NoFile
      /\ call[c] \in {"spill", "commit"}
  BY <1>1, <1>2 DEF OneConn, LockOK, CallOK, ChangeOK
<1>4. /\ pc'[c] = "pages" /\ OthersStay(c) /\ Alone' /\ LockOK(c)'
      /\ held'[c] = held[c] /\ call'[c] = call[c] /\ todo'[c] = todo[c]
      /\ cache'[c] = cache[c] /\ dirty'[c] = dirty[c] /\ vers'[c] = vers[c]
      /\ pc' \in [Conn -> {"open", "validate", "reader"}
                             \cup Starting \cup Writing \cup Playing]
  BY <1>1, <1>3, HandlesAt DEF Owner, Writing, Playing
<1>5. /\ jsync' \in Journal \cup {NoFile} /\ jnew' = FALSE /\ jsync' = jrnl
      /\ JournalOK' /\ WriteAhead'
      /\ Current' = Current /\ NotHot' = NotHot /\ Base' = jrnl
  BY <1>1, <1>3, SyncedFiles
<1>6. TypeOK'
  BY <1>1, <1>4, <1>5 DEF PagerInv, TypeOK, Handles
<1>7. CallOK(c)'
  BY <1>3, <1>4 DEF CallOK, Starting
<1>8. ChangeOK(c)'
  BY <1>1, <1>2, <1>4, <1>5 DEF ChangeOK, Sealing, Committing
<1>9. ConnOK(c)'
  BY <1>3, <1>4, <1>8 DEF ConnOK, Idle, Starting
<1> QED
  BY <1>1, <1>4, <1>5, <1>6, <1>7, <1>9, OwnerStep DEF OneConn, Files, Owner, Writing

LEMMA WriteHeaderKeeps ==
  ASSUME PagerInv, NEW c \in Conn, WriteHeader(c)
  PROVE  PagerInv' /\ Current' = Current
<1>1. /\ pc[c] = "header" /\ Handles(c, "headersync")
      /\ jrnl' = [jrnl EXCEPT !.sealed = Recorded(jrnl)]
      /\ UNCHANGED <<db, platter, jsync, jnew>>
  BY StepsTo DEF WriteHeader, Handles, Step, Goto
<1>2. ChangeOK(c) /\ OneConn(c)
  BY <1>1, WriterFacts DEF Writing
<1>3. /\ held[c] = Ladder!EXCLUSIVE_LOCK /\ jrnl # NoFile /\ jrnl \in Journal
      /\ call[c] \in {"spill", "commit"}
      /\ ~jnew /\ jrnl.rec = jsync.rec /\ Base.sealed = jrnl.sealed
      /\ jrnl.sealed \subseteq Recorded(jrnl)
      /\ \A p \in Recorded(jrnl) : jrnl.rec[p] = Current[p]
  BY <1>1, <1>2, FilesNow DEF OneConn, LockOK, CallOK, ChangeOK, FileFacts, Sealing
<1>4. /\ pc'[c] = "headersync" /\ OthersStay(c) /\ Alone' /\ LockOK(c)'
      /\ held'[c] = held[c] /\ call'[c] = call[c] /\ todo'[c] = todo[c]
      /\ cache'[c] = cache[c] /\ dirty'[c] = dirty[c] /\ vers'[c] = vers[c]
      /\ pc' \in [Conn -> {"open", "validate", "reader"}
                             \cup Starting \cup Writing \cup Playing]
  BY <1>1, <1>3, HandlesAt DEF Owner, Writing
<1>5. /\ jrnl' = [rec |-> jrnl.rec, sealed |-> Recorded(jrnl)]
      /\ jrnl' \in Journal /\ jrnl' # NoFile
  <2>1. /\ jrnl = [rec |-> jrnl.rec, sealed |-> jrnl.sealed]
        /\ jrnl.rec \in [Page -> Nat \cup {NoPage}]
    BY <1>3 DEF Journal
  <2>2. jrnl' = [rec |-> jrnl.rec, sealed |-> Recorded(jrnl)]
    BY <1>1, <2>1
  <2>3. jrnl' \in Journal
    BY <2>1, <2>2 DEF Journal, Recorded
  <2> QED
    BY <2>2, <2>3, Constants
<1>6. /\ jrnl'.rec = jrnl.rec /\ jrnl'.sealed = Recorded(jrnl)
      /\ Recorded(jrnl') = Recorded(jrnl)
  BY <1>5 DEF Recorded
<1>7. Base' = Base /\ jsync # NoFile /\ Base = jsync
  BY <1>1, <1>3, FilesNow DEF Base, Files, JournalOK
<1>8. JournalOK'
  <2>1. Recorded(jsync) = Recorded(jrnl)
    BY <1>3 DEF Recorded
  <2>2. \A p \in Recorded(jrnl) \ jrnl.sealed : db[p] = jrnl.rec[p]
    BY <1>3, FilesNow DEF FileFacts, Recorded
  <2> QED
    BY <1>1, <1>3, <1>5, <1>6, <1>7, <2>1, <2>2, FilesNow DEF Files, JournalOK
<1>9. WriteAhead'
  BY <1>1, <1>3, <1>5, <1>7, FilesNow DEF Files, WriteAhead
<1>10. Current' = Current
  <2>1. \A p \in Page : Current'[p] = Current[p]
    BY <1>1, <1>3, <1>5, <1>6, CurrentAt, CurrentAtNext
  <2> QED
    BY <2>1, CurrentAt, CurrentAtNext
<1>11. TypeOK'
  BY <1>1, <1>4, <1>5 DEF PagerInv, TypeOK, Handles
<1>12. CallOK(c)'
  BY <1>3, <1>4 DEF CallOK, Starting
<1>13. ChangeOK(c)'
  BY <1>1, <1>2, <1>3, <1>4, <1>5, <1>6, <1>10 DEF ChangeOK, Sealing, Committing
<1>14. ConnOK(c)'
  BY <1>3, <1>4, <1>13 DEF ConnOK, Idle, Starting
<1> QED
  BY <1>1, <1>3, <1>4, <1>8, <1>9, <1>10, <1>11, <1>12, <1>14, OwnerStep
     DEF OneConn, Files, Owner, Writing

-----------------------------------------------------------------------------
(* The database file. *)

LEMMA WritesDb ==
  ASSUME PagerInv, NEW p \in Page, NEW x \in Nat, WriteDb(p, x)
  PROVE  /\ db'[p] = x /\ \A q \in Page \ {p} : db'[q] = db[q]
         /\ platter'[p] = platter[p] \cup {x, Torn}
         /\ \A q \in Page \ {p} : platter'[q] = platter[q]
         /\ db' \in [Page -> Content]
         /\ platter' \in [Page -> SUBSET Content]
<1>1. db \in [Page -> Content] /\ platter \in [Page -> SUBSET Content]
  BY DEF PagerInv, TypeOK
<1>2. x \in Content /\ Torn \in Content
  BY DEF Content
<1> QED
  BY <1>1, <1>2 DEF WriteDb

\* A page with a durable record can be overwritten.
LEMMA RecordedPage ==
  ASSUME PagerInv, NEW p \in Page, NEW x \in Nat, WriteDb(p, x),
         UNCHANGED <<jrnl, jsync, jnew>>,
         jrnl # NoFile, p \in jrnl.sealed, Base.sealed = jrnl.sealed
  PROVE  /\ JournalOK' /\ WriteAhead' /\ Base' = Base
         /\ Current' = Current /\ NotHot' = NotHot
<1>1. /\ db'[p] = x /\ \A q \in Page \ {p} : db'[q] = db[q]
      /\ platter'[p] = platter[p] \cup {x, Torn}
      /\ \A q \in Page \ {p} : platter'[q] = platter[q]
  BY WritesDb
<1>2. Base' = Base /\ NotHot' = NotHot
  BY DEF Base, NotHot
<1>3. JournalOK'
  BY <1>2, FilesNow DEF Files, JournalOK
<1>4. WriteAhead'
  BY <1>1, <1>2, FilesNow DEF Files, WriteAhead
<1>5. Current' = Current
  <2>1. jrnl.sealed \subseteq Recorded(jrnl)
    BY FilesNow DEF FileFacts
  <2>2. \A q \in Page : Current'[q] = Current[q]
    BY <1>1, <2>1, CurrentAt, CurrentAtNext
  <2> QED
    BY <2>2, CurrentAt, CurrentAtNext
<1> QED
  BY <1>2, <1>3, <1>4, <1>5

\* One page of the list is done.
LEMMA ListShrinks ==
  ASSUME PagerInv, NEW c \in Conn, NEW p, todo' = [todo EXCEPT ![c] = @ \ {p}]
  PROVE  /\ todo'[c] = todo[c] \ {p}
         /\ \A d \in Conn \ {c} : todo'[d] = todo[d]
         /\ todo' \in [Conn -> SUBSET Page]
  BY Types

LEMMA StorePageKeeps ==
  ASSUME PagerInv, NEW c \in Conn, NEW p, pc[c] = "pages", p \in todo[c],
         StorePage(c, p), todo' = [todo EXCEPT ![c] = @ \ {p}],
         UNCHANGED <<held, pc, call, jrnl, jsync, jnew>>
  PROVE  PagerInv' /\ Seen(c)' = Seen(c) /\ Current' = Current
<1> DEFINE x == IF p = 1 THEN NextCount(c) ELSE cache[c][p]
<1>1. /\ call[c] \in {"spill", "commit"}
      /\ WriteDb(p, x)
      /\ cache' = [cache EXCEPT ![c][p] = x]
      /\ dirty' = [dirty EXCEPT ![c] = @ \ {p}]
      /\ vers' = IF p = 1 THEN [vers EXCEPT ![c] = x] ELSE vers
  BY DEF StorePage
<1>2. ChangeOK(c) /\ OneConn(c)
  BY <1>1, WriterFacts DEF Playing
<1>3. /\ p \in Page /\ p \in dirty[c] /\ p \in jrnl.sealed /\ jrnl # NoFile
      /\ Base.sealed = jrnl.sealed /\ p \in Recorded(jrnl)
      /\ held[c] = Ladder!EXCLUSIVE_LOCK
      /\ todo[c] \subseteq dirty[c] /\ todo[c] \subseteq jrnl.sealed
  BY <1>2, Types DEF ChangeOK
<1>4. /\ cache[c][p] \in Nat
      /\ p = 1 => vers[c] = Current[1] /\ cache[c][1] = vers[c] + 1
  BY <1>2, <1>3, Types DEF ChangeOK
<1>5. x \in Nat /\ x = cache[c][p] /\ (p = 1 => x = Current[1] + 1)
  BY <1>4, Types DEF NextCount
<1> HIDE DEF x
<1>6. /\ db'[p] = x /\ \A q \in Page \ {p} : db'[q] = db[q]
      /\ db' \in [Page -> Content] /\ platter' \in [Page -> SUBSET Content]
  BY <1>1, <1>3, <1>5, WritesDb
<1>7. /\ JournalOK' /\ WriteAhead' /\ Base' = Base
      /\ Current' = Current /\ NotHot' = NotHot
  BY <1>1, <1>3, <1>5, RecordedPage
<1>8. /\ cache' \in [Conn -> [Page -> Nat \cup {NoPage}]]
      /\ cache'[c][p] = x
      /\ \A q \in Page \ {p} : cache'[c][q] = cache[c][q]
      /\ \A d \in Conn \ {c} : cache'[d] = cache[d]
  BY <1>1, <1>3, <1>5, CachesAt DEF Caches
<1>9. /\ dirty' \in [Conn -> SUBSET Page]
      /\ dirty'[c] = dirty[c] \ {p}
      /\ \A d \in Conn \ {c} : dirty'[d] = dirty[d]
  BY <1>1, Types
<1>10. /\ vers' \in [Conn -> Nat]
       /\ vers'[c] = IF p = 1 THEN x ELSE vers[c]
       /\ \A d \in Conn \ {c} : vers'[d] = vers[d]
  BY <1>1, <1>5, Types
<1>11. /\ todo'[c] = todo[c] \ {p}
       /\ \A d \in Conn \ {c} : todo'[d] = todo[d]
       /\ todo' \in [Conn -> SUBSET Page]
  BY ListShrinks
<1>12. TypeOK'
  BY <1>6, <1>8, <1>9, <1>10, <1>11 DEF PagerInv, TypeOK
<1>13. OthersStay(c)
  BY <1>8, <1>9, <1>10, <1>11 DEF OthersStay, Stays
<1>14. Alone' /\ LockOK(c)' /\ CallOK(c)'
  BY <1>2 DEF PagerInv, Alone, OneConn, LockOK, CallOK
<1>15. ChangeOK(c)'
  <2>1. \A q \in Page : /\ db'[q] # Torn
                        /\ IF q \in dirty'[c] THEN cache'[c][q] # NoPage
                           ELSE cache'[c][q] \in {NoPage, db'[q]}
    BY <1>2, <1>3, <1>5, <1>6, <1>8, <1>9, Constants DEF ChangeOK
  <2>2. vers'[c] = IF 1 \in Recorded(jrnl) \ dirty'[c] THEN Current[1] + 1 ELSE Current[1]
    BY <1>2, <1>3, <1>5, <1>9, <1>10 DEF ChangeOK
  <2>3. cache'[c][1] = cache[c][1]
    BY <1>3, <1>5, <1>8, Constants
  <2>4. /\ dirty'[c] \subseteq Recorded(jrnl)
        /\ Recorded(jrnl) \ jrnl.sealed \subseteq dirty'[c]
        /\ todo'[c] \subseteq dirty'[c] /\ todo'[c] \subseteq jrnl.sealed
        /\ call[c] = "commit" => todo'[c] = dirty'[c]
    BY <1>2, <1>3, <1>9, <1>11 DEF ChangeOK
  <2> QED
    BY <1>2, <1>7, <2>1, <2>2, <2>3, <2>4 DEF ChangeOK, Sealing, Committing
<1>16. ConnOK(c)'
  BY <1>1, <1>15 DEF ConnOK, Idle, Starting
<1>17. PagerInv'
  BY <1>3, <1>7, <1>12, <1>13, <1>14, <1>16, OwnerStep DEF OneConn, Files, Owner, Playing
<1>18. Seen(c)' = Seen(c)
  BY <1>3, <1>5, <1>6, <1>8, Constants DEF Seen
<1> QED
  BY <1>7, <1>17, <1>18

LEMMA RestorePageKeeps ==
  ASSUME PagerInv, NEW c \in Conn, NEW p, pc[c] = "pages", p \in todo[c],
         RestorePage(c, p), todo' = [todo EXCEPT ![c] = @ \ {p}],
         UNCHANGED <<held, pc, call, jrnl, jsync, jnew>>
  PROVE  PagerInv' /\ Current' = Current
<1>1. /\ call[c] \in {"hot", "undo"}
      /\ WriteDb(p, jrnl.rec[p])
      /\ UNCHANGED <<cache, dirty, vers>>
  BY DEF RestorePage
<1>2. OneConn(c) /\ RestoreOK(c)
  BY <1>1, Parts DEF OneConn, ConnOK
<1>3. /\ p \in Page /\ p \in jrnl.sealed /\ jrnl # NoFile
      /\ Base.sealed = jrnl.sealed /\ jrnl.rec[p] \in Nat
      /\ held[c] = Ladder!EXCLUSIVE_LOCK
  BY <1>2, Types, FilesNow DEF RestoreOK, FileFacts
<1>4. /\ db'[p] = jrnl.rec[p] /\ \A q \in Page \ {p} : db'[q] = db[q]
      /\ db' \in [Page -> Content] /\ platter' \in [Page -> SUBSET Content]
  BY <1>1, <1>3, WritesDb
<1>5. /\ JournalOK' /\ WriteAhead' /\ Base' = Base
      /\ Current' = Current /\ NotHot' = NotHot
  BY <1>1, <1>3, RecordedPage
<1>6. /\ todo'[c] = todo[c] \ {p}
      /\ \A d \in Conn \ {c} : todo'[d] = todo[d]
      /\ todo' \in [Conn -> SUBSET Page]
  BY ListShrinks
<1>7. TypeOK'
  BY <1>1, <1>4, <1>6 DEF PagerInv, TypeOK
<1>8. OthersStay(c)
  BY <1>1, <1>6 DEF OthersStay, Stays
<1>9. Alone' /\ LockOK(c)' /\ CallOK(c)'
  BY <1>2 DEF PagerInv, Alone, OneConn, LockOK, CallOK
<1>10. RestoreOK(c)'
  <2>1. \A q \in jrnl.sealed \ todo'[c] : db'[q] = jrnl.rec[q]
    <3>1. jrnl.sealed \subseteq Page
      BY <1>3, FilesNow DEF FileFacts, Journal
    <3> QED
      BY <1>2, <1>4, <1>6, <3>1 DEF RestoreOK
  <2> QED
    BY <1>2, <1>5, <1>6, <2>1 DEF RestoreOK
<1>11. (Idle(c) => IdleOK(c)') /\ (~Idle(c) => ViewOK(c)')
  BY <1>1, <1>2, <1>5 DEF OneConn, ConnOK, Idle, IdleOK, ViewOK
<1>12. ConnOK(c)'
  BY <1>1, <1>10, <1>11 DEF ConnOK, Idle, Writer, Writing
<1> QED
  BY <1>3, <1>5, <1>7, <1>8, <1>9, <1>12, OwnerStep DEF OneConn, Files, Owner, Playing

LEMMA NextPageKeeps ==
  ASSUME PagerInv, NEW c \in Conn, NextPage(c)
  PROVE  PagerInv' /\ Current' = Current
  BY StorePageKeeps, RestorePageKeeps DEF NextPage

LEMMA StartPlaybackKeeps ==
  ASSUME PagerInv, NEW c \in Conn, StartPlayback(c)
  PROVE  PagerInv' /\ Current' = Current
<1>1. /\ pc[c] = "recheck" /\ UNCHANGED <<held, dirty, vers, db, platter, jrnl>>
      /\ call' = [call EXCEPT ![c] = "hot"]
  BY StepsTo DEF StartPlayback
<1>2. OneConn(c)
  BY Parts
<1>3. /\ call[c] = "none" /\ IdleOK(c) /\ held[c] = Ladder!EXCLUSIVE_LOCK
      /\ pc[c] \in Owner
  BY <1>1, <1>2 DEF OneConn, CallOK, ConnOK, Idle, LockOK, Owner, Starting
<1>4. Current' = Current /\ NotHot' = NotHot
  BY <1>1 DEF Current, Recovered, NotHot
<1>5. /\ call' \in [Conn -> {"none", "hot", "spill", "commit", "undo"}]
      /\ call'[c] = "hot" /\ \A d \in Conn \ {c} : call'[d] = call[d]
  BY <1>1, Types
<1>6. CASE /\ jrnl = NoFile
           /\ Step(c, "recheck", "unlock")
           /\ UNCHANGED <<todo, cache, jsync, jnew>>
  <2>1. /\ pc'[c] = "unlock" /\ \A d \in Conn \ {c} : pc'[d] = pc[d]
        /\ pc' \in [Conn -> {"open", "validate", "reader"}
                               \cup Starting \cup Writing \cup Playing]
    BY <1>6, StepsTo DEF Playing
  <2>2. OthersStay(c)
    BY <1>1, <1>5, <1>6, <2>1 DEF OthersStay, Stays
  <2>3. TypeOK'
    BY <1>1, <1>5, <1>6, <2>1 DEF PagerInv, TypeOK
  <2>4. Alone'
    BY <1>1, <1>3, <2>2, OwnerStays
  <2>5. LockOK(c)' /\ CallOK(c)'
    BY <1>1, <1>3, <1>5, <2>1, Levels DEF LockOK, CallOK, Owner, Starting
  <2>6. IdleOK(c)'
    BY <1>1, <1>3, <1>4, <1>6 DEF IdleOK
  <2>7. ConnOK(c)'
    BY <1>1, <1>4, <1>5, <1>6, <2>1, <2>6 DEF ConnOK, Idle, Writer, Writing, Playing, NotHot
  <2>8. UNCHANGED fileVars
    BY <1>1, <1>6 DEF fileVars
  <2> QED
    BY <1>4, <2>2, <2>3, <2>4, <2>5, <2>7, <2>8, QuietStep DEF OneConn
<1>7. CASE /\ jrnl # NoFile
           /\ Step(c, "recheck", "pages")
           /\ SyncJournalFile
           /\ todo' = [todo EXCEPT ![c] = jrnl.sealed \cap Recorded(jrnl)]
           /\ cache' = IF todo'[c] = {} THEN cache ELSE [cache EXCEPT ![c] = NoCache]
  <2>1. /\ pc'[c] = "pages" /\ \A d \in Conn \ {c} : pc'[d] = pc[d]
        /\ pc' \in [Conn -> {"open", "validate", "reader"}
                               \cup Starting \cup Writing \cup Playing]
    BY <1>7, StepsTo DEF Playing
  <2>2. /\ jsync' \in Journal \cup {NoFile} /\ jnew' = FALSE /\ jsync' = jrnl
        /\ JournalOK' /\ WriteAhead' /\ Base' = jrnl
    BY <1>1, <1>7, SyncedFiles
  <2>3. jrnl.sealed \cap Recorded(jrnl) = jrnl.sealed /\ jrnl.sealed \in SUBSET Page
    BY <1>7, FilesNow DEF FileFacts, Journal
  <2>4. /\ todo'[c] = jrnl.sealed /\ \A d \in Conn \ {c} : todo'[d] = todo[d]
        /\ todo' \in [Conn -> SUBSET Page]
    BY <1>7, <2>3, Types
  <2>5. /\ cache' \in [Conn -> [Page -> Nat \cup {NoPage}]]
        /\ cache'[c] \in {cache[c], NoCache}
        /\ \A d \in Conn \ {c} : cache'[d] = cache[d]
    <3>1. NoCache \in [Page -> Nat \cup {NoPage}]
      BY DEF NoCache
    <3> QED
      BY <1>7, <3>1, Types
  <2>6. OthersStay(c)
    BY <1>1, <1>5, <2>1, <2>4, <2>5 DEF OthersStay, Stays
  <2>7. TypeOK'
    BY <1>1, <1>5, <2>1, <2>2, <2>4, <2>5 DEF PagerInv, TypeOK
  <2>8. Alone'
    BY <1>1, <1>3, <2>6, OwnerStays
  <2>9. LockOK(c)' /\ CallOK(c)'
    BY <1>1, <1>3, <1>5, <2>1, Levels DEF LockOK, CallOK, Owner, Starting
  <2>10. IdleOK(c)'
    BY <1>1, <1>3, <1>4, <2>5 DEF IdleOK
  <2>11. RestoreOK(c)'
    BY <1>1, <1>3, <1>7, <2>1, <2>2, <2>4 DEF RestoreOK
  <2>12. ConnOK(c)'
    BY <1>5, <2>1, <2>10, <2>11 DEF ConnOK, Idle, Writer, Writing, Playing
  <2> QED
    BY <1>3, <1>4, <2>2, <2>6, <2>7, <2>8, <2>9, <2>12, OwnerStep DEF OneConn, Files
<1> QED
  BY <1>6, <1>7 DEF StartPlayback

\* Of a connection that has written or restored its pages.
LEMMA PagesWritten ==
  ASSUME PagerInv, NEW c \in Conn, pc[c] \in {"dbsync", "delete"}
  PROVE  /\ OneConn(c)
         /\ call[c] \in {"hot", "commit", "undo"} /\ todo[c] = {}
         /\ jrnl # NoFile /\ Base.sealed = jrnl.sealed
         /\ jrnl.sealed # {} => held[c] = Ladder!EXCLUSIVE_LOCK
         /\ call[c] = "commit" => ChangeOK(c)
         /\ call[c] # "commit" => RestoreOK(c) /\ \A p \in Page : db[p] = Current[p]
         /\ call[c] = "undo" => ViewOK(c)
         /\ call[c] = "hot" => IdleOK(c)
         /\ \A p \in Page : db[p] \in Nat
<1>1. OneConn(c)
  BY Parts
<1>2. call[c] \in {"hot", "commit", "undo"}
  BY <1>1 DEF OneConn, CallOK
<1>3. call[c] = "commit" => ChangeOK(c)
  BY WriterFacts DEF Playing
<1>4. call[c] # "commit" => RestoreOK(c)
  BY <1>1, <1>2 DEF OneConn, ConnOK
<1>5. call[c] # "commit" => \A p \in Page : db[p] = Current[p]
  BY <1>4, FilesNow DEF RestoreOK, FileFacts
<1>6. \A p \in Page : db[p] \in Nat
  BY <1>3, <1>5, FilesNow DEF FileFacts, Files, TypeOK, Content, ChangeOK
<1>7. (call[c] = "undo" => ViewOK(c)) /\ (call[c] = "hot" => IdleOK(c))
  BY <1>1 DEF OneConn, ConnOK, Idle, Starting
<1> QED
  BY <1>1, <1>2, <1>3, <1>4, <1>5, <1>6, <1>7 DEF ChangeOK, RestoreOK, Committing

LEMMA SyncDbKeeps ==
  ASSUME PagerInv, NEW c \in Conn, SyncDb(c)
  PROVE  PagerInv' /\ Current' = Current
<1>1. /\ pc[c] = "dbsync" /\ Handles(c, "delete")
      /\ platter' = [p \in Page |-> {db[p]}]
      /\ UNCHANGED <<db, jrnl, jsync, jnew>>
  BY StepsTo DEF SyncDb, Handles, Step, Goto
<1>2. /\ OneConn(c)
      /\ call[c] \in {"hot", "commit", "undo"} /\ todo[c] = {}
      /\ call[c] = "commit" => ChangeOK(c)
      /\ call[c] # "commit" => RestoreOK(c)
      /\ call[c] = "undo" => ViewOK(c)
      /\ call[c] = "hot" => IdleOK(c)
      /\ \A p \in Page : db[p] \in Nat
  BY <1>1, PagesWritten
<1>3. /\ pc'[c] = "delete" /\ OthersStay(c) /\ Alone' /\ LockOK(c)'
      /\ held'[c] = held[c] /\ call'[c] = call[c] /\ todo'[c] = todo[c]
      /\ cache'[c] = cache[c] /\ dirty'[c] = dirty[c] /\ vers'[c] = vers[c]
      /\ pc' \in [Conn -> {"open", "validate", "reader"}
                             \cup Starting \cup Writing \cup Playing]
  BY <1>1, HandlesAt DEF Owner, Playing
<1>4. /\ Current' = Current /\ NotHot' = NotHot /\ Base' = Base
      /\ JournalOK'
  BY <1>1, FilesNow DEF Current, Recovered, NotHot, Base, Files, JournalOK
<1>5. WriteAhead'
  BY <1>1, <1>2, Constants DEF WriteAhead
<1>6. TypeOK'
  <2>1. platter' \in [Page -> SUBSET Content]
    BY <1>1, <1>2 DEF Content
  <2> QED
    BY <1>1, <1>3, <2>1 DEF PagerInv, TypeOK, Handles
<1>7. CallOK(c)'
  BY <1>2, <1>3 DEF CallOK, Starting
<1>8. call[c] = "commit" => ChangeOK(c)'
  BY <1>1, <1>2, <1>3, <1>4 DEF ChangeOK, Sealing, Committing
<1>9. call[c] # "commit" => RestoreOK(c)'
  BY <1>1, <1>2, <1>3, <1>4 DEF RestoreOK
<1>10. (call[c] = "undo" => ViewOK(c)') /\ (call[c] = "hot" => IdleOK(c)')
  BY <1>2, <1>3, <1>4 DEF ViewOK, IdleOK
<1>11. ConnOK(c)'
  BY <1>2, <1>3, <1>8, <1>9, <1>10 DEF ConnOK, Idle, Starting, Writer, Writing
<1> QED
  BY <1>1, <1>3, <1>4, <1>5, <1>6, <1>7, <1>11, OwnerStep DEF OneConn, Files, Owner, Playing

\* What the file holds when the journal goes.
LEMMA Deleting ==
  ASSUME PagerInv, NEW c \in Conn, DeleteJournal(c)
  PROVE  /\ \A p \in Page : platter[p] = {db[p]} /\ Current'[p] = db[p]
         /\ call[c] # "commit" => Current' = Current
         /\ call[c] = "commit" =>
              /\ Current'[1] = Current[1] + 1
              /\ ViewOK(c)'
              /\ held[c] = Ladder!EXCLUSIVE_LOCK
              /\ jsync = jrnl /\ ~jnew
<1>1. /\ pc[c] = "delete" /\ jrnl' = NoFile
      /\ UNCHANGED <<call, todo, cache, dirty, vers, db, platter, jsync>>
  BY StepsTo DEF DeleteJournal
<1>2. /\ call[c] = "commit" => ChangeOK(c)
      /\ call[c] # "commit" => RestoreOK(c) /\ \A p \in Page : db[p] = Current[p]
      /\ \A p \in Page : db[p] \in Nat
      /\ todo[c] = {}
  BY <1>1, PagesWritten
<1>3. \A p \in Page : platter[p] = {db[p]} /\ Current'[p] = db[p]
  BY <1>1, <1>2, CurrentAtNext DEF ChangeOK, RestoreOK
<1>4. call[c] # "commit" => Current' = Current
  BY <1>2, <1>3, CurrentAt, CurrentAtNext
<1>5. ASSUME call[c] = "commit"
      PROVE  /\ Current'[1] = Current[1] + 1 /\ ViewOK(c)'
             /\ held[c] = Ladder!EXCLUSIVE_LOCK
             /\ jsync = jrnl /\ ~jnew
  <2>1. /\ dirty[c] = {} /\ 1 \in Recorded(jrnl) /\ 1 \in Page
        /\ jrnl.sealed = Recorded(jrnl) /\ ~jnew /\ jrnl.rec = jsync.rec
        /\ Base.sealed = jrnl.sealed /\ jrnl # NoFile
    BY <1>1, <1>2, <1>5, Constants DEF ChangeOK, Committing
  <2>2. /\ vers[c] = Current[1] + 1 /\ cache[c][1] = Current[1] + 1
        /\ \A p \in Page : cache[c][p] \in {NoPage, db[p]}
        /\ cache[c][1] # NoPage
        /\ held[c] = Ladder!EXCLUSIVE_LOCK
    BY <1>2, <1>5, <2>1 DEF ChangeOK
  <2>3. Current'[1] = Current[1] + 1
    BY <1>3, <2>1, <2>2
  <2>4. ViewOK(c)'
    BY <1>1, <1>3, <2>1, <2>2, <2>3 DEF ViewOK
  <2>5. jsync = jrnl
    <3>1. jsync # NoFile /\ jsync.sealed = jrnl.sealed
      BY <2>1, FilesNow DEF Files, JournalOK, Base
    <3>2. jsync \in Journal /\ jrnl \in Journal
      BY <2>1, <3>1, FilesNow DEF Files, TypeOK
    <3>3. /\ jsync = [rec |-> jsync.rec, sealed |-> jsync.sealed]
          /\ jrnl = [rec |-> jrnl.rec, sealed |-> jrnl.sealed]
      BY <3>2 DEF Journal
    <3> QED
      BY <2>1, <3>1, <3>3
  <2> QED
    BY <2>1, <2>2, <2>3, <2>4, <2>5
<1> QED
  BY <1>3, <1>4, <1>5

\* The commit makes every cache that is not its own an old one.
LEMMA DeleteJournalKeeps ==
  ASSUME PagerInv, NEW c \in Conn, DeleteJournal(c)
  PROVE  PagerInv'
<1>1. /\ pc[c] = "delete" /\ Handles(c, "unlock")
      /\ jrnl' = NoFile /\ jnew' = FALSE
      /\ UNCHANGED <<db, platter, jsync>>
  BY StepsTo DEF DeleteJournal, Handles, Step, Goto
<1>2. /\ OneConn(c)
      /\ call[c] \in {"hot", "commit", "undo"} /\ todo[c] = {}
      /\ call[c] = "undo" => ViewOK(c)
      /\ call[c] = "hot" => IdleOK(c)
      /\ \A p \in Page : db[p] \in Nat
  BY <1>1, PagesWritten
<1>3. /\ pc'[c] = "unlock" /\ OthersStay(c) /\ Alone' /\ LockOK(c)'
      /\ held'[c] = held[c] /\ call'[c] = call[c] /\ todo'[c] = todo[c]
      /\ cache'[c] = cache[c] /\ dirty'[c] = dirty[c] /\ vers'[c] = vers[c]
      /\ pc' \in [Conn -> {"open", "validate", "reader"}
                             \cup Starting \cup Writing \cup Playing]
  BY <1>1, HandlesAt DEF Owner, Playing
<1>4. /\ \A p \in Page : platter[p] = {db[p]} /\ Current'[p] = db[p]
      /\ call[c] # "commit" => Current' = Current
      /\ call[c] = "commit" => /\ Current'[1] = Current[1] + 1
                               /\ ViewOK(c)'
                               /\ held[c] = Ladder!EXCLUSIVE_LOCK
  BY Deleting
<1>5. NotHot'
  BY <1>1 DEF NotHot
<1>6. Files'
  <2>1. TypeOK'
    BY <1>1, <1>3 DEF PagerInv, TypeOK, Handles
  <2>2. JournalOK'
    BY <1>1, FilesNow DEF Files, JournalOK
  <2>3. WriteAhead'
    BY <1>1, <1>2, <1>4, Constants DEF WriteAhead
  <2> QED
    BY <2>1, <2>2, <2>3 DEF Files
<1>7. OneConn(c)'
  <2>1. CallOK(c)'
    BY <1>2, <1>3 DEF CallOK, Starting
  <2>2. call[c] = "hot" => IdleOK(c)'
    BY <1>2, <1>3, <1>4 DEF IdleOK
  <2>3. call[c] # "hot" => ViewOK(c)'
    BY <1>2, <1>3, <1>4 DEF ViewOK
  <2>4. ConnOK(c)'
    BY <1>1, <1>2, <1>3, <1>5, <2>2, <2>3
       DEF ConnOK, Idle, Starting, Writer, Writing, Playing
  <2> QED
    BY <1>3, <2>1, <2>4 DEF OneConn
<1>8. CASE call[c] # "commit"
  BY <1>1, <1>3, <1>4, <1>5, <1>6, <1>7, <1>8, OwnerStep DEF Owner, Playing
<1>9. CASE call[c] = "commit"
  <2>1. ASSUME NEW d \in Conn \ {c} PROVE OneConn(d)'
    <3>1. held[d] = Ladder!NO_LOCK
      BY <1>4, <1>9 DEF PagerInv, Alone
    <3>2. OneConn(d) /\ pc[d] = "open" /\ Stays(d)
      BY <1>3, <3>1, Parts DEF OneConn, LockOK, OthersStay
    <3>3. LockOK(d)' /\ CallOK(d)'
      BY <3>2, LevelsStay
    <3>4. IdleOK(d)'
      <4>1. dirty[d] = {} /\ (cache[d] = NoCache \/ vers[d] <= Current[1])
        BY <3>2 DEF OneConn, ConnOK, Idle, IdleOK
      <4>2. vers[d] \in Nat /\ Current[1] \in Nat
        BY Types, FilesNow, Constants DEF FileFacts
      <4>3. vers[d] <= Current[1] => vers[d] <= Current'[1] /\ vers[d] # Current'[1]
        BY <1>4, <1>9, <4>2
      <4> QED
        BY <3>2, <4>1, <4>3 DEF IdleOK, Stays
    <3>5. ConnOK(d)'
      BY <3>2, <3>4 DEF ConnOK, Stays, Idle, Writer, Writing, Playing, OneConn, CallOK
    <3> QED
      BY <3>3, <3>5 DEF OneConn
  <2> QED
    BY <1>3, <1>6, <1>7, <2>1, PartsNext
<1> QED
  BY <1>8, <1>9

-----------------------------------------------------------------------------
(* A loss of power. *)

\* The journals the disk may show: the one of before, records of the one that
\* was being written under its old header or its new one, or none.
LEMMA JournalLeft ==
  ASSUME PagerInv, NEW j \in JournalsLeft
  PROVE  /\ j \in Journal \cup {NoFile}
         /\ j # NoFile => j.sealed \subseteq Recorded(j)
         /\ \/ j \in {NoFile, jsync} /\ (jrnl = NoFile \/ jnew)
            \/ /\ jrnl # NoFile /\ j # NoFile
               /\ \A p \in Recorded(j) : j.rec[p] = jrnl.rec[p]
               /\ Base.sealed \subseteq j.sealed /\ j.sealed \subseteq jrnl.sealed
<1>1. /\ jsync \in Journal \cup {NoFile} /\ jrnl \in Journal \cup {NoFile}
      /\ jnew \in BOOLEAN
      /\ jsync # NoFile => jsync.sealed \subseteq Recorded(jsync)
  BY FilesNow DEF Files, TypeOK, JournalOK
<1>2. CASE jrnl = NoFile
  BY <1>1, <1>2 DEF JournalsLeft
<1>3. CASE jrnl # NoFile /\ jnew /\ j = jsync
  BY <1>1, <1>3
<1>4. CASE jrnl # NoFile /\ ~(jnew /\ j = jsync)
  <2> DEFINE base == IF jnew THEN EmptyJournal ELSE jsync
             Rec(L) == [p \in Page |-> IF p \in Recorded(base) \cup L THEN jrnl.rec[p]
                                       ELSE NoPage]
  <2>1. PICK L \in SUBSET Recorded(jrnl), s \in {base.sealed, jrnl.sealed} :
          j = [rec |-> Rec(L), sealed |-> s]
    BY <1>4 DEF JournalsLeft
  <2>2. /\ jnew \/ jsync # NoFile
        /\ \A p \in Recorded(Base) : Base.rec[p] = jrnl.rec[p]
        /\ Base.sealed \subseteq jrnl.sealed
        /\ jrnl.sealed \subseteq Recorded(Base)
    BY <1>4, FilesNow DEF Files, JournalOK
  <2>3. base = Base
    BY <2>2 DEF Base
  <2>4. /\ j.rec = Rec(L) /\ j.sealed = s
    BY <2>1
  <2>5. jrnl.rec \in [Page -> Nat \cup {NoPage}] /\ jrnl.sealed \in SUBSET Page
    BY <1>1, <1>4 DEF Journal
  <2>6. \A p \in Recorded(Base) : p \in Page /\ jrnl.rec[p] # NoPage
    BY <2>2 DEF Recorded
  <2>7. Recorded(Base) \cup L \subseteq Recorded(j)
    BY <2>3, <2>4, <2>6 DEF Recorded
  <2>8. \A p \in Recorded(j) : j.rec[p] = jrnl.rec[p]
    BY <2>4 DEF Recorded
  <2>9. Base.sealed \subseteq s /\ s \subseteq jrnl.sealed
    BY <2>2, <2>3
  <2>10. Rec(L) \in [Page -> Nat \cup {NoPage}]
    BY <2>5
  <2>11. j \in Journal
    <3>1. s \in SUBSET Page
      BY <2>5, <2>9
    <3> HIDE DEF Rec
    <3> QED
      BY <2>1, <2>10, <3>1 DEF Journal
  <2> QED
    BY <1>4, <2>2, <2>4, <2>7, <2>8, <2>9, <2>11, Constants
<1> QED
  BY <1>2, <1>3, <1>4

LEMMA PowerLossKeeps ==
  ASSUME PagerInv, PowerLoss
  PROVE  PagerInv'
<1>1. /\ held' = [c \in Conn |-> 0]
      /\ pc' = [c \in Conn |-> "open"]
      /\ call' = [c \in Conn |-> "none"]
      /\ todo' = [c \in Conn |-> {}]
      /\ cache' = [c \in Conn |-> NoCache]
      /\ dirty' = [c \in Conn |-> {}]
      /\ vers' = [c \in Conn |-> 0]
  BY Levels DEF PowerLoss, Forget, Ladder!Abandon
<1>2. /\ db' \in DbLeft /\ jrnl' \in JournalsLeft
      /\ platter' = [p \in Page |-> {db'[p]}]
      /\ jsync' = jrnl' /\ jnew' = FALSE
  BY DEF PowerLoss
<1>3. db' \in [Page -> Content] /\ \A p \in Page : db'[p] \in platter[p]
  BY <1>2, FilesNow DEF DbLeft, Files, TypeOK
<1>4. /\ jrnl' \in Journal \cup {NoFile}
      /\ jrnl' # NoFile => jrnl'.sealed \subseteq Recorded(jrnl')
      /\ \/ jrnl' \in {NoFile, jsync} /\ (jrnl = NoFile \/ jnew)
         \/ /\ jrnl # NoFile /\ jrnl' # NoFile
            /\ Base.sealed \subseteq jrnl'.sealed
  BY <1>2, JournalLeft
<1>5. Base' = IF jrnl' = NoFile THEN EmptyJournal ELSE jrnl'
  BY <1>2 DEF Base
<1>6. TypeOK'
  <2>1. NoCache \in [Page -> Nat \cup {NoPage}]
    BY DEF NoCache
  <2>2. platter' \in [Page -> SUBSET Content]
    BY <1>2, <1>3
  <2>3. /\ held' \in [Conn -> Ladder!Level]
        /\ pc' \in [Conn -> {"open", "validate", "reader"}
                               \cup Starting \cup Writing \cup Playing]
        /\ call' \in [Conn -> {"none", "hot", "spill", "commit", "undo"}]
        /\ todo' \in [Conn -> SUBSET Page]
        /\ cache' \in [Conn -> [Page -> Nat \cup {NoPage}]]
        /\ dirty' \in [Conn -> SUBSET Page]
        /\ vers' \in [Conn -> Nat]
    BY <1>1, <2>1, Levels
  <2>4. /\ db' \in [Page -> Content]
        /\ jrnl' \in Journal \cup {NoFile} /\ jsync' \in Journal \cup {NoFile}
        /\ jnew' \in BOOLEAN
    BY <1>2, <1>3, <1>4
  <2> QED
    BY <2>2, <2>3, <2>4 DEF TypeOK
<1>7. JournalOK'
  BY <1>2, <1>4, <1>5 DEF JournalOK
<1>8. WriteAhead'
  <2>1. ASSUME NEW p \in Page, jrnl' = NoFile \/ p \notin Base'.sealed
        PROVE  db'[p] # Torn
    <3>1. jrnl = NoFile \/ p \notin Base.sealed
      BY <1>4, <1>5, <2>1 DEF EmptyJournal, Base
    <3>2. db[p] # Torn /\ platter[p] = {db[p]}
      BY <3>1, FilesNow DEF Files, WriteAhead
    <3> QED
      BY <1>3, <3>2
  <2> QED
    BY <1>2, <2>1 DEF WriteAhead
<1>9. Alone'
  BY <1>1, Levels DEF Alone, Owner, Writing, Playing
<1>10. ASSUME NEW c \in Conn PROVE OneConn(c)'
  BY <1>1, Levels DEF OneConn, LockOK, CallOK, ConnOK, IdleOK, Idle,
     Owner, Writer, Writing, Playing
<1> QED
  BY <1>6, <1>7, <1>8, <1>9, <1>10, PartsNext DEF Files

-----------------------------------------------------------------------------
(* The theorems. *)

\* Init gives every connection an empty cache and the file no journal.
LEMMA InitHolds == Init => PagerInv
<1> SUFFICES ASSUME Init PROVE PagerInv
  OBVIOUS
<1>1. /\ held = [c \in Conn |-> 0] /\ pc = [c \in Conn |-> "open"]
      /\ call = [c \in Conn |-> "none"] /\ todo = [c \in Conn |-> {}]
      /\ cache = [c \in Conn |-> NoCache] /\ dirty = [c \in Conn |-> {}]
      /\ vers = [c \in Conn |-> 0]
      /\ db = [p \in Page |-> 0] /\ platter = [p \in Page |-> {0}]
      /\ jrnl = NoFile /\ jsync = NoFile /\ jnew = FALSE
  BY Levels DEF Init
<1>2. TypeOK
  <2>1. NoCache \in [Page -> Nat \cup {NoPage}]
    BY DEF NoCache
  <2>2. /\ held \in [Conn -> Ladder!Level]
        /\ pc \in [Conn -> {"open", "validate", "reader"}
                             \cup Starting \cup Writing \cup Playing]
        /\ call \in [Conn -> {"none", "hot", "spill", "commit", "undo"}]
        /\ todo \in [Conn -> SUBSET Page]
        /\ cache \in [Conn -> [Page -> Nat \cup {NoPage}]]
        /\ dirty \in [Conn -> SUBSET Page]
        /\ vers \in [Conn -> Nat]
    BY <1>1, <2>1, Levels
  <2>3. db \in [Page -> Content] /\ platter \in [Page -> SUBSET Content]
    BY <1>1 DEF Content
  <2> QED
    BY <1>1, <2>2, <2>3 DEF TypeOK
<1>3. JournalOK /\ WriteAhead
  BY <1>1, Constants DEF JournalOK, WriteAhead
<1>4. Alone
  BY <1>1, Levels DEF Alone, Owner, Writing, Playing
<1>5. ASSUME NEW c \in Conn PROVE OneConn(c)
  BY <1>1, Levels DEF OneConn, LockOK, CallOK, ConnOK, IdleOK, Idle,
     Owner, Writer, Writing, Playing
<1> QED
  BY <1>2, <1>3, <1>4, <1>5, Parts DEF Files

LEMMA NextHolds ==
  ASSUME OneEach, PagerInv, [Next]_vars
  PROVE  PagerInv'
<1>1. CASE UNCHANGED vars
  <2>1. \A d \in Conn : OneConn(d)'
    BY <1>1, Parts, StaysOnFiles DEF vars, connVars, Stays
  <2>2. Files' /\ Alone'
    BY <1>1 DEF PagerInv, Files, TypeOK, JournalOK, WriteAhead, Base, Alone,
       vars, connVars, fileVars
  <2> QED
    BY <2>1, <2>2, PartsNext
<1>2. ASSUME NEW c \in Conn,
             \/ SharedLock(c) \/ JournalExists(c) \/ CheckReservedLock(c)
             \/ ReadFirstByte(c) \/ LockHotJournal(c) \/ GiveUp(c) \/ StartPlayback(c)
             \/ Validate(c) \/ EndRead(c) \/ Begin(c)
      PROVE  PagerInv'
  BY <1>2, SharedLockKeeps, JournalExistsKeeps, CheckReservedLockKeeps,
     ReadFirstByteKeeps, LockHotJournalKeeps, GiveUpKeeps, StartPlaybackKeeps,
     ValidateKeeps, EndReadKeeps, BeginKeeps
<1>3. ASSUME NEW c \in Conn, NEW p \in Page,
             \/ ReadPage(c, p) \/ Recycle(c, p) \/ Spill(c, p)
             \/ \E x \in Val : Write(c, p, x)
      PROVE  PagerInv'
  BY <1>3, ReadPageKeeps, RecycleKeeps, SpillKeeps, WriteKeeps
<1>4. ASSUME NEW c \in Conn,
             \/ CommitPhaseOne(c) \/ ExclusiveLock(c) \/ SyncRecords(c) \/ WriteHeader(c)
             \/ SyncHeader(c) \/ NextPage(c) \/ PagesDone(c) \/ SyncDb(c)
             \/ DeleteJournal(c) \/ UnlockToShared(c) \/ EndUnchanged(c) \/ Rollback(c)
             \/ IOError(c)
      PROVE  PagerInv'
  BY <1>4, CommitPhaseOneKeeps, ExclusiveLockKeeps, SyncRecordsKeeps, WriteHeaderKeeps,
     SyncHeaderKeeps, NextPageKeeps, PagesDoneKeeps, SyncDbKeeps, DeleteJournalKeeps,
     UnlockToSharedKeeps, EndUnchangedKeeps, RollbackKeeps, IOErrorKeeps
<1>5. ASSUME NEW c \in Conn, Crash(Home[c]) PROVE PagerInv'
  BY <1>5, CrashKeeps
<1>6. CASE PowerLoss
  BY <1>6, PowerLossKeeps
<1> QED
  BY <1>1, <1>2, <1>3, <1>4, <1>5, <1>6 DEF Next

\* PagerInv, which says where each connection stands towards the lock, the
\* journal and the committed image, holds through writes, spills, crashes and
\* losses of power for any number of connections, pages and values, as long as
\* no process has two connections to the database.
THEOREM InvariantHolds ==
  ASSUME OneEach
  PROVE  Spec => []PagerInv
<1>1. PagerInv /\ [Next]_vars => PagerInv'
  BY NextHolds
<1> QED
  BY <1>1, InitHolds, PTL DEF Spec

LEMMA SeesCurrent ==
  ASSUME PagerInv, NEW c \in Conn, ViewOK(c), NotHot
  PROVE  Seen(c) = Current
<1>1. \A p \in Page : Seen(c)[p] = Current[p]
  BY FilesNow DEF Seen, ViewOK, FileFacts
<1>2. Seen(c) = [p \in Page |-> Seen(c)[p]]
  BY DEF Seen
<1> QED
  BY <1>1, <1>2, CurrentAt

\* A connection that reads sees the last committed image.
THEOREM ReadersTheorem ==
  ASSUME OneEach
  PROVE  Spec => []ReadersSeeCommitted
<1>1. PagerInv => ReadersSeeCommitted
  BY ReaderFacts, SeesCurrent DEF ReadersSeeCommitted
<1> QED
  BY <1>1, InvariantHolds, PTL

\* A cache with the change counter of the committed image holds its pages.
THEOREM KeptCacheTheorem ==
  ASSUME OneEach
  PROVE  Spec => []KeptCacheIsCurrent
<1>1. PagerInv => KeptCacheIsCurrent
  <2> SUFFICES ASSUME PagerInv, NEW c \in Conn, Idle(c), vers[c] = Current[1], NEW p \in Page
               PROVE  cache[c][p] \in {NoPage, Current[p]}
    BY DEF KeptCacheIsCurrent
  <2>1. IdleOK(c)
    BY Parts DEF OneConn, ConnOK
  <2> QED
    BY <2>1 DEF IdleOK, NoCache
<1> QED
  BY <1>1, InvariantHolds, PTL

-----------------------------------------------------------------------------
(* The refinement of SnapshotStore. *)

\* The image the journal of before would bring back.
Before == Recovered(db, jsync)

\* Only as long as the name of a journal, or its end, is not durable.
LEMMA DurableIs ==
  ASSUME PagerInv
  PROVE  Durable = {Current} \cup (IF jrnl = NoFile \/ jnew THEN {Before} ELSE {})
<1>1. /\ jrnl \in Journal \cup {NoFile} /\ jnew \in BOOLEAN
      /\ db \in [Page -> Content] /\ \A p \in Page : db[p] \in platter[p]
  BY FilesNow DEF Files, TypeOK, WriteAhead
<1>2. jrnl = NoFile \/ jnew => NotHot
  <2>1. ASSUME jrnl # NoFile, jnew PROVE jrnl.sealed = {}
    <3>1. Base = EmptyJournal
      BY <2>1 DEF Base
    <3> QED
      BY <2>1, <3>1, Constants, FilesNow DEF Files, JournalOK
  <2> QED
    BY <2>1 DEF NotHot
<1>3. ASSUME NEW d \in DbLeft, NEW j \in JournalsLeft
      PROVE  \/ Recovered(d, j) = Current
             \/ Recovered(d, j) = Before /\ (jrnl = NoFile \/ jnew)
  <2>1. d \in [Page -> UNION {platter[p] : p \in Page}] /\ \A p \in Page : d[p] \in platter[p]
    BY DEF DbLeft
  <2>2. CASE j \in {NoFile, jsync} /\ (jrnl = NoFile \/ jnew)
    <3>1. \A p \in Page : platter[p] = {db[p]} /\ Current[p] = db[p]
      BY <1>2, <2>2, FilesNow DEF FileFacts
    <3>2. d = db
      BY <1>1, <2>1, <3>1
    <3>3. j = NoFile => Recovered(db, j) = Current
      BY <1>1, <3>1, CurrentAt DEF Recovered
    <3> QED
      BY <2>2, <3>2, <3>3 DEF Before
  <2>3. CASE /\ jrnl # NoFile /\ j # NoFile
             /\ \A p \in Recorded(j) : j.rec[p] = jrnl.rec[p]
             /\ Base.sealed \subseteq j.sealed /\ j.sealed \subseteq jrnl.sealed
    <3>1. j.sealed \subseteq Recorded(j)
      BY <2>3, JournalLeft
    <3>2. ASSUME NEW p \in Page PROVE Recovered(d, j)[p] = Current[p]
      <4>1. CASE p \in j.sealed
        BY <2>3, <3>1, <4>1, FilesNow DEF Recovered, FileFacts, Recorded
      <4>2. CASE p \notin j.sealed
        <5>1. platter[p] = {db[p]}
          BY <2>3, <4>2, FilesNow DEF Files, WriteAhead
        <5>2. Recovered(d, j)[p] = db[p]
          BY <2>1, <4>2, <5>1 DEF Recovered
        <5>3. Current[p] = db[p]
          <6>1. CASE p \in jrnl.sealed
            <7>1. jrnl.rec[p] = Current[p]
              BY <2>3, <6>1, FilesNow DEF FileFacts
            <7>2. p \in jrnl.sealed \ Base.sealed
              BY <2>3, <4>2, <6>1
            <7> QED
              BY <2>3, <7>1, <7>2, FilesNow DEF Files, JournalOK
          <6>2. CASE p \notin jrnl.sealed
            BY <2>3, <6>2, FilesNow DEF FileFacts
          <6> QED
            BY <6>1, <6>2
        <5> QED
          BY <5>2, <5>3
      <4> QED
        BY <4>1, <4>2
    <3> QED
      BY <3>2, CurrentAt DEF Recovered
  <2> QED
    BY <2>2, <2>3, JournalLeft
<1>4. Current \in Durable
  <2>1. db \in DbLeft
    BY <1>1 DEF DbLeft
  <2>2. jrnl \in JournalsLeft
    <3>1. CASE jrnl = NoFile
      BY <3>1 DEF JournalsLeft
    <3>2. CASE jrnl # NoFile
      <4> DEFINE base == IF jnew THEN EmptyJournal ELSE jsync
                 Rec(L) == [p \in Page |-> IF p \in Recorded(base) \cup L THEN jrnl.rec[p]
                                           ELSE NoPage]
      <4>1. /\ jrnl = [rec |-> jrnl.rec, sealed |-> jrnl.sealed]
            /\ jrnl.rec \in [Page -> Nat \cup {NoPage}]
        BY <1>1, <3>2 DEF Journal
      <4>2. base = Base
        BY <3>2, FilesNow DEF Base, Files, JournalOK
      <4>3. \A p \in Page : p \in Recorded(base) \cup Recorded(jrnl) <=> jrnl.rec[p] # NoPage
        BY <3>2, <4>2, FilesNow DEF Files, JournalOK, Recorded
      <4>4. Rec(Recorded(jrnl)) = jrnl.rec
        BY <4>1, <4>3
      <4>5. jrnl = [rec |-> Rec(Recorded(jrnl)), sealed |-> jrnl.sealed]
        BY <4>1, <4>4
      <4> QED
        BY <3>2, <4>5 DEF JournalsLeft
    <3> QED
      BY <3>1, <3>2
  <2> QED
    BY <2>1, <2>2 DEF Durable, Current
<1>5. jrnl = NoFile \/ jnew => Before \in Durable
  <2>1. db \in DbLeft
    BY <1>1 DEF DbLeft
  <2>2. jrnl = NoFile \/ jnew => jsync \in JournalsLeft
    BY DEF JournalsLeft
  <2> QED
    BY <2>1, <2>2 DEF Durable, Before
<1> QED
  BY <1>3, <1>4, <1>5 DEF Durable

\* There is at most one writer.
OneWriter == /\ \A c \in Conn : Writer(c) => TheWriter = c
             /\ (\A c \in Conn : ~Writer(c)) => TheWriter = NoConn

LEMMA TheWriterIs == Alone => OneWriter
<1> SUFFICES ASSUME Alone PROVE OneWriter
  OBVIOUS
<1>1. \A c \in Conn : Writer(c) => pc[c] \in Owner
  BY DEF Writer, Owner
<1>2. ASSUME NEW c \in Conn, Writer(c) PROVE TheWriter = c
  <2>1. \A d \in Conn : Writer(d) => d = c
    BY <1>1, <1>2 DEF Alone
  <2> QED
    BY <1>2, <2>1 DEF TheWriter
<1> QED
  BY <1>2 DEF TheWriter, OneWriter

LEMMA TheWriterIsNext == Alone' => OneWriter'
  BY TheWriterIs, PTL

LEMMA WriterStays ==
  ASSUME PagerInv, PagerInv', \A c \in Conn : Writer(c)' <=> Writer(c)
  PROVE  TheWriter' = TheWriter
<1>1. Alone /\ Alone'
  BY DEF PagerInv
<1>2. CASE \E c \in Conn : Writer(c)
  BY <1>1, <1>2, TheWriterIs, TheWriterIsNext DEF OneWriter
<1>3. CASE \A c \in Conn : ~Writer(c)
  BY <1>1, <1>3, TheWriterIs, TheWriterIsNext DEF OneWriter
<1> QED
  BY <1>2, <1>3

LEMMA IdleWritesNot ==
  ASSUME PagerInv, NEW c \in Conn, Idle(c)
  PROVE  ~Writer(c)
<1>1. CallOK(c)
  BY Parts DEF OneConn
<1> QED
  BY <1>1 DEF CallOK, Idle, Starting, Writer, Writing, Playing

\* What the others see of a step of c.
LEMMA OthersSee ==
  ASSUME PagerInv, NEW c \in Conn, OthersStay(c), NEW d \in Conn \ {c},
         (db' = db /\ Current' = Current) \/ held[c] = Ladder!EXCLUSIVE_LOCK
  PROVE  /\ View(d)' = View(d) /\ (Writer(d)' <=> Writer(d))
         /\ held[c] = Ladder!EXCLUSIVE_LOCK => View(d) = NoView
<1>1. Stays(d)
  BY DEF OthersStay
<1>2. Writer(d)' <=> Writer(d)
  BY <1>1 DEF Stays, Writer
<1>3. CASE held[c] = Ladder!EXCLUSIVE_LOCK
  <2>1. pc[d] = "open" /\ pc'[d] = "open"
    BY <1>1, <1>3, Parts DEF OneConn, LockOK, PagerInv, Alone, Stays
  <2> QED
    BY <1>2, <2>1 DEF View, Idle
<1>4. CASE db' = db /\ Current' = Current /\ held[c] # Ladder!EXCLUSIVE_LOCK
  <2>1. Seen(d)' = Seen(d) /\ (Idle(d)' <=> Idle(d))
    BY <1>1, <1>4 DEF Stays, Seen, Idle
  <2> QED
    BY <1>1, <1>2, <1>4, <2>1 DEF View, Stays
<1> QED
  BY <1>3, <1>4

LEMMA ViewsChange ==
  ASSUME PagerInv, NEW c \in Conn, OthersStay(c),
         (db' = db /\ Current' = Current) \/ held[c] = Ladder!EXCLUSIVE_LOCK
  PROVE  Views' = [Views EXCEPT ![c] = View(c)']
<1>1. \A d \in Conn \ {c} : View(d)' = View(d)
  BY OthersSee
<1> QED
  BY <1>1 DEF Views

\* Steps the store does not see.
LEMMA Stutters ==
  ASSUME PagerInv, PagerInv', NEW c \in Conn, OthersStay(c),
         db' = db \/ held[c] = Ladder!EXCLUSIVE_LOCK,
         Current' = Current, Durable' = Durable,
         View(c)' = View(c), Writer(c)' <=> Writer(c)
  PROVE  UNCHANGED Store!vars
<1>1. Views' = Views
  <2>1. \A d \in Conn : View(d)' = View(d)
    BY OthersSee
  <2> QED
    BY <2>1 DEF Views
<1>2. \A d \in Conn : Writer(d)' <=> Writer(d)
  BY OthersSee
<1>3. TheWriter' = TheWriter
  BY <1>2, WriterStays
<1> QED
  BY <1>1, <1>3 DEF Store!vars

LEMMA SameFiles ==
  ASSUME UNCHANGED fileVars
  PROVE  Current' = Current /\ Durable' = Durable /\ db' = db
<1>1. /\ DbLeft' = DbLeft /\ JournalsLeft' = JournalsLeft
      /\ Current' = Current /\ db' = db
  BY DEF fileVars, DbLeft, JournalsLeft, Current, Recovered, Recorded
<1> QED
  BY <1>1 DEF Durable, Recovered

LEMMA IdleStutters ==
  ASSUME PagerInv, PagerInv', NEW c \in Conn, OthersStay(c), UNCHANGED fileVars,
         Idle(c), Idle(c)'
  PROVE  UNCHANGED Store!vars
<1>1. ~Writer(c) /\ View(c) = NoView
  BY IdleWritesNot DEF View
<1>2. CallOK(c)'
  BY PartsNext DEF OneConn
<1>3. ~Writer(c)' /\ View(c)' = NoView
  BY <1>2 DEF CallOK, Idle, Starting, Writer, Writing, Playing, View
<1> QED
  BY <1>1, <1>3, SameFiles, Stutters

\* Points and locks of the others.
LEMMA StepAlone ==
  ASSUME PagerInv, NEW c \in Conn, NEW from, NEW to, Step(c, from, to),
         \A d \in Conn \ {c} : /\ held'[d] = held[d] /\ call'[d] = call[d]
                               /\ todo'[d] = todo[d] /\ cache'[d] = cache[d]
                               /\ dirty'[d] = dirty[d] /\ vers'[d] = vers[d]
  PROVE  OthersStay(c) /\ pc[c] = from /\ pc'[c] = to
  BY StepsTo DEF OthersStay, Stays

LEMMA LocksAlone ==
  ASSUME PagerInv, NEW c \in Conn, NEW k, Locks(c, k)
  PROVE  \A d \in Conn \ {c} : held'[d] = held[d]
  BY Types DEF Locks

LEMMA RefusedAlone ==
  ASSUME PagerInv, NEW c \in Conn, Refused(c)
  PROVE  \A d \in Conn \ {c} : held'[d] = held[d]
  BY RefusedLock, LocksAlone

LEMMA OutsideStutters ==
  ASSUME PagerInv, PagerInv', NEW c \in Conn,
         NEW from \in Outside, NEW to \in Outside, Step(c, from, to),
         \A d \in Conn \ {c} : held'[d] = held[d],
         UNCHANGED <<call, todo, cache, dirty, vers, fileVars>>
  PROVE  UNCHANGED Store!vars
<1>1. OthersStay(c) /\ pc[c] = from /\ pc'[c] = to
  BY StepAlone
<1>2. Idle(c) /\ Idle(c)'
  BY <1>1 DEF Idle, Outside
<1> QED
  BY <1>1, <1>2, IdleStutters

LEMMA StartStutters ==
  ASSUME PagerInv, PagerInv', NEW c \in Conn,
         \/ SharedLock(c) \/ JournalExists(c) \/ CheckReservedLock(c)
         \/ ReadFirstByte(c) \/ LockHotJournal(c) \/ GiveUp(c)
  PROVE  UNCHANGED Store!vars
<1>1. CASE SharedLock(c)
  <2>1. Locks(c, 1)
    BY <1>1, Levels DEF SharedLock, Ladder!Share, Locks
  <2>2. Step(c, "open", "exists") /\ UNCHANGED <<call, todo, cache, dirty, vers, fileVars>>
    BY <1>1 DEF SharedLock
  <2> QED
    BY <2>1, <2>2, LocksAlone, OutsideStutters DEF Outside, Starting
<1>2. CASE JournalExists(c)
  BY <1>2, OutsideStutters DEF JournalExists, Outside, Starting
<1>3. CASE CheckReservedLock(c)
  BY <1>3, OutsideStutters DEF CheckReservedLock, Outside, Starting
<1>4. CASE ReadFirstByte(c)
  BY <1>4, OutsideStutters DEF ReadFirstByte, Outside, Starting
<1>5. CASE LockHotJournal(c)
  <2>1. \A d \in Conn \ {c} : held'[d] = held[d]
    BY <1>5, ExcludeAlone, LocksAlone, RefusedAlone DEF LockHotJournal
  <2> QED
    BY <1>5, <2>1, OutsideStutters DEF LockHotJournal, Outside, Starting
<1>6. CASE GiveUp(c)
  <2>1. \A d \in Conn \ {c} : held'[d] = held[d]
    BY <1>6, Releases, LocksAlone, Levels DEF GiveUp
  <2> QED
    BY <1>6, <2>1, OutsideStutters DEF GiveUp, Outside, Starting
<1> QED
  BY <1>1, <1>2, <1>3, <1>4, <1>5, <1>6

\* The store's Next, as the pager takes it.
StoreStep == Store!Next \/ UNCHANGED Store!vars

LEMMA ViewInside ==
  ASSUME PagerInv, NEW c \in Conn, pc[c] \in {"reader", "locked"}
  PROVE  View(c) = Current /\ Seen(c) = Current
<1>1. ViewOK(c) /\ NotHot /\ call[c] = "none"
  BY ReaderFacts
<1> QED
  BY <1>1, SeesCurrent DEF View, Idle, Starting

Sees == \A c \in Conn : ViewOK(c) /\ NotHot => Seen(c) = Current

LEMMA SeesNow == PagerInv => Sees
  BY SeesCurrent DEF Sees

LEMMA SeesNext == PagerInv' => Sees'
  BY SeesNow, PTL

LEMMA ValidateBegins ==
  ASSUME PagerInv, PagerInv', NEW c \in Conn, Validate(c)
  PROVE  Store!Begin(c)
<1>1. /\ pc[c] = "validate" /\ pc'[c] = "reader" /\ OthersStay(c)
      /\ UNCHANGED fileVars /\ call' = call
  <2>1. \A d \in Conn \ {c} : cache'[d] = cache[d] /\ vers'[d] = vers[d]
    BY Types DEF Validate
  <2> QED
    BY <2>1, StepAlone DEF Validate
<1>2. Current' = Current /\ Durable' = Durable /\ db' = db
  BY <1>1, SameFiles
<1>3. View(c) = NoView /\ ~Writer(c) /\ Idle(c)
  BY <1>1, IdleWritesNot DEF View, Idle
<1>4. call'[c] = "none"
  BY <1>1, PartsNext DEF OneConn, CallOK
<1>5. ~Writer(c)' /\ ~Idle(c)'
  BY <1>1, <1>4 DEF Writer, Writing, Playing, Idle, Starting
<1>6. View(c)' = Current
  <2>1. ViewOK(c)' /\ NotHot'
    BY <1>1, <1>5, PartsNext DEF OneConn, ConnOK
  <2>2. Seen(c)' = Current'
    BY <2>1, SeesNext DEF Sees
  <2> QED
    BY <1>2, <1>4, <1>5, <2>2 DEF View
<1>7. Views' = [Views EXCEPT ![c] = Current]
  BY <1>1, <1>2, <1>6, ViewsChange
<1>8. TheWriter' = TheWriter
  <2>1. \A d \in Conn : Writer(d)' <=> Writer(d)
    BY <1>1, <1>2, <1>3, <1>5, OthersSee
  <2> QED
    BY <2>1, WriterStays
<1> QED
  BY <1>2, <1>3, <1>7, <1>8 DEF Store!Begin, Views

\* A page comes into the cache or leaves it as it is in the file.
LEMMA CacheStutters ==
  ASSUME PagerInv, PagerInv', NEW c \in Conn, NEW p \in Page,
         NEW x \in {NoPage, db[p]}, Caches(c, p, x), x \in Nat \cup {NoPage},
         cache[c][p] \in {NoPage, db[p]} \/ Idle(c),
         UNCHANGED <<held, pc, call, todo, dirty, vers, fileVars>>
  PROVE  UNCHANGED Store!vars
<1>1. /\ cache'[c][p] = x
      /\ \A q \in Page \ {p} : cache'[c][q] = cache[c][q]
      /\ \A d \in Conn \ {c} : cache'[d] = cache[d]
  BY CachesAt
<1>2. OthersStay(c) /\ (Writer(c)' <=> Writer(c)) /\ (Idle(c)' <=> Idle(c))
  BY <1>1 DEF OthersStay, Stays, Writer, Idle
<1>3. Current' = Current /\ Durable' = Durable /\ db' = db
  BY SameFiles
<1>4. Seen(c)' = Seen(c) \/ Idle(c)
  BY <1>1, <1>3 DEF Seen
<1>5. View(c)' = View(c)
  BY <1>2, <1>3, <1>4 DEF View
<1> QED
  BY <1>2, <1>3, <1>5, Stutters

LEMMA ReadPageStutters ==
  ASSUME PagerInv, PagerInv', NEW c \in Conn, NEW p \in Page, ReadPage(c, p)
  PROVE  UNCHANGED Store!vars
<1>1. Caches(c, p, db[p]) /\ cache[c][p] = NoPage
  BY DEF ReadPage, Caches
<1>2. db[p] \in Nat \cup {NoPage}
  <2>1. cache' \in [Conn -> [Page -> Nat \cup {NoPage}]]
    BY DEF PagerInv, TypeOK
  <2>2. cache'[c][p] = db[p]
    BY <1>1, Types DEF Caches
  <2> QED
    BY <2>1, <2>2
<1> QED
  BY <1>1, <1>2, CacheStutters DEF ReadPage

LEMMA RecycleStutters ==
  ASSUME PagerInv, PagerInv', NEW c \in Conn, NEW p \in Page, Recycle(c, p)
  PROVE  UNCHANGED Store!vars
<1>1. Caches(c, p, NoPage) /\ pc[c] \in {"open", "reader", "locked", "mod"} /\ p \notin dirty[c]
  BY DEF Recycle, Caches
<1>2. CASE pc[c] = "open"
  BY <1>1, <1>2, CacheStutters DEF Recycle, Idle
<1>3. CASE pc[c] \in {"reader", "locked"}
  <2>1. cache[c][p] \in {NoPage, db[p]}
    BY <1>3, ReaderFacts, FilesNow DEF ViewOK, FileFacts
  <2> QED
    BY <1>1, <2>1, CacheStutters DEF Recycle
<1>4. CASE pc[c] = "mod"
  <2>1. cache[c][p] \in {NoPage, db[p]}
    BY <1>1, <1>4, WriterFacts DEF ChangeOK, Writing
  <2> QED
    BY <1>1, <2>1, CacheStutters DEF Recycle
<1> QED
  BY <1>1, <1>2, <1>3, <1>4

LEMMA EndReadEnds ==
  ASSUME PagerInv, PagerInv', NEW c \in Conn, EndRead(c)
  PROVE  Store!End(c)
<1>1. \A d \in Conn \ {c} : held'[d] = held[d]
  BY Releases, LocksAlone, Levels DEF EndRead
<1>2. OthersStay(c) /\ pc[c] = "reader" /\ pc'[c] = "open"
  BY <1>1, StepAlone DEF EndRead
<1>3. Current' = Current /\ Durable' = Durable /\ db' = db
  BY SameFiles DEF EndRead
<1>4. View(c)' = NoView
  BY <1>2 DEF View, Idle
<1>5. ~Writer(c) /\ ~Writer(c)'
  <2>1. call[c] = "none"
    BY <1>2, ReaderFacts
  <2> QED
    BY <1>2, <2>1 DEF Writer, Writing, Playing
<1>6. TheWriter' = TheWriter
  <2>1. \A d \in Conn : Writer(d)' <=> Writer(d)
    BY <1>2, <1>3, <1>5, OthersSee
  <2> QED
    BY <2>1, WriterStays
<1>7. TheWriter # c
  <2>1. CASE \E d \in Conn : Writer(d)
    <3>1. PICK d \in Conn : Writer(d)
      BY <2>1
    <3>2. TheWriter = d
      BY <3>1, TheWriterIs DEF PagerInv, OneWriter
    <3> QED
      BY <1>5, <3>1, <3>2
  <2>2. CASE \A d \in Conn : ~Writer(d)
    BY <2>2, TheWriterIs, PagerAssumption DEF PagerInv, OneWriter
  <2> QED
    BY <2>1, <2>2
<1>8. Views' = [Views EXCEPT ![c] = NoView]
  BY <1>2, <1>3, <1>4, ViewsChange
<1> QED
  BY <1>3, <1>6, <1>7, <1>8 DEF Store!End

\* Nobody else writes beside an owner.
LEMMA OnlyWriter ==
  ASSUME PagerInv, PagerInv', NEW c \in Conn, pc[c] \in Owner \/ pc'[c] \in Owner,
         OthersStay(c)
  PROVE  /\ \A d \in Conn \ {c} : ~Writer(d) /\ ~Writer(d)'
         /\ TheWriter = IF Writer(c) THEN c ELSE NoConn
         /\ TheWriter' = IF Writer(c)' THEN c ELSE NoConn
<1>1. ASSUME NEW d \in Conn \ {c} PROVE ~Writer(d) /\ ~Writer(d)'
  <2>1. Stays(d)
    BY DEF OthersStay
  <2>2. pc[d] \notin Owner
    BY <2>1 DEF Stays, PagerInv, Alone, Owner
  <2> QED
    BY <2>1, <2>2 DEF Stays, Writer, Owner
<1>2. OneWriter /\ OneWriter'
  BY TheWriterIs, TheWriterIsNext DEF PagerInv
<1>3. TheWriter = IF Writer(c) THEN c ELSE NoConn
  <2>1. CASE Writer(c)
    BY <1>2, <2>1 DEF OneWriter
  <2>2. CASE ~Writer(c)
    BY <1>1, <1>2, <2>2 DEF OneWriter
  <2> QED
    BY <2>1, <2>2
<1>4. TheWriter' = IF Writer(c)' THEN c ELSE NoConn
  <2>1. CASE Writer(c)'
    BY <1>2, <2>1 DEF OneWriter
  <2>2. CASE ~Writer(c)'
    BY <1>1, <1>2, <2>2 DEF OneWriter
  <2> QED
    BY <2>1, <2>2
<1> QED
  BY <1>1, <1>3, <1>4

LEMMA BeginBegins ==
  ASSUME PagerInv, PagerInv', NEW c \in Conn, Begin(c)
  PROVE  Store!BeginWrite(c)
<1>1. \A d \in Conn \ {c} : held'[d] = held[d]
  <2>1. Locks(c, 2)
    BY Levels DEF Begin, Ladder!Reserve, Locks
  <2> QED
    BY <2>1, LocksAlone
<1>2. OthersStay(c) /\ pc[c] = "reader" /\ pc'[c] = "locked"
  BY <1>1, StepAlone DEF Begin
<1>3. Current' = Current /\ Durable' = Durable /\ db' = db
  BY SameFiles DEF Begin
<1>4. View(c) = Current
  BY <1>2, ViewInside
<1>5. View(c)' = Current
  <2>1. ViewOK(c)' /\ NotHot' /\ call'[c] = "none"
    BY <1>2, PartsNext DEF OneConn, ConnOK, CallOK, Idle, Starting
  <2>2. Seen(c)' = Current'
    BY <2>1, SeesNext DEF Sees
  <2> QED
    BY <1>2, <1>3, <2>1, <2>2 DEF View, Idle, Starting
<1>6. ~Writer(c) /\ Writer(c)'
  BY <1>2, ReaderFacts DEF Writer, Writing, Playing
<1>7. TheWriter = NoConn /\ TheWriter' = c
  BY <1>2, <1>6, OnlyWriter DEF Owner, Writing
<1>8. Views' = Views
  <2>1. Views' = [Views EXCEPT ![c] = Current]
    BY <1>2, <1>3, <1>5, ViewsChange
  <2> QED
    BY <1>4, <2>1 DEF Views
<1>9. Views[c] = Current
  BY <1>4 DEF Views
<1> QED
  BY <1>3, <1>7, <1>8, <1>9 DEF Store!BeginWrite

\* A writer sees its cache before the file.
WritersSee == \A c \in Conn : Writer(c) => View(c) = Seen(c)

LEMMA WritersSeeNow == PagerInv => WritersSee
<1> SUFFICES ASSUME PagerInv, NEW c \in Conn, Writer(c) PROVE View(c) = Seen(c)
  BY DEF WritersSee
<1>1. ~Idle(c)
  BY IdleWritesNot
<1>2. CallOK(c)
  BY Parts DEF OneConn
<1>3. call[c] # "undo"
  BY <1>2 DEF CallOK, Writer, Writing, Playing, Starting
<1> QED
  BY <1>1, <1>3 DEF View

LEMMA WritersSeeNext == PagerInv' => WritersSee'
  BY WritersSeeNow, PTL

\* A writer's step on the way to the commit.
LEMMA WriterStutters ==
  ASSUME PagerInv, PagerInv', NEW c \in Conn, OthersStay(c), Writer(c), Writer(c)',
         db' = db \/ held[c] = Ladder!EXCLUSIVE_LOCK,
         Current' = Current, Durable' = Durable, Seen(c)' = Seen(c)
  PROVE  UNCHANGED Store!vars
<1>1. View(c)' = View(c)
  BY WritersSeeNow, WritersSeeNext DEF WritersSee
<1> QED
  BY <1>1, Stutters

LEMMA SpillStutters ==
  ASSUME PagerInv, PagerInv', NEW c \in Conn, NEW p \in Page, Spill(c, p)
  PROVE  UNCHANGED Store!vars
<1>1. /\ OthersStay(c) /\ pc[c] = "mod" /\ call'[c] = "spill"
      /\ pc'[c] \in {"pages", "sync"} /\ cache'[c] = cache[c]
  <2>1. /\ \A d \in Conn \ {c} : call'[d] = call[d] /\ todo'[d] = todo[d]
        /\ call'[c] = "spill"
    BY Types DEF Spill
  <2> QED
    BY <2>1, StepAlone DEF Spill
<1>2. Current' = Current /\ Durable' = Durable /\ db' = db
  BY SameFiles DEF Spill
<1>3. Writer(c) /\ Writer(c)'
  BY <1>1 DEF Writer, Writing, Playing
<1>4. Seen(c)' = Seen(c)
  BY <1>1, <1>2 DEF Seen
<1> QED
  BY <1>1, <1>2, <1>3, <1>4, WriterStutters

LEMMA ExclusiveLockStutters ==
  ASSUME PagerInv, PagerInv', NEW c \in Conn, ExclusiveLock(c)
  PROVE  UNCHANGED Store!vars
<1>1. /\ \A d \in Conn \ {c} : call'[d] = call[d] /\ todo'[d] = todo[d]
      /\ UNCHANGED <<cache, dirty, vers, fileVars>>
  BY Types DEF ExclusiveLock
<1>2. \A d \in Conn \ {c} : held'[d] = held[d]
  BY ExcludeAlone, LocksAlone, RefusedAlone DEF ExclusiveLock
<1>3. OthersStay(c) /\ pc[c] = "sync" /\ pc'[c] \in {"records", "mod"}
  BY <1>1, <1>2, StepAlone DEF ExclusiveLock
<1>4. Current' = Current /\ Durable' = Durable /\ db' = db
  BY <1>1, SameFiles
<1>5. Writer(c) /\ Writer(c)'
  BY <1>3 DEF Writer, Writing
<1>6. Seen(c)' = Seen(c)
  BY <1>1, <1>4 DEF Seen
<1> QED
  BY <1>3, <1>4, <1>5, <1>6, WriterStutters

\* One that gives an undone or a hot journal's pages back writes nothing new.
LEMMA RestorerStutters ==
  ASSUME PagerInv, PagerInv', NEW c \in Conn, OthersStay(c),
         pc[c] \in {"pages", "dbsync", "delete"}, call[c] \in {"hot", "undo"},
         pc'[c] \in Playing, call'[c] = call[c],
         db' = db \/ held[c] = Ladder!EXCLUSIVE_LOCK,
         Current' = Current, Durable' = Durable
  PROVE  UNCHANGED Store!vars
<1>1. ~Writer(c) /\ ~Writer(c)'
  BY DEF Writer, Writing, Playing
<1>2. View(c)' = View(c)
  BY DEF View, Idle, Starting, Playing
<1> QED
  BY <1>1, <1>2, Stutters

LEMMA PagesDoneStutters ==
  ASSUME PagerInv, PagerInv', NEW c \in Conn, PagesDone(c)
  PROVE  UNCHANGED Store!vars
<1>1. /\ \A d \in Conn \ {c} : call'[d] = call[d]
      /\ UNCHANGED <<held, todo, cache, dirty, vers, fileVars>>
  BY Types DEF PagesDone
<1>2. OthersStay(c) /\ pc[c] = "pages"
  BY <1>1, StepAlone DEF PagesDone
<1>3. Current' = Current /\ Durable' = Durable /\ db' = db
  BY <1>1, SameFiles
<1>4. Seen(c)' = Seen(c)
  BY <1>1, <1>3 DEF Seen
<1>5. call[c] \in {"hot", "spill", "commit", "undo"}
  BY <1>2, Parts, Types DEF OneConn, CallOK
<1>6. CASE call[c] = "spill"
  <2>1. pc'[c] = "mod"
    BY <1>6, StepsTo DEF PagesDone
  <2>2. Writer(c) /\ Writer(c)'
    BY <1>2, <1>6, <2>1 DEF Writer, Writing, Playing
  <2> QED
    BY <1>2, <1>3, <1>4, <2>2, WriterStutters
<1>7. CASE call[c] # "spill"
  <2>1. pc'[c] = "dbsync" /\ call'[c] = call[c]
    BY <1>7, StepsTo DEF PagesDone
  <2>2. CASE call[c] = "commit"
    <3>1. Writer(c) /\ Writer(c)'
      BY <1>2, <2>1, <2>2 DEF Writer, Playing
    <3> QED
      BY <1>2, <1>3, <1>4, <3>1, WriterStutters
  <2>3. CASE call[c] \in {"hot", "undo"}
    BY <1>2, <1>3, <2>1, <2>3, RestorerStutters DEF Playing
  <2> QED
    BY <1>5, <1>7, <2>2, <2>3
<1> QED
  BY <1>6, <1>7

LEMMA UnlockToSharedStutters ==
  ASSUME PagerInv, PagerInv', NEW c \in Conn, UnlockToShared(c)
  PROVE  UNCHANGED Store!vars
<1>1. /\ \A d \in Conn \ {c} : held'[d] = held[d] /\ call'[d] = call[d]
      /\ UNCHANGED <<todo, cache, dirty, vers, fileVars>>
      /\ call'[c] = "none"
  BY Releases, LocksAlone, Levels, Types DEF UnlockToShared
<1>2. /\ OthersStay(c) /\ pc[c] = "unlock"
      /\ pc'[c] = IF call[c] = "hot" THEN "validate" ELSE "reader"
  BY <1>1, StepAlone DEF UnlockToShared
<1>3. Current' = Current /\ Durable' = Durable /\ db' = db
  BY <1>1, SameFiles
<1>4. ~Writer(c) /\ ~Writer(c)'
  BY <1>1, <1>2 DEF Writer, Writing, Playing
<1>5. View(c)' = View(c)
  <2>1. CASE call[c] = "hot"
    BY <1>2, <2>1 DEF View, Idle
  <2>2. CASE call[c] # "hot"
    <3>1. ViewOK(c) /\ NotHot
      BY <1>2, <2>2, Parts DEF OneConn, ConnOK, Idle, Starting
    <3>2. Seen(c) = Current
      BY <3>1, SeesCurrent
    <3>3. Seen(c)' = Seen(c)
      BY <1>1, <1>3 DEF Seen
    <3>4. View(c)' = Seen(c)'
      BY <1>1, <1>2, <2>2 DEF View, Idle, Starting
    <3>5. View(c) = Current
      BY <1>2, <2>2, <3>2 DEF View, Idle, Starting
    <3> QED
      BY <3>2, <3>3, <3>4, <3>5
  <2> QED
    BY <2>1, <2>2
<1> QED
  BY <1>2, <1>3, <1>4, <1>5, Stutters

LEMMA EndUnchangedRolls ==
  ASSUME PagerInv, PagerInv', NEW c \in Conn, EndUnchanged(c)
  PROVE  Store!Rollback(c)
<1>1. OthersStay(c) /\ pc[c] = "locked" /\ pc'[c] = "unlock"
      /\ call' = call /\ cache' = cache
  BY StepAlone DEF EndUnchanged
<1>2. Current' = Current /\ Durable' = Durable /\ db' = db
  BY SameFiles DEF EndUnchanged
<1>3. Seen(c)' = Current /\ call[c] = "none"
  BY <1>1, <1>2, ViewInside, ReaderFacts DEF Seen
<1>4. View(c)' = Current
  BY <1>1, <1>2, <1>3 DEF View, Idle, Starting
<1>5. Writer(c) /\ ~Writer(c)'
  BY <1>1 DEF Writer, Writing, Playing
<1>6. TheWriter = c /\ TheWriter' = NoConn
  BY <1>1, <1>5, OnlyWriter DEF Owner, Writing
<1>7. Views' = [Views EXCEPT ![c] = Current]
  BY <1>1, <1>2, <1>4, ViewsChange
<1> QED
  BY <1>2, <1>6, <1>7 DEF Store!Rollback

LEMMA RollbackRolls ==
  ASSUME PagerInv, PagerInv', NEW c \in Conn, Rollback(c)
  PROVE  Store!Rollback(c)
<1>1. /\ \A d \in Conn \ {c} : /\ pc'[d] = pc[d] /\ call'[d] = call[d] /\ todo'[d] = todo[d]
                               /\ cache'[d] = cache[d] /\ dirty'[d] = dirty[d]
                               /\ vers'[d] = vers[d]
      /\ call'[c] = "undo" /\ pc'[c] \in {"delete", "pages"}
      /\ UNCHANGED <<held, fileVars>>
      /\ pc[c] = "mod" \/ (pc[c] = "delete" /\ call[c] = "commit")
  BY Types DEF Rollback, Goto
<1>2. OthersStay(c)
  BY <1>1 DEF OthersStay, Stays
<1>3. Current' = Current /\ Durable' = Durable /\ db' = db
  BY <1>1, SameFiles
<1>4. View(c)' = Current
  BY <1>1, <1>3 DEF View, Idle, Starting
<1>5. Writer(c) /\ ~Writer(c)'
  BY <1>1 DEF Writer, Writing, Playing
<1>6. TheWriter = c /\ TheWriter' = NoConn
  BY <1>1, <1>2, <1>5, OnlyWriter DEF Owner, Writing, Playing
<1>7. Views' = [Views EXCEPT ![c] = Current]
  BY <1>2, <1>3, <1>4, ViewsChange
<1> QED
  BY <1>3, <1>6, <1>7 DEF Store!Rollback

DurableFact ==
  Durable = {Current} \cup (IF jrnl = NoFile \/ jnew THEN {Before} ELSE {})

LEMMA DurableNow == PagerInv => DurableFact
  BY DurableIs DEF DurableFact

LEMMA DurableNext == PagerInv' => DurableFact'
  BY DurableNow, PTL

\* The new journal makes the end of the old one durable.
LEMMA SyncRecordsSettles ==
  ASSUME PagerInv, PagerInv', NEW c \in Conn, SyncRecords(c)
  PROVE  Store!Settle
<1>1. OthersStay(c) /\ pc[c] = "records" /\ pc'[c] = "header" /\ cache' = cache
      /\ UNCHANGED <<db, platter, jrnl>> /\ jnew' = FALSE
  BY StepAlone DEF SyncRecords, SyncJournalFile
<1>2. Current' = Current
  BY <1>1 DEF Current, Recovered
<1>3. jrnl # NoFile
  BY <1>1, WriterFacts DEF ChangeOK, Writing
<1>4. Durable' = {Current}
  BY <1>1, <1>2, <1>3, DurableNext DEF DurableFact
<1>5. Writer(c) /\ Writer(c)' /\ Seen(c)' = Seen(c)
  BY <1>1 DEF Writer, Writing, Seen
<1>6. View(c)' = View(c)
  BY <1>5, WritersSeeNow, WritersSeeNext DEF WritersSee
<1>7. Views' = Views
  <2>1. \A d \in Conn : View(d)' = View(d)
    BY <1>1, <1>2, <1>6, OthersSee
  <2> QED
    BY <2>1 DEF Views
<1>8. TheWriter' = TheWriter
  BY <1>1, <1>5, OnlyWriter DEF Owner, Writing
<1> QED
  BY <1>2, <1>4, <1>7, <1>8 DEF Store!Settle

LEMMA HeaderStutters ==
  ASSUME PagerInv, PagerInv', NEW c \in Conn, WriteHeader(c) \/ SyncHeader(c)
  PROVE  UNCHANGED Store!vars
<1>1. /\ OthersStay(c) /\ pc[c] \in {"header", "headersync"}
      /\ pc'[c] \in {"headersync", "pages"} /\ cache' = cache /\ call' = call
      /\ db' = db
  BY StepAlone DEF WriteHeader, SyncHeader
<1>2. Current' = Current
  BY WriteHeaderKeeps, SyncHeaderKeeps
<1>3. /\ jrnl # NoFile /\ ~jnew
      /\ call[c] \in {"spill", "commit"}
  BY <1>1, WriterFacts DEF ChangeOK, Sealing, Writing, OneConn, CallOK
<1>4. jrnl' # NoFile /\ ~jnew'
  <2>1. ChangeOK(c)'
    <3>1. Writer(c)' /\ pc'[c] # "locked"
      BY <1>1, <1>3 DEF Writer, Writing, Playing
    <3> QED
      BY <3>1, PartsNext DEF OneConn, ConnOK
  <2>2. CASE WriteHeader(c)
    BY <1>3, <2>1, <2>2 DEF WriteHeader, ChangeOK
  <2>3. CASE SyncHeader(c)
    BY <1>3, <2>3 DEF SyncHeader, HeaderSynced, SyncJournalFile
  <2> QED
    BY <2>2, <2>3
<1>5. Durable' = Durable
  BY <1>3, <1>4, <1>2, DurableNow, DurableNext DEF DurableFact
<1>6. Writer(c) /\ Writer(c)' /\ Seen(c)' = Seen(c)
  BY <1>1, <1>3 DEF Writer, Writing, Playing, Seen
<1> QED
  BY <1>1, <1>5, <1>6, <1>2, WriterStutters

\* The owner's file changes while the journal keeps the committed image.
LEMMA PagesLast ==
  ASSUME PagerInv, PagerInv', Current' = Current, jrnl # NoFile,
         UNCHANGED <<jrnl, jsync, jnew>>,
         db' = db \/ (jrnl.sealed # {} /\ Base.sealed = jrnl.sealed)
  PROVE  Durable' = Durable
<1>1. CASE db' = db
  <2>1. Before' = Before
    BY <1>1 DEF Before, Recovered
  <2> QED
    BY <2>1, DurableNow, DurableNext DEF DurableFact
<1>2. CASE jrnl.sealed # {} /\ Base.sealed = jrnl.sealed
  <2>1. ~jnew
    BY <1>2 DEF Base, EmptyJournal
  <2> QED
    BY <2>1, DurableNow, DurableNext DEF DurableFact
<1> QED
  BY <1>1, <1>2

LEMMA NextPageStutters ==
  ASSUME PagerInv, PagerInv', NEW c \in Conn, NextPage(c)
  PROVE  UNCHANGED Store!vars
<1>1. /\ pc[c] = "pages" /\ UNCHANGED <<held, pc, call, jrnl, jsync, jnew>>
      /\ Current' = Current
  BY NextPageKeeps DEF NextPage
<1>2. PICK p \in todo[c] : /\ StorePage(c, p) \/ RestorePage(c, p)
                           /\ todo' = [todo EXCEPT ![c] = @ \ {p}]
  BY DEF NextPage
<1>3. OthersStay(c)
  <2>1. \A d \in Conn \ {c} : /\ todo'[d] = todo[d] /\ cache'[d] = cache[d]
                              /\ dirty'[d] = dirty[d] /\ vers'[d] = vers[d]
    BY <1>2, Types DEF StorePage, RestorePage
  <2> QED
    BY <1>1, <2>1 DEF OthersStay, Stays
<1>4. held[c] = Ladder!EXCLUSIVE_LOCK
  BY <1>1, Parts DEF OneConn, LockOK
<1>5. CASE StorePage(c, p)
  <2>1. Seen(c)' = Seen(c)
    BY <1>1, <1>2, <1>5, StorePageKeeps
  <2>2. call[c] \in {"spill", "commit"}
    BY <1>5 DEF StorePage
  <2>3. Writer(c) /\ Writer(c)'
    BY <1>1, <2>2 DEF Writer, Playing
  <2>4. ChangeOK(c)
    BY <1>1, <2>2, WriterFacts DEF Playing
  <2>5. jrnl # NoFile /\ jrnl.sealed # {} /\ Base.sealed = jrnl.sealed
    BY <1>1, <1>2, <2>4 DEF ChangeOK
  <2>6. Durable' = Durable
    BY <1>1, <2>5, PagesLast
  <2> QED
    BY <1>1, <1>3, <1>4, <2>1, <2>3, <2>6, WriterStutters
<1>6. CASE RestorePage(c, p)
  <2>1. call[c] \in {"hot", "undo"}
    BY <1>6 DEF RestorePage
  <2>2. RestoreOK(c)
    BY <1>1, <2>1, Parts DEF OneConn, ConnOK
  <2>3. jrnl # NoFile /\ jrnl.sealed # {} /\ Base.sealed = jrnl.sealed
    BY <1>2, <2>2 DEF RestoreOK
  <2>4. Durable' = Durable
    BY <1>1, <2>3, PagesLast
  <2> QED
    BY <1>1, <1>3, <1>4, <2>1, <2>4, RestorerStutters DEF Playing
<1> QED
  BY <1>2, <1>5, <1>6

LEMMA SyncDbStutters ==
  ASSUME PagerInv, PagerInv', NEW c \in Conn, SyncDb(c)
  PROVE  UNCHANGED Store!vars
<1>1. /\ OthersStay(c) /\ pc[c] = "dbsync" /\ pc'[c] = "delete"
      /\ cache' = cache /\ call' = call /\ UNCHANGED <<db, jrnl, jsync, jnew>>
  BY StepAlone DEF SyncDb
<1>2. Current' = Current
  BY SyncDbKeeps
<1>3. jrnl # NoFile /\ call[c] \in {"hot", "commit", "undo"}
  BY <1>1, PagesWritten
<1>4. Durable' = Durable
  BY <1>1, <1>2, <1>3, PagesLast
<1>5. CASE call[c] = "commit"
  <2>1. Writer(c) /\ Writer(c)' /\ Seen(c)' = Seen(c)
    BY <1>1, <1>5 DEF Writer, Playing, Seen
  <2> QED
    BY <1>1, <1>2, <1>4, <2>1, WriterStutters
<1>6. CASE call[c] \in {"hot", "undo"}
  BY <1>1, <1>2, <1>4, <1>6, RestorerStutters DEF Playing
<1> QED
  BY <1>3, <1>5, <1>6

\* Before the records of a hot journal are put back, its name is made durable.
LEMMA StartPlaybackSettles ==
  ASSUME PagerInv, PagerInv', NEW c \in Conn, StartPlayback(c)
  PROVE  StoreStep
<1>1. /\ UNCHANGED <<held, dirty, vers, db, platter, jrnl>>
      /\ call'[c] = "hot" /\ \A d \in Conn \ {c} : call'[d] = call[d]
      /\ Current' = Current
  <2>1. call' = [call EXCEPT ![c] = "hot"] /\ UNCHANGED <<held, dirty, vers, db, platter, jrnl>>
    BY DEF StartPlayback
  <2> QED
    BY <2>1, StartPlaybackKeeps, Types
<1>2. CASE /\ jrnl = NoFile
           /\ Step(c, "recheck", "unlock")
           /\ UNCHANGED <<todo, cache, jsync, jnew>>
  <2>1. OthersStay(c) /\ pc[c] = "recheck" /\ pc'[c] = "unlock"
    BY <1>1, <1>2, StepAlone
  <2>2. Idle(c) /\ Idle(c)'
    BY <1>1, <2>1 DEF Idle, Starting
  <2>3. UNCHANGED fileVars
    BY <1>1, <1>2 DEF fileVars
  <2>4. UNCHANGED Store!vars
    BY <2>1, <2>2, <2>3, IdleStutters
  <2> QED
    BY <2>4 DEF StoreStep
<1>3. CASE /\ jrnl # NoFile
           /\ Step(c, "recheck", "pages")
           /\ SyncJournalFile
           /\ todo' = [todo EXCEPT ![c] = jrnl.sealed \cap Recorded(jrnl)]
           /\ cache' = IF todo'[c] = {} THEN cache ELSE [cache EXCEPT ![c] = NoCache]
  <2>1. \A d \in Conn \ {c} : todo'[d] = todo[d] /\ cache'[d] = cache[d]
    BY <1>3, Types
  <2>2. OthersStay(c) /\ pc[c] = "recheck" /\ pc'[c] = "pages"
    BY <1>1, <1>3, <2>1, StepAlone
  <2>3. Idle(c) /\ Idle(c)'
    BY <1>1, <2>2 DEF Idle, Starting
  <2>4. View(c)' = View(c) /\ ~Writer(c) /\ ~Writer(c)'
    BY <1>1, <2>2, <2>3, IdleWritesNot DEF View, Writer, Writing, Playing
  <2>5. jnew' = FALSE /\ jrnl' # NoFile
    BY <1>1, <1>3 DEF SyncJournalFile
  <2>6. Durable' = {Current}
    BY <1>1, <2>5, DurableNext DEF DurableFact
  <2>7. Views' = Views
    <3>1. \A d \in Conn : View(d)' = View(d)
      BY <1>1, <2>2, <2>4, OthersSee
    <3> QED
      BY <3>1 DEF Views
  <2>8. TheWriter' = TheWriter
    BY <2>2, <2>4, OnlyWriter DEF Owner
  <2>9. Store!Settle
    BY <1>1, <2>6, <2>7, <2>8 DEF Store!Settle
  <2> QED
    BY <2>9 DEF StoreStep, Store!Next
<1> QED
  BY <1>2, <1>3 DEF StartPlayback

\* A change adds to the journal what it keeps out of the file.
LEMMA ChangeLasts ==
  ASSUME PagerInv, PagerInv', NEW c \in Conn, NEW p \in Page, NEW x, Change(c, p, x),
         pc[c] \in {"locked", "mod"}, cache[c][p] # NoPage,
         UNCHANGED <<db, platter, jsync>>
  PROVE  Current' = Current /\ Durable' = Durable
<1>1. jrnl' # NoFile /\ Current' = Current
  BY ChangedFiles
<1>2. Before' = Before
  BY DEF Before, Recovered
<1>3. jnew' = (jnew \/ pc[c] = "locked")
  BY DEF Change
<1>4. CASE pc[c] = "locked"
  <2>1. Durable' = {Current, Before}
    BY <1>1, <1>2, <1>3, <1>4, DurableNext DEF DurableFact
  <2>2. CASE jrnl = NoFile \/ jnew
    BY <1>1, <2>1, <2>2, DurableNow DEF DurableFact
  <2>3. CASE jrnl # NoFile /\ ~jnew
    <3>1. jsync # NoFile /\ jsync.sealed = {}
      BY <1>4, <2>3, ReaderFacts, FilesNow DEF Files, JournalOK, Base, NotHot
    <3>2. Before = [p1 \in Page |-> db[p1]]
      BY <3>1 DEF Before, Recovered
    <3>3. \A p1 \in Page : Current[p1] = db[p1]
      BY <1>4, ReaderFacts, FilesNow DEF FileFacts
    <3>4. Before = Current
      BY <3>2, <3>3, CurrentAt
    <3> QED
      BY <1>1, <2>1, <2>3, <3>4, DurableNow DEF DurableFact
  <2> QED
    BY <2>2, <2>3
<1>5. CASE pc[c] = "mod"
  <2>1. jrnl # NoFile
    BY <1>5, WriterFacts DEF ChangeOK, Writing
  <2>2. jnew' = TRUE <=> jnew = TRUE
    BY <1>3, <1>5, FilesNow DEF Files, TypeOK
  <2> QED
    BY <1>1, <1>2, <2>1, <2>2, DurableNow, DurableNext DEF DurableFact
<1> QED
  BY <1>1, <1>4, <1>5

LEMMA ChangeWrites ==
  ASSUME PagerInv, PagerInv', NEW c \in Conn, NEW p \in Page, NEW x \in Nat, Change(c, p, x),
         pc[c] \in {"locked", "mod"}, pc'[c] \in {"mod", "sync"}, cache[c][p] # NoPage,
         UNCHANGED <<db, platter, jsync>>, OthersStay(c)
  PROVE  Store!Write(c)
<1>1. Current' = Current /\ Durable' = Durable
  BY ChangeLasts
<1>2. /\ cache'[c][p] = x
      /\ \A q \in Page \ {p} : cache'[c][q] = cache[c][q]
  BY CachesAt DEF Change, Caches
<1>3. Writer(c) /\ Writer(c)'
  BY DEF Writer, Writing
<1>4. TheWriter = c /\ TheWriter' = c
  BY <1>3, OnlyWriter DEF Owner, Writing
<1>5. View(c) = Seen(c) /\ View(c)' = Seen(c)'
  BY <1>3, WritersSeeNow, WritersSeeNext DEF WritersSee
<1>6. Seen(c)' = [Seen(c) EXCEPT ![p] = x]
  BY <1>2, Constants DEF Seen
<1>7. Seen(c)' \in [Page -> Content] /\ Seen(c)'[p] = x
  <2>1. Seen(c) \in [Page -> Content]
    BY Types, FilesNow DEF Seen, Content, Files, TypeOK
  <2>2. x \in Content
    BY DEF Content
  <2> HIDE DEF Seen
  <2> QED
    BY <1>6, <2>1, <2>2
<1>8. Views[c] = Seen(c) /\ Views'[c] = Seen(c)'
  BY <1>5 DEF Views
<1>9. Views' = [Views EXCEPT ![c] = Seen(c)']
  BY <1>1, <1>5, ViewsChange
<1>10. Views' = [Views EXCEPT ![c][p] = Views'[c][p]]
  <2>1. Views'[c][p] = x
    BY <1>7, <1>8
  <2>2. [Views EXCEPT ![c][p] = x] = [Views EXCEPT ![c] = [Views[c] EXCEPT ![p] = x]]
    OBVIOUS
  <2>3. Views' = [Views EXCEPT ![c] = [Views[c] EXCEPT ![p] = x]]
    BY <1>6, <1>8, <1>9
  <2> QED
    BY <2>1, <2>2, <2>3
<1> QED
  BY <1>1, <1>4, <1>7, <1>8, <1>10 DEF Store!Write, Store!Image

LEMMA WriteWrites ==
  ASSUME PagerInv, PagerInv', NEW c \in Conn, NEW p \in Page, NEW x \in Val, Write(c, p, x)
  PROVE  Store!Write(c)
<1>1. /\ pc[c] \in {"locked", "mod"} /\ cache[c][p] # NoPage
      /\ x \in Nat /\ Change(c, p, x)
      /\ UNCHANGED <<held, call, todo, vers, db, platter, jsync>>
  BY PagerAssumption DEF Write
<1>2. /\ pc'[c] = "mod" /\ \A d \in Conn \ {c} : pc'[d] = pc[d]
  BY Types DEF Write, Goto
<1>3. \A d \in Conn \ {c} : cache'[d] = cache[d] /\ dirty'[d] = dirty[d]
  BY <1>1, CachesAt, Types DEF Change, Caches
<1>4. OthersStay(c)
  BY <1>1, <1>2, <1>3 DEF OthersStay, Stays
<1> QED
  BY <1>1, <1>2, <1>4, ChangeWrites

\* The change counter is a write like any other; counted already, nothing is written.
LEMMA CommitPhaseOneWrites ==
  ASSUME PagerInv, PagerInv', NEW c \in Conn, CommitPhaseOne(c)
  PROVE  Store!Write(c) \/ UNCHANGED Store!vars
<1>1. /\ Step(c, "mod", "sync") /\ UNCHANGED <<held, vers, db, platter, jsync>>
      /\ call' = [call EXCEPT ![c] = "commit"]
      /\ todo' = [todo EXCEPT ![c] = dirty'[c]]
  BY DEF CommitPhaseOne
<1>2. \A d \in Conn \ {c} : call'[d] = call[d] /\ todo'[d] = todo[d]
  BY <1>1, Types
<1>3. pc[c] = "mod" /\ pc'[c] = "sync"
  BY <1>1, StepsTo
<1>4. CASE 1 \notin Recorded(jrnl) /\ Change(c, 1, NextCount(c))
  <2>1. /\ 1 \in Page /\ cache[c][1] # NoPage /\ NextCount(c) \in Nat
    BY <1>3, WriterFacts, Types, Constants DEF ChangeOK, NextCount, Writing
  <2>2. \A d \in Conn \ {c} : cache'[d] = cache[d] /\ dirty'[d] = dirty[d]
    BY <1>4, <2>1, CachesAt, Types DEF Change, Caches
  <2>3. OthersStay(c)
    BY <1>1, <1>2, <2>2, StepAlone
  <2> QED
    BY <1>1, <1>3, <1>4, <2>1, <2>3, ChangeWrites
<1>5. CASE 1 \in Recorded(jrnl) /\ UNCHANGED <<cache, dirty, jrnl, jnew>>
  <2>1. OthersStay(c)
    BY <1>1, <1>2, <1>5, StepAlone
  <2>2. Current' = Current /\ Durable' = Durable /\ db' = db
    BY <1>1, <1>5, SameFiles DEF fileVars
  <2>3. Writer(c) /\ Writer(c)' /\ Seen(c)' = Seen(c)
    BY <1>1, <1>3, <1>5 DEF Writer, Writing, Seen
  <2> QED
    BY <2>1, <2>2, <2>3, WriterStutters
<1> QED
  BY <1>4, <1>5 DEF CommitPhaseOne

\* A journal that was sealed again and again and is durable in the end.
LEMMA RestoredBefore ==
  ASSUME PagerInv, NEW c \in Conn, RestoreOK(c), ~jnew
  PROVE  Before = Current
<1>1. /\ jrnl # NoFile /\ jsync # NoFile /\ Base = jsync /\ jsync.sealed = jrnl.sealed
      /\ jsync.sealed \subseteq Recorded(jsync)
      /\ \A p \in Recorded(jsync) : jsync.rec[p] = jrnl.rec[p]
  BY FilesNow DEF RestoreOK, Files, JournalOK, Base
<1>2. ASSUME NEW p \in Page PROVE Before[p] = Current[p]
  <2>1. CASE p \in jsync.sealed
    BY <1>1, <2>1, FilesNow DEF Before, Recovered, Recorded, FileFacts
  <2>2. CASE p \notin jsync.sealed
    BY <1>1, <2>2, FilesNow DEF Before, Recovered, FileFacts
  <2> QED
    BY <2>1, <2>2
<1> QED
  BY <1>2, CurrentAt DEF Before, Recovered

\* Deleting the journal is the commit; that of a journal played back is not seen.
LEMMA DeleteJournalCommits ==
  ASSUME PagerInv, PagerInv', NEW c \in Conn, DeleteJournal(c)
  PROVE  Store!Commit(c) \/ UNCHANGED Store!vars
<1>1. /\ OthersStay(c) /\ pc[c] = "delete" /\ pc'[c] = "unlock"
      /\ jrnl' = NoFile /\ jnew' = FALSE
      /\ UNCHANGED <<held, call, todo, cache, dirty, vers, db, platter, jsync>>
  BY StepAlone DEF DeleteJournal
<1>2. Before' = Before
  BY <1>1 DEF Before, Recovered
<1>3. Durable' = {Current', Before}
  BY <1>1, <1>2, DurableNext DEF DurableFact
<1>4. CASE call[c] = "commit"
  <2>1. /\ ViewOK(c)' /\ held[c] = Ladder!EXCLUSIVE_LOCK
        /\ jsync = jrnl /\ ~jnew
    BY <1>4, Deleting
  <2>2. Writer(c) /\ ~Writer(c)'
    BY <1>1, <1>4 DEF Writer, Writing, Playing
  <2>3. jrnl # NoFile
    BY <1>1, PagesWritten
  <2>4. Before = Current
    BY <2>1 DEF Before, Current
  <2>5. Durable = {Current}
    BY <2>1, <2>3, DurableNow DEF DurableFact
  <2>6. Seen(c)' = Current' /\ Seen(c)' = Seen(c)
    <3>1. NotHot'
      BY <1>1 DEF NotHot
    <3>2. Seen(c)' = Current'
      BY <2>1, <3>1, SeesNext DEF Sees
    <3> QED
      BY <1>1, <3>2 DEF Seen
  <2>7. View(c) = Current' /\ View(c)' = Current'
    <3>1. View(c) = Seen(c)
      BY <2>2, WritersSeeNow DEF WritersSee
    <3>2. View(c)' = Seen(c)'
      BY <1>1, <1>4 DEF View, Idle, Starting
    <3> QED
      BY <2>6, <3>1, <3>2
  <2>8. \A d \in Conn \ {c} : View(d)' = View(d) /\ View(d) = NoView
    BY <1>1, <2>1, OthersSee
  <2>9. Views' = Views /\ Views[c] = Current' /\ \A d \in Conn \ {c} : Views[d] = NoView
    BY <2>7, <2>8 DEF Views
  <2>10. TheWriter = c /\ TheWriter' = NoConn
    BY <1>1, <2>2, OnlyWriter DEF Owner, Playing
  <2>11. Durable' = {Current, Views[c]}
    BY <1>3, <2>4, <2>9
  <2> QED
    BY <2>5, <2>9, <2>10, <2>11 DEF Store!Commit
<1>5. CASE call[c] # "commit"
  <2>1. Current' = Current
    BY <1>5, Deleting
  <2>2. call[c] \in {"hot", "undo"} /\ RestoreOK(c)
    BY <1>1, <1>5, PagesWritten
  <2>3. Durable' = Durable
    <3>1. jrnl # NoFile
      BY <2>2 DEF RestoreOK
    <3>2. CASE jnew
      BY <1>3, <2>1, <3>2, DurableNow DEF DurableFact
    <3>3. CASE ~jnew
      BY <1>3, <2>1, <2>2, <3>1, <3>3, RestoredBefore, DurableNow DEF DurableFact
    <3> QED
      BY <3>2, <3>3
  <2> QED
    BY <1>1, <2>1, <2>2, <2>3, RestorerStutters DEF Playing
<1> QED
  BY <1>4, <1>5

\* What a connection has lost, the store forgets.
LEMMA ForgetAbandons ==
  ASSUME PagerInv, PagerInv', NEW S \in SUBSET Conn, Forget(S), UNCHANGED fileVars
  PROVE  Store!Abandon(S)
<1>1. Current' = Current /\ Durable' = Durable /\ db' = db
  BY SameFiles
<1>2. \A d \in Conn : d \in S => pc'[d] = "open" /\ call'[d] = "none"
  BY DEF Forget
<1>3. \A d \in Conn : d \notin S => pc'[d] = pc[d] /\ call'[d] = call[d] /\ cache'[d] = cache[d]
  BY DEF Forget
<1>4. \A d \in Conn : d \in S => View(d)' = NoView /\ ~Writer(d)'
  BY <1>2 DEF View, Idle, Writer, Writing, Playing
<1>5. \A d \in Conn : d \notin S => View(d)' = View(d) /\ (Writer(d)' <=> Writer(d))
  <2> SUFFICES ASSUME NEW d \in Conn, d \notin S
               PROVE  View(d)' = View(d) /\ (Writer(d)' <=> Writer(d))
    OBVIOUS
  <2>1. pc'[d] = pc[d] /\ call'[d] = call[d] /\ cache'[d] = cache[d]
    BY <1>3
  <2>2. Seen(d)' = Seen(d) /\ (Idle(d)' <=> Idle(d)) /\ (Writer(d)' <=> Writer(d))
    BY <1>1, <2>1 DEF Seen, Idle, Writer
  <2> QED
    BY <1>1, <2>1, <2>2 DEF View
<1>6. Views' = [d \in Conn |-> IF d \in S THEN NoView ELSE Views[d]]
  BY <1>4, <1>5 DEF Views
<1>7. TheWriter' = IF TheWriter \in S THEN NoConn ELSE TheWriter
  <2>1. OneWriter /\ OneWriter'
    BY TheWriterIs, TheWriterIsNext DEF PagerInv
  <2>2. CASE \E d \in Conn : Writer(d) /\ d \notin S
    BY <1>5, <2>1, <2>2 DEF OneWriter
  <2>3. CASE \A d \in Conn : Writer(d) => d \in S
    <3>1. \A d \in Conn : ~Writer(d)'
      BY <1>4, <1>5, <2>3
    <3>2. TheWriter' = NoConn
      BY <2>1, <3>1 DEF OneWriter
    <3>3. TheWriter \in S \/ TheWriter = NoConn
      BY <2>1, <2>3 DEF OneWriter
    <3> QED
      BY <3>2, <3>3
  <2> QED
    BY <2>2, <2>3
<1> QED
  BY <1>1, <1>6, <1>7 DEF Store!Abandon

\* A loss of power leaves one of the images the store allows it to leave.
LEMMA PowerLossLoses ==
  ASSUME PagerInv, PagerInv', PowerLoss
  PROVE  Store!PowerLoss
<1>1. /\ db' \in DbLeft /\ jrnl' \in JournalsLeft /\ jsync' = jrnl' /\ jnew' = FALSE
      /\ \A d \in Conn : pc'[d] = "open" /\ call'[d] = "none"
  BY DEF PowerLoss, Forget
<1>2. Current' \in Durable
  BY <1>1 DEF Current, Durable
<1>3. Durable' = {Current'}
  <2>1. Before' = Current'
    BY <1>1 DEF Before, Current
  <2> QED
    BY <1>1, <2>1, DurableNext DEF DurableFact
<1>4. \A d \in Conn : View(d)' = NoView /\ ~Writer(d)'
  BY <1>1 DEF View, Idle, Writer, Writing, Playing
<1>5. Views' = [d \in Conn |-> NoView]
  BY <1>4 DEF Views
<1>6. TheWriter' = NoConn
  BY <1>4, TheWriterIsNext DEF PagerInv, OneWriter
<1> QED
  BY <1>2, <1>3, <1>5, <1>6 DEF Store!PowerLoss

LEMMA InitStarts == Init => Store!Init
<1> SUFFICES ASSUME Init PROVE Store!Init
  OBVIOUS
<1>1. PagerInv
  BY InitHolds
<1>2. Current \in Store!Image
  BY <1>1, FilesNow, CurrentAt DEF FileFacts, Store!Image, Content
<1>3. Durable = {Current}
  <2>1. Before = Current
    BY DEF Init, Before, Current
  <2> QED
    BY <1>1, <2>1, DurableNow DEF DurableFact
<1>4. \A d \in Conn : View(d) = NoView /\ ~Writer(d)
  <2>1. \A d \in Conn : pc[d] = "open"
    BY DEF Init
  <2> QED
    BY <2>1 DEF View, Idle, Writer, Writing, Playing
<1>5. Views = [d \in Conn |-> NoView]
  BY <1>4 DEF Views
<1>6. TheWriter = NoConn
  BY <1>1, <1>4, TheWriterIs DEF PagerInv, OneWriter
<1> QED
  BY <1>2, <1>3, <1>5, <1>6 DEF Store!Init

LEMMA NextSteps ==
  ASSUME PagerInv, PagerInv', [Next]_vars
  PROVE  StoreStep
<1>1. CASE UNCHANGED vars
  <2>1. UNCHANGED fileVars /\ \A d \in Conn : Stays(d)
    BY <1>1 DEF vars, connVars, Stays
  <2>2. Current' = Current /\ Durable' = Durable /\ db' = db
    BY <2>1, SameFiles
  <2>3. ASSUME NEW d \in Conn PROVE View(d)' = View(d) /\ (Writer(d)' <=> Writer(d))
    <3>1. pc'[d] = pc[d] /\ call'[d] = call[d] /\ cache'[d] = cache[d]
      BY <2>1 DEF Stays
    <3>2. Seen(d)' = Seen(d) /\ (Idle(d)' <=> Idle(d)) /\ (Writer(d)' <=> Writer(d))
      BY <2>2, <3>1 DEF Seen, Idle, Writer
    <3> QED
      BY <2>2, <3>1, <3>2 DEF View
  <2>4. Views' = Views /\ TheWriter' = TheWriter
    BY <2>3, WriterStays DEF Views
  <2> QED
    BY <2>2, <2>4 DEF StoreStep, Store!vars
<1>2. ASSUME NEW c \in Conn,
             \/ SharedLock(c) \/ JournalExists(c) \/ CheckReservedLock(c)
             \/ ReadFirstByte(c) \/ LockHotJournal(c) \/ GiveUp(c) \/ StartPlayback(c)
             \/ Validate(c) \/ EndRead(c) \/ Begin(c)
      PROVE  StoreStep
  <2>1. CASE \/ SharedLock(c) \/ JournalExists(c) \/ CheckReservedLock(c)
             \/ ReadFirstByte(c) \/ LockHotJournal(c) \/ GiveUp(c)
    BY <2>1, StartStutters DEF StoreStep
  <2>2. CASE StartPlayback(c)
    BY <2>2, StartPlaybackSettles
  <2>3. CASE Validate(c) \/ EndRead(c) \/ Begin(c)
    BY <2>3, ValidateBegins, EndReadEnds, BeginBegins DEF StoreStep, Store!Next
  <2> QED
    BY <1>2, <2>1, <2>2, <2>3
<1>3. ASSUME NEW c \in Conn, NEW p \in Page,
             \/ ReadPage(c, p) \/ Recycle(c, p) \/ Spill(c, p)
             \/ \E x \in Val : Write(c, p, x)
      PROVE  StoreStep
  <2>1. CASE ReadPage(c, p) \/ Recycle(c, p) \/ Spill(c, p)
    BY <2>1, ReadPageStutters, RecycleStutters, SpillStutters DEF StoreStep
  <2>2. CASE \E x \in Val : Write(c, p, x)
    BY <2>2, WriteWrites DEF StoreStep, Store!Next
  <2> QED
    BY <1>3, <2>1, <2>2
<1>4. ASSUME NEW c \in Conn,
             \/ CommitPhaseOne(c) \/ ExclusiveLock(c) \/ SyncRecords(c) \/ WriteHeader(c)
             \/ SyncHeader(c) \/ NextPage(c) \/ PagesDone(c) \/ SyncDb(c)
             \/ DeleteJournal(c) \/ UnlockToShared(c) \/ EndUnchanged(c) \/ Rollback(c)
             \/ IOError(c)
      PROVE  StoreStep
  <2>1. CASE \/ ExclusiveLock(c) \/ WriteHeader(c) \/ SyncHeader(c) \/ NextPage(c)
             \/ PagesDone(c) \/ SyncDb(c) \/ UnlockToShared(c)
    BY <2>1, ExclusiveLockStutters, HeaderStutters, NextPageStutters, PagesDoneStutters,
       SyncDbStutters, UnlockToSharedStutters DEF StoreStep
  <2>2. CASE \/ CommitPhaseOne(c) \/ SyncRecords(c) \/ DeleteJournal(c)
             \/ EndUnchanged(c) \/ Rollback(c)
    BY <2>2, CommitPhaseOneWrites, SyncRecordsSettles, DeleteJournalCommits,
       EndUnchangedRolls, RollbackRolls DEF StoreStep, Store!Next
  <2>3. CASE IOError(c)
    <3>1. Store!Abandon({c})
      BY <2>3, ForgetAbandons DEF IOError
    <3> QED
      BY <3>1 DEF StoreStep, Store!Next
  <2> QED
    BY <1>4, <2>1, <2>2, <2>3
<1>5. ASSUME NEW c \in Conn, Crash(Home[c]) PROVE StoreStep
  <2> DEFINE S == {d \in Conn : Home[d] = Home[c]}
  <2>1. Store!Abandon(S)
    BY <1>5, ForgetAbandons DEF Crash
  <2> QED
    BY <2>1 DEF StoreStep, Store!Next
<1>6. CASE PowerLoss
  BY <1>6, PowerLossLoses DEF StoreStep, Store!Next
<1> QED
  BY <1>1, <1>2, <1>3, <1>4, <1>5, <1>6 DEF Next

\* The pager implements SnapshotStore: what its connections see of the file,
\* the journal and their caches is a committed image that one of them replaces
\* at a time, as a whole, and that crashes and losses of power leave whole.
THEOREM RefinementTheorem ==
  ASSUME OneEach
  PROVE  Spec => StoreSpec
<1>1. PagerInv /\ PagerInv' /\ [Next]_vars => [Store!Next]_(Store!vars)
  BY NextSteps DEF StoreStep
<1> QED
  BY <1>1, InitStarts, InvariantHolds, PTL DEF Spec, StoreSpec, Store!Spec
=============================================================================
