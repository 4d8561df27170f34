------------------------------- MODULE Pager -------------------------------
(***************************************************************************)
(* The rollback journal of pager.c, in journal_mode=DELETE at full         *)
(* synchronous level: several connections, each with a page cache, share   *)
(* one database file and its journal.  A process may end and the power may *)
(* fail between any two system calls; the next reader finds the journal    *)
(* and restores the file.  The locks are those of FileLock, which UnixLock *)
(* implements.                                                             *)
(*                                                                         *)
(* A file is what the processes see together with what the disk may hold:  *)
(* a page written and not yet synced is there, or not, or torn; a journal  *)
(* record is there or not; a header is written as a whole; a new name and  *)
(* the end of an old one are durable from the next sync of a new file.     *)
(* The database keeps its size, and a journal belongs to one database.     *)
(***************************************************************************)
EXTENDS Naturals, FiniteSets

CONSTANTS Conn,          \* the Pager objects on one database file
          Home,          \* the process of each
          NPage,         \* pages of the database; page 1 has the change counter
          Val,           \* what the b-tree puts into a page
          MaxCount,      \* bound: the highest change counter
          NoPage,        \* a page not in the cache, or not in the journal
          NoFile,        \* there is no journal
          Torn,          \* a page half written when the power failed
          NoConn, NoView

ASSUME PagerAssumption ==
  /\ NPage \in Nat \ {0}
  /\ Val \subseteq Nat
  /\ MaxCount \in Nat
  /\ {NoPage, Torn, NoView} \cap Nat = {}
  /\ NoConn \notin Conn

VARIABLES held,          \* Pager.eLock
          pc,            \* the point each connection has reached; eState follows
          call,          \* what it restores or writes pages for
          todo,          \* the pages it still has to write to the file
          cache,         \* Pager.pPCache: the page contents in memory
          dirty,         \* the dirty list of the cache
          vers,          \* Pager.dbFileVers
          db,            \* the database file
          platter,       \* what the disk may hold of each page
          jrnl,          \* the journal file
          jsync,         \* what the disk is sure to hold of it
          jnew           \* the journal's name has not been synced

connVars == <<pc, call, todo, cache, dirty, vers>>
fileVars == <<db, platter, jrnl, jsync, jnew>>
vars == <<held, connVars, fileVars>>

Ladder == INSTANCE FileLock

Page    == 1 .. NPage
Content == Nat \cup {Torn}

\* A journal: its records, at most one for a page, and the pages whose records
\* stand under a header with the magic number and their count.
Journal == [rec : [Page -> Nat \cup {NoPage}], sealed : SUBSET Page]
EmptyJournal == [rec |-> [p \in Page |-> NoPage], sealed |-> {}]
Recorded(j) == {p \in Page : j.rec[p] # NoPage}

ASSUME JournalAssumption == NoFile \notin Journal

\* Playing back: the records under sealed headers, on the pages of the file.
Recovered(d, j) ==
  [p \in Page |-> IF j # NoFile /\ p \in j.sealed /\ j.rec[p] # NoPage
                  THEN j.rec[p] ELSE d[p]]

Starting == {"exists", "reserved", "byte", "hot", "failed", "recheck"}
Writing  == {"locked", "mod", "sync", "records", "header", "headersync"}
Playing  == {"pages", "dbsync", "delete", "unlock"}

-----------------------------------------------------------------------------
NoCache == [p \in Page |-> NoPage]

Init ==
  /\ held = [c \in Conn |-> Ladder!NO_LOCK]
  /\ pc = [c \in Conn |-> "open"]
  /\ call = [c \in Conn |-> "none"]
  /\ todo = [c \in Conn |-> {}]
  /\ cache = [c \in Conn |-> NoCache]
  /\ dirty = [c \in Conn |-> {}]
  /\ vers = [c \in Conn |-> 0]
  /\ db = [p \in Page |-> 0]
  /\ platter = [p \in Page |-> {0}]
  /\ jrnl = NoFile
  /\ jsync = NoFile
  /\ jnew = FALSE

Goto(c, l) == pc' = [pc EXCEPT ![c] = l]
Step(c, from, to) == pc[c] = from /\ Goto(c, to)

\* sqlite3OsWrite on the database file, not yet synced.
WriteDb(p, x) == /\ db' = [db EXCEPT ![p] = x]
                 /\ platter' = [platter EXCEPT ![p] = @ \cup {x, Torn}]

\* sqlite3OsSync on the journal, with its directory if the file is new.
SyncJournalFile == jsync' = jrnl /\ jnew' = FALSE

-----------------------------------------------------------------------------
(* sqlite3PagerSharedLock: from no lock to a readable, validated cache. *)

SharedLock(c) ==
  /\ Step(c, "open", "exists")
  /\ Ladder!Share(c)
  /\ UNCHANGED <<call, todo, cache, dirty, vers, fileVars>>

\* hasHotJournal: is there a journal,
JournalExists(c) ==
  /\ Step(c, "exists", IF jrnl = NoFile THEN "validate" ELSE "reserved")
  /\ UNCHANGED <<held, call, todo, cache, dirty, vers, fileVars>>

\* Mutant: a process on its way to rolling the journal back counts as its owner.
AnyLockReservesSlip(c) == \E d \in Conn \ {c} : held[d] > Ladder!SHARED_LOCK

\* unixCheckReservedLock: any lock above SHARED_LOCK of a sibling counts, but of
\* another process only the reserved byte, which is not locked on the way from
\* SHARED_LOCK to EXCLUSIVE_LOCK.
Reserved(c) ==
  \E d \in Conn \ {c} :
    /\ held[d] > Ladder!SHARED_LOCK
    /\ Home[d] = Home[c] \/ pc[d] # "failed"

\* is its owner alive,
CheckReservedLock(c) ==
  /\ Step(c, "reserved", IF Reserved(c) THEN "validate" ELSE "byte")
  /\ UNCHANGED <<held, call, todo, cache, dirty, vers, fileVars>>

\* and is its first byte not zero?  A journal that has vanished counts as hot.
FirstByteSet == jrnl = NoFile \/ jrnl.sealed # {}

ReadFirstByte(c) ==
  /\ Step(c, "byte", IF FirstByteSet THEN "hot" ELSE "validate")
  /\ UNCHANGED <<held, call, todo, cache, dirty, vers, fileVars>>

\* EXCLUSIVE_LOCK is refused while others have a lock; PENDING_LOCK may stay.
Refused(c) ==
  /\ \E d \in Conn \ {c} : held[d] # Ladder!NO_LOCK
  /\ Ladder!Pend(c) \/ UNCHANGED held

\* EXCLUSIVE_LOCK without RESERVED_LOCK on the way.
LockHotJournal(c) ==
  /\ \/ Step(c, "hot", "recheck") /\ Ladder!Exclude(c)
     \/ Step(c, "hot", "failed") /\ Refused(c)
  /\ UNCHANGED <<call, todo, cache, dirty, vers, fileVars>>

\* pager_unlock after the failure.
GiveUp(c) ==
  /\ Step(c, "failed", "open")
  /\ Ladder!Release(c, Ladder!NO_LOCK)
  /\ UNCHANGED <<call, todo, cache, dirty, vers, fileVars>>

\* The journal is looked for again; it is synced, and its records are put back.
StartPlayback(c) ==
  /\ \/ /\ jrnl = NoFile
        /\ Step(c, "recheck", "unlock")
        /\ UNCHANGED <<todo, cache, jsync, jnew>>
     \/ /\ jrnl # NoFile
        /\ Step(c, "recheck", "pages")
        /\ SyncJournalFile
        /\ todo' = [todo EXCEPT ![c] = jrnl.sealed \cap Recorded(jrnl)]
        /\ cache' = IF todo'[c] = {} THEN cache ELSE [cache EXCEPT ![c] = NoCache]
  /\ call' = [call EXCEPT ![c] = "hot"]
  /\ UNCHANGED <<held, dirty, vers, db, platter, jrnl>>

\* The cache is kept only if the change counter has not moved; lockBtree then
\* reads page 1 and keeps it for the transaction.
Validate(c) ==
  LET kept == IF vers[c] = db[1] THEN cache[c] ELSE NoCache
  IN /\ Step(c, "validate", "reader")
     /\ \/ /\ kept[1] = NoPage
           /\ cache' = [cache EXCEPT ![c] = [kept EXCEPT ![1] = db[1]]]
           /\ vers' = [vers EXCEPT ![c] = db[1]]
        \/ /\ kept[1] # NoPage
           /\ UNCHANGED <<cache, vers>>
     /\ UNCHANGED <<held, call, todo, dirty, fileVars>>

-----------------------------------------------------------------------------
(* Reading and changing pages. *)

ReadPage(c, p) ==
  /\ pc[c] \in {"reader", "locked", "mod"}
  /\ cache[c][p] = NoPage
  /\ cache' = [cache EXCEPT ![c][p] = db[p]]
  /\ UNCHANGED <<held, pc, call, todo, dirty, vers, fileVars>>

\* The cache may recycle a clean page that nobody uses.
Recycle(c, p) ==
  /\ pc[c] \in {"open", "reader", "locked", "mod"}
  /\ p # 1
  /\ p \notin dirty[c]
  /\ cache[c][p] # NoPage
  /\ cache' = [cache EXCEPT ![c][p] = NoPage]
  /\ UNCHANGED <<held, pc, call, todo, dirty, vers, fileVars>>

EndRead(c) ==
  /\ Step(c, "reader", "open")
  /\ Ladder!Release(c, Ladder!NO_LOCK)
  /\ UNCHANGED <<call, todo, cache, dirty, vers, fileVars>>

\* sqlite3PagerBegin: RESERVED_LOCK also fails on the reserved byte of a writer
\* that has gone on to PENDING_LOCK.
Begin(c) ==
  /\ Step(c, "reader", "locked")
  /\ vers[c] < MaxCount
  /\ ~Reserved(c)
  /\ Ladder!Reserve(c)
  /\ UNCHANGED <<call, todo, cache, dirty, vers, fileVars>>

\* Mutant: the change counter stays.
CountKeptSlip(c) == vers[c]

\* pager_write_changecounter: one more than was last seen in the file.
NextCount(c) == vers[c] + 1

\* Mutant: a page is journaled with its new content.
NewContentSlip(c, p, x) == x

\* pagerAddPageToRollbackJournal takes the page as it is before the change.
Original(c, p, x) == cache[c][p]

\* pager_write on a cached page: the first one opens the journal, and a page not
\* yet in it is added, before the change.
Change(c, p, x) ==
  LET j == IF pc[c] = "locked" THEN EmptyJournal ELSE jrnl
  IN /\ jrnl' = IF p \in Recorded(j) THEN j
                ELSE [j EXCEPT !.rec[p] = Original(c, p, x)]
     /\ jnew' = (jnew \/ pc[c] = "locked")
     /\ cache' = [cache EXCEPT ![c][p] = x]
     /\ dirty' = [dirty EXCEPT ![c] = @ \cup {p}]

Write(c, p, x) ==
  /\ pc[c] \in {"locked", "mod"}
  /\ p # 1
  /\ cache[c][p] \notin {NoPage, x}
  /\ Change(c, p, x)
  /\ Goto(c, "mod")
  /\ UNCHANGED <<held, call, todo, vers, db, platter, jsync>>

-----------------------------------------------------------------------------
(* syncJournal, for a page spilled from the cache or for the commit. *)

\* pagerStress: a page without PGHDR_NEED_SYNC is written at once.
Spill(c, p) ==
  /\ p \in dirty[c]
  /\ Step(c, "mod", IF p \in jrnl.sealed THEN "pages" ELSE "sync")
  /\ call' = [call EXCEPT ![c] = "spill"]
  /\ todo' = [todo EXCEPT ![c] = {p}]
  /\ UNCHANGED <<held, cache, dirty, vers, fileVars>>

\* sqlite3PagerCommitPhaseOne: pager_incr_changecounter, unless a commit that
\* was refused has done it.
CommitPhaseOne(c) ==
  /\ Step(c, "mod", "sync")
  /\ call' = [call EXCEPT ![c] = "commit"]
  /\ \/ /\ 1 \notin Recorded(jrnl)
        /\ Change(c, 1, NextCount(c))
     \/ /\ 1 \in Recorded(jrnl)
        /\ UNCHANGED <<cache, dirty, jrnl, jnew>>
  /\ todo' = [todo EXCEPT ![c] = dirty'[c]]
  /\ UNCHANGED <<held, vers, db, platter, jsync>>

\* sqlite3PagerExclusiveLock; refused, the page or the transaction stays.
ExclusiveLock(c) ==
  /\ \/ /\ Step(c, "sync", "records")
        /\ \/ Ladder!Exclude(c)
           \/ held[c] = Ladder!EXCLUSIVE_LOCK /\ UNCHANGED held
        /\ UNCHANGED <<call, todo>>
     \/ /\ Step(c, "sync", "mod")
        /\ Refused(c)
        /\ call' = [call EXCEPT ![c] = "none"]
        /\ todo' = [todo EXCEPT ![c] = {}]
  /\ UNCHANGED <<cache, dirty, vers, fileVars>>

\* The records are synced before the header says how many there are,
SyncRecords(c) ==
  /\ Step(c, "records", "header")
  /\ SyncJournalFile
  /\ UNCHANGED <<held, call, todo, cache, dirty, vers, db, platter, jrnl>>

WriteHeader(c) ==
  /\ Step(c, "header", "headersync")
  /\ jrnl' = [jrnl EXCEPT !.sealed = Recorded(jrnl)]
  /\ UNCHANGED <<held, call, todo, cache, dirty, vers, db, platter, jsync, jnew>>

\* Mutant: the header is not synced before the database is written.
HeaderUnsyncedSlip == UNCHANGED <<jsync, jnew>>

HeaderSynced == SyncJournalFile

\* and the header before any page of the database is overwritten.
SyncHeader(c) ==
  /\ Step(c, "headersync", "pages")
  /\ HeaderSynced
  /\ UNCHANGED <<held, call, todo, cache, dirty, vers, db, platter, jrnl>>

-----------------------------------------------------------------------------
(* Writing pages to the database file. *)

\* pager_write_pagelist: page 1 gets its counter again.
StorePage(c, p) ==
  LET x == IF p = 1 THEN NextCount(c) ELSE cache[c][p]
  IN /\ call[c] \in {"spill", "commit"}
     /\ WriteDb(p, x)
     /\ cache' = [cache EXCEPT ![c][p] = x]
     /\ dirty' = [dirty EXCEPT ![c] = @ \ {p}]
     /\ vers' = IF p = 1 THEN [vers EXCEPT ![c] = x] ELSE vers

\* pager_playback_one_page, for a page under a sealed header.
RestorePage(c, p) ==
  /\ call[c] \in {"hot", "undo"}
  /\ WriteDb(p, jrnl.rec[p])
  /\ UNCHANGED <<cache, dirty, vers>>

NextPage(c) ==
  /\ pc[c] = "pages"
  /\ \E p \in todo[c] :
       /\ StorePage(c, p) \/ RestorePage(c, p)
       /\ todo' = [todo EXCEPT ![c] = @ \ {p}]
  /\ UNCHANGED <<held, pc, call, jrnl, jsync, jnew>>

PagesDone(c) ==
  /\ todo[c] = {}
  /\ \/ Step(c, "pages", "mod") /\ call[c] = "spill"
        /\ call' = [call EXCEPT ![c] = "none"]
     \/ Step(c, "pages", "dbsync") /\ call[c] # "spill"
        /\ UNCHANGED call
  /\ UNCHANGED <<held, todo, cache, dirty, vers, fileVars>>

\* sqlite3PagerSync
SyncDb(c) ==
  /\ Step(c, "dbsync", "delete")
  /\ platter' = [p \in Page |-> {db[p]}]
  /\ UNCHANGED <<held, call, todo, cache, dirty, vers, db, jrnl, jsync, jnew>>

-----------------------------------------------------------------------------
(* The end of a transaction. *)

\* pager_end_transaction: the moment of the commit.
DeleteJournal(c) ==
  /\ Step(c, "delete", "unlock")
  /\ jrnl' = NoFile
  /\ jnew' = FALSE
  /\ UNCHANGED <<held, call, todo, cache, dirty, vers, db, platter, jsync>>

\* After a hot journal the cache is still to be validated.
UnlockToShared(c) ==
  /\ Step(c, "unlock", IF call[c] = "hot" THEN "validate" ELSE "reader")
  /\ Ladder!Release(c, Ladder!SHARED_LOCK)
  /\ call' = [call EXCEPT ![c] = "none"]
  /\ UNCHANGED <<todo, cache, dirty, vers, fileVars>>

\* A transaction that changed nothing has no journal.
EndUnchanged(c) ==
  /\ Step(c, "locked", "unlock")
  /\ UNCHANGED <<held, call, todo, cache, dirty, vers, fileVars>>

\* sqlite3PagerRollback: pages in the cache get their originals; the file gets
\* those of sealed records, the others never having been written.
Rollback(c) ==
  /\ \/ pc[c] = "mod"
     \/ pc[c] = "delete" /\ call[c] = "commit"
  /\ Goto(c, IF jrnl.sealed = {} THEN "delete" ELSE "pages")
  /\ call' = [call EXCEPT ![c] = "undo"]
  /\ todo' = [todo EXCEPT ![c] = jrnl.sealed]
  /\ cache' = [cache EXCEPT ![c] =
                 [p \in Page |-> IF @[p] # NoPage /\ p \in Recorded(jrnl)
                                 THEN jrnl.rec[p] ELSE @[p]]]
  /\ dirty' = [dirty EXCEPT ![c] = {}]
  /\ vers' = IF 1 \in Recorded(jrnl) THEN [vers EXCEPT ![c] = jrnl.rec[1]] ELSE vers
  /\ UNCHANGED <<held, fileVars>>

-----------------------------------------------------------------------------
(* Failures. *)

\* The connections of S lose their caches and their locks.
Forget(S) ==
  /\ Ladder!Abandon(S)
  /\ pc' = [c \in Conn |-> IF c \in S THEN "open" ELSE pc[c]]
  /\ call' = [c \in Conn |-> IF c \in S THEN "none" ELSE call[c]]
  /\ todo' = [c \in Conn |-> IF c \in S THEN {} ELSE todo[c]]
  /\ cache' = [c \in Conn |-> IF c \in S THEN NoCache ELSE cache[c]]
  /\ dirty' = [c \in Conn |-> IF c \in S THEN {} ELSE dirty[c]]

\* A process ends; its connections are opened anew.
Crash(p) ==
  LET S == {c \in Conn : Home[c] = p}
  IN /\ Forget(S)
     /\ vers' = [c \in Conn |-> IF c \in S THEN 0 ELSE vers[c]]
     /\ UNCHANGED fileVars

\* A system call of a writer fails: pager_error, and at the end of the statement
\* pager_unlock, which leaves the journal to the next reader.
IOError(c) ==
  /\ pc[c] \in (Writing \ {"locked"}) \cup Playing \cup {"recheck"}
  /\ Forget({c})
  /\ UNCHANGED <<vers, fileVars>>

\* What a loss of power may leave of the journal.
JournalsLeft ==
  LET base == IF jnew THEN EmptyJournal ELSE jsync
      Rec(L) == [p \in Page |-> IF p \in Recorded(base) \cup L THEN jrnl.rec[p] ELSE NoPage]
  IN IF jrnl = NoFile THEN {NoFile, jsync}
     ELSE {[rec |-> Rec(L), sealed |-> s] : L \in SUBSET Recorded(jrnl),
                                            s \in {base.sealed, jrnl.sealed}}
          \cup (IF jnew THEN {jsync} ELSE {})

DbLeft == {d \in [Page -> UNION {platter[p] : p \in Page}] :
             \A p \in Page : d[p] \in platter[p]}

PowerLoss ==
  /\ Forget(Conn)
  /\ vers' = [c \in Conn |-> 0]
  /\ db' \in DbLeft
  /\ platter' = [p \in Page |-> {db'[p]}]
  /\ jrnl' \in JournalsLeft
  /\ jsync' = jrnl'
  /\ jnew' = FALSE

-----------------------------------------------------------------------------
Next ==
  \/ \E c \in Conn :
       \/ SharedLock(c) \/ JournalExists(c) \/ CheckReservedLock(c)
       \/ ReadFirstByte(c) \/ LockHotJournal(c) \/ GiveUp(c) \/ StartPlayback(c)
       \/ Validate(c) \/ EndRead(c) \/ Begin(c)
       \/ \E p \in Page : ReadPage(c, p) \/ Recycle(c, p) \/ Spill(c, p)
                          \/ \E x \in Val : Write(c, p, x)
       \/ CommitPhaseOne(c) \/ ExclusiveLock(c) \/ SyncRecords(c) \/ WriteHeader(c)
       \/ SyncHeader(c) \/ NextPage(c) \/ PagesDone(c) \/ SyncDb(c)
       \/ DeleteJournal(c) \/ UnlockToShared(c) \/ EndUnchanged(c) \/ Rollback(c)
       \/ IOError(c)
  \/ \E c \in Conn : Crash(Home[c])
  \/ PowerLoss

Spec == Init /\ [][Next]_vars

-----------------------------------------------------------------------------
(* Properties *)

TypeOK ==
  /\ held \in [Conn -> Ladder!Level]
  /\ pc \in [Conn -> {"open", "validate", "reader"} \cup Starting \cup Writing \cup Playing]
  /\ call \in [Conn -> {"none", "hot", "spill", "commit", "undo"}]
  /\ todo \in [Conn -> SUBSET Page]
  /\ cache \in [Conn -> [Page -> Nat \cup {NoPage}]]
  /\ dirty \in [Conn -> SUBSET Page]
  /\ vers \in [Conn -> Nat]
  /\ db \in [Page -> Content]
  /\ platter \in [Page -> SUBSET Content]
  /\ jrnl \in Journal \cup {NoFile}
  /\ jsync \in Journal \cup {NoFile}
  /\ jnew \in BOOLEAN

\* The committed image: the file with the journal played back.
Current == Recovered(db, jrnl)

\* What a connection reads, from its cache or else from the file.
Seen(c) == [p \in Page |-> IF cache[c][p] # NoPage THEN cache[c][p] ELSE db[p]]

\* A connection that reads sees the last committed image, and nothing of a
\* transaction that is under way, was rolled back or died with its process.
ReadersSeeCommitted ==
  \A c \in Conn : pc[c] \in {"reader", "locked"} => Seen(c) = Current

Writer(c) == \/ pc[c] \in Writing
             \/ pc[c] \in Playing \ {"unlock"} /\ call[c] \in {"spill", "commit"}

TheWriter == IF \E c \in Conn : Writer(c) THEN CHOOSE c \in Conn : Writer(c) ELSE NoConn

Idle(c) == pc[c] \in {"open", "validate"} \cup Starting \/ call[c] = "hot"

View(c) == IF Idle(c) THEN NoView ELSE IF call[c] = "undo" THEN Current ELSE Seen(c)

Views == [c \in Conn |-> View(c)]

\* What a loss of power may leave of the committed image.
Durable == {Recovered(d, j) : d \in DbLeft, j \in JournalsLeft}

Store == INSTANCE SnapshotStore WITH
  current <- Current, durable <- Durable, view <- Views, writer <- TheWriter

\* The pager implements SnapshotStore.
StoreSpec == Store!Spec

\* A cache kept from an earlier transaction holds what was committed under the
\* change counter it will be compared with.
KeptCacheIsCurrent ==
  \A c \in Conn : Idle(c) /\ vers[c] = Current[1] =>
    \A p \in Page : cache[c][p] \in {NoPage, Current[p]}

-----------------------------------------------------------------------------
(* The invariant behind these properties, for connections that live in     *)
(* processes of their own.                                                 *)

OneEach == \A c, d \in Conn : Home[c] = Home[d] => c = d

Owner == {"recheck"} \cup Writing \cup Playing

LockOK(c) ==
  /\ pc[c] = "open" <=> held[c] = Ladder!NO_LOCK
  /\ pc[c] \in {"exists", "reserved", "byte", "hot", "validate", "reader"} =>
       held[c] = Ladder!SHARED_LOCK
  /\ pc[c] \in Owner => held[c] > Ladder!SHARED_LOCK
  /\ pc[c] = "failed" => held[c] \in {Ladder!SHARED_LOCK, Ladder!PENDING_LOCK}
  /\ pc[c] \in {"recheck", "records", "header", "headersync", "pages", "dbsync"} =>
       held[c] = Ladder!EXCLUSIVE_LOCK

Alone ==
  \A c, d \in Conn : c # d =>
    /\ held[c] = Ladder!EXCLUSIVE_LOCK => held[d] = Ladder!NO_LOCK
    /\ ~(pc[c] \in Owner /\ pc[d] \in Owner)

CallOK(c) ==
  /\ pc[c] \in {"open", "validate", "reader", "locked", "mod"} \cup Starting => call[c] = "none"
  /\ pc[c] \in {"sync", "records", "header", "headersync"} => call[c] \in {"spill", "commit"}
  /\ pc[c] = "pages" => call[c] # "none"
  /\ pc[c] \in {"dbsync", "delete"} => call[c] \in {"hot", "commit", "undo"}
  /\ pc[c] = "unlock" => call[c] # "spill"

NotHot == jrnl = NoFile \/ jrnl.sealed = {}

\* The part of the journal that survives a loss of power along with its name.
Base == IF jnew \/ jsync = NoFile THEN EmptyJournal ELSE jsync

OnDisk == jsync = jrnl /\ ~jnew

JournalOK ==
  /\ jsync # NoFile => jsync.sealed \subseteq Recorded(jsync)
  /\ jrnl = NoFile => ~jnew
  /\ jrnl # NoFile =>
       /\ jnew \/ jsync # NoFile
       /\ \A p \in Recorded(Base) : Base.rec[p] = jrnl.rec[p]
       /\ Base.sealed \subseteq jrnl.sealed
       /\ jrnl.sealed \subseteq Recorded(Base)
       /\ \A p \in jrnl.sealed \ Base.sealed : db[p] = jrnl.rec[p]

\* Write-ahead: only a page with a durable record under a durable header may be
\* anything else on the disk than in the file.
WriteAhead ==
  \A p \in Page :
    /\ db[p] \in platter[p]
    /\ jrnl = NoFile \/ p \notin Base.sealed => db[p] # Torn /\ platter[p] = {db[p]}

IdleOK(c) ==
  /\ dirty[c] = {}
  /\ \/ cache[c] = NoCache
     \/ /\ vers[c] <= Current[1]
        /\ vers[c] = Current[1] => \A p \in Page : cache[c][p] \in {NoPage, Current[p]}

\* A connection in a transaction that is not changing anything.
ViewOK(c) ==
  /\ dirty[c] = {}
  /\ vers[c] = Current[1]
  /\ cache[c][1] # NoPage
  /\ \A p \in Page : cache[c][p] \in {NoPage, Current[p]}

Sealing(c) == pc[c] \in {"header", "headersync"}
Committing(c) == pc[c] \in {"pages", "dbsync", "delete"} /\ call[c] = "commit"

ChangeOK(c) ==
  LET rec == Recorded(jrnl)
  IN /\ jrnl # NoFile
     /\ dirty[c] \subseteq rec
     /\ rec \ jrnl.sealed \subseteq dirty[c]
     /\ Sealing(c) \/ Committing(c) => ~jnew /\ jrnl.rec = jsync.rec
     /\ pc[c] = "headersync" \/ Committing(c) => rec = jrnl.sealed
     /\ pc[c] = "headersync" \/ Base.sealed = jrnl.sealed
     /\ jrnl.sealed # {} => held[c] = Ladder!EXCLUSIVE_LOCK
     /\ \A p \in rec : jrnl.rec[p] = Current[p]
     /\ \A p \in Page : /\ db[p] # Torn
                        /\ IF p \in dirty[c] THEN cache[c][p] # NoPage
                           ELSE cache[c][p] \in {NoPage, db[p]}
     /\ cache[c][1] # NoPage
     /\ vers[c] = IF 1 \in rec \ dirty[c] THEN Current[1] + 1 ELSE Current[1]
     /\ 1 \in rec => cache[c][1] = Current[1] + 1
     /\ call[c] = "commit" => 1 \in rec
     /\ call[c] = "commit" => todo[c] = dirty[c]
     /\ pc[c] # "mod" => todo[c] \subseteq dirty[c]
     /\ pc[c] = "pages" => todo[c] \subseteq jrnl.sealed
     /\ pc[c] \in {"dbsync", "delete"} => todo[c] = {}
     /\ pc[c] = "delete" => \A p \in Page : platter[p] = {db[p]}

\* Pages that still have to be restored, and those that are.
RestoreOK(c) ==
  LET rec == Recorded(jrnl)
  IN /\ jrnl # NoFile
     /\ Base.sealed = jrnl.sealed
     /\ jrnl.sealed # {} => held[c] = Ladder!EXCLUSIVE_LOCK
     /\ todo[c] \subseteq jrnl.sealed
     /\ \A p \in jrnl.sealed \ todo[c] : db[p] = jrnl.rec[p]
     /\ pc[c] \in {"dbsync", "delete"} => todo[c] = {}
     /\ pc[c] = "delete" => \A p \in Page : platter[p] = {db[p]}

ConnOK(c) ==
  /\ Idle(c) => IdleOK(c)
  /\ pc[c] \in {"validate", "reader", "locked", "unlock"} => NotHot
  /\ pc[c] = "unlock" /\ call[c] # "none" => jrnl = NoFile
  /\ ~Idle(c) /\ (pc[c] \in {"reader", "locked", "unlock"} \/ call[c] = "undo") => ViewOK(c)
  /\ Writer(c) /\ pc[c] # "locked" => ChangeOK(c)
  /\ pc[c] \in {"pages", "dbsync", "delete"} /\ call[c] \in {"hot", "undo"} => RestoreOK(c)

PagerInv ==
  /\ TypeOK
  /\ Alone
  /\ JournalOK
  /\ WriteAhead
  /\ \A c \in Conn : LockOK(c) /\ CallOK(c) /\ ConnOK(c)
=============================================================================
