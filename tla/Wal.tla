-------------------------------- MODULE Wal --------------------------------
(***************************************************************************)
(* The write-ahead log of wal.c, as WCDB.swift opens every database:       *)
(* journal_mode=WAL at synchronous=NORMAL, with checkpoints run by a       *)
(* connection of their own beside the others.  The connections live in one *)
(* process and share the wal-index in memory; they synchronise by its      *)
(* locks and by reading it twice.  The process may end and the power may   *)
(* fail at any point; the first connection afterwards recovers the index   *)
(* from the log file.                                                      *)
(*                                                                         *)
(* A checksum is ideal: it stands for the contents of all frames up to its *)
(* own.  Salts are numbers, fresh where the code draws them at random, and *)
(* each change of a page gives it a content of its own.                    *)
(* What was written and not yet synced is on the disk, or not, or torn.    *)
(* The database keeps its size, and a log is never deleted.                *)
(***************************************************************************)
EXTENDS Integers, Sequences, FiniteSets, FiniteSetsExt

CONSTANTS Conn,          \* the Wal objects on one database
          NPage,         \* pages of the database
          MaxChange,     \* bound: changes of a page
          NMark,         \* WAL_NREADER - 1: the read marks besides number 0
          MaxFrame,      \* bound: frames in the log file
          MaxSalt,       \* bound: different salts in use at a time
          NoPage,        \* a page the transaction has not changed
          NoImage,       \* the page cache is empty
          Torn,          \* a page half written when the power failed
          NoConn, NoView

ASSUME WalAssumption ==
  /\ NPage \in Nat \ {0}
  /\ MaxChange \in Nat
  /\ NMark \in Nat \ {0}
  /\ MaxFrame \in Nat /\ MaxSalt \in Nat
  /\ Torn \notin Nat
  /\ NoConn \notin Conn

VARIABLES change,        \* changes of pages so far: the content of the latest
          db, platter,   \* the database file, and what the disk may hold of it
          log, logDisk,  \* the frames of the log file, likewise
          salt, saltDisk,   \* the salt in its header, likewise; 0 for none
          aHdr,          \* the two copies of the wal-index header, [0] and [1]
          aPgno,         \* the page of each frame in the wal-index
          nBackfill,     \* frames copied into the database
          aReadMark,     \* the read marks
          sharedMask,    \* shared locks on the wal-index of each connection
          exclMask,      \* and the exclusive ones
          wal,           \* the Wal object of each connection
          dirty,         \* the pages it has changed and not yet logged
          kept,          \* its page cache between transactions
          pc, call,      \* the point it has reached, and on whose behalf
          job,           \* the local variables there
          recent         \* history: images committed since the log was synced

dbVars   == <<change, db, platter>>
logVars  == <<log, logDisk, salt, saltDisk>>
shmVars  == <<aHdr, aPgno, nBackfill, aReadMark>>
lockVars == <<sharedMask, exclMask>>
vars == <<dbVars, logVars, shmVars, lockVars, wal, dirty, kept, pc, call, job, recent>>

Page  == 1 .. NPage
Slot  == 1 .. MaxFrame
Mark  == 1 .. NMark
READMARK_NOT_USED == MaxFrame + 1

WAL_WRITE_LOCK   == 0
WAL_CKPT_LOCK    == 1
WAL_RECOVER_LOCK == 2
WAL_READ_LOCK(i) == 3 + i
Lock == 0 .. WAL_READ_LOCK(NMark)

Largest(S) == IF S = {} THEN 0 ELSE Max(S)

-----------------------------------------------------------------------------
(* Frames, headers, and what a log file comes to. *)

\* A frame that was never written, or only in part.
NoFrame == [page |-> 0, val |-> 0, last |-> FALSE, salt |-> 0, sum |-> <<>>]

Payload(f) == <<f.page, f.val, f.last>>

\* A header of the wal-index: mxFrame, aFrameCksum, aSalt, isInit.
NoHdr == [init |-> FALSE, salt |-> 0, mx |-> 0, sum |-> <<>>]

\* walDecodeFrame for the first n frames.
Valid(l, s, n) ==
  \A i \in 1 .. n : /\ l[i].salt = s
                    /\ l[i].page # 0
                    /\ l[i].sum = Append(IF i = 1 THEN <<>> ELSE l[i - 1].sum, Payload(l[i]))

Readable(l, s) == IF s = 0 THEN 0 ELSE Largest({n \in Slot : Valid(l, s, n)})

\* The frames up to the last valid commit.
Complete(l, s) ==
  IF s = 0 THEN 0 ELSE Largest({n \in Slot : l[n].last /\ Valid(l, s, n)})

RecoveredHdr(l, s) ==
  LET n == Complete(l, s)
  IN [init |-> TRUE, salt |-> s, mx |-> n, sum |-> [i \in 1 .. n |-> Payload(l[i])]]

\* The database a new process finds, with pages d, frames l and salt s on the disk.
Found(d, l, s) ==
  LET held(p) == [i \in 0 .. MaxFrame |-> IF i = 0 THEN d[p] ELSE l[i].val]
      image   == [n \in 0 .. MaxFrame |->
                    [p \in Page |-> held(p)[Largest({i \in 1 .. n : l[i].page = p})]]]
  IN image[Complete(l, s)]

\* What a loss of power may leave of the files.
Outcomes(disk) == {f \in [DOMAIN disk -> UNION {disk[i] : i \in DOMAIN disk}] :
                    \A i \in DOMAIN disk : f[i] \in disk[i]}
DbLeft  == Outcomes(platter)
LogLeft == Outcomes(logDisk)

\* The salts that stand anywhere, and one that does not.
Salts ==
  LET headers == {aHdr[0], aHdr[1]} \cup {wal[c].hdr : c \in Conn}
      frames  == {log[i] : i \in Slot} \cup UNION {logDisk[i] : i \in Slot}
  IN {salt} \cup saltDisk \cup {h.salt : h \in headers} \cup {f.salt : f \in frames}

Fresh == (1 .. MaxSalt) \ Salts
NewSalt == CHOOSE s \in Fresh : TRUE

-----------------------------------------------------------------------------
NoJob == [slot |-> 0, mark |-> 0, first |-> 0, iFrame |-> 0, todo |-> {}, batch |-> {},
          iter |-> [p \in Page |-> 0], changed |-> FALSE]
NoWal == [hdr |-> NoHdr, readLock |-> -1, minFrame |-> 0, iReCksum |-> 0]
Clean == [p \in Page |-> NoPage]

Init ==
  /\ change = 0
  /\ db = [p \in Page |-> 0]
  /\ platter = [p \in Page |-> {0}]
  /\ log = [i \in Slot |-> NoFrame]
  /\ logDisk = [i \in Slot |-> {NoFrame}]
  /\ salt = 0
  /\ saltDisk = {0}
  /\ aHdr = [i \in {0, 1} |-> NoHdr]
  /\ aPgno = [i \in Slot |-> 0]
  /\ nBackfill = 0
  /\ aReadMark = [i \in Mark |-> 0]
  /\ sharedMask = [c \in Conn |-> {}]
  /\ exclMask = [c \in Conn |-> {}]
  /\ wal = [c \in Conn |-> NoWal]
  /\ dirty = [c \in Conn |-> Clean]
  /\ kept = [c \in Conn |-> NoImage]
  /\ pc = [c \in Conn |-> "idle"]
  /\ call = [c \in Conn |-> "none"]
  /\ job = [c \in Conn |-> NoJob]
  /\ recent = {db}

Goto(c, l) == pc' = [pc EXCEPT ![c] = l]
Step(c, from, to) == pc[c] = from /\ Goto(c, to)

\* unixShmLock, among the connections of the process.
CanShare(c, l) == \A d \in Conn \ {c} : l \notin exclMask[d]
CanExclude(c, L) ==
  \A d \in Conn \ {c} : L \cap (exclMask[d] \cup sharedMask[d]) = {}

LockShared(c, l) ==
  /\ CanShare(c, l)
  /\ sharedMask' = [sharedMask EXCEPT ![c] = @ \cup {l}]
  /\ UNCHANGED exclMask
UnlockShared(c, l) ==
  /\ sharedMask' = [sharedMask EXCEPT ![c] = @ \ {l}]
  /\ UNCHANGED exclMask
LockExclusive(c, L) ==
  /\ CanExclude(c, L)
  /\ exclMask' = [exclMask EXCEPT ![c] = @ \cup L]
  /\ UNCHANGED sharedMask
UnlockExclusive(c, L) ==
  /\ exclMask' = [exclMask EXCEPT ![c] = @ \ L]
  /\ UNCHANGED sharedMask

\* Writing to the log file, and syncing it.
WriteFrame(i, f) ==
  /\ log' = [log EXCEPT ![i] = f]
  /\ logDisk' = [logDisk EXCEPT ![i] = @ \cup {f, NoFrame}]
SyncLog ==
  /\ logDisk' = [i \in Slot |-> {log[i]}]
  /\ saltDisk' = {salt}

-----------------------------------------------------------------------------
(* Reading the header of the wal-index. *)

\* walIndexTryHdr succeeds.
HdrGood == aHdr[0] = aHdr[1] /\ aHdr[0].init

\* The header is taken over; if it has changed, so has the database, and the
\* caller's page cache is out of date.
TakeHdr(c, h) ==
  /\ wal' = [wal EXCEPT ![c].hdr = h]
  /\ \/ /\ call[c] = "ckpt"
        /\ job' = [job EXCEPT ![c].changed = wal[c].hdr # h]
        /\ UNCHANGED kept
     \/ /\ call[c] # "ckpt"
        /\ kept' = IF wal[c].hdr # h THEN [kept EXCEPT ![c] = NoImage] ELSE kept
        /\ UNCHANGED job

HdrRead(c) == IF call[c] = "ckpt" THEN "ckstart" ELSE "choose"
HdrBusy(c) == IF call[c] = "ckpt" THEN "ckend" ELSE "idle"

\* walIndexReadHdr, without a lock.
ReadHdr(c) ==
  /\ pc[c] \in {"idle", "ckhdr"}
  /\ HdrGood
  /\ TakeHdr(c, aHdr[0])
  /\ Goto(c, HdrRead(c))
  /\ UNCHANGED <<dbVars, logVars, shmVars, lockVars, dirty, call>>

\* All the locks but WAL_CKPT_LOCK if the caller has it.
RecoveryLocks(c) == Lock \ exclMask[c]

HdrLocked(c) ==
  /\ pc[c] \in {"idle", "ckhdr"}
  /\ ~HdrGood
  /\ ~CanExclude(c, RecoveryLocks(c))
  /\ Goto(c, HdrBusy(c))
  /\ UNCHANGED <<dbVars, logVars, shmVars, lockVars, wal, dirty, kept, call, job>>

\* A header that nobody is writing is no header: walIndexRecover reads the log.
Recover(c) ==
  LET h == RecoveredHdr(log, salt)
      n == Readable(log, salt)
  IN /\ pc[c] \in {"idle", "ckhdr"}
     /\ ~HdrGood
     /\ CanExclude(c, RecoveryLocks(c))
     /\ Goto(c, HdrRead(c))
     /\ TakeHdr(c, h)
     /\ aHdr' = [i \in {0, 1} |-> h]
     /\ aPgno' = [i \in Slot |-> IF i <= n THEN log[i].page ELSE 0]
     /\ nBackfill' = 0
     /\ aReadMark' = [i \in Mark |-> IF i = 1 /\ h.mx # 0 THEN h.mx ELSE READMARK_NOT_USED]
     /\ UNCHANGED <<dbVars, logVars, lockVars, dirty, call>>

-----------------------------------------------------------------------------
(* walTryBeginRead: a lock on a read mark.  A writer that has restarted the *)
(* log comes here too, with the header it has (useWal).                     *)

useWal(c) == call[c] \in {"spill", "commit"}
Retry(c)  == IF useWal(c) THEN "choose" ELSE "idle"

\* The whole log is in the database: the reader will ignore it,
ChooseZero(c) ==
  /\ ~useWal(c)
  /\ nBackfill = wal[c].hdr.mx
  /\ Step(c, "choose", "zero")
  /\ UNCHANGED <<dbVars, logVars, shmVars, lockVars, wal, dirty, kept, call, job>>

\* unless a commit has come since.
StillWhole(c) == aHdr[0] = wal[c].hdr

LockMarkZero(c) ==
  LET l == WAL_READ_LOCK(0)
  IN /\ \/ /\ Step(c, "zero", "reader")
           /\ LockShared(c, l)
           /\ StillWhole(c)
           /\ wal' = [wal EXCEPT ![c].readLock = 0]
        \/ /\ Step(c, "zero", "idle")
           /\ CanShare(c, l)
           /\ ~StillWhole(c)
           /\ UNCHANGED <<lockVars, wal>>
        \/ /\ Step(c, "zero", "marks")
           /\ ~CanShare(c, l)
           /\ UNCHANGED <<lockVars, wal>>
     /\ UNCHANGED <<dbVars, logVars, shmVars, dirty, kept, call, job>>

\* The largest mark that is not past the header, or else a mark set to it.
ChooseMark(c) ==
  LET mx     == wal[c].hdr.mx
      usable == {i \in Mark : aReadMark[i] <= mx}
      value  == Largest({aReadMark[i] : i \in usable})
      best   == Largest({i \in usable : aReadMark[i] = value})
      free   == {i \in Mark : CanExclude(c, {WAL_READ_LOCK(i)})}
      Take(i, m) == /\ Goto(c, "chosen")
                    /\ job' = [job EXCEPT ![c].slot = i, ![c].mark = m]
  IN /\ \/ pc[c] = "choose" /\ (useWal(c) \/ nBackfill # mx)
        \/ pc[c] = "marks"
     /\ \/ /\ best # 0 /\ value = mx
           /\ Take(best, value)
           /\ UNCHANGED aReadMark
        \/ /\ best = 0 \/ value < mx
           /\ free # {}
           /\ Take(Min(free), mx)
           /\ aReadMark' = [aReadMark EXCEPT ![Min(free)] = mx]
        \/ /\ best # 0 /\ value < mx
           /\ free = {}
           /\ Take(best, value)
           /\ UNCHANGED aReadMark
        \/ /\ best = 0
           /\ free = {}
           /\ Goto(c, Retry(c))
           /\ UNCHANGED <<aReadMark, job>>
     /\ UNCHANGED <<dbVars, logVars, aHdr, aPgno, nBackfill, lockVars, wal, dirty, kept, call>>

\* Frames before minFrame will be read from the database.
LockMark(c) ==
  LET l == WAL_READ_LOCK(job[c].slot)
  IN /\ \/ /\ Step(c, "chosen", "check")
           /\ LockShared(c, l)
           /\ wal' = [wal EXCEPT ![c].minFrame = nBackfill + 1]
        \/ /\ Step(c, "chosen", Retry(c))
           /\ ~CanShare(c, l)
           /\ UNCHANGED <<lockVars, wal>>
     /\ UNCHANGED <<dbVars, logVars, shmVars, dirty, kept, call, job>>

\* The first frame of a log comes after its header.
ToLog(c) == IF wal[c].hdr.mx = 0 THEN "header" ELSE "append"

\* Mutant: the header is not compared once more.
UncheckedSlip(c) == aReadMark[job[c].slot] = job[c].mark

\* Neither the mark nor the header has changed since they were read.
Unchanged(c) == aReadMark[job[c].slot] = job[c].mark /\ aHdr[0] = wal[c].hdr

CheckMark(c) ==
  /\ \/ /\ Step(c, "check", IF useWal(c) THEN ToLog(c) ELSE "reader")
        /\ Unchanged(c)
        /\ wal' = [wal EXCEPT ![c].readLock = job[c].slot]
        /\ UNCHANGED lockVars
     \/ /\ Step(c, "check", Retry(c))
        /\ ~Unchanged(c)
        /\ UnlockShared(c, WAL_READ_LOCK(job[c].slot))
        /\ wal' = [wal EXCEPT ![c].minFrame = 0]
  /\ job' = [job EXCEPT ![c].slot = 0, ![c].mark = 0]
  /\ UNCHANGED <<dbVars, logVars, shmVars, dirty, kept, call>>

\* sqlite3WalFindFrame: the frame a connection reads page p from, or 0.
FindFrame(c, p) ==
  IF wal[c].readLock <= 0 THEN 0
  ELSE Largest({i \in wal[c].minFrame .. wal[c].hdr.mx : aPgno[i] = p})

\* Page p in frame i, or in the database.
Held(p) == [i \in 0 .. MaxFrame |-> IF i = 0 THEN db[p] ELSE log[i].val]

\* What a connection in a transaction sees.
Seen(c) ==
  [p \in Page |-> IF dirty[c][p] # NoPage THEN dirty[c][p] ELSE Held(p)[FindFrame(c, p)]]

\* sqlite3WalEndReadTransaction.  The pages that were read stay in the cache.
EndRead(c) ==
  /\ Step(c, "reader", "idle")
  /\ UnlockShared(c, WAL_READ_LOCK(wal[c].readLock))
  /\ wal' = [wal EXCEPT ![c].readLock = -1, ![c].minFrame = 0]
  /\ kept' = [kept EXCEPT ![c] = Seen(c)]
  /\ UNCHANGED <<dbVars, logVars, shmVars, dirty, call, job>>

-----------------------------------------------------------------------------
(* A write transaction. *)

\* sqlite3WalBeginWriteTransaction: SQLITE_BUSY_SNAPSHOT when another commit has
\* come since the reader began.
BeginWrite(c) ==
  /\ Step(c, "reader", "writer")
  /\ LockExclusive(c, {WAL_WRITE_LOCK})
  /\ aHdr[0] = wal[c].hdr
  /\ kept' = [kept EXCEPT ![c] = NoImage]
  /\ UNCHANGED <<dbVars, logVars, shmVars, wal, dirty, call, job>>

\* The b-tree changes a page in the cache.
Write(c, p) ==
  /\ pc[c] = "writer"
  /\ change < MaxChange
  /\ change' = change + 1
  /\ dirty' = [dirty EXCEPT ![c][p] = change']
  /\ UNCHANGED <<db, platter, logVars, shmVars, lockVars, wal, kept, pc, call, job>>

Dirty(c) == {p \in Page : dirty[c][p] # NoPage}

\* sqlite3WalFrames begins, with the pages that are to be logged.
Frames(c, what, pages) ==
  /\ Step(c, "writer", "frames")
  /\ call' = [call EXCEPT ![c] = what]
  /\ job' = [job EXCEPT
       ![c].todo = pages,
       ![c].batch = pages,
       ![c].iFrame = wal[c].hdr.mx,
       ![c].first = IF wal[c].hdr # aHdr[0] THEN aHdr[0].mx + 1 ELSE 0]
  /\ UNCHANGED <<dbVars, logVars, shmVars, lockVars, wal, dirty, kept>>

\* pagerStress: a page is logged to make room in the cache.
Spill(c, p) == p \in Dirty(c) /\ Frames(c, "spill", {p})

\* sqlite3PagerCommitPhaseOne: a commit logs page 1 when nothing else is left.
Commit(c) ==
  /\ Dirty(c) # {} \/ wal[c].hdr # aHdr[0]
  /\ Frames(c, "commit", IF Dirty(c) = {} THEN {1} ELSE Dirty(c))

-----------------------------------------------------------------------------
(* walRestartLog: the log is begun anew when all of it is in the database  *)
(* and nobody reads it.                                                    *)

ReadLocks == {WAL_READ_LOCK(i) : i \in Mark}

MayRestart(c) == wal[c].readLock = 0 /\ nBackfill > 0 /\ CanExclude(c, ReadLocks)

\* walRestartHdr with walIndexWriteHdr: the second copy of the header first.
RestartHdr(c) ==
  LET h == [init |-> TRUE, salt |-> NewSalt, mx |-> 0, sum |-> <<>>]
  IN /\ Step(c, "frames", "restart")
     /\ MayRestart(c)
     /\ Fresh # {}
     /\ LockExclusive(c, ReadLocks)
     /\ wal' = [wal EXCEPT ![c].hdr = h]
     /\ aHdr' = [aHdr EXCEPT ![1] = h]
     /\ job' = [job EXCEPT ![c].iFrame = 0]
     /\ UNCHANGED <<dbVars, logVars, aPgno, nBackfill, aReadMark, dirty, kept, call>>

RestartHdr0(c) ==
  /\ Step(c, "restart", "restarted")
  /\ aHdr' = [aHdr EXCEPT ![0] = wal[c].hdr]
  /\ UNCHANGED <<dbVars, logVars, aPgno, nBackfill, aReadMark, lockVars, wal, dirty,
                 kept, call, job>>

\* Mutant: the count of backfilled frames stays.
CountKeptSlip == nBackfill

BackfillAtRestart == 0

\* A writer that ignored the log so far takes a mark.
LeaveZero(c) == wal' = [wal EXCEPT ![c].readLock = -1]

RestartInfo(c) ==
  /\ Step(c, "restarted", "choose")
  /\ nBackfill' = BackfillAtRestart
  /\ aReadMark' = [i \in Mark |-> IF i = 1 THEN 0 ELSE READMARK_NOT_USED]
  /\ exclMask' = [exclMask EXCEPT ![c] = @ \ ReadLocks]
  /\ sharedMask' = [sharedMask EXCEPT ![c] = @ \ {WAL_READ_LOCK(0)}]
  /\ LeaveZero(c)
  /\ UNCHANGED <<dbVars, logVars, aHdr, aPgno, dirty, kept, call, job>>

KeepLog(c) ==
  /\ \/ /\ Step(c, "frames", "choose")
        /\ wal[c].readLock = 0
        /\ ~MayRestart(c)
        /\ UnlockShared(c, WAL_READ_LOCK(0))
        /\ LeaveZero(c)
     \/ /\ Step(c, "frames", ToLog(c))
        /\ wal[c].readLock # 0
        /\ UNCHANGED <<lockVars, wal>>
  /\ UNCHANGED <<dbVars, logVars, shmVars, dirty, kept, call, job>>

-----------------------------------------------------------------------------
(* sqlite3WalFrames: writing the log. *)

\* The first frame comes after a header with the salt of the wal-index, or with
\* one of its own if this Wal has never restarted a log.
WriteHeader(c) ==
  /\ Step(c, "header", "headersync")
  /\ \E s \in {wal[c].hdr.salt} \cup (IF Fresh = {} THEN {} ELSE {NewSalt}) :
       /\ s # 0
       /\ salt' = s
       /\ saltDisk' = saltDisk \cup {s, 0}
       /\ wal' = [wal EXCEPT ![c].hdr.salt = s, ![c].hdr.sum = <<>>]
  /\ UNCHANGED <<dbVars, log, logDisk, shmVars, lockVars, dirty, kept, call, job>>

SyncHeader(c) ==
  /\ Step(c, "headersync", "append")
  /\ SyncLog
  /\ UNCHANGED <<dbVars, log, salt, shmVars, lockVars, wal, dirty, kept, call, job>>

\* Mutant: the commit mark is set on every page of the commit.
MarkedSlip(c, p) == call[c] = "commit"

\* The commit mark is on the last page of a commit.
Marked(c, p) == call[c] = "commit" /\ job[c].todo = {p}

\* A frame of this transaction is overwritten, but for the last page of a commit.
Rewritable(c, p) ==
  /\ job[c].first # 0 /\ FindFrame(c, p) >= job[c].first
  /\ ~Marked(c, p)

Overwrite(c, p) ==
  LET i == FindFrame(c, p)
  IN /\ Rewritable(c, p)
     /\ WriteFrame(i, [log[i] EXCEPT !.val = Seen(c)[p]])
     /\ wal' = [wal EXCEPT ![c].iReCksum = IF @ = 0 THEN i ELSE Min({@, i})]
     /\ job' = [job EXCEPT ![c].todo = @ \ {p}, ![c].batch = @ \ {p}]
     /\ dirty' = [dirty EXCEPT ![c][p] = NoPage]

AppendFrame(c, p) ==
  LET i    == job[c].iFrame + 1
      f    == [page |-> p, val |-> Seen(c)[p], last |-> Marked(c, p)]
      sums == Append(wal[c].hdr.sum, <<f.page, f.val, f.last>>)
      seal == wal[c].iReCksum = 0
  IN /\ ~Rewritable(c, p)
     /\ i <= MaxFrame
     /\ WriteFrame(i, [page |-> f.page, val |-> f.val, last |-> f.last,
                       salt |-> IF seal THEN wal[c].hdr.salt ELSE 0,
                       sum  |-> IF seal THEN sums ELSE <<>>])
     /\ wal' = IF seal THEN [wal EXCEPT ![c].hdr.sum = sums] ELSE wal
     /\ job' = [job EXCEPT ![c].todo = @ \ {p}, ![c].iFrame = i]
     /\ UNCHANGED dirty

LogPage(c) ==
  LET p    == Min(job[c].todo)
      last == job[c].todo = {p}
  IN /\ pc[c] = "append"
     /\ Overwrite(c, p) \/ AppendFrame(c, p)
     /\ Goto(c, IF ~last THEN "append"
                ELSE IF call[c] = "commit" /\ wal'[c].iReCksum # 0 THEN "rewrite"
                ELSE "publish")
     /\ UNCHANGED <<dbVars, salt, saltDisk, shmVars, lockVars, kept, call>>

\* walRewriteChecksums, frame by frame from the first one overwritten.
RewriteChecksum(c) ==
  LET i    == wal[c].iReCksum
      sums == Append(IF i = 1 THEN <<>> ELSE log[i - 1].sum, Payload(log[i]))
      done == i = job[c].iFrame
  IN /\ pc[c] = "rewrite"
     /\ WriteFrame(i, [log[i] EXCEPT !.salt = wal[c].hdr.salt, !.sum = sums])
     /\ wal' = [wal EXCEPT ![c].hdr.sum = sums, ![c].iReCksum = IF done THEN 0 ELSE i + 1]
     /\ Goto(c, IF done THEN "publish" ELSE "rewrite")
     /\ UNCHANGED <<dbVars, salt, saltDisk, shmVars, lockVars, dirty, kept, call, job>>

\* walIndexAppend for the frames that were appended, in the order of their
\* pages, and the private header; after a commit walIndexWriteHdr.
Publish(c) ==
  LET old == wal[c].hdr.mx
      new == [wal[c].hdr EXCEPT !.mx = job[c].iFrame]
  IN /\ pc[c] = "publish"
     /\ aPgno' = [i \in Slot |-> IF i <= old THEN aPgno[i]
                                 ELSE IF i <= new.mx THEN log[i].page ELSE 0]
     /\ wal' = [wal EXCEPT ![c].hdr = new]
     /\ dirty' = [dirty EXCEPT ![c] = [p \in Page |-> IF p \in job[c].batch THEN NoPage ELSE @[p]]]
     /\ job' = [job EXCEPT ![c] = NoJob]
     /\ \/ /\ call[c] = "spill"
           /\ Goto(c, "writer")
           /\ call' = [call EXCEPT ![c] = "none"]
           /\ UNCHANGED aHdr
        \/ /\ call[c] = "commit"
           /\ Goto(c, "publish0")
           /\ aHdr' = [aHdr EXCEPT ![1] = new]
           /\ UNCHANGED call
     /\ UNCHANGED <<dbVars, logVars, nBackfill, aReadMark, lockVars, kept>>

\* The moment of the commit, and the end of the transaction.
PublishHdr0(c) ==
  /\ Step(c, "publish0", "reader")
  /\ aHdr' = [aHdr EXCEPT ![0] = wal[c].hdr]
  /\ call' = [call EXCEPT ![c] = "none"]
  /\ UnlockExclusive(c, {WAL_WRITE_LOCK})
  /\ UNCHANGED <<dbVars, logVars, aPgno, nBackfill, aReadMark, wal, dirty, kept, job>>

\* sqlite3WalUndo, for a rollback or after a failed write to the log.
Rollback(c) ==
  LET h == aHdr[0]
  IN /\ pc[c] \in {"writer", "headersync", "append", "rewrite"}
     /\ Goto(c, "reader")
     /\ wal' = [wal EXCEPT ![c].hdr = h, ![c].iReCksum = 0]
     /\ aPgno' = IF h.mx = 0 \/ h.mx = wal[c].hdr.mx THEN aPgno
                 ELSE [i \in Slot |-> IF i <= h.mx THEN aPgno[i] ELSE 0]
     /\ dirty' = [dirty EXCEPT ![c] = Clean]
     /\ call' = [call EXCEPT ![c] = "none"]
     /\ job' = [job EXCEPT ![c] = NoJob]
     /\ UnlockExclusive(c, {WAL_WRITE_LOCK})
     /\ UNCHANGED <<dbVars, logVars, aHdr, nBackfill, aReadMark, kept>>

-----------------------------------------------------------------------------
(* sqlite3WalCheckpoint in SQLITE_CHECKPOINT_PASSIVE mode. *)

StartCheckpoint(c) ==
  /\ Step(c, "idle", "ckhdr")
  /\ LockExclusive(c, {WAL_CKPT_LOCK})
  /\ call' = [call EXCEPT ![c] = "ckpt"]
  /\ UNCHANGED <<dbVars, logVars, shmVars, wal, dirty, kept, job>>

\* walIteratorInit: the last frame of each page, from the wal-index.
InitIterator(c) ==
  LET mx == wal[c].hdr.mx
  IN /\ \/ /\ nBackfill < mx
           /\ Step(c, "ckstart", "ckslot")
           /\ job' = [job EXCEPT
                ![c].iter = [p \in Page |-> Largest({i \in 1 .. mx : aPgno[i] = p})],
                ![c].mark = mx,
                ![c].slot = 1]
        \/ /\ nBackfill >= mx
           /\ Step(c, "ckstart", "ckend")
           /\ UNCHANGED job
     /\ UNCHANGED <<dbVars, logVars, shmVars, lockVars, wal, dirty, kept, call>>

\* A read mark below the frames to copy is raised, or limits them if in use.
VisitMark(c) ==
  LET i == job[c].slot
      m == job[c].mark
      l == WAL_READ_LOCK(i)
      free == aReadMark[i] < m /\ CanExclude(c, {l})
      used == aReadMark[i] < m /\ ~CanExclude(c, {l})
  IN /\ Step(c, "ckslot", IF i = NMark THEN "ckzero" ELSE "ckslot")
     /\ aReadMark' = IF free THEN [aReadMark EXCEPT ![i] = IF i = 1 THEN m ELSE READMARK_NOT_USED]
                     ELSE aReadMark
     /\ job' = [job EXCEPT ![c].slot = i + 1,
                           ![c].mark = IF used THEN aReadMark[i] ELSE m]
     /\ UNCHANGED <<dbVars, logVars, aHdr, aPgno, nBackfill, lockVars, wal, dirty, kept, call>>

\* Mutant: the log is not synced.
NotSyncedSlip == UNCHANGED <<logDisk, saltDisk>>

LogSynced == SyncLog

\* WAL_READ_LOCK(0) keeps readers of the database alone away, and the log is
\* synced before a page of the database is overwritten.
LockZero(c) ==
  LET l == WAL_READ_LOCK(0)
      m == job[c].mark
  IN /\ Step(c, "ckzero", "ckcopy")
     /\ nBackfill < m
     /\ LockExclusive(c, {l})
     /\ LogSynced
     /\ job' = [job EXCEPT ![c].iter =
          [p \in Page |-> IF @[p] \in nBackfill + 1 .. m THEN @[p] ELSE 0]]
     /\ UNCHANGED <<dbVars, log, salt, shmVars, wal, dirty, kept, call>>

\* There is nothing to copy, or a reader of the database alone is in the way.
GiveUp(c) ==
  /\ Step(c, "ckzero", "ckend")
  /\ \/ nBackfill >= job[c].mark
     \/ ~CanExclude(c, {WAL_READ_LOCK(0)})
  /\ UNCHANGED <<dbVars, logVars, shmVars, lockVars, wal, dirty, kept, call, job>>

ToCopy(c) == {p \in Page : job[c].iter[p] # 0}

CopyPage(c) ==
  LET p == Min(ToCopy(c))
      x == log[job[c].iter[p]].val
  IN /\ pc[c] = "ckcopy"
     /\ ToCopy(c) # {}
     /\ db' = [db EXCEPT ![p] = x]
     /\ platter' = [platter EXCEPT ![p] = @ \cup {x, Torn}]
     /\ job' = [job EXCEPT ![c].iter[p] = 0]
     /\ UNCHANGED <<change, logVars, shmVars, lockVars, wal, dirty, kept, pc, call>>

\* Mutant: one frame too many is counted.
OneTooManySlip(c) == job[c].mark + 1

\* The last frame that was safe to copy.
mxSafeFrame(c) == job[c].mark

\* The database is synced when all of the log is in it.
Backfilled(c) ==
  /\ Step(c, "ckcopy", "ckend")
  /\ ToCopy(c) = {}
  /\ platter' = IF job[c].mark = aHdr[0].mx THEN [p \in Page |-> {db[p]}] ELSE platter
  /\ nBackfill' = mxSafeFrame(c)
  /\ UnlockExclusive(c, {WAL_READ_LOCK(0)})
  /\ UNCHANGED <<change, db, logVars, aHdr, aPgno, aReadMark, wal, dirty, kept, call, job>>

\* A system call fails.
CheckpointFails(c) ==
  /\ Step(c, "ckcopy", "ckend")
  /\ UnlockExclusive(c, {WAL_READ_LOCK(0)})
  /\ UNCHANGED <<dbVars, logVars, shmVars, wal, dirty, kept, call, job>>

\* Mutant: the header that was read for the checkpoint is kept.
HdrAfterSlip(c) == wal[c].hdr

\* The header is forgotten if it is newer than the page cache.
HdrAfter(c) == IF job[c].changed THEN NoHdr ELSE wal[c].hdr

EndCheckpoint(c) ==
  /\ Step(c, "ckend", "idle")
  /\ wal' = [wal EXCEPT ![c].hdr = HdrAfter(c)]
  /\ call' = [call EXCEPT ![c] = "none"]
  /\ job' = [job EXCEPT ![c] = NoJob]
  /\ UnlockExclusive(c, {WAL_CKPT_LOCK})
  /\ UNCHANGED <<dbVars, logVars, shmVars, dirty, kept>>

-----------------------------------------------------------------------------
(* Failures. *)

\* The process ends, and with it the wal-index.
Forget ==
  /\ aHdr' = [i \in {0, 1} |-> NoHdr]
  /\ aPgno' = [i \in Slot |-> 0]
  /\ nBackfill' = 0
  /\ aReadMark' = [i \in Mark |-> 0]
  /\ sharedMask' = [c \in Conn |-> {}]
  /\ exclMask' = [c \in Conn |-> {}]
  /\ wal' = [c \in Conn |-> NoWal]
  /\ dirty' = [c \in Conn |-> Clean]
  /\ kept' = [c \in Conn |-> NoImage]
  /\ pc' = [c \in Conn |-> "idle"]
  /\ call' = [c \in Conn |-> "none"]
  /\ job' = [c \in Conn |-> NoJob]

Crash == Forget /\ UNCHANGED <<dbVars, logVars>>

\* No process has the database open.
NoProcess == pc = [c \in Conn |-> "idle"] /\ wal = [c \in Conn |-> NoWal] /\ ~aHdr[1].init

\* The power fails: the process has ended (Crash) before what is left is known.
PowerLoss ==
  /\ NoProcess
  /\ UNCHANGED <<change, shmVars, lockVars, wal, dirty, kept, pc, call, job>>
  /\ db' \in DbLeft
  /\ platter' = [p \in Page |-> {db'[p]}]
  /\ log' \in LogLeft
  /\ logDisk' = [i \in Slot |-> {log'[i]}]
  /\ salt' \in saltDisk
  /\ saltDisk' = {salt'}

-----------------------------------------------------------------------------
Read(c) ==
  \/ ReadHdr(c) \/ HdrLocked(c) \/ ChooseZero(c) \/ LockMarkZero(c)
  \/ ChooseMark(c) \/ LockMark(c) \/ CheckMark(c) \/ EndRead(c)

Change(c) ==
  \/ BeginWrite(c) \/ Commit(c) \/ Rollback(c)
  \/ \E p \in Page : Write(c, p) \/ Spill(c, p)
  \/ RestartHdr(c) \/ RestartHdr0(c) \/ RestartInfo(c) \/ KeepLog(c)
  \/ WriteHeader(c) \/ LogPage(c) \/ RewriteChecksum(c) \/ Publish(c)

Checkpoint(c) ==
  \/ StartCheckpoint(c) \/ InitIterator(c) \/ VisitMark(c) \/ GiveUp(c)
  \/ CopyPage(c) \/ Backfilled(c) \/ CheckpointFails(c) \/ EndCheckpoint(c)

\* The image under a header of the wal-index.
Under(h) ==
  [p \in Page |-> Held(p)[Largest({n \in 1 .. h.mx : aPgno[n] = p})]]

\* What a new process would find, and what the connections see.
Stored  == Found(db, log, salt)
Current == IF aHdr[0].init THEN Under(aHdr[0]) ELSE Stored

\* The steps that concern the history.
Publication(c) == PublishHdr0(c) /\ recent' = recent \cup {Under(wal[c].hdr)}
Recovery(c)    == Recover(c) /\ recent' = recent \cup {Stored}
Sync(c)        == (SyncHeader(c) \/ LockZero(c)) /\ recent' = {Current}

Next ==
  \/ \E c \in Conn : Publication(c) \/ Recovery(c) \/ Sync(c)
  \/ /\ \/ \E c \in Conn : Read(c) \/ Change(c) \/ Checkpoint(c)
        \/ Crash
     /\ UNCHANGED recent
  \/ PowerLoss /\ recent' = {}

Spec == Init /\ [][Next]_vars

-----------------------------------------------------------------------------
(* Properties *)

Points ==
  {"idle", "choose", "zero", "marks", "chosen", "check", "reader", "writer", "frames",
   "restart", "restarted", "header", "headersync", "append", "rewrite", "publish",
   "publish0", "ckhdr", "ckstart", "ckslot", "ckzero", "ckcopy", "ckend"}

TypeOK ==
  /\ change \in 0 .. MaxChange
  /\ db \in [Page -> (0 .. MaxChange) \cup {Torn}]
  /\ platter \in [Page -> SUBSET ((0 .. MaxChange) \cup {Torn})]
  /\ salt \in 0 .. MaxSalt /\ saltDisk \subseteq 0 .. MaxSalt
  /\ aPgno \in [Slot -> 0 .. NPage]
  /\ nBackfill \in 0 .. MaxFrame
  /\ aReadMark \in [Mark -> 0 .. READMARK_NOT_USED]
  /\ sharedMask \in [Conn -> SUBSET Lock] /\ exclMask \in [Conn -> SUBSET Lock]
  /\ pc \in [Conn -> Points]
  /\ call \in [Conn -> {"none", "spill", "commit", "ckpt"}]

WritePoints == {"writer", "frames", "restart", "restarted", "header", "headersync", "append",
                "rewrite", "publish", "publish0"}
Writing(c) == pc[c] \in WritePoints \/ useWal(c)

TheWriter == IF \E c \in Conn : Writing(c) THEN CHOOSE c \in Conn : Writing(c) ELSE NoConn

Views == [c \in Conn |-> IF Writing(c) \/ pc[c] = "reader" THEN Seen(c) ELSE NoView]

Store == INSTANCE VersionStore WITH
  Content <- (0 .. MaxChange) \cup {Torn}, current <- Current, view <- Views, writer <- TheWriter

\* The write-ahead log implements VersionStore: whatever is checkpointed, spilled
\* or begun anew, a reader stays with its image and a commit is a single step.
StoreSpec == Store!Spec

\* The files hold what the connections see, or the commit about to be published:
\* a process that ends takes no commit with it and leaves no half of one.
LogHoldsTheCommits ==
  \/ Stored = Current
  \/ \E c \in Conn : /\ pc[c] \in {"publish", "publish0"} /\ call[c] = "commit"
                    /\ Stored = Seen(c)

\* The images a loss of power may leave.
Durable == {Found(d, l, s) : d \in DbLeft, l \in LogLeft, s \in saltDisk}

\* A loss of power leaves a committed image, none older than the latest sync of
\* the log, however far a checkpoint has overwritten the database.
SyncedCommitsSurvive == Durable \subseteq recent \cup {Stored}

\* A page cache kept from an earlier transaction, by a connection that finds the
\* header as it left it, holds what the connection would read.
KeptCacheIsCurrent ==
  \A c \in Conn : pc[c] = "reader" /\ kept[c] # NoImage => kept[c] = Seen(c)

\* A checkpoint that has read the header and has not yet locked WAL_READ_LOCK(0)
\* holds nothing that keeps a writer from beginning a new log, and does not look at
\* the header again.  None is overtaken as long as its header is about the present
\* log, or about an empty one, which may still be given another salt.
BeforeLock(c) == pc[c] \in {"ckstart", "ckslot", "ckzero"}
NoneOvertaken ==
  \A c \in Conn : BeforeLock(c) =>
    \/ wal[c].hdr.salt = aHdr[1].salt
    \/ wal[c].hdr.mx = 0 /\ nBackfill = 0

\* nBackfill is never greater than mxFrame (walRestartHdr apart, which sets both
\* with every read mark locked), and a writer that ignores the log has all of it in
\* the database.
BackfillWithinLog ==
  /\ nBackfill <= aHdr[0].mx \/ \E c \in Conn : pc[c] = "restarted"
  /\ \A c \in Conn : pc[c] = "frames" /\ wal[c].readLock = 0 => nBackfill = wal[c].hdr.mx
=============================================================================
