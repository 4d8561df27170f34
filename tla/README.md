# MK_ComicReader in TLA+

MK_ComicReader is an iOS application (Swift, RxSwift) that shows one comic
book of the DMZJ service: a detail screen with the book's cover and the list of
its parts (话), and a reader that pages through a part's pictures and loads
the neighbouring parts as the user nears the end of what is loaded.  The
repository has no tests and an empty README; what a piece of code promises is
said by its comments, which are quoted where a check refers to them.

The repository carries its libraries with it.  One of them is no mere
dependency: `Pods/WCDBOptimizedSQLCipher` is SQLite 3.15.2 with changes of its
own (encryption, a wait queue for locks), 196,000 lines of C that hold nearly
all of the repository's code and nearly all of its concurrency and failure
handling.  No file of the application opens a database yet - WCDB is linked and
not imported - so that what the C library must guarantee is stated for the
connections of any program.  Its core, from the file locks to the two kinds of
journal, is modelled here; the rest of the library and the other pods are not.

Paths below are relative to `src/MK_ComickBook/MK_ComickBook/` for the
application and to `src/MK_ComickBook/Pods/WCDBOptimizedSQLCipher/src/` for the
C files.

## 1. Inventory

### The application

All code of the application runs on the main thread: UIKit's callbacks, the
network answers (Moya calls back on the main queue) and the RxSwift
subscriptions, which run synchronously inside the assignment that triggers
them.  There are no data races.  The hard behaviour comes from *when* the
callbacks run: answers arrive in any order or fail, UIKit reports pages
entering and leaving the screen around reloads, and the code remembers indices
between callbacks.

| Component | Source | State | Operations | What makes it correct |
|---|---|---|---|---|
| Reader content view | `UI/漫画阅读器/内容视图/MK_ComicReadContentV.swift` | sections of pictures, part index of section 0, `state`, page and part being read, last page about to appear | set-up, two kinds of load with answers, data source, `willDisplay`/`didEndDisplaying` | sections in story order, each part loaded once, status bar true to the screen, no index out of range, loading goes on to the end of the book |
| Reader view controller | `UI/漫画阅读器/MK_ComicReadVC.swift` | the book, the start index | serves parts by index, fills the status bar | the title's index is in the book |
| Status bar | `UI/漫画阅读器/状态栏/MK_ComicReadStateBar.swift` | three labels, a timer | clock tick | – |
| Detail view controller | `UI/漫画详情/MK_ComickInfoVC.swift` | – | one request for the book | both halves get the answer |
| Book information | `UI/漫画详情/漫画书信息展示/MK_ComickI_BookInfoV.swift` | model, cover | model set, cover answered | cover asked for once per model |
| Part list | `UI/漫画详情/漫画话列表展示/*.swift` | model, order of the button, parts listed, row selected | book arrives, order tapped, row tapped | list holds the book in the order shown; the tapped part is opened |
| Data source | `BLL/数据源/MK_DataSource*.swift` | two `Action`s | execute, answer | one answer per request |
| DMZJ source | `BLL/数据源/动漫之家/*.swift` | two `Action`s, decoded models | request, decode, flatten volumes, list a part's pictures | parts of all volumes in order |
| Navigation, base controllers | `Lib/基础控件/MK_MainNavigationV.swift`, `MK_BaseVC.swift` | navigation stack, bar hidden or not | push, pop, appear | what is on top can be left |
| Web controller | `Lib/基础控件/MK_BaseWebVC.swift` | URL, web view | not used by the application | – |
| Extensions, device table, shell | `Lib/扩展`, `Lib/Device`, `AppDelegate.swift`, `UI/首页`, `Define.swift` | none | hexadecimal colours; constants | colours equal their digits |

Interaction: the detail controller executes `comicBookInfoAction` and writes
the answer to both halves; the part list pushes a reader controller with the
row as `startIndex`; the reader controller creates the content view, which asks
it for parts by index and each part for its pictures; the content view's
`currentShowIndex` and `currentReadIndex` drive the status bar.

A book lists its *newest* part first.  The next part of the story therefore has
index − 1, the previous one index + 1, and section *s* of the reader is titled
with part `zeroSectionIndex - s`.

### The database library

| Component | Source | State | Operations | What makes it correct |
|---|---|---|---|---|
| File locks | `os_unix.c` | level of each handle; per file and process the level, two counters, parked descriptors; the system's byte locks | lock, unlock, check for a reserved lock, close | one writer, alone with the file; no lock lost to a sibling's call |
| Wait queue | `os_wcdb.c`, `queue.c`, `mutex_wcdb.c` | per file and process a queue of connections held up by siblings | wait, give way, signal, time out | no lost wake-up, no wait in a circle |
| Pager, rollback journal | `pager.c` | per connection cache, dirty pages, change counter; database file and journal | begin, read, write, spill, commit, roll back, play back a hot journal | commits atomic, isolated and durable |
| Write-ahead log | `wal.c` | log file; wal-index with two headers, read marks, count of copied frames; per connection header, read lock, cache | read, write, spill, commit, roll back, restart the log, checkpoint, recover | snapshots for readers, atomic commits, nothing synced is lost |
| B-tree, virtual machine, parser, extensions | `btree.c`, `vdbe*.c`, ... | cursors, programs, schema | SQL | not modelled |

Connections live in threads of one process or in several processes.  Locks
belong to the process, which is why `os_unix.c` counts them per file; system
calls of processes interleave freely; a process may end and the power may fail
between any two of them; what was written and not synced is on the disk or not.
A pager calls the locks through the VFS and, in WAL mode, `wal.c` for pages and
commits; `wal.c` synchronises through locks of its own on the shared wal-index
and by reading headers twice.  `WCDB.swift/.../Database.swift:419-458` sets
every database to `journal_mode=WAL` at `synchronous=NORMAL` and runs passive
checkpoints from a queue of its own, with a second connection of the process.

The hazards, each at its line, are in `PROJECT.json`.

## 2. Modules

| Module | Role |
|---|---|
| `ReadContentV` | the reader: content view and view controller, with UIKit and the server as environment; the properties that hold in every environment |
| `ForwardReader` | EXTENDS it: the reader opened on the first part of the story; stronger safety, refinement, liveness; the promises that fail elsewhere |
| `StoryReader` | what a reader promises, without sections, requests or UIKit; implemented by `ForwardReader` |
| `ReadContentVProofs` | theorems about `ReadContentV`, for every value of its constants |
| `ForwardReaderProofs` | the safety theorems of `ForwardReader`, that it implements `StoryReader`, and that the status bar follows, for every value of the constants that is a `ForwardEnvironment` |
| `ReadCell` | the pictures in the reader's reused cells: `cellForItemAt` with Kingfisher's downloads |
| `ReadCellProofs` | the theorem of `ReadCell`, for any number of cells and pages |
| `ComickInfo` | the detail screen: request for the book and what its response comes to, cover, list of parts, order button, opening the reader |
| `ComickInfoProofs` | its theorems, for every set of books |
| `FileLock` | the lock ladder of SQLite: who may hold which of the five levels at once |
| `UnixLock` | POSIX locks and WCDB's wait queue; implements `FileLock` |
| `UnixLockProofs` | its theorems, for any number of connections and processes |
| `SnapshotStore` | what a rollback journal promises: one image, atomic commits, recovery to a committed image |
| `Pager` | the pager with a rollback journal, on the locks of `FileLock`; implements `SnapshotStore` |
| `PagerProofs` | its theorems, for any number of connections, pages and contents |
| `VersionStore` | what the log promises: readers with images of their own, one writer, atomic commits |
| `Wal` | the write-ahead log; implements `VersionStore` |
| `WalSteps` | what every step of `Wal` changes; types, locks and headers, the marks of the readers and the count of copied frames, for any number of connections, pages, frames, read marks and salts |
| `WalProofs` | EXTENDS it: the contents of the log, the database and the caches, the chain of checksums, the refinement of `VersionStore`, and what a loss of power leaves |
| `MCReadContentV`, `MCForwardReader`, `MCReadCell`, `MCComickInfo`, `MCUnixLock`, `MCPager`, `MCWal` | constant values for TLC |

The reader and the detail screen meet only in `startIndex`, which `ComickInfo`
produces and `ReadContentV` takes as a constant.  The database modules form a
tower: `UnixLock` implements `FileLock`, and `Pager` takes its locks by the
actions of `FileLock`, so what is shown of the pager holds on the locks of
`os_unix.c`.  `Wal` stands beside the pager: in WAL mode the pager's own file
protocol is not used.

Definitions named `..Slip` are likely mistakes in the definition that follows
them.  They are used nowhere in the specifications; replacing the definition by
its slip must make the named property fail (`mutants` in `PROJECT.json`).

### ReadContentV

State, by the code's names: `currentImageArr` (for each section the part whose
pictures it holds, instead of their URLs), `zeroSectionIndex`, `state` (its
associated index is only used to send the request and is left out),
`currentShowIndex`, `currentReadIndex`, `willShowIndex`.  `endShowIndex` is
written and consumed in one callback and is the callback's path.  `loads`
counts outstanding requests per kind and part.

The environment's state: `strip` (the data source's pages in order), `offset`
and `drag` (the page at rest, the neighbour being dragged in), `visible` (the
cells on screen with the index paths they were laid out with), `needsLayout`
(after `reloadData`), `callbacks` (UIKit's reports of one layout or scroll step,
delivered one by one).

| Action | Code |
|---|---|
| `Init` | `init`, state `.setUp(index)` sends the first request at once |
| `SetUpAnswered`, `SetUpFailed` | lines 91-112; the one-page case starts two loads |
| `NextAnswered`, `PreviousAnswered`, `LoadFailed` | lines 117-156 |
| `WillDisplay` | `willDisplay`, 244-246 |
| `DidEndIgnored`, `DidEndDisplaying` | `didEndDisplaying` and the subscription to `endShowIndex`, 166-210, with the status bar's subscriptions of `MK_ComicReadVC` |
| `Layout`, `BeginDrag`, `EndDrag` | UIKit: a reload keeps the content offset and lays out again; paging moves one page, or is let go |

When `currentReadIndex` leaves the book the subscription in
`MK_ComicReadVC.swift:78` traps: no further action is enabled (`MainFree`).
Setting `Variable.value` runs the subscriptions before the next statement, so
the two switches of the handler see each other's state: `AsksPrevious` is
evaluated after `AsksNext`.

Freedom of the environment, each a constant: `Outcomes` of requests,
`WillOrders` and `EndReports` (in which order, and whether, a reload reports the
cells it lays out and those it replaces; UIKit documents neither), `Swipes` and
`LowestReturn` (how the user pages).  `MaxSections` bounds the paging: the user
stops when that many sections are loaded or asked for.

### ForwardReader and StoryReader

The reader is right when it is opened on the first part of the story and never
paged back to its very first page (`ForwardEnvironment`: `StartIndex =
PartCount - 1`, `LowestReturn >= 1`); the first page triggers the faulty load of
the previous part, whatever the rest does.  `StoryReader` states the promise
abstractly: an interval of parts is loaded and grows at its ends, one page is
read, and the two change independently.  The refinement mapping reads the
interval off `zeroSectionIndex` and the number of sections and the page off the
data source at `offset` - what is on the screen, not what the reader's
bookkeeping believes.

### ComickInfo

`model` is the `Variable` of both halves (they are set in one callback),
`bookAsked` the one request, `coverImage` the request for the cover, `orderType`
the button, `modelArr` the rows, `currentSelectIndex` and `startIndex` the
selection and the reader pushed for it.  A book is the sequence of its volumes'
sizes; `bookPartArray` flattens it as the model does, an unreadable volume being
empty.  What a response comes to is followed through the layers of the data
source (`comicBookInfoAction`, `bookAction`): a lost or refused request and text
that is no JSON end in an error, JSON that is no object in nil, and any object in
a book, if need be one without volumes.  An error and nil both leave the screen
as it is (`BookMissing`): the first has no error handler, the second stops at the
guards.  The `Action`s' `enabled` and `executing` are left out: either one is
executed once in the life of the application, so no execution is refused.

### ReadCell

`shows` is the page of each cell of the collection view (none in the reuse pool),
`image` the page whose picture its image view holds, `downloads` the downloads
under way, each marked when it is the last one started for its cell - the
identifier by which Kingfisher's `setImage` drops a late answer
(`Pods/Kingfisher/Sources/Extensions/ImageView+Kingfisher.swift:93-161`).  `CellForItem` is `cellForItemAt`
(`MK_ComicReadContentV.swift:232-241`): a string that is no URL starts no
download, and nothing empties the image view then.  It is a module of its own
because it shares nothing with the state machine of the reader but the array of
strings, which it only reads.

### FileLock and UnixLock

`FileLock` is the ladder alone: its state is the level each connection holds, its
actions say which step is possible beside what the others hold.

`UnixLock` names its state after the code: `eFileLock` of a `unixFile`; `ilock`,
`nShared` and `nLock` of the `unixInodeInfo` of each process; `os`, the `fcntl`
locks of each process on the three byte ranges; `mutex` (`unixEnterMutex`); `pc`
and `want`, where each thread is and the level its call is for; `queue`, WCDB's
`qWaitQueue`.  One action is what happens between two system calls, because
other processes act between them:

| Action | Code |
|---|---|
| `Open`, `Close` | `fillInUnixFile`, `unixClose` with `closeUnixFile` (`nLock`, parked descriptors) |
| `Request` | `unixLock` 1592-1656: what siblings preclude, what needs no system call |
| `LockPendingByte`, `ReadLockRange`, `DropPendingByte`, `WriteLock` | `unixLock` 1645-1772, call by call |
| `Unlock`, `DowngradeRange`, `UnlockBytes`, `UnlockLast`, `FinishUnlock` | `posixUnlock` 1800-1955 |
| `BusyBySibling`, `WakeUp`, `SignalAndLeave` | `WCDBOsWait`, `pthreadCondWait`, `WCDBOsSignal` with `WCDBOsTrySignal` |
| `Crash` | a process ends and the system drops its locks |

`Held` is what a connection may rely on: from the moment the system granted a
lock to the first call that gives it back.  That, and not `eFileLock`, is mapped
to `FileLock`.  A queue entry of a closed handle is kept (`open` is false), and
the level read from its freed memory is any level (`LevelsRead`).

### SnapshotStore and Pager

`SnapshotStore` has the committed image, the images a loss of power may leave,
the view of each connection and who writes.

`Pager`: `held` is `Pager.eLock`; `pc`, `call` and `todo` the point a connection
has reached (`eState` follows from it), what for, and the pages it still has to
write; `cache`, `dirty`, `vers` its cache, dirty list and `dbFileVers`; `db` and
`platter` the database file and what the disk may hold of each page; `jrnl`,
`jsync`, `jnew` the journal, what of it is surely on the disk, and whether its
name is not yet.

| Action | Code |
|---|---|
| `SharedLock`, `JournalExists`, `CheckReservedLock`, `ReadFirstByte` | `sqlite3PagerSharedLock`, `hasHotJournal`, one system call each |
| `LockHotJournal`, `GiveUp`, `StartPlayback`, `Validate` | `sqlite3PagerSharedLock` 5081-5249 |
| `ReadPage`, `Recycle`, `EndRead` | `readDbPage`, the page cache, `pagerUnlockAndRollback` |
| `Begin`, `Write`, `Spill` | `sqlite3PagerBegin`, `pager_write` with the journal record, `pagerStress` |
| `CommitPhaseOne`, `ExclusiveLock`, `SyncRecords`, `WriteHeader`, `SyncHeader` | commit or spill up to `syncJournal` |
| `NextPage`, `PagesDone`, `SyncDb` | `pager_write_pagelist` and `pager_playback`, page by page |
| `DeleteJournal`, `UnlockToShared`, `EndUnchanged`, `Rollback` | `pager_end_transaction`, `sqlite3PagerRollback` |
| `IOError`, `Crash`, `PowerLoss` | `pager_error`; the end of a process; a loss of power |

`Current`, the committed image, is the file with the journal played back: a
commit happens when the journal is deleted, and not before.  Abstracted: the
journal is a set of records with the pages under a counted header, a header is
written as a whole, records of a page are there or not; a new name is durable
from the first sync of its file.

### VersionStore and Wal

`VersionStore` differs from `SnapshotStore` in that a reader keeps its image
while others commit.

`Wal`: `log`, `salt` and `logDisk`, `saltDisk` are the log file and what the disk
may hold of it; `aHdr` the two copies of the header; `aPgno`, `nBackfill`,
`aReadMark` the rest of the wal-index (the hash tables are abstracted to what
they find, `FindFrame`); `sharedMask`, `exclMask` the locks; `wal` the `Wal`
object with `hdr`, `readLock`, `minFrame`, `iReCksum`; `dirty` and `kept` the
page cache in and between transactions; `pc`, `call`, `job` the point a
connection has reached and its local variables.

| Action | Code |
|---|---|
| `ReadHdr`, `HdrLocked`, `Recover` | `walIndexReadHdr`, `walIndexRecover` |
| `ChooseZero`, `LockMarkZero`, `ChooseMark`, `LockMark`, `CheckMark` | `walTryBeginRead`, with the second look at mark and header a step of its own |
| `EndRead`, `BeginWrite`, `Rollback` | `sqlite3WalEndReadTransaction`, `sqlite3WalBeginWriteTransaction`, `sqlite3WalUndo` |
| `Spill`, `Commit` | `pagerStress`, `sqlite3PagerCommitPhaseOne`: the call of `sqlite3WalFrames` |
| `RestartHdr`, `RestartHdr0`, `RestartInfo`, `KeepLog` | `walRestartLog`, `walRestartHdr`, each copy of the header a step |
| `WriteHeader`, `SyncHeader`, `LogPage`, `RewriteChecksum` | `sqlite3WalFrames`: header, frames appended or overwritten, `walRewriteChecksums` |
| `Publish`, `PublishHdr0` | `walIndexAppend`, `walIndexWriteHdr`; the commit is the write of copy 0 |
| `StartCheckpoint`, `InitIterator`, `VisitMark`, `LockZero`, `GiveUp`, `CopyPage`, `Backfilled`, `CheckpointFails`, `EndCheckpoint` | `sqlite3WalCheckpoint`, `walCheckpoint` |
| `Crash`, `PowerLoss` | the process ends and with it the wal-index; unsynced writes are lost, or not, or torn |

A checksum is ideal (it stands for the contents it was computed from), salts are
fresh, and every change of a page has a content of its own, so that an old image
is never mistaken for a new one.  Two steps are merged where nobody can see the
point in between: `LockZero` locks and syncs the log, `Backfilled` syncs the
database and stores the count.  Recovery is one step, since it holds every lock.
`recent` is history: the images committed since the log was last synced.

## 3. Checks

| Run | Instance | States | Shows |
|---|---|---|---|
| `reader` | 4 parts with 0, 1, 2 and 2 pages, opened on part 2, everything allowed, up to 5 sections | 134,934 | `TypeOK`; the opened part stays where `zeroSectionIndex` says; remembered index paths never leave the array; a loading state has its request outstanding; no part appears ahead of its title |
| `forward` | 4 parts with 1 or 2 pages, opened on the last index, pages turned both ways but not to the first page, failures, all report orders, fairness | 503 | story order, no trap, no part asked for twice, the status within one page of the screen, answers keep the page, refinement of `StoryReader`, reading reaches the end, a failed load is sent for again, loading ends |
| `cell` | 2 cells, 3 pages of which one has no URL | 1,714 | a page with a URL shows its own picture or none, whatever the cell showed before |
| `info` | all books of up to 3 volumes of up to 2 parts | 1,234 | the list is the book in one of its two orders, the reader is opened inside the book and, while the button says 倒序 as at first, on the part tapped, whenever the book came and however often the button was tapped |
| `filelocks` | two connections of one process, one of another, queue of up to 2 entries | 409,222 | `LockInv` and what follows: the writer is alone, no lock a connection relies on is taken away, no sleeper without a place in the queue; refinement of `FileLock` |
| `pager` | two connections in processes of their own, 2 pages, contents 0 and 1, change counter up to 2 | 353,485 | `PagerInv`; readers see the committed image, a kept cache is current; refinement of `SnapshotStore` with crashes, I/O errors and losses of power anywhere |
| `wal` | two connections of one process, 2 pages, 2 changes, 1 read mark besides number 0, 2 frames, 2 salts; up to the first state in which a restart has overtaken a checkpoint (constraint `NoneOvertaken`) | 677,706 | refinement of `VersionStore`; the files always hold the commits; what was synced survives; a kept cache is current; the count of copied frames stays within the log |

Violated by what the code does, one property each; `findings` in `PROJECT.json`
quotes the line and what a comment says of it:

| Run | What happens |
|---|---|
| `reader_previous_part` | at the first page, a *newer* part is put in front (line 205) |
| `reader_repeated_part` | paging forward from the middle of a book, a part is loaded twice and the titles no longer fit (two loads share one state) |
| `filelocks_stall` | with the entry of a timed-out wait at the front of the queue, two siblings that hold each other up both sleep until their ten seconds are over (31 steps) |
| `pager_siblings` | two connections of one process meet a hot journal: one's refused lock makes the other take the file for guarded, and it reads what the crash left |
| `wal_reset` | the instance of `wal` without its constraint: a checkpoint goes on with the header of a log that a writer has restarted, and counts frames that are gone (39 steps) |

`RestartHdr` is `walRestartLog` as it stands, with nothing added to its guard:
a writer may restart the log between a checkpoint's header and its lock
(`BeforeLock`), and both runs let it.  `NoneOvertaken` says that no checkpoint
at these points has the header of a log that is gone, unless there was nothing
in it to copy.  It is no promise of the code.  TLC checks the invariants of
`wal` in the states that violate it too and does not go on from them;
`wal_reset` goes on, and shows where that leads.  Two more things the models show have no run of their own: a failed first request
leaves the reader in `.setUp` for ever (`MK_ComicReadContentV.swift:92`), and a
row of the reversed list opens the part at the other end of the book
(`MK_ComicPartV.swift:61,75`), which is why `OpensTappedWhenInverted` speaks of the
other order only.  That property is not about the tap on a row alone: the
button, the list and the answer with the book have histories of their own, and
a tap on the button before the answer does leave them apart, the list in one
order and the button naming the other.  What it says is that they never part the
dangerous way, the list reversed under 倒序.

**Bounds.**  Four parts are the least that leave two on one side of the opened
part, so that requests of both kinds for different parts are outstanding
together and answers can overtake one another; a part of one page takes the
special case of the set-up and makes first and last page coincide; an empty part
makes a section without a row.  Five sections are enough for every part to be
loaded and one to be loaded twice; the `forward` run's six are never reached,
so there the bound cuts nothing off.  Two cells and three pages let a cell be
used three times while the other is busy, with a download of each use under way.
Three volumes of up to two parts have every combination of empty
and full neighbours that the flattening tells apart.

Two siblings and a stranger are the least number that has a conflict inside a
process, one between processes, and a descriptor parked for a sibling.  Two
queue entries hold a timed-out wait and a live one; `filelocks_stall` needs
three.  Two pages are the least that a crash can halve; two values tell the old
content from the new; counters up to 2 allow a commit, its loss with the power,
and another one.  A third page was checked outside the runs (952,338 states,
no difference).  For the log two frames hold a commit of two pages, or a
spilled page and its commit, or two commits, and are enough to be restarted
over; a second read mark was checked outside the runs (1,019,225 states, all
properties).  The type invariant also keeps every bound: `TypeOK` of `Wal` fails
when a count leaves the log.

**Fairness** (`FairSpec`).  Each request is eventually answered - by the server
or by the system's time-out - and the main queue runs the answer although
UIKit and the user keep disabling it between their callbacks: strong fairness
on the answers, per part.  UIKit lays out after a reload and delivers its
callbacks: weak fairness.  The user is under no obligation; `ReadsToTheEnd`
states the user's persistence as its own hypothesis (in the end only forward,
and a page is eventually turned rather than always let go), and so does
`RetriesFailedLoads`: the user turns to the last loaded page again and again, and
from some time on no request fails.  It is the one property that notices when a
failed load is not retried, since `ReadsToTheEnd` counts a failure as an end.  The `forward` run
checks its safety properties under the same specification.  The
C modules state no fairness: nothing in that code promises that a lock is
eventually granted, and its waits end by time-out.

## 4. Proofs

`ReadContentVProofs` proves for every `PartCount`, `Pages`, `StartIndex` and
`MaxSections` and every behaviour of user, server and UIKit:

* `TypeCorrect`, `OpenedPartIsAnchored`, `SectionsAlwaysExist` from the
  inductive invariant `ReaderInv` (`ReaderInvariant`);
* `NoLoadIsAbandoned` and `LaterSectionsAreNeverAhead` on top of it.

`SectionsExist` is not inductive: paths are computed from the strip, so the
invariant adds that the strip's pages belong to sections of the data source
(`StripOfSections`), that the screen rests on the strip (`ScreenOnStrip`), and
that nothing is on screen or asked for before the one set-up request is answered
(`SetUpFirst`), without which a second set-up answer could shrink the array
under remembered paths.  A page's number is the part index its section stands
for rather than the section, so an insertion in front, which shifts all sections
and `zeroSectionIndex` together, leaves it unchanged: that is why old pages stay
valid.  `LaterSectionsNeverAhead` needs in addition that no outstanding request
for a next part is for one past the frontier (`NextNeverAhead`): sections only
grow, so the frontier only falls.  `NoAbandonedLoad` is kept by every step from
`ReaderInv`, because every answer that could take the last request away also sets
the state.

`ForwardReaderProofs` proves `ReadInOrder`, `NeverTraps` and
`EachPartIsAskedForOnce` from the assumption `ForwardEnvironment`, which stands in
each theorem.  The inductive invariant is `ForwardInv`.  What has to be shown is
that the handler never runs with the first page as the page about to appear, for
then it would ask for a previous part (`AsksPrevious`) and everything else would
break, as the failing runs show.  At the first page the reader is therefore in
one of three phases (`AtFirst`): as it was laid out, where every path that UIKit
has reported is that of the first page and the handler ignores it; with the
second page dragged in; or with that drag let go, where the page that leaves is
the one that was about to appear.  Past the first page, that page is never the
page about to appear (`PastFirst`): nothing dragged in, laid out or due is.
So at most one request is outstanding, for the part at the frontier, and the
state says so - except after the set-up of a part of one page, whose state is
that of the other load, but there is nothing to scroll then (`OneLoad`).

The second part of the module proves `AnswersKeepThePage` and `ReaderImplementsStory`, the
refinement of `StoryReader`.  It adds that the strip's pages follow each other in
the story up to the last page of the last part (`StripFollows`): the next part is
only asked for from that page, so the part asked for joins up with it, while an
empty part ends the reading, as the code asks for nothing past it.

The third part proves `StatusIsNear`.  The bar is right (`Exact`), is about to be told
of the page that was turned to (`Turned`), or lags by a page.  It lags only after
a reload came in the middle of a drag (`Reloaded`), whose callbacks UIKit may
report in any order, until a page is turned (`Behind`).  That it cannot fall
further behind needs that no second reload comes meanwhile: no part is being
loaded (`NothingAsked`), and the pages on the screen and the one about to appear
are not of the last section (`NotLast`), so that none of the callbacks asks for a
part.

`ReadCellProofs` proves `PagesShowTheirOwnPicture` from `CellInv`.  The property is
not inductive alone: a late picture is only harmless because the last download
started for a cell that shows a page with a URL is for that page
(`LastDownloadOwn`).

`ComickInfoProofs` proves `OpensTheTappedPart` from `InfoInv`, that the one answer
comes before there is a book and the reader on top was pushed for the row tapped
last, and `OrderInv`, that a list in the opposite order stands under 正序 only: the
book arrives in its own order under whichever order, and each tap after it lists
the book by what the button then says.  `ListIsTheBook` and `OpensAnIndex` rest on
`ListInv`, that the list is the book's, one way round or the other, and on what
flattening does to a book of any length (`ListsBook`): the list of the first
volumes has each of their parts once, in order, and the next volume goes after
them.  `FlattenSeq` is a recursive function, and its values exist by well-founded
induction on the number of volumes, as the refutation of a least
counterexample (`LeastExists`, `FlattenedExists`).

`UnixLockProofs` proves for any connections, processes and assignment of one to
the other that `LockInv` is inductive (`LockInvHolds`).  The exclusions alone are
not: they hold because the counters of the shared inode agree with the levels
its siblings see (`InodeOK`), these with the byte locks of the system
(`SystemOK`), and the locks of different processes do not conflict
(`NoConflict`), at every point a thread can have reached inside or outside the
mutex (`CallOK`, `MutexOK`).  `WriterIsAloneHolds`, `OneOfAKindHolds` and
`SystemHoldsItHolds` follow from it, `SleeperIsQueuedHolds` is kept by every step
beside it, and `LadderHolds` is the refinement of `FileLock`.  Any bound on the
queue is allowed; the proofs do not use it.

`PagerProofs` proves `InvariantHolds`, `ReadersTheorem`, `KeptCacheTheorem` and
`RefinementTheorem` from the hypothesis `OneEach`, that no two connections share
a process: without it `pager_siblings` refutes the second.  The invariant
`PagerInv` says in `JournalOK` what the disk is sure to have of the journal
(`Base`: nothing while its name is not synced) and in `WriteAhead` that only a
page with a durable record under a durable header may differ between disk and
file.  From these two, `Recovered` of any file and journal a loss of power may
leave is the committed image - or, in the moment the journal has been deleted
and the deletion is not synced, also the one before.  For the refinement
`Current` and `Durable` are computed step by step: they change in
`DeleteJournal` and in failures, and nowhere else.

`WalSteps` and `WalProofs` prove the log correct in five layers, each from the
one below, and from the fourth that it implements `VersionStore`, for any
connections, pages, contents, read marks, frames and salts.

* *Points, locks and headers* (`BaseInvariant`, and `TypeCorrect` from it).  At
  every point where a connection can be preempted, what it holds of the
  locks, what it keeps in `wal` and in its job is what that point needs
  (`OwnOK`, `LocksOK`, `HdrsOK`); the two copies of the header agree, or a writer, a
  restart or a recovery is between the two writes.  This layer holds whenever the
  log is restarted.
* *Marks and counts* (`MarksInvariant`, and `BackfillHolds` from it).  A reader
  at its mark keeps every checkpoint from copying past it and every writer from
  restarting the log: what a checkpoint counts is at most the mark of each reader
  it has not yet visited, or of the one it has.
* *Contents* (`ContentsInvariant`, and `KeptCurrent` from it).  What the frames up
  to a mark, over the database, make of a page is the same before and after a
  checkpoint copies it, before and after a restart, and before and after a writer
  appends frames past the mark; so a cache that was filled under a header that is
  still the current one is still right.
* *The chain of checksums* (`ChainInvariant`, and `CommitsHeld` from it).  A new
  process finds commits by their checksums alone, in a file that still holds the
  frames of older logs and of transactions rolled back.  That it finds the last
  one needs that the checksums chain up to the published header (`SealedOK`); that
  it finds no other needs that no frame beyond is a commit with a valid chain
  (`NoneBeyond`).  While a writer appends, this holds because the checksum of a left
  over frame covers an older content of a page that the writer has changed since
  (`StaleOK`, `FirstOK`); while a writer that overwrote a frame of its own is yet to
  recompute the checksums, because the chain is broken at that frame.
* *The disk* (`DiskInvariant`, and `SyncedSurvive` from it).  A loss of power may
  leave of each slot of the log, of its header and of each page of the database
  any of the contents written since the last sync of it.  Whatever it leaves,
  recovery finds one of the commits made since the log was last synced, or the one
  at that sync.  That is not inductive by itself.  A page of which the disk may hold something
  else than the file is in every log that may be left, so its content there does
  not count (`CoverOK`), and it is on the disk for certain before a writer begins
  a new log over the old (`RestOK`); what a checkpoint copies was synced before
  (`CopyOK`); no log that may be left has more of the log than its file has
  (`ShortOK`), because no commit that may be on the disk was sealed over a content
  that a writer is about to overwrite (`StaleDiskOK`); a header that is not synced
  comes before the first commit (`PendingOK`, `SyncedOK`) and its salt is nowhere
  on the disk (`FreshOK`).

`StoreImplemented` is the refinement.  A transaction begins for `VersionStore` when
the read mark is found unchanged after it was locked (`CheckMark`, or
`LockMarkZero` for a reader of the database alone) and for a writer in
`BeginWrite`; it ends in `EndRead`, for a writer after `Rollback` or the second
write of the header (`PublishHdr0`), which is the commit; `Write` changes an image.  Every other step
changes neither an image that a connection in a transaction sees, nor what is
current, nor the writer, and the work is in showing this of the steps that change
the files and the index: a page may be copied and a frame replaced only where no
mark reaches (*Marks*, *Contents*); `Recover` may find in the file only the image
that is current already, and a process that ends may leave only that one or the
commit being published (*Chain*).

The last four layers and the refinement are theorems about the same `Spec`, which
restarts the log whenever the code does, and have a hypothesis about the
behaviour: `Spec /\ []NoneOvertaken => []...`.  It takes no step away; it says of
which behaviours the theorem speaks, those in which no checkpoint is overtaken,
and with the lemma `RestartOvertakes` it says that of every step of a restart.  The
code has no lock that would discharge it, and `wal_reset` refutes `BackfillWithinLog`
without it: the theorems say that this is the only thing that goes wrong.  The greatest and least frame
that the code looks for exist by well-founded induction on the naturals
(`NatLessThanWellFounded`), which needs no operator as a parameter.

Assumptions: the types of the constants (`ReaderAssumption`,
`UnixLockAssumption`, `PagerAssumption`, `JournalAssumption`, `WalAssumption`),
`ForwardEnvironment`, `OneEach` and `[]NoneOvertaken` where they are stated, and in `ReadCell` that
the pages with a URL are pages and that "no page" is none of them
(`CellAssumption`), and in `Wal` that what is left of a torn page is no content
that was committed.  Every safety property that a passing run checks is
a theorem.  Model-checked only is liveness, `ReadsToTheEnd`, `RetriesFailedLoads` and
`LoadingEnds` of the run `forward`, which is out of the prover's reach.

## 5. Not modelled, and the plan

Modelled are the application's own state machines, and of the C library the
locks, the pager and the log.  The map covers about 4,300 lines, a small part of
the 196,000 lines of the library: most of these are the B-tree, the virtual
machine, the parser, full-text search, and interfaces without state of their own.
What remains, in the order planned:

1. Savepoints and a database that grows and shrinks, in `Pager` and `Wal`.
2. Checkpoints in the modes FULL, RESTART and TRUNCATE; the file locks of
   `unixShmSystemLock`, by which several processes share a wal-index; WCDB's wait
   in `unixShmLock`.
3. A journal over several databases (master journals), the journal modes PERSIST,
   TRUNCATE and MEMORY, locking_mode=EXCLUSIVE.
4. The B-tree's balancing as an algorithm on pages.
5. `Navigation`: the stack, the bar's visibility, the back button
   (`MK_MainNavigationV.swift`, `MK_BaseVC.swift`), composed with `ComickInfo`.

Left out for good: layout, colours, fonts and texts; the device table and the
request targets (constants); the application shell; the web view controller and
the colour extension, which nothing else uses; the other locking styles of
`os_unix.c`, the virtual machine, parser and extensions of SQLite, which reach
files only through the pager; the other pods, whose behaviour is modelled as the
application sees it.
