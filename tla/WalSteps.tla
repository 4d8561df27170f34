------------------------------ MODULE WalSteps ------------------------------
(***************************************************************************)
(* Proofs about Wal, for any connections, pages, contents, read marks,     *)
(* frames and salts: what each step changes, and what holds of the types,  *)
(* of the points, locks and tasks of each connection, and of the headers   *)
(* of the wal-index and of the connections.  None of this depends on when  *)
(* the log is restarted.  Then, as long as no writer restarts it between   *)
(* the moment a checkpoint reads the header and the moment it locks        *)
(* WAL_READ_LOCK(0) (run wal_reset shows what happens otherwise), the      *)
(* marks of the readers and the count of the frames copied.                *)
(***************************************************************************)
EXTENDS Wal, WellFoundedInduction, TLAPS

-----------------------------------------------------------------------------
(* Bounded sets of numbers have a smallest and a largest element. *)

LEMMA SmallestExists ==
  ASSUME NEW T, T \subseteq Nat, T # {}
  PROVE  \E x \in T : \A y \in T : x <= y
<1> DEFINE R == {r \in Nat \X Nat : r[1] < r[2]}
<1>1. IsWellFoundedOn(R, Nat)
  BY NatLessThanWellFounded, Zenon DEF OpToRel
<1>2. \E x \in T : \A y \in T : ~(<<y, x>> \in R)
  <2> HIDE DEF R
  <2> QED
    BY <1>1, WFMin, Zenon
<1>3. \A x, y \in T : ~(<<y, x>> \in R) => x <= y
  OBVIOUS
<1> QED
  BY <1>2, <1>3

LEMMA MinOK ==
  ASSUME NEW S, S \subseteq Nat, S # {}
  PROVE  Min(S) \in S /\ \A y \in S : Min(S) <= y
  BY SmallestExists DEF Min

LEMMA LargestOK ==
  ASSUME NEW n \in Nat, NEW S, S \subseteq 0 .. n
  PROVE  /\ Largest(S) \in 0 .. n
         /\ S = {} => Largest(S) = 0
         /\ S # {} => Largest(S) \in S
         /\ \A y \in S : y <= Largest(S)
<1>1. CASE S = {}
  BY <1>1 DEF Largest
<1>2. CASE S # {}
  <2> DEFINE T == {n - x : x \in S}
  <2>1. T \subseteq Nat /\ T # {}
    <3>1. \A x \in S : n - x \in T /\ n - x \in Nat
      OBVIOUS
    <3>2. T \subseteq Nat
      BY <3>1
    <3>3. PICK x \in S : TRUE
      BY <1>2
    <3> QED
      BY <3>1, <3>2, <3>3
  <2>2. PICK t \in T : \A y \in T : t <= y
    BY <2>1, SmallestExists
  <2>3. PICK x \in S : t = n - x
    OBVIOUS
  <2>4. \A y \in S : n - y \in T
    OBVIOUS
  <2>5. \A y \in S : x >= y
    BY <2>2, <2>3, <2>4
  <2>6. Max(S) \in S /\ \A y \in S : Max(S) >= y
    BY <2>5 DEF Max
  <2> QED
    BY <1>2, <2>6 DEF Largest
<1> QED
  BY <1>1, <1>2

-----------------------------------------------------------------------------
(* The types of everything. *)

Content  == (0 .. MaxChange) \cup {Torn}
PayloadT == (0 .. NPage) \X Content \X BOOLEAN
HdrT     == [init : BOOLEAN, salt : 0 .. MaxSalt, mx : 0 .. MaxFrame, sum : Seq(PayloadT)]
FrameT   == [page : 0 .. NPage, val : Content, last : BOOLEAN, salt : 0 .. MaxSalt,
             sum : Seq(PayloadT)]
WalT     == [hdr : HdrT, readLock : -1 .. NMark, minFrame : 0 .. MaxFrame + 1,
             iReCksum : 0 .. MaxFrame]
JobT     == [slot : 0 .. NMark + 1, mark : 0 .. MaxFrame, first : 0 .. MaxFrame + 1,
             iFrame : 0 .. MaxFrame, todo : SUBSET Page, batch : SUBSET Page,
             iter : [Page -> 0 .. MaxFrame], changed : BOOLEAN]

TypesOK ==
  /\ TypeOK
  /\ log \in [Slot -> FrameT]
  /\ logDisk \in [Slot -> SUBSET FrameT]
  /\ aHdr \in [{0, 1} -> HdrT]
  /\ wal \in [Conn -> WalT]
  /\ job \in [Conn -> JobT]
  /\ dirty \in [Conn -> [Page -> Content \cup {NoPage}]]
  /\ kept \in [Conn -> [Page -> Content] \cup {NoImage}]

-----------------------------------------------------------------------------
(* What a connection keeps to by itself: the points it passes, *)

\* from the start of sqlite3WalFrames on
Alone    == {"frames", "restart", "restarted", "header", "headersync", "append", "rewrite",
             "publish", "publish0"}
Marking  == {"choose", "chosen", "check"}
Logging  == {"header", "headersync", "append", "rewrite", "publish", "publish0"}
Logged   == {"rewrite", "publish", "publish0"}
CkPoints == {"ckhdr", "ckstart", "ckslot", "ckzero", "ckcopy", "ckend"}
Waiting  == {"idle", "ckhdr", "ckend"}

PointOK(c) ==
  /\ call[c] = "ckpt" <=> pc[c] \in CkPoints
  /\ pc[c] \in Alone => useWal(c)
  /\ useWal(c) => pc[c] \in Alone \cup Marking
  /\ pc[c] \in {"rewrite", "publish0"} => call[c] = "commit"
  /\ pc[c] \in {"reader", "writer", "frames"} => wal[c].readLock >= 0
  /\ pc[c] \in {"restart", "restarted"} => wal[c].readLock = 0
  /\ pc[c] \in Logging => wal[c].readLock > 0
  /\ wal[c].readLock >= 0 => pc[c] \in WritePoints \cup {"reader"}
  /\ pc[c] \in {"chosen", "check", "ckslot"} => job[c].slot \in Mark
  /\ pc[c] \in {"chosen", "check"} => job[c].mark <= wal[c].hdr.mx
  /\ pc[c] \notin Waiting => wal[c].hdr.init

\* the transaction it logs, or the checkpoint it makes,
TaskOK(c) ==
  /\ job[c].changed => pc[c] \in CkPoints \ {"ckhdr"}
  /\ useWal(c) => (pc[c] \in Logged <=> job[c].todo = {})
  /\ useWal(c) /\ pc[c] # "publish0" => job[c].iFrame >= wal[c].hdr.mx
  /\ wal[c].iReCksum # 0 =>
       /\ Writing(c) /\ wal[c].readLock > 0
       /\ wal[c].iReCksum <= IF pc[c] = "rewrite" THEN job[c].iFrame ELSE wal[c].hdr.mx
  /\ pc[c] = "rewrite" => wal[c].iReCksum # 0
  /\ pc[c] \in {"publish", "publish0"} /\ call[c] = "commit" => wal[c].iReCksum = 0
  /\ pc[c] \in {"ckslot", "ckzero", "ckcopy"} => job[c].mark <= wal[c].hdr.mx

\* and the locks it holds at them.
LockOK(c) ==
  /\ WAL_WRITE_LOCK \in exclMask[c] <=> Writing(c)
  /\ WAL_CKPT_LOCK \in exclMask[c] <=> call[c] = "ckpt"
  /\ WAL_READ_LOCK(0) \in exclMask[c] <=> pc[c] = "ckcopy"
  /\ \A i \in Mark : WAL_READ_LOCK(i) \in exclMask[c] <=> pc[c] \in {"restart", "restarted"}
  /\ \A i \in 0 .. NMark :
       WAL_READ_LOCK(i) \in sharedMask[c] <=>
         wal[c].readLock = i \/ (pc[c] = "check" /\ job[c].slot = i)

LocksOK == \A c, d \in Conn : c # d => exclMask[c] \cap (exclMask[d] \cup sharedMask[d]) = {}

LocalOK == \A c \in Conn : PointOK(c) /\ TaskOK(c) /\ LockOK(c)

-----------------------------------------------------------------------------
(* The headers: that of the wal-index, and those the connections have. *)

\* The wal-index as it is before it is recovered.
Unused ==
  /\ aHdr[0] = NoHdr /\ aHdr[1] = NoHdr /\ nBackfill = 0
  /\ \A c \in Conn : pc[c] \in Waiting /\ wal[c] = NoWal /\ kept[c] = NoImage

\* Nobody else has a header with the salt of this one.
Fresher(c) ==
  \A d \in Conn \ {c} : wal[d].hdr.init => wal[d].hdr.salt # wal[c].hdr.salt

HdrOK ==
  /\ ~aHdr[0].init => Unused
  /\ aHdr[1] # aHdr[0] => \E c \in Conn : pc[c] \in {"restart", "publish0"}

\* The header of the writer is that of the wal-index, or goes on from it, or
\* begins a new log.
WriterHdrOK(c) ==
  /\ pc[c] \in {"restart", "publish0"} => aHdr[1] = wal[c].hdr
  /\ pc[c] = "restart" =>
       /\ wal[c].hdr.mx = 0
       /\ wal[c].hdr.salt # aHdr[0].salt
       /\ Fresher(c)
  /\ Writing(c) /\ pc[c] # "restart" =>
       /\ wal[c].hdr.mx >= aHdr[0].mx
       /\ wal[c].hdr.salt # aHdr[0].salt => aHdr[0].mx = 0 /\ Fresher(c)
  /\ pc[c] \in {"writer", "frames", "header"} => wal[c].hdr = aHdr[0] \/ wal[c].hdr.mx > aHdr[0].mx
  /\ pc[c] \in {"header", "restarted"} => wal[c].hdr.mx = 0
  /\ pc[c] \in {"writer", "frames"} /\ wal[c].readLock = 0 => wal[c].hdr = aHdr[0]
  /\ pc[c] = "restarted" \/ (useWal(c) /\ pc[c] \in Marking) => wal[c].hdr = aHdr[0]
  /\ useWal(c) /\ job[c].first # 0 =>
       job[c].first = aHdr[0].mx + 1 /\ wal[c].hdr.mx > aHdr[0].mx
  /\ wal[c].iReCksum # 0 => wal[c].iReCksum > aHdr[0].mx
  /\ pc[c] \in {"rewrite", "publish"} => job[c].iFrame > aHdr[0].mx
  /\ pc[c] = "publish0" => wal[c].hdr.mx > aHdr[0].mx

\* That of another is older, or the same, if it is of the same log.
OtherHdrOK(c) ==
  ~Writing(c) /\ wal[c].hdr.init /\ wal[c].hdr.salt = aHdr[0].salt =>
    /\ wal[c].hdr.mx <= aHdr[0].mx
    /\ wal[c].hdr.mx = aHdr[0].mx => wal[c].hdr = aHdr[0]

HdrsOK == HdrOK /\ \A c \in Conn : WriterHdrOK(c) /\ OtherHdrOK(c)

-----------------------------------------------------------------------------
(* The frames copied, and the marks of the readers. *)

\* A connection that ignores the log has all of it in the database.
BackOf(c) ==
  /\ wal[c].hdr = aHdr[0] /\ ((wal[c].readLock = 0 /\ pc[c] # "restarted") \/ pc[c] = "zero") =>
       nBackfill = aHdr[0].mx
  /\ useWal(c) /\ pc[c] \in Marking \cup {"restart"} => nBackfill = aHdr[0].mx
  /\ pc[c] \in {"restart", "restarted"} => nBackfill > 0

BackOK ==
  /\ nBackfill <= aHdr[0].mx \/ \E c \in Conn : pc[c] = "restarted"
  /\ \A c \in Conn : BackOf(c)

\* A reader's mark is not past its header, and what it reads from the database
\* is there.
MarkOK(c) ==
  /\ pc[c] = "check" \/ wal[c].readLock > 0 => wal[c].minFrame \in 1 .. nBackfill + 1
  /\ wal[c].readLock > 0 =>
       /\ aReadMark[wal[c].readLock] <= wal[c].hdr.mx
       /\ aReadMark[wal[c].readLock] <= aHdr[0].mx
  /\ pc[c] = "reader" /\ wal[c].readLock > 0 => wal[c].hdr.mx <= aHdr[0].mx

\* A checkpoint goes on in the log it began with,
CkptOK(k) ==
  /\ pc[k] \in {"ckstart", "ckslot", "ckzero", "ckcopy"} =>
       /\ wal[k].hdr.mx <= aHdr[0].mx
       /\ \A c \in Conn : pc[c] # "restart"
  /\ pc[k] = "ckcopy" => nBackfill < job[k].mark

\* and what it copies no reader with a mark will look for in the database.
Passed(k, c) ==
  /\ wal[c].readLock > 0
  /\ pc[k] \in {"ckzero", "ckcopy"} \/ (pc[k] = "ckslot" /\ wal[c].readLock < job[k].slot)

SafeOK(k, c) == Passed(k, c) => job[k].mark <= wal[c].hdr.mx

MarksOK ==
  /\ BackOK
  /\ \A c \in Conn : MarkOK(c) /\ CkptOK(c)
  /\ \A k, c \in Conn : SafeOK(k, c)

-----------------------------------------------------------------------------
(* The contents of the frames and of the database. *)

IndexOK == \A i \in 1 .. aHdr[0].mx : aPgno[i] = log[i].page /\ aPgno[i] # 0

FrameOf(c) ==
  Writing(c) => \A i \in 1 .. wal[c].hdr.mx : aPgno[i] = log[i].page /\ aPgno[i] # 0

\* The last of the first n frames with page p.
Last(n, p) == Largest({i \in 1 .. n : aPgno[i] = p})

DbOK ==
  \A p \in Page :
    Last(aHdr[0].mx, p) \in 1 .. nBackfill => db[p] = log[Last(aHdr[0].mx, p)].val

\* What is still to be copied, and what has been.
IterOK(k) ==
  /\ pc[k] \in {"ckslot", "ckzero"} => \A p \in Page : job[k].iter[p] = Last(wal[k].hdr.mx, p)
  /\ pc[k] = "ckcopy" =>
       \A p \in Page :
         LET i == Last(wal[k].hdr.mx, p)
         IN IF i \in nBackfill + 1 .. job[k].mark
            THEN job[k].iter[p] = i \/ (job[k].iter[p] = 0 /\ db[p] = log[i].val)
            ELSE job[k].iter[p] = 0

\* The pages that are to be logged, and those that have been.
BatchOK(c) ==
  /\ ~Writing(c) \/ pc[c] = "publish0" => dirty[c] = Clean
  /\ useWal(c) /\ pc[c] # "publish0" =>
       /\ job[c].todo \subseteq job[c].batch
       /\ call[c] = "commit" => Dirty(c) \subseteq job[c].batch
       /\ pc[c] \notin {"append", "rewrite", "publish"} =>
            job[c].iFrame = wal[c].hdr.mx /\ job[c].todo = job[c].batch

New(c) == wal[c].hdr.mx + 1 .. job[c].iFrame

NewOK(c) ==
  pc[c] \in {"append", "rewrite", "publish"} =>
    /\ \A i \in New(c) : /\ log[i].page \in job[c].batch \ job[c].todo
                         /\ log[i].val = Seen(c)[log[i].page]
    /\ \A i, j \in New(c) : log[i].page = log[j].page => i = j
    /\ \A p \in job[c].batch \ job[c].todo : \E i \in New(c) : log[i].page = p

KeptOK(c) ==
  kept[c] # NoImage =>
    /\ ~Writing(c)
    /\ pc[c] = "reader" => kept[c] = Seen(c)
    /\ wal[c].hdr = aHdr[0] /\ ~(call[c] = "ckpt" /\ job[c].changed) => kept[c] = Under(aHdr[0])

ContentOf(c) == FrameOf(c) /\ IterOK(c) /\ BatchOK(c) /\ NewOK(c) /\ KeptOK(c)

ContentsOK == IndexOK /\ DbOK /\ \A c \in Conn : ContentOf(c)

-----------------------------------------------------------------------------
(* What the operators return. *)

LEMMA Constants ==
  /\ NPage \in Nat /\ NPage > 0 /\ MaxChange \in Nat /\ NMark \in Nat /\ NMark > 0
  /\ MaxFrame \in Nat /\ MaxSalt \in Nat
  /\ 1 \in Page /\ 1 \in Mark
  /\ NoFrame \in FrameT /\ NoHdr \in HdrT /\ NoWal \in WalT /\ NoJob \in JobT
  /\ Clean \in [Page -> Content \cup {NoPage}]
<1>1. /\ NPage \in Nat /\ NPage > 0 /\ MaxChange \in Nat /\ NMark \in Nat /\ NMark > 0
      /\ MaxFrame \in Nat /\ MaxSalt \in Nat
  BY WalAssumption
<1>2. <<>> \in Seq(PayloadT)
  OBVIOUS
<1>3. NoHdr \in HdrT /\ NoFrame \in FrameT
  BY <1>1, <1>2 DEF NoHdr, HdrT, NoFrame, FrameT, Content
<1>4. NoWal \in WalT
  BY <1>1, <1>3 DEF NoWal, WalT
<1>5. NoJob \in JobT
  BY <1>1 DEF NoJob, JobT
<1> QED
  BY <1>1, <1>3, <1>4, <1>5 DEF Page, Mark, Clean

\* The fields of a connection, and the headers.
LEMMA Types ==
  ASSUME TypesOK
  PROVE  /\ nBackfill \in 0 .. MaxFrame /\ salt \in 0 .. MaxSalt /\ change \in 0 .. MaxChange
         /\ aHdr[0] \in HdrT /\ aHdr[1] \in HdrT
         /\ aHdr[0].init \in BOOLEAN /\ aHdr[0].salt \in 0 .. MaxSalt
         /\ aHdr[0].mx \in 0 .. MaxFrame /\ aHdr[0].sum \in Seq(PayloadT)
         /\ \A i \in Mark : aReadMark[i] \in 0 .. MaxFrame + 1
         /\ \A i \in Slot : /\ aPgno[i] \in 0 .. NPage
                            /\ log[i] \in FrameT
                            /\ log[i].page \in 0 .. NPage /\ log[i].val \in Content
                            /\ log[i].last \in BOOLEAN /\ log[i].salt \in 0 .. MaxSalt
                            /\ log[i].sum \in Seq(PayloadT)
         /\ \A p \in Page : db[p] \in Content
         /\ \A c \in Conn :
              /\ wal[c] \in WalT /\ job[c] \in JobT
              /\ wal[c].hdr \in HdrT
              /\ wal[c].hdr.init \in BOOLEAN /\ wal[c].hdr.salt \in 0 .. MaxSalt
              /\ wal[c].hdr.mx \in 0 .. MaxFrame /\ wal[c].hdr.sum \in Seq(PayloadT)
              /\ wal[c].readLock \in -1 .. NMark
              /\ wal[c].minFrame \in 0 .. MaxFrame + 1
              /\ wal[c].iReCksum \in 0 .. MaxFrame
              /\ job[c].slot \in 0 .. NMark + 1 /\ job[c].mark \in 0 .. MaxFrame
              /\ job[c].first \in 0 .. MaxFrame + 1 /\ job[c].iFrame \in 0 .. MaxFrame
              /\ job[c].todo \subseteq Page /\ job[c].batch \subseteq Page
              /\ job[c].iter \in [Page -> 0 .. MaxFrame] /\ job[c].changed \in BOOLEAN
              /\ dirty[c] \in [Page -> Content \cup {NoPage}]
              /\ pc[c] \in Points
              /\ call[c] \in {"none", "spill", "commit", "ckpt"}
              /\ sharedMask[c] \subseteq Lock /\ exclMask[c] \subseteq Lock
<1>1. /\ nBackfill \in 0 .. MaxFrame /\ salt \in 0 .. MaxSalt /\ change \in 0 .. MaxChange
      /\ \A i \in Mark : aReadMark[i] \in 0 .. MaxFrame + 1
      /\ \A p \in Page : db[p] \in Content
      /\ \A i \in Slot : aPgno[i] \in 0 .. NPage
  BY DEF TypesOK, TypeOK, Content, READMARK_NOT_USED
<1>2. /\ aHdr[0] \in HdrT /\ aHdr[1] \in HdrT
      /\ aHdr[0].init \in BOOLEAN /\ aHdr[0].salt \in 0 .. MaxSalt
      /\ aHdr[0].mx \in 0 .. MaxFrame /\ aHdr[0].sum \in Seq(PayloadT)
  BY DEF TypesOK, HdrT
<1>3. \A i \in Slot : /\ log[i] \in FrameT
                      /\ log[i].page \in 0 .. NPage /\ log[i].val \in Content
                      /\ log[i].last \in BOOLEAN /\ log[i].salt \in 0 .. MaxSalt
                      /\ log[i].sum \in Seq(PayloadT)
  BY DEF TypesOK, FrameT
<1>4. ASSUME NEW c \in Conn
      PROVE  /\ wal[c] \in WalT /\ wal[c].hdr \in HdrT
             /\ wal[c].hdr.init \in BOOLEAN /\ wal[c].hdr.salt \in 0 .. MaxSalt
             /\ wal[c].hdr.mx \in 0 .. MaxFrame /\ wal[c].hdr.sum \in Seq(PayloadT)
             /\ wal[c].readLock \in -1 .. NMark
             /\ wal[c].minFrame \in 0 .. MaxFrame + 1
             /\ wal[c].iReCksum \in 0 .. MaxFrame
  <2>1. wal[c] \in WalT
    BY DEF TypesOK
  <2>2. wal[c].hdr \in HdrT
    BY <2>1 DEF WalT
  <2> QED
    BY <2>1, <2>2 DEF WalT, HdrT
<1>5. ASSUME NEW c \in Conn
      PROVE  /\ job[c] \in JobT
             /\ job[c].slot \in 0 .. NMark + 1 /\ job[c].mark \in 0 .. MaxFrame
             /\ job[c].first \in 0 .. MaxFrame + 1 /\ job[c].iFrame \in 0 .. MaxFrame
             /\ job[c].todo \subseteq Page /\ job[c].batch \subseteq Page
             /\ job[c].iter \in [Page -> 0 .. MaxFrame] /\ job[c].changed \in BOOLEAN
  BY DEF TypesOK, JobT
<1>6. ASSUME NEW c \in Conn
      PROVE  /\ dirty[c] \in [Page -> Content \cup {NoPage}]
             /\ pc[c] \in Points
             /\ call[c] \in {"none", "spill", "commit", "ckpt"}
             /\ sharedMask[c] \subseteq Lock /\ exclMask[c] \subseteq Lock
  BY DEF TypesOK, TypeOK
<1> QED
  BY <1>1, <1>2, <1>3, <1>4, <1>5, <1>6

LEMMA FindFrameIn ==
  ASSUME TypesOK, NEW c \in Conn, NEW p \in Page
  PROVE  /\ FindFrame(c, p) \in 0 .. wal[c].hdr.mx
         /\ wal[c].readLock <= 0 => FindFrame(c, p) = 0
         /\ FindFrame(c, p) # 0 => /\ wal[c].readLock > 0
                                   /\ FindFrame(c, p) >= wal[c].minFrame
                                   /\ aPgno[FindFrame(c, p)] = p
         /\ wal[c].readLock > 0 =>
              \A i \in 1 .. wal[c].hdr.mx :
                i >= wal[c].minFrame /\ aPgno[i] = p => i <= FindFrame(c, p)
<1> DEFINE S == {i \in wal[c].minFrame .. wal[c].hdr.mx : aPgno[i] = p}
<1>1. /\ wal[c].hdr.mx \in 0 .. MaxFrame /\ wal[c].minFrame \in 0 .. MaxFrame + 1
      /\ wal[c].readLock \in -1 .. NMark
  BY Types
<1>2. S \subseteq 0 .. wal[c].hdr.mx
  BY <1>1
<1>3. /\ Largest(S) \in 0 .. wal[c].hdr.mx
      /\ S = {} => Largest(S) = 0
      /\ S # {} => Largest(S) \in S
      /\ \A y \in S : y <= Largest(S)
  BY <1>1, <1>2, LargestOK
<1> QED
  BY <1>1, <1>3, Constants DEF FindFrame

LEMMA HeldAt ==
  ASSUME TypesOK, NEW p \in Page, NEW i \in 0 .. MaxFrame
  PROVE  /\ Held(p)[i] = IF i = 0 THEN db[p] ELSE log[i].val
         /\ Held(p)[i] \in Content
<1>1. i # 0 => i \in Slot
  BY Constants DEF Slot
<1> QED
  BY <1>1, Types DEF Held

\* Page p as a connection sees it.
LEMMA SeenAt ==
  ASSUME TypesOK, NEW c \in Conn
  PROVE  /\ Seen(c) \in [Page -> Content]
         /\ \A p \in Page :
              Seen(c)[p] = IF dirty[c][p] # NoPage THEN dirty[c][p]
                           ELSE IF FindFrame(c, p) = 0 THEN db[p]
                           ELSE log[FindFrame(c, p)].val
<1>1. ASSUME NEW p \in Page
      PROVE  /\ Seen(c)[p] = IF dirty[c][p] # NoPage THEN dirty[c][p]
                             ELSE IF FindFrame(c, p) = 0 THEN db[p]
                             ELSE log[FindFrame(c, p)].val
             /\ Seen(c)[p] \in Content
  <2>1. FindFrame(c, p) \in 0 .. MaxFrame
    <3>1. FindFrame(c, p) \in 0 .. wal[c].hdr.mx /\ wal[c].hdr.mx \in 0 .. MaxFrame
      BY FindFrameIn, Types
    <3> QED
      BY <3>1, Constants
  <2>2. dirty[c][p] \in Content \cup {NoPage}
    BY Types
  <2> QED
    BY <2>1, <2>2, HeldAt DEF Seen
<1> QED
  BY <1>1 DEF Seen

LEMMA LastIn ==
  ASSUME TypesOK, NEW n \in 0 .. MaxFrame, NEW p \in Page
  PROVE  /\ Last(n, p) \in 0 .. n
         /\ Last(n, p) # 0 => aPgno[Last(n, p)] = p
         /\ \A i \in 1 .. n : aPgno[i] = p => i <= Last(n, p)
<1> DEFINE S == {i \in 1 .. n : aPgno[i] = p}
<1>1. S \subseteq 0 .. n /\ n \in Nat
  BY Constants
<1>2. /\ Largest(S) \in 0 .. n
      /\ S = {} => Largest(S) = 0
      /\ S # {} => Largest(S) \in S
      /\ \A y \in S : y <= Largest(S)
  BY <1>1, LargestOK
<1> QED
  BY <1>2 DEF Last

LEMMA UnderAt ==
  ASSUME TypesOK, NEW h \in HdrT
  PROVE  /\ Under(h) \in [Page -> Content]
         /\ \A p \in Page :
              Under(h)[p] = IF Last(h.mx, p) = 0 THEN db[p] ELSE log[Last(h.mx, p)].val
<1>1. ASSUME NEW p \in Page
      PROVE  /\ Under(h)[p] = IF Last(h.mx, p) = 0 THEN db[p] ELSE log[Last(h.mx, p)].val
             /\ Under(h)[p] \in Content
  <2>1. h.mx \in 0 .. MaxFrame
    BY DEF HdrT
  <2>2. Last(h.mx, p) \in 0 .. MaxFrame
    BY <2>1, LastIn, Constants
  <2>3. Under(h)[p] = Held(p)[Last(h.mx, p)]
    BY DEF Under, Last
  <2> QED
    BY <2>2, <2>3, HeldAt
<1> QED
  BY <1>1 DEF Under

\* The frames a new process reads.
LEMMA LogRead ==
  ASSUME TypesOK
  PROVE  /\ RecoveredHdr(log, salt) \in HdrT
         /\ RecoveredHdr(log, salt).init
         /\ RecoveredHdr(log, salt).mx <= Readable(log, salt)
         /\ Readable(log, salt) \in 0 .. MaxFrame
         /\ \A i \in 1 .. Readable(log, salt) : log[i].page # 0
<1> DEFINE S == {n \in Slot : Valid(log, salt, n)}
           T == {n \in Slot : log[n].last /\ Valid(log, salt, n)}
<1>1. MaxFrame \in Nat /\ S \subseteq 0 .. MaxFrame /\ T \subseteq 0 .. MaxFrame /\ T \subseteq S
  BY Constants DEF Slot
<1>2. /\ Largest(S) \in 0 .. MaxFrame
      /\ S # {} => Largest(S) \in S
      /\ \A y \in S : y <= Largest(S)
  BY <1>1, LargestOK
<1>3. /\ Largest(T) \in 0 .. MaxFrame
      /\ T # {} => Largest(T) \in T
      /\ T = {} => Largest(T) = 0
  BY <1>1, LargestOK
<1>4. S = {} => Largest(S) = 0
  BY <1>1, LargestOK
<1>5. Largest(T) <= Largest(S)
  BY <1>1, <1>2, <1>3
<1>6. /\ Readable(log, salt) \in 0 .. MaxFrame
      /\ Complete(log, salt) \in 0 .. MaxFrame
      /\ Complete(log, salt) <= Readable(log, salt)
  BY <1>1, <1>2, <1>3, <1>5 DEF Readable, Complete
<1>7. \A i \in 1 .. Readable(log, salt) : log[i].page # 0
  <2>1. CASE salt = 0 \/ S = {}
    BY <2>1, <1>4 DEF Readable
  <2>2. CASE salt # 0 /\ S # {}
    BY <2>2, <1>2 DEF Readable, Valid
  <2> QED
    BY <2>1, <2>2
<1>8. [i \in 1 .. Complete(log, salt) |-> Payload(log[i])] \in Seq(PayloadT)
  <2>1. \A i \in Slot : Payload(log[i]) \in PayloadT
    BY Types DEF Payload, PayloadT
  <2>2. \A i \in 1 .. Complete(log, salt) : i \in Slot
    BY <1>1, <1>6 DEF Slot
  <2> DEFINE n == Complete(log, salt)
             s == [i \in 1 .. n |-> Payload(log[i])]
  <2>3. n \in Nat /\ s \in [1 .. n -> PayloadT]
    BY <1>1, <1>6, <2>1, <2>2
  <2> HIDE DEF n, s
  <2>4. s \in Seq(PayloadT)
    BY <2>3
  <2> QED
    BY <2>4 DEF n, s
<1>9. salt \in 0 .. MaxSalt
  BY Types
<1> QED
  BY <1>6, <1>7, <1>8, <1>9 DEF RecoveredHdr, HdrT

-----------------------------------------------------------------------------
(* What a step of one connection leaves to the others. *)

\* The steps of a connection.
StepOf(c) == Read(c) \/ Change(c) \/ Checkpoint(c) \/ Recover(c) \/ PublishHdr0(c)
               \/ SyncHeader(c) \/ LockZero(c)

\* Only the variables of connection c may differ.
Only(c) ==
  /\ sharedMask' = [sharedMask EXCEPT ![c] = sharedMask'[c]]
  /\ exclMask' = [exclMask EXCEPT ![c] = exclMask'[c]]
  /\ wal' = [wal EXCEPT ![c] = wal'[c]]
  /\ dirty' = [dirty EXCEPT ![c] = dirty'[c]]
  /\ kept' = [kept EXCEPT ![c] = kept'[c]]
  /\ pc' = [pc EXCEPT ![c] = pc'[c]]
  /\ call' = [call EXCEPT ![c] = call'[c]]
  /\ job' = [job EXCEPT ![c] = job'[c]]

Stays(d) ==
  /\ sharedMask'[d] = sharedMask[d] /\ exclMask'[d] = exclMask[d]
  /\ wal'[d] = wal[d] /\ dirty'[d] = dirty[d] /\ kept'[d] = kept[d]
  /\ pc'[d] = pc[d] /\ call'[d] = call[d] /\ job'[d] = job[d]

OthersStay(c) == \A d \in Conn \ {c} : Stays(d)

SharedTypes ==
  /\ change \in 0 .. MaxChange
  /\ db \in [Page -> (0 .. MaxChange) \cup {Torn}]
  /\ platter \in [Page -> SUBSET ((0 .. MaxChange) \cup {Torn})]
  /\ salt \in 0 .. MaxSalt /\ saltDisk \subseteq 0 .. MaxSalt
  /\ aPgno \in [Slot -> 0 .. NPage]
  /\ nBackfill \in 0 .. MaxFrame
  /\ aReadMark \in [Mark -> 0 .. READMARK_NOT_USED]
  /\ log \in [Slot -> FrameT]
  /\ logDisk \in [Slot -> SUBSET FrameT]
  /\ aHdr \in [{0, 1} -> HdrT]

OwnTypes ==
  /\ sharedMask \in [Conn -> SUBSET Lock] /\ exclMask \in [Conn -> SUBSET Lock]
  /\ wal \in [Conn -> WalT]
  /\ dirty \in [Conn -> [Page -> Content \cup {NoPage}]]
  /\ kept \in [Conn -> [Page -> Content] \cup {NoImage}]
  /\ pc \in [Conn -> Points]
  /\ call \in [Conn -> {"none", "spill", "commit", "ckpt"}]
  /\ job \in [Conn -> JobT]

OwnType(c) ==
  /\ sharedMask[c] \subseteq Lock /\ exclMask[c] \subseteq Lock
  /\ wal[c] \in WalT
  /\ dirty[c] \in [Page -> Content \cup {NoPage}]
  /\ kept[c] \in [Page -> Content] \cup {NoImage}
  /\ pc[c] \in Points
  /\ call[c] \in {"none", "spill", "commit", "ckpt"}
  /\ job[c] \in JobT

LEMMA TypeParts == TypesOK <=> SharedTypes /\ OwnTypes
  BY DEF TypesOK, TypeOK, SharedTypes, OwnTypes

LEMMA TypePartsNext == TypesOK' <=> SharedTypes' /\ OwnTypes'
  BY DEF TypesOK, TypeOK, SharedTypes, OwnTypes

LEMMA OwnTypesKept ==
  ASSUME TypesOK, NEW c \in Conn, Only(c), OwnType(c)'
  PROVE  OwnTypes' /\ OthersStay(c)
<1>1. OwnTypes
  BY TypeParts
<1>2. OwnTypes'
  BY <1>1 DEF OwnTypes, OwnType, Only
<1>3. OthersStay(c)
  BY <1>1 DEF OwnTypes, Only, OthersStay, Stays
<1> QED
  BY <1>2, <1>3

\* What a step does to the connection that takes it.
Moves(c, from, to) == pc[c] = from /\ pc'[c] = to
SameCall(c)  == call'[c] = call[c]
SameLocks(c) == exclMask'[c] = exclMask[c] /\ sharedMask'[c] = sharedMask[c]
SameCache(c) == dirty'[c] = dirty[c] /\ kept'[c] = kept[c]
SameWal(c)   == wal'[c] = wal[c]
SameJob(c)   == job'[c] = job[c]

WalIs(c, h, r, m, k) ==
  /\ wal'[c].hdr = h /\ wal'[c].readLock = r
  /\ wal'[c].minFrame = m /\ wal'[c].iReCksum = k

JobIs(c, s, m, f, n, t, b, i, x) ==
  /\ job'[c].slot = s /\ job'[c].mark = m /\ job'[c].first = f /\ job'[c].iFrame = n
  /\ job'[c].todo = t /\ job'[c].batch = b /\ job'[c].iter = i /\ job'[c].changed = x

\* The same of the records as a whole.
WalRec(c, h, r, m, k) == wal'[c] = [hdr |-> h, readLock |-> r, minFrame |-> m, iReCksum |-> k]

JobRec(c, s, m, f, n, t, b, i, x) ==
  job'[c] = [slot |-> s, mark |-> m, first |-> f, iFrame |-> n, todo |-> t, batch |-> b,
             iter |-> i, changed |-> x]

LEMMA WalRecIs ==
  ASSUME NEW c, NEW h, NEW r, NEW m, NEW k, WalRec(c, h, r, m, k)
  PROVE  WalIs(c, h, r, m, k)
  BY DEF WalRec, WalIs

LEMMA JobRecIs ==
  ASSUME NEW c, NEW s, NEW m, NEW f, NEW n, NEW t, NEW b, NEW i, NEW x,
         JobRec(c, s, m, f, n, t, b, i, x)
  PROVE  JobIs(c, s, m, f, n, t, b, i, x)
  BY DEF JobRec, JobIs

\* The types of the fields, for a step to put together again.
WalFields(c) ==
  /\ wal[c].hdr \in HdrT /\ wal[c].readLock \in -1 .. NMark
  /\ wal[c].minFrame \in 0 .. MaxFrame + 1 /\ wal[c].iReCksum \in 0 .. MaxFrame

JobFields(c) ==
  /\ job[c].slot \in 0 .. NMark + 1 /\ job[c].mark \in 0 .. MaxFrame
  /\ job[c].first \in 0 .. MaxFrame + 1 /\ job[c].iFrame \in 0 .. MaxFrame
  /\ job[c].todo \in SUBSET Page /\ job[c].batch \in SUBSET Page
  /\ job[c].iter \in [Page -> 0 .. MaxFrame] /\ job[c].changed \in BOOLEAN

LEMMA Fields ==
  ASSUME TypesOK, NEW c \in Conn
  PROVE  /\ wal[c] \in WalT /\ job[c] \in JobT /\ WalFields(c) /\ JobFields(c)
         /\ OwnTypes /\ SharedTypes
<1>1. wal[c] \in WalT /\ job[c] \in JobT /\ OwnTypes /\ SharedTypes
  BY Types, TypeParts
<1>2. WalFields(c)
  BY Types DEF WalFields
<1>3. JobFields(c)
  BY Types DEF JobFields
<1> QED
  BY <1>1, <1>2, <1>3

LEMMA Sizes ==
  /\ NPage \in Nat /\ NPage > 0 /\ MaxChange \in Nat /\ NMark \in Nat /\ NMark > 0
  /\ MaxFrame \in Nat /\ MaxSalt \in Nat
  BY WalAssumption

LEMMA NewSaltIn ==
  ASSUME TypesOK, Fresh # {}
  PROVE  NewSalt \in 1 .. MaxSalt /\ NewSalt \notin Salts
  BY DEF NewSalt, Fresh

ReadHdrDoes(c) ==
  /\ \/ /\ Moves(c, "ckhdr", "ckstart")
        /\ HdrGood
        /\ SameCall(c)
        /\ SameLocks(c)
        /\ SameCache(c)
        /\ WalIs(c, aHdr[0], wal[c].readLock, wal[c].minFrame, wal[c].iReCksum)
        /\ JobIs(c, job[c].slot, job[c].mark, job[c].first, job[c].iFrame, job[c].todo,
                 job[c].batch, job[c].iter, (wal[c].hdr # aHdr[0]))
        /\ UNCHANGED <<dbVars, logVars, shmVars>>
     \/ /\ Moves(c, "idle", "choose")
        /\ HdrGood
        /\ SameCall(c)
        /\ SameLocks(c)
        /\ dirty'[c] = dirty[c] /\ kept'[c] = IF wal[c].hdr # aHdr[0] THEN NoImage
                             ELSE kept[c]
        /\ SameJob(c)
        /\ WalIs(c, aHdr[0], wal[c].readLock, wal[c].minFrame, wal[c].iReCksum)
        /\ UNCHANGED <<dbVars, logVars, shmVars>>

LEMMA ReadHdrEffect ==
  ASSUME TypesOK, NEW c \in Conn, PointOK(c), TaskOK(c), ReadHdr(c)
  PROVE  TypesOK' /\ OthersStay(c) /\ ReadHdrDoes(c)
<1>1. /\ wal[c] \in WalT /\ job[c] \in JobT /\ WalFields(c) /\ JobFields(c)
      /\ OwnTypes /\ SharedTypes
  BY Fields
<1>0. aHdr[0] \in HdrT
  BY Types
<1>2. Only(c)
  BY <1>1
  DEF OwnTypes, Only, ReadHdr, HdrRead, PointOK, CkPoints, Step, Goto, dbVars, logVars,
      shmVars, lockVars, TakeHdr
<1>3. CASE /\ call[c] = "ckpt"
           /\ job' = [job EXCEPT ![c].changed = wal[c].hdr # aHdr[0]]
           /\ UNCHANGED kept
           /\ pc[c] \in {"idle", "ckhdr"}
           /\ HdrGood
           /\ wal' = [wal EXCEPT ![c].hdr = aHdr[0]]
           /\ Goto(c, HdrRead(c))
           /\ UNCHANGED <<dbVars, logVars, shmVars, lockVars, dirty, call>>
  <2>1. /\ Moves(c, "ckhdr", "ckstart")
        /\ HdrGood
        /\ SameCall(c)
        /\ SameLocks(c)
        /\ SameCache(c)
        /\ UNCHANGED <<dbVars, logVars, shmVars>>
    BY <1>1, <1>3
    DEF OwnTypes, Moves, SameCall, SameLocks, SameCache, SameWal, SameJob, HdrRead, PointOK,
        CkPoints, Step, Goto, dbVars, logVars, shmVars, lockVars
  <2>2. WalRec(c, aHdr[0], wal[c].readLock, wal[c].minFrame, wal[c].iReCksum)
    <3>1. wal'[c] = [wal[c] EXCEPT !.hdr = aHdr[0]]
      BY <1>1, <1>3
      DEF OwnTypes, HdrRead, PointOK, CkPoints, Step, Goto, dbVars, logVars, shmVars, lockVars
    <3> QED
      BY <1>1, <3>1 DEF WalRec, WalT
  <2>3. wal'[c] \in WalT
    BY <1>1, <2>2, Sizes, <1>0 DEF WalRec, WalFields, WalT
  <2>4. JobRec(c, job[c].slot, job[c].mark, job[c].first, job[c].iFrame, job[c].todo,
          job[c].batch, job[c].iter, (wal[c].hdr # aHdr[0]))
    <3>1. job'[c] = [job[c] EXCEPT !.changed = (wal[c].hdr # aHdr[0])]
      BY <1>1, <1>3
      DEF OwnTypes, HdrRead, PointOK, CkPoints, Step, Goto, dbVars, logVars, shmVars, lockVars
    <3> QED
      BY <1>1, <3>1 DEF JobRec, JobT
  <2>5. job'[c] \in JobT
    BY <1>1, <2>4, Sizes DEF JobRec, JobFields, JobT
  <2>6. OwnType(c)'
    BY <1>1, <2>1, <2>2, <2>3, <2>4, <2>5, Constants
    DEF OwnTypes, OwnType, Points, Lock, Moves, SameCall, SameLocks, SameCache, SameWal,
        SameJob
  <2>7. SharedTypes'
    BY <1>1, <2>1 DEF SharedTypes, dbVars, logVars, shmVars
  <2> QED
    BY <1>1, <1>2, <2>1, <2>2, <2>3, <2>4, <2>5, <2>6, <2>7, OwnTypesKept, TypePartsNext,
       WalRecIs, JobRecIs
    DEF ReadHdrDoes
<1>4. CASE /\ call[c] # "ckpt"
           /\ kept' = IF wal[c].hdr # aHdr[0] THEN [kept EXCEPT ![c] = NoImage] ELSE kept
           /\ UNCHANGED job
           /\ pc[c] \in {"idle", "ckhdr"}
           /\ HdrGood
           /\ wal' = [wal EXCEPT ![c].hdr = aHdr[0]]
           /\ Goto(c, HdrRead(c))
           /\ UNCHANGED <<dbVars, logVars, shmVars, lockVars, dirty, call>>
  <2>1. /\ Moves(c, "idle", "choose")
        /\ HdrGood
        /\ SameCall(c)
        /\ SameLocks(c)
        /\ dirty'[c] = dirty[c]
        /\ kept'[c] = IF wal[c].hdr # aHdr[0] THEN NoImage ELSE kept[c]
        /\ SameJob(c)
        /\ UNCHANGED <<dbVars, logVars, shmVars>>
    BY <1>1, <1>4
    DEF OwnTypes, Moves, SameCall, SameLocks, SameCache, SameWal, SameJob, HdrRead, PointOK,
        CkPoints, Step, Goto, dbVars, logVars, shmVars, lockVars
  <2>2. WalRec(c, aHdr[0], wal[c].readLock, wal[c].minFrame, wal[c].iReCksum)
    <3>1. wal'[c] = [wal[c] EXCEPT !.hdr = aHdr[0]]
      BY <1>1, <1>4
      DEF OwnTypes, HdrRead, PointOK, CkPoints, Step, Goto, dbVars, logVars, shmVars, lockVars
    <3> QED
      BY <1>1, <3>1 DEF WalRec, WalT
  <2>3. wal'[c] \in WalT
    BY <1>1, <2>2, Sizes, <1>0 DEF WalRec, WalFields, WalT
  <2>4. OwnType(c)'
    BY <1>1, <2>1, <2>2, <2>3, Constants
    DEF OwnTypes, OwnType, Points, Lock, Moves, SameCall, SameLocks, SameCache, SameWal,
        SameJob
  <2>5. SharedTypes'
    BY <1>1, <2>1 DEF SharedTypes, dbVars, logVars, shmVars
  <2> QED
    BY <1>1, <1>2, <2>1, <2>2, <2>3, <2>4, <2>5, OwnTypesKept, TypePartsNext, WalRecIs,
       JobRecIs
    DEF ReadHdrDoes
<1> QED
  BY <1>3, <1>4 DEF ReadHdr, TakeHdr

HdrLockedDoes(c) ==
  /\ \/ /\ Moves(c, "ckhdr", "ckend")
        /\ ~HdrGood
        /\ SameCall(c)
        /\ SameLocks(c)
        /\ SameCache(c)
        /\ SameWal(c)
        /\ SameJob(c)
        /\ UNCHANGED <<dbVars, logVars, shmVars>>
     \/ /\ Moves(c, "idle", "idle")
        /\ ~HdrGood
        /\ SameCall(c)
        /\ SameLocks(c)
        /\ SameCache(c)
        /\ SameWal(c)
        /\ SameJob(c)
        /\ UNCHANGED <<dbVars, logVars, shmVars>>

LEMMA HdrLockedEffect ==
  ASSUME TypesOK, NEW c \in Conn, PointOK(c), TaskOK(c), HdrLocked(c)
  PROVE  TypesOK' /\ OthersStay(c) /\ HdrLockedDoes(c)
<1>1. /\ wal[c] \in WalT /\ job[c] \in JobT /\ WalFields(c) /\ JobFields(c)
      /\ OwnTypes /\ SharedTypes
  BY Fields
<1>2. Only(c)
  BY <1>1
  DEF OwnTypes, Only, HdrLocked, HdrBusy, PointOK, CkPoints, Step, Goto, dbVars, logVars,
      shmVars, lockVars
<1>3. CASE /\ call[c] = "ckpt"
           /\ pc[c] \in {"idle", "ckhdr"}
           /\ ~HdrGood
           /\ Goto(c, HdrBusy(c))
           /\ UNCHANGED <<dbVars, logVars, shmVars, lockVars, wal, dirty, kept, call, job>>
  <2>1. /\ Moves(c, "ckhdr", "ckend")
        /\ ~HdrGood
        /\ SameCall(c)
        /\ SameLocks(c)
        /\ SameCache(c)
        /\ SameWal(c)
        /\ SameJob(c)
        /\ UNCHANGED <<dbVars, logVars, shmVars>>
    BY <1>1, <1>3
    DEF OwnTypes, Moves, SameCall, SameLocks, SameCache, SameWal, SameJob, HdrBusy, PointOK,
        CkPoints, Step, Goto, dbVars, logVars, shmVars, lockVars
  <2>2. OwnType(c)'
    BY <1>1, <2>1, Constants
    DEF OwnTypes, OwnType, Points, Lock, Moves, SameCall, SameLocks, SameCache, SameWal,
        SameJob
  <2>3. SharedTypes'
    BY <1>1, <2>1 DEF SharedTypes, dbVars, logVars, shmVars
  <2> QED
    BY <1>1, <1>2, <2>1, <2>2, <2>3, OwnTypesKept, TypePartsNext, WalRecIs, JobRecIs
    DEF HdrLockedDoes
<1>4. CASE /\ call[c] # "ckpt"
           /\ pc[c] \in {"idle", "ckhdr"}
           /\ ~HdrGood
           /\ Goto(c, HdrBusy(c))
           /\ UNCHANGED <<dbVars, logVars, shmVars, lockVars, wal, dirty, kept, call, job>>
  <2>1. /\ Moves(c, "idle", "idle")
        /\ ~HdrGood
        /\ SameCall(c)
        /\ SameLocks(c)
        /\ SameCache(c)
        /\ SameWal(c)
        /\ SameJob(c)
        /\ UNCHANGED <<dbVars, logVars, shmVars>>
    BY <1>1, <1>4
    DEF OwnTypes, Moves, SameCall, SameLocks, SameCache, SameWal, SameJob, HdrBusy, PointOK,
        CkPoints, Step, Goto, dbVars, logVars, shmVars, lockVars
  <2>2. OwnType(c)'
    BY <1>1, <2>1, Constants
    DEF OwnTypes, OwnType, Points, Lock, Moves, SameCall, SameLocks, SameCache, SameWal,
        SameJob
  <2>3. SharedTypes'
    BY <1>1, <2>1 DEF SharedTypes, dbVars, logVars, shmVars
  <2> QED
    BY <1>1, <1>2, <2>1, <2>2, <2>3, OwnTypesKept, TypePartsNext, WalRecIs, JobRecIs
    DEF HdrLockedDoes
<1> QED
  BY <1>3, <1>4 DEF HdrLocked

RecoverDoes(c) ==
  /\ \/ /\ Moves(c, "ckhdr", "ckstart")
        /\ ~HdrGood
        /\ CanExclude(c, RecoveryLocks(c))
        /\ SameCall(c)
        /\ SameLocks(c)
        /\ SameCache(c)
        /\ WalIs(c, RecoveredHdr(log, salt), wal[c].readLock, wal[c].minFrame,
                 wal[c].iReCksum)
        /\ JobIs(c, job[c].slot, job[c].mark, job[c].first, job[c].iFrame, job[c].todo,
                 job[c].batch, job[c].iter, (wal[c].hdr # RecoveredHdr(log, salt)))
        /\ UNCHANGED <<dbVars, logVars>>
        /\ aHdr' = [i \in {0, 1} |-> RecoveredHdr(log, salt)]
        /\ aPgno' = [i \in Slot |-> IF i <= Readable(log, salt) THEN log[i].page ELSE 0]
        /\ nBackfill' = 0
        /\ aReadMark' = [i \in Mark |->
               IF i = 1 /\ RecoveredHdr(log, salt).mx # 0
               THEN RecoveredHdr(log, salt).mx ELSE READMARK_NOT_USED]
     \/ /\ Moves(c, "idle", "choose")
        /\ ~HdrGood
        /\ CanExclude(c, RecoveryLocks(c))
        /\ SameCall(c)
        /\ SameLocks(c)
        /\ dirty'[c] = dirty[c] /\ kept'[c] = IF wal[c].hdr # RecoveredHdr(log, salt)
                             THEN NoImage ELSE kept[c]
        /\ SameJob(c)
        /\ WalIs(c, RecoveredHdr(log, salt), wal[c].readLock, wal[c].minFrame,
                 wal[c].iReCksum)
        /\ UNCHANGED <<dbVars, logVars>>
        /\ aHdr' = [i \in {0, 1} |-> RecoveredHdr(log, salt)]
        /\ aPgno' = [i \in Slot |-> IF i <= Readable(log, salt) THEN log[i].page ELSE 0]
        /\ nBackfill' = 0
        /\ aReadMark' = [i \in Mark |->
               IF i = 1 /\ RecoveredHdr(log, salt).mx # 0
               THEN RecoveredHdr(log, salt).mx ELSE READMARK_NOT_USED]

LEMMA RecoverEffect ==
  ASSUME TypesOK, NEW c \in Conn, PointOK(c), TaskOK(c), Recover(c)
  PROVE  TypesOK' /\ OthersStay(c) /\ RecoverDoes(c)
<1>1. /\ wal[c] \in WalT /\ job[c] \in JobT /\ WalFields(c) /\ JobFields(c)
      /\ OwnTypes /\ SharedTypes
  BY Fields
<1>0. RecoveredHdr(log, salt) \in HdrT
  BY LogRead
<1>2. Only(c)
  BY <1>1
  DEF OwnTypes, Only, Recover, HdrRead, PointOK, CkPoints, Step, Goto, dbVars, logVars,
      shmVars, lockVars, TakeHdr
<1>3. CASE /\ call[c] = "ckpt"
           /\ job' = [job EXCEPT ![c].changed = wal[c].hdr # RecoveredHdr(log, salt)]
           /\ UNCHANGED kept
           /\ pc[c] \in {"idle", "ckhdr"}
           /\ ~HdrGood
           /\ CanExclude(c, RecoveryLocks(c))
           /\ wal' = [wal EXCEPT ![c].hdr = RecoveredHdr(log, salt)]
           /\ Goto(c, HdrRead(c))
           /\ aHdr' = [i \in {0, 1} |-> RecoveredHdr(log, salt)]
           /\ aPgno' = [i \in Slot |-> IF i <= Readable(log, salt) THEN log[i].page ELSE 0]
           /\ nBackfill' = 0
           /\ aReadMark' = [i \in Mark |-> IF i = 1 /\ RecoveredHdr(log, salt).mx # 0
                                            THEN RecoveredHdr(log, salt).mx
                                            ELSE READMARK_NOT_USED]
           /\ UNCHANGED <<dbVars, logVars, lockVars, dirty, call>>
  <2>1. /\ Moves(c, "ckhdr", "ckstart")
        /\ ~HdrGood
        /\ CanExclude(c, RecoveryLocks(c))
        /\ SameCall(c)
        /\ SameLocks(c)
        /\ SameCache(c)
        /\ UNCHANGED <<dbVars, logVars>>
        /\ aHdr' = [i \in {0, 1} |-> RecoveredHdr(log, salt)]
        /\ aPgno' = [i \in Slot |-> IF i <= Readable(log, salt) THEN log[i].page ELSE 0]
        /\ nBackfill' = 0
        /\ aReadMark' = [i \in Mark |->
               IF i = 1 /\ RecoveredHdr(log, salt).mx # 0
               THEN RecoveredHdr(log, salt).mx ELSE READMARK_NOT_USED]
    BY <1>1, <1>3
    DEF OwnTypes, Moves, SameCall, SameLocks, SameCache, SameWal, SameJob, HdrRead, PointOK,
        CkPoints, Step, Goto, dbVars, logVars, shmVars, lockVars
  <2>2. WalRec(c, RecoveredHdr(log, salt), wal[c].readLock, wal[c].minFrame,
          wal[c].iReCksum)
    <3>1. wal'[c] = [wal[c] EXCEPT !.hdr = RecoveredHdr(log, salt)]
      BY <1>1, <1>3
      DEF OwnTypes, HdrRead, PointOK, CkPoints, Step, Goto, dbVars, logVars, shmVars, lockVars
    <3> QED
      BY <1>1, <3>1 DEF WalRec, WalT
  <2>3. wal'[c] \in WalT
    BY <1>1, <2>2, Sizes, <1>0 DEF WalRec, WalFields, WalT
  <2>4. JobRec(c, job[c].slot, job[c].mark, job[c].first, job[c].iFrame, job[c].todo,
          job[c].batch, job[c].iter, (wal[c].hdr # RecoveredHdr(log, salt)))
    <3>1. job'[c] = [job[c] EXCEPT !.changed = (wal[c].hdr # RecoveredHdr(log, salt))]
      BY <1>1, <1>3
      DEF OwnTypes, HdrRead, PointOK, CkPoints, Step, Goto, dbVars, logVars, shmVars, lockVars
    <3> QED
      BY <1>1, <3>1 DEF JobRec, JobT
  <2>5. job'[c] \in JobT
    BY <1>1, <2>4, Sizes DEF JobRec, JobFields, JobT
  <2>6. OwnType(c)'
    BY <1>1, <2>1, <2>2, <2>3, <2>4, <2>5, Constants
    DEF OwnTypes, OwnType, Points, Lock, Moves, SameCall, SameLocks, SameCache, SameWal,
        SameJob
  <2>7. SharedTypes'
    <3>1. /\ RecoveredHdr(log, salt) \in HdrT /\ RecoveredHdr(log, salt).mx \in 0 .. MaxFrame
          /\ \A i \in Slot : log[i].page \in 0 .. NPage
      BY LogRead, Types DEF HdrT
    <3> QED
      BY <1>1, <2>1, <3>1, Sizes DEF SharedTypes, dbVars, logVars, READMARK_NOT_USED
  <2> QED
    BY <1>1, <1>2, <2>1, <2>2, <2>3, <2>4, <2>5, <2>6, <2>7, OwnTypesKept, TypePartsNext,
       WalRecIs, JobRecIs
    DEF RecoverDoes
<1>4. CASE /\ call[c] # "ckpt"
           /\ kept' = IF wal[c].hdr # RecoveredHdr(log, salt)
                       THEN [kept EXCEPT ![c] = NoImage]
                       ELSE kept
           /\ UNCHANGED job
           /\ pc[c] \in {"idle", "ckhdr"}
           /\ ~HdrGood
           /\ CanExclude(c, RecoveryLocks(c))
           /\ wal' = [wal EXCEPT ![c].hdr = RecoveredHdr(log, salt)]
           /\ Goto(c, HdrRead(c))
           /\ aHdr' = [i \in {0, 1} |-> RecoveredHdr(log, salt)]
           /\ aPgno' = [i \in Slot |-> IF i <= Readable(log, salt) THEN log[i].page ELSE 0]
           /\ nBackfill' = 0
           /\ aReadMark' = [i \in Mark |-> IF i = 1 /\ RecoveredHdr(log, salt).mx # 0
                                            THEN RecoveredHdr(log, salt).mx
                                            ELSE READMARK_NOT_USED]
           /\ UNCHANGED <<dbVars, logVars, lockVars, dirty, call>>
  <2>1. /\ Moves(c, "idle", "choose")
        /\ ~HdrGood
        /\ CanExclude(c, RecoveryLocks(c))
        /\ SameCall(c)
        /\ SameLocks(c)
        /\ dirty'[c] = dirty[c]
        /\ kept'[c] = IF wal[c].hdr # RecoveredHdr(log, salt) THEN NoImage ELSE kept[c]
        /\ SameJob(c)
        /\ UNCHANGED <<dbVars, logVars>>
        /\ aHdr' = [i \in {0, 1} |-> RecoveredHdr(log, salt)]
        /\ aPgno' = [i \in Slot |-> IF i <= Readable(log, salt) THEN log[i].page ELSE 0]
        /\ nBackfill' = 0
        /\ aReadMark' = [i \in Mark |->
               IF i = 1 /\ RecoveredHdr(log, salt).mx # 0
               THEN RecoveredHdr(log, salt).mx ELSE READMARK_NOT_USED]
    BY <1>1, <1>4
    DEF OwnTypes, Moves, SameCall, SameLocks, SameCache, SameWal, SameJob, HdrRead, PointOK,
        CkPoints, Step, Goto, dbVars, logVars, shmVars, lockVars
  <2>2. WalRec(c, RecoveredHdr(log, salt), wal[c].readLock, wal[c].minFrame,
          wal[c].iReCksum)
    <3>1. wal'[c] = [wal[c] EXCEPT !.hdr = RecoveredHdr(log, salt)]
      BY <1>1, <1>4
      DEF OwnTypes, HdrRead, PointOK, CkPoints, Step, Goto, dbVars, logVars, shmVars, lockVars
    <3> QED
      BY <1>1, <3>1 DEF WalRec, WalT
  <2>3. wal'[c] \in WalT
    BY <1>1, <2>2, Sizes, <1>0 DEF WalRec, WalFields, WalT
  <2>4. OwnType(c)'
    BY <1>1, <2>1, <2>2, <2>3, Constants
    DEF OwnTypes, OwnType, Points, Lock, Moves, SameCall, SameLocks, SameCache, SameWal,
        SameJob
  <2>5. SharedTypes'
    <3>1. /\ RecoveredHdr(log, salt) \in HdrT /\ RecoveredHdr(log, salt).mx \in 0 .. MaxFrame
          /\ \A i \in Slot : log[i].page \in 0 .. NPage
      BY LogRead, Types DEF HdrT
    <3> QED
      BY <1>1, <2>1, <3>1, Sizes DEF SharedTypes, dbVars, logVars, READMARK_NOT_USED
  <2> QED
    BY <1>1, <1>2, <2>1, <2>2, <2>3, <2>4, <2>5, OwnTypesKept, TypePartsNext, WalRecIs,
       JobRecIs
    DEF RecoverDoes
<1> QED
  BY <1>3, <1>4 DEF Recover, TakeHdr

ChooseZeroDoes(c) ==
  /\ Moves(c, "choose", "zero")
  /\ ~useWal(c)
  /\ nBackfill = wal[c].hdr.mx
  /\ SameCall(c)
  /\ SameLocks(c)
  /\ SameCache(c)
  /\ SameWal(c)
  /\ SameJob(c)
  /\ UNCHANGED <<dbVars, logVars, shmVars>>

LEMMA ChooseZeroEffect ==
  ASSUME TypesOK, NEW c \in Conn, PointOK(c), TaskOK(c), ChooseZero(c)
  PROVE  TypesOK' /\ OthersStay(c) /\ ChooseZeroDoes(c)
<1>1. /\ wal[c] \in WalT /\ job[c] \in JobT /\ WalFields(c) /\ JobFields(c)
      /\ OwnTypes /\ SharedTypes
  BY Fields
<1>2. Only(c)
  BY <1>1 DEF OwnTypes, Only, ChooseZero, Step, Goto, dbVars, logVars, shmVars, lockVars
<1>3. /\ Moves(c, "choose", "zero")
      /\ ~useWal(c)
      /\ nBackfill = wal[c].hdr.mx
      /\ SameCall(c)
      /\ SameLocks(c)
      /\ SameCache(c)
      /\ SameWal(c)
      /\ SameJob(c)
      /\ UNCHANGED <<dbVars, logVars, shmVars>>
  BY <1>1
  DEF OwnTypes, Moves, SameCall, SameLocks, SameCache, SameWal, SameJob, ChooseZero, Step,
      Goto, dbVars, logVars, shmVars, lockVars
<1>4. OwnType(c)'
  BY <1>1, <1>3, Constants
  DEF OwnTypes, OwnType, Points, Lock, Moves, SameCall, SameLocks, SameCache, SameWal, SameJob
<1>5. SharedTypes'
  BY <1>1, <1>3 DEF SharedTypes, dbVars, logVars, shmVars
<1> QED
  BY <1>1, <1>2, <1>3, <1>4, <1>5, OwnTypesKept, TypePartsNext, WalRecIs, JobRecIs
 DEF ChooseZeroDoes
LockMarkZeroDoes(c) ==
  /\ \/ /\ Moves(c, "zero", "reader")
        /\ CanShare(c, WAL_READ_LOCK(0))
        /\ StillWhole(c)
        /\ SameCall(c)
        /\ exclMask'[c] = exclMask[c]
        /\ sharedMask'[c] = sharedMask[c] \cup {WAL_READ_LOCK(0)}
        /\ SameCache(c)
        /\ SameJob(c)
        /\ WalIs(c, wal[c].hdr, 0, wal[c].minFrame, wal[c].iReCksum)
        /\ UNCHANGED <<dbVars, logVars, shmVars>>
     \/ /\ Moves(c, "zero", "idle")
        /\ SameCall(c)
        /\ SameLocks(c)
        /\ SameCache(c)
        /\ SameWal(c)
        /\ SameJob(c)
        /\ UNCHANGED <<dbVars, logVars, shmVars>>
     \/ /\ Moves(c, "zero", "marks")
        /\ SameCall(c)
        /\ SameLocks(c)
        /\ SameCache(c)
        /\ SameWal(c)
        /\ SameJob(c)
        /\ UNCHANGED <<dbVars, logVars, shmVars>>

LEMMA LockMarkZeroEffect ==
  ASSUME TypesOK, NEW c \in Conn, PointOK(c), TaskOK(c), LockMarkZero(c)
  PROVE  TypesOK' /\ OthersStay(c) /\ LockMarkZeroDoes(c)
<1>1. /\ wal[c] \in WalT /\ job[c] \in JobT /\ WalFields(c) /\ JobFields(c)
      /\ OwnTypes /\ SharedTypes
  BY Fields
<1>2. Only(c)
  BY <1>1
  DEF OwnTypes, Only, LockMarkZero, LockShared, Step, Goto, dbVars, logVars, shmVars, lockVars
<1>3. CASE /\ Step(c, "zero", "reader")
           /\ LockShared(c, WAL_READ_LOCK(0))
           /\ StillWhole(c)
           /\ wal' = [wal EXCEPT ![c].readLock = 0]
           /\ UNCHANGED <<dbVars, logVars, shmVars, dirty, kept, call, job>>
  <2>1. /\ Moves(c, "zero", "reader")
        /\ CanShare(c, WAL_READ_LOCK(0))
        /\ StillWhole(c)
        /\ SameCall(c)
        /\ exclMask'[c] = exclMask[c]
        /\ sharedMask'[c] = sharedMask[c] \cup {WAL_READ_LOCK(0)}
        /\ SameCache(c)
        /\ SameJob(c)
        /\ UNCHANGED <<dbVars, logVars, shmVars>>
    BY <1>1, <1>3
    DEF OwnTypes, Moves, SameCall, SameLocks, SameCache, SameWal, SameJob, LockShared, Step,
        Goto, dbVars, logVars, shmVars, lockVars
  <2>2. WalRec(c, wal[c].hdr, 0, wal[c].minFrame, wal[c].iReCksum)
    <3>1. wal'[c] = [wal[c] EXCEPT !.readLock = 0]
      BY <1>1, <1>3 DEF OwnTypes, LockShared, Step, Goto, dbVars, logVars, shmVars, lockVars
    <3> QED
      BY <1>1, <3>1 DEF WalRec, WalT
  <2>3. wal'[c] \in WalT
    BY <1>1, <2>2, Sizes DEF WalRec, WalFields, WalT
  <2>4. OwnType(c)'
    BY <1>1, <2>1, <2>2, <2>3, Constants
    DEF OwnTypes, OwnType, Points, Lock, Moves, SameCall, SameLocks, SameCache, SameWal,
        SameJob, WAL_READ_LOCK
  <2>5. SharedTypes'
    BY <1>1, <2>1 DEF SharedTypes, dbVars, logVars, shmVars
  <2> QED
    BY <1>1, <1>2, <2>1, <2>2, <2>3, <2>4, <2>5, OwnTypesKept, TypePartsNext, WalRecIs,
       JobRecIs
    DEF LockMarkZeroDoes
<1>4. CASE /\ Step(c, "zero", "idle")
           /\ UNCHANGED <<lockVars, wal>>
           /\ UNCHANGED <<dbVars, logVars, shmVars, dirty, kept, call, job>>
  <2>1. /\ Moves(c, "zero", "idle")
        /\ SameCall(c)
        /\ SameLocks(c)
        /\ SameCache(c)
        /\ SameWal(c)
        /\ SameJob(c)
        /\ UNCHANGED <<dbVars, logVars, shmVars>>
    BY <1>1, <1>4
    DEF OwnTypes, Moves, SameCall, SameLocks, SameCache, SameWal, SameJob, LockShared, Step,
        Goto, dbVars, logVars, shmVars, lockVars
  <2>2. OwnType(c)'
    BY <1>1, <2>1, Constants
    DEF OwnTypes, OwnType, Points, Lock, Moves, SameCall, SameLocks, SameCache, SameWal,
        SameJob, WAL_READ_LOCK
  <2>3. SharedTypes'
    BY <1>1, <2>1 DEF SharedTypes, dbVars, logVars, shmVars
  <2> QED
    BY <1>1, <1>2, <2>1, <2>2, <2>3, OwnTypesKept, TypePartsNext, WalRecIs, JobRecIs
    DEF LockMarkZeroDoes
<1>5. CASE /\ Step(c, "zero", "marks")
           /\ UNCHANGED <<lockVars, wal>>
           /\ UNCHANGED <<dbVars, logVars, shmVars, dirty, kept, call, job>>
  <2>1. /\ Moves(c, "zero", "marks")
        /\ SameCall(c)
        /\ SameLocks(c)
        /\ SameCache(c)
        /\ SameWal(c)
        /\ SameJob(c)
        /\ UNCHANGED <<dbVars, logVars, shmVars>>
    BY <1>1, <1>5
    DEF OwnTypes, Moves, SameCall, SameLocks, SameCache, SameWal, SameJob, LockShared, Step,
        Goto, dbVars, logVars, shmVars, lockVars
  <2>2. OwnType(c)'
    BY <1>1, <2>1, Constants
    DEF OwnTypes, OwnType, Points, Lock, Moves, SameCall, SameLocks, SameCache, SameWal,
        SameJob, WAL_READ_LOCK
  <2>3. SharedTypes'
    BY <1>1, <2>1 DEF SharedTypes, dbVars, logVars, shmVars
  <2> QED
    BY <1>1, <1>2, <2>1, <2>2, <2>3, OwnTypesKept, TypePartsNext, WalRecIs, JobRecIs
    DEF LockMarkZeroDoes
<1> QED
  BY <1>3, <1>4, <1>5 DEF LockMarkZero

LockMarkDoes(c) ==
  /\ \/ /\ Moves(c, "chosen", "check")
        /\ CanShare(c, WAL_READ_LOCK(job[c].slot))
        /\ SameCall(c)
        /\ exclMask'[c] = exclMask[c]
        /\ sharedMask'[c] = sharedMask[c] \cup {WAL_READ_LOCK(job[c].slot)}
        /\ SameCache(c)
        /\ SameJob(c)
        /\ WalIs(c, wal[c].hdr, wal[c].readLock, nBackfill + 1, wal[c].iReCksum)
        /\ UNCHANGED <<dbVars, logVars, shmVars>>
     \/ /\ Moves(c, "chosen", Retry(c))
        /\ SameCall(c)
        /\ SameLocks(c)
        /\ SameCache(c)
        /\ SameWal(c)
        /\ SameJob(c)
        /\ UNCHANGED <<dbVars, logVars, shmVars>>

LEMMA LockMarkEffect ==
  ASSUME TypesOK, NEW c \in Conn, PointOK(c), TaskOK(c), LockMark(c)
  PROVE  TypesOK' /\ OthersStay(c) /\ LockMarkDoes(c)
<1>1. /\ wal[c] \in WalT /\ job[c] \in JobT /\ WalFields(c) /\ JobFields(c)
      /\ OwnTypes /\ SharedTypes
  BY Fields
<1>0. nBackfill \in 0 .. MaxFrame /\ (pc[c] = "chosen" => job[c].slot \in 1 .. NMark)
  BY Types DEF PointOK, Mark
<1>2. Only(c)
  BY <1>1
  DEF OwnTypes, Only, LockMark, LockShared, Step, Goto, dbVars, logVars, shmVars, lockVars
<1>3. CASE /\ Step(c, "chosen", "check")
           /\ LockShared(c, WAL_READ_LOCK(job[c].slot))
           /\ wal' = [wal EXCEPT ![c].minFrame = nBackfill + 1]
           /\ UNCHANGED <<dbVars, logVars, shmVars, dirty, kept, call, job>>
  <2>1. /\ Moves(c, "chosen", "check")
        /\ CanShare(c, WAL_READ_LOCK(job[c].slot))
        /\ SameCall(c)
        /\ exclMask'[c] = exclMask[c]
        /\ sharedMask'[c] = sharedMask[c] \cup {WAL_READ_LOCK(job[c].slot)}
        /\ SameCache(c)
        /\ SameJob(c)
        /\ UNCHANGED <<dbVars, logVars, shmVars>>
    BY <1>1, <1>3
    DEF OwnTypes, Moves, SameCall, SameLocks, SameCache, SameWal, SameJob, LockShared, Step,
        Goto, dbVars, logVars, shmVars, lockVars
  <2>2. WalRec(c, wal[c].hdr, wal[c].readLock, nBackfill + 1, wal[c].iReCksum)
    <3>1. wal'[c] = [wal[c] EXCEPT !.minFrame = nBackfill + 1]
      BY <1>1, <1>3 DEF OwnTypes, LockShared, Step, Goto, dbVars, logVars, shmVars, lockVars
    <3> QED
      BY <1>1, <3>1 DEF WalRec, WalT
  <2>3. wal'[c] \in WalT
    BY <1>1, <2>2, Sizes, <1>0 DEF WalRec, WalFields, WalT
  <2>4. OwnType(c)'
    BY <1>1, <2>1, <2>2, <2>3, Constants, <1>0
    DEF OwnTypes, OwnType, Points, Lock, Moves, SameCall, SameLocks, SameCache, SameWal,
        SameJob, WAL_READ_LOCK, Retry
  <2>5. SharedTypes'
    BY <1>1, <2>1 DEF SharedTypes, dbVars, logVars, shmVars
  <2> QED
    BY <1>1, <1>2, <2>1, <2>2, <2>3, <2>4, <2>5, OwnTypesKept, TypePartsNext, WalRecIs,
       JobRecIs
    DEF LockMarkDoes
<1>4. CASE /\ Step(c, "chosen", Retry(c))
           /\ UNCHANGED <<lockVars, wal>>
           /\ UNCHANGED <<dbVars, logVars, shmVars, dirty, kept, call, job>>
  <2>1. /\ Moves(c, "chosen", Retry(c))
        /\ SameCall(c)
        /\ SameLocks(c)
        /\ SameCache(c)
        /\ SameWal(c)
        /\ SameJob(c)
        /\ UNCHANGED <<dbVars, logVars, shmVars>>
    BY <1>1, <1>4
    DEF OwnTypes, Moves, SameCall, SameLocks, SameCache, SameWal, SameJob, LockShared, Step,
        Goto, dbVars, logVars, shmVars, lockVars
  <2>2. OwnType(c)'
    BY <1>1, <2>1, Constants, <1>0
    DEF OwnTypes, OwnType, Points, Lock, Moves, SameCall, SameLocks, SameCache, SameWal,
        SameJob, WAL_READ_LOCK, Retry
  <2>3. SharedTypes'
    BY <1>1, <2>1 DEF SharedTypes, dbVars, logVars, shmVars
  <2> QED
    BY <1>1, <1>2, <2>1, <2>2, <2>3, OwnTypesKept, TypePartsNext, WalRecIs, JobRecIs
    DEF LockMarkDoes
<1> QED
  BY <1>3, <1>4 DEF LockMark

CheckMarkDoes(c) ==
  /\ \/ /\ Moves(c, "check", IF useWal(c) THEN ToLog(c) ELSE "reader")
        /\ Unchanged(c)
        /\ SameCall(c)
        /\ SameLocks(c)
        /\ SameCache(c)
        /\ WalIs(c, wal[c].hdr, job[c].slot, wal[c].minFrame, wal[c].iReCksum)
        /\ JobIs(c, 0, 0, job[c].first, job[c].iFrame, job[c].todo, job[c].batch, job[c].iter,
                 job[c].changed)
        /\ UNCHANGED <<dbVars, logVars, shmVars>>
     \/ /\ Moves(c, "check", Retry(c))
        /\ SameCall(c)
        /\ exclMask'[c] = exclMask[c]
        /\ sharedMask'[c] = sharedMask[c] \ {WAL_READ_LOCK(job[c].slot)}
        /\ SameCache(c)
        /\ WalIs(c, wal[c].hdr, wal[c].readLock, 0, wal[c].iReCksum)
        /\ JobIs(c, 0, 0, job[c].first, job[c].iFrame, job[c].todo, job[c].batch, job[c].iter,
                 job[c].changed)
        /\ UNCHANGED <<dbVars, logVars, shmVars>>

LEMMA CheckMarkEffect ==
  ASSUME TypesOK, NEW c \in Conn, PointOK(c), TaskOK(c), CheckMark(c)
  PROVE  TypesOK' /\ OthersStay(c) /\ CheckMarkDoes(c)
<1>1. /\ wal[c] \in WalT /\ job[c] \in JobT /\ WalFields(c) /\ JobFields(c)
      /\ OwnTypes /\ SharedTypes
  BY Fields
<1>0. job[c].slot \in 1 .. NMark
  BY DEF PointOK, Mark, CheckMark, Step
<1>2. Only(c)
  BY <1>1
  DEF OwnTypes, Only, CheckMark, UnlockShared, Step, Goto, dbVars, logVars, shmVars, lockVars
<1>3. CASE /\ Step(c, "check", IF useWal(c) THEN ToLog(c) ELSE "reader")
           /\ Unchanged(c)
           /\ wal' = [wal EXCEPT ![c].readLock = job[c].slot]
           /\ UNCHANGED lockVars
           /\ job' = [job EXCEPT ![c].slot = 0, ![c].mark = 0]
           /\ UNCHANGED <<dbVars, logVars, shmVars, dirty, kept, call>>
  <2>1. /\ Moves(c, "check", IF useWal(c) THEN ToLog(c) ELSE "reader")
        /\ Unchanged(c)
        /\ SameCall(c)
        /\ SameLocks(c)
        /\ SameCache(c)
        /\ UNCHANGED <<dbVars, logVars, shmVars>>
    BY <1>1, <1>3
    DEF OwnTypes, Moves, SameCall, SameLocks, SameCache, SameWal, SameJob, UnlockShared, Step,
        Goto, dbVars, logVars, shmVars, lockVars
  <2>2. WalRec(c, wal[c].hdr, job[c].slot, wal[c].minFrame, wal[c].iReCksum)
    <3>1. wal'[c] = [wal[c] EXCEPT !.readLock = job[c].slot]
      BY <1>1, <1>3 DEF OwnTypes, UnlockShared, Step, Goto, dbVars, logVars, shmVars, lockVars
    <3> QED
      BY <1>1, <3>1 DEF WalRec, WalT
  <2>3. wal'[c] \in WalT
    BY <1>1, <2>2, Sizes, <1>0 DEF WalRec, WalFields, WalT
  <2>4. JobRec(c, 0, 0, job[c].first, job[c].iFrame, job[c].todo, job[c].batch,
          job[c].iter, job[c].changed)
    <3>1. job'[c] = [job[c] EXCEPT !.slot = 0, !.mark = 0]
      BY <1>1, <1>3 DEF OwnTypes, UnlockShared, Step, Goto, dbVars, logVars, shmVars, lockVars
    <3> QED
      BY <1>1, <3>1 DEF JobRec, JobT
  <2>5. job'[c] \in JobT
    BY <1>1, <2>4, Sizes DEF JobRec, JobFields, JobT
  <2>6. OwnType(c)'
    BY <1>1, <2>1, <2>2, <2>3, <2>4, <2>5, Constants
    DEF OwnTypes, OwnType, Points, Lock, Moves, SameCall, SameLocks, SameCache, SameWal,
        SameJob, Retry, ToLog
  <2>7. SharedTypes'
    BY <1>1, <2>1 DEF SharedTypes, dbVars, logVars, shmVars
  <2> QED
    BY <1>1, <1>2, <2>1, <2>2, <2>3, <2>4, <2>5, <2>6, <2>7, OwnTypesKept, TypePartsNext,
       WalRecIs, JobRecIs
    DEF CheckMarkDoes
<1>4. CASE /\ Step(c, "check", Retry(c))
           /\ ~Unchanged(c)
           /\ UnlockShared(c, WAL_READ_LOCK(job[c].slot))
           /\ wal' = [wal EXCEPT ![c].minFrame = 0]
           /\ job' = [job EXCEPT ![c].slot = 0, ![c].mark = 0]
           /\ UNCHANGED <<dbVars, logVars, shmVars, dirty, kept, call>>
  <2>1. /\ Moves(c, "check", Retry(c))
        /\ SameCall(c)
        /\ exclMask'[c] = exclMask[c]
        /\ sharedMask'[c] = sharedMask[c] \ {WAL_READ_LOCK(job[c].slot)}
        /\ SameCache(c)
        /\ UNCHANGED <<dbVars, logVars, shmVars>>
    BY <1>1, <1>4
    DEF OwnTypes, Moves, SameCall, SameLocks, SameCache, SameWal, SameJob, UnlockShared, Step,
        Goto, dbVars, logVars, shmVars, lockVars
  <2>2. WalRec(c, wal[c].hdr, wal[c].readLock, 0, wal[c].iReCksum)
    <3>1. wal'[c] = [wal[c] EXCEPT !.minFrame = 0]
      BY <1>1, <1>4 DEF OwnTypes, UnlockShared, Step, Goto, dbVars, logVars, shmVars, lockVars
    <3> QED
      BY <1>1, <3>1 DEF WalRec, WalT
  <2>3. wal'[c] \in WalT
    BY <1>1, <2>2, Sizes, <1>0 DEF WalRec, WalFields, WalT
  <2>4. JobRec(c, 0, 0, job[c].first, job[c].iFrame, job[c].todo, job[c].batch,
          job[c].iter, job[c].changed)
    <3>1. job'[c] = [job[c] EXCEPT !.slot = 0, !.mark = 0]
      BY <1>1, <1>4 DEF OwnTypes, UnlockShared, Step, Goto, dbVars, logVars, shmVars, lockVars
    <3> QED
      BY <1>1, <3>1 DEF JobRec, JobT
  <2>5. job'[c] \in JobT
    BY <1>1, <2>4, Sizes DEF JobRec, JobFields, JobT
  <2>6. OwnType(c)'
    BY <1>1, <2>1, <2>2, <2>3, <2>4, <2>5, Constants
    DEF OwnTypes, OwnType, Points, Lock, Moves, SameCall, SameLocks, SameCache, SameWal,
        SameJob, Retry, ToLog
  <2>7. SharedTypes'
    BY <1>1, <2>1 DEF SharedTypes, dbVars, logVars, shmVars
  <2> QED
    BY <1>1, <1>2, <2>1, <2>2, <2>3, <2>4, <2>5, <2>6, <2>7, OwnTypesKept, TypePartsNext,
       WalRecIs, JobRecIs
    DEF CheckMarkDoes
<1> QED
  BY <1>3, <1>4 DEF CheckMark

EndReadDoes(c) ==
  /\ Moves(c, "reader", "idle")
  /\ SameCall(c)
  /\ exclMask'[c] = exclMask[c]
  /\ sharedMask'[c] = sharedMask[c] \ {WAL_READ_LOCK(wal[c].readLock)}
  /\ dirty'[c] = dirty[c] /\ kept'[c] = Seen(c)
  /\ SameJob(c)
  /\ WalIs(c, wal[c].hdr, -1, 0, wal[c].iReCksum)
  /\ UNCHANGED <<dbVars, logVars, shmVars>>

LEMMA EndReadEffect ==
  ASSUME TypesOK, NEW c \in Conn, PointOK(c), TaskOK(c), EndRead(c)
  PROVE  TypesOK' /\ OthersStay(c) /\ EndReadDoes(c)
<1>1. /\ wal[c] \in WalT /\ job[c] \in JobT /\ WalFields(c) /\ JobFields(c)
      /\ OwnTypes /\ SharedTypes
  BY Fields
<1>2. Only(c)
  BY <1>1
  DEF OwnTypes, Only, EndRead, UnlockShared, Step, Goto, dbVars, logVars, shmVars, lockVars
<1>3. /\ Moves(c, "reader", "idle")
      /\ SameCall(c)
      /\ exclMask'[c] = exclMask[c]
      /\ sharedMask'[c] = sharedMask[c] \ {WAL_READ_LOCK(wal[c].readLock)}
      /\ dirty'[c] = dirty[c] /\ kept'[c] = Seen(c)
      /\ SameJob(c)
      /\ UNCHANGED <<dbVars, logVars, shmVars>>
  BY <1>1
  DEF OwnTypes, Moves, SameCall, SameLocks, SameCache, SameWal, SameJob, EndRead, UnlockShared,
      Step, Goto, dbVars, logVars, shmVars, lockVars
<1>4. WalRec(c, wal[c].hdr, -1, 0, wal[c].iReCksum)
  <2>1. wal'[c] = [wal[c] EXCEPT !.readLock = -1, !.minFrame = 0]
    BY <1>1 DEF OwnTypes, EndRead, UnlockShared, Step, Goto, dbVars, logVars, shmVars, lockVars
  <2> QED
    BY <1>1, <2>1 DEF WalRec, WalT
<1>5. wal'[c] \in WalT
  BY <1>1, <1>4, Sizes DEF WalRec, WalFields, WalT
<1>6. OwnType(c)'
  BY <1>1, <1>3, <1>4, <1>5, Constants, SeenAt
  DEF OwnTypes, OwnType, Points, Lock, Moves, SameCall, SameLocks, SameCache, SameWal, SameJob
<1>7. SharedTypes'
  BY <1>1, <1>3 DEF SharedTypes, dbVars, logVars, shmVars
<1> QED
  BY <1>1, <1>2, <1>3, <1>4, <1>5, <1>6, <1>7, OwnTypesKept, TypePartsNext, WalRecIs, JobRecIs
 DEF EndReadDoes
BeginWriteDoes(c) ==
  /\ Moves(c, "reader", "writer")
  /\ CanExclude(c, {WAL_WRITE_LOCK})
  /\ aHdr[0] = wal[c].hdr
  /\ SameCall(c)
  /\ exclMask'[c] = exclMask[c] \cup {WAL_WRITE_LOCK}
  /\ sharedMask'[c] = sharedMask[c]
  /\ dirty'[c] = dirty[c] /\ kept'[c] = NoImage
  /\ SameWal(c)
  /\ SameJob(c)
  /\ UNCHANGED <<dbVars, logVars, shmVars>>

LEMMA BeginWriteEffect ==
  ASSUME TypesOK, NEW c \in Conn, PointOK(c), TaskOK(c), BeginWrite(c)
  PROVE  TypesOK' /\ OthersStay(c) /\ BeginWriteDoes(c)
<1>1. /\ wal[c] \in WalT /\ job[c] \in JobT /\ WalFields(c) /\ JobFields(c)
      /\ OwnTypes /\ SharedTypes
  BY Fields
<1>2. Only(c)
  BY <1>1
  DEF OwnTypes, Only, BeginWrite, LockExclusive, Step, Goto, dbVars, logVars, shmVars, lockVars
<1>3. /\ Moves(c, "reader", "writer")
      /\ CanExclude(c, {WAL_WRITE_LOCK})
      /\ aHdr[0] = wal[c].hdr
      /\ SameCall(c)
      /\ exclMask'[c] = exclMask[c] \cup {WAL_WRITE_LOCK} /\ sharedMask'[c] = sharedMask[c]
      /\ dirty'[c] = dirty[c] /\ kept'[c] = NoImage
      /\ SameWal(c)
      /\ SameJob(c)
      /\ UNCHANGED <<dbVars, logVars, shmVars>>
  BY <1>1
  DEF OwnTypes, Moves, SameCall, SameLocks, SameCache, SameWal, SameJob, BeginWrite,
      LockExclusive, Step, Goto, dbVars, logVars, shmVars, lockVars
<1>4. OwnType(c)'
  BY <1>1, <1>3, Constants
  DEF OwnTypes, OwnType, Points, Lock, Moves, SameCall, SameLocks, SameCache, SameWal, SameJob,
      WAL_WRITE_LOCK, WAL_READ_LOCK
<1>5. SharedTypes'
  BY <1>1, <1>3 DEF SharedTypes, dbVars, logVars, shmVars
<1> QED
  BY <1>1, <1>2, <1>3, <1>4, <1>5, OwnTypesKept, TypePartsNext, WalRecIs, JobRecIs
 DEF BeginWriteDoes
WriteDoes(c, p) ==
  /\ Moves(c, "writer", "writer")
  /\ SameCall(c)
  /\ SameLocks(c)
  /\ dirty'[c] = [dirty[c] EXCEPT ![p] = change'] /\ kept'[c] = kept[c]
  /\ SameWal(c)
  /\ SameJob(c)
  /\ UNCHANGED <<db, platter, logVars, shmVars>>
  /\ change' = change + 1 /\ change < MaxChange

LEMMA WriteEffect ==
  ASSUME TypesOK, NEW c \in Conn, NEW p \in Page, PointOK(c), TaskOK(c), Write(c, p)
  PROVE  TypesOK' /\ OthersStay(c) /\ WriteDoes(c, p)
<1>1. /\ wal[c] \in WalT /\ job[c] \in JobT /\ WalFields(c) /\ JobFields(c)
      /\ OwnTypes /\ SharedTypes
  BY Fields
<1>0. dirty[c] \in [Page -> Content \cup {NoPage}] /\ change \in 0 .. MaxChange
  BY Types
<1>2. Only(c)
  BY <1>1 DEF OwnTypes, Only, Write, Step, Goto, dbVars, logVars, shmVars, lockVars
<1>3. /\ Moves(c, "writer", "writer")
      /\ SameCall(c)
      /\ SameLocks(c)
      /\ dirty'[c] = [dirty[c] EXCEPT ![p] = change'] /\ kept'[c] = kept[c]
      /\ SameWal(c)
      /\ SameJob(c)
      /\ UNCHANGED <<db, platter, logVars, shmVars>>
      /\ change' = change + 1 /\ change < MaxChange
  BY <1>1
  DEF OwnTypes, Moves, SameCall, SameLocks, SameCache, SameWal, SameJob, Write, Step, Goto,
      dbVars, logVars, shmVars, lockVars
<1>4. OwnType(c)'
  BY <1>1, <1>3, Constants, <1>0
  DEF OwnTypes, OwnType, Points, Lock, Moves, SameCall, SameLocks, SameCache, SameWal, SameJob,
      Content
<1>5. SharedTypes'
  BY <1>1, <1>3, Sizes DEF SharedTypes, logVars, shmVars
<1> QED
  BY <1>1, <1>2, <1>3, <1>4, <1>5, OwnTypesKept, TypePartsNext, WalRecIs, JobRecIs
 DEF WriteDoes
FramesDoes(c, what, pages) ==
  /\ Moves(c, "writer", "frames")
  /\ call'[c] = what
  /\ SameLocks(c)
  /\ SameCache(c)
  /\ SameWal(c)
  /\ JobIs(c, job[c].slot, job[c].mark, (IF wal[c].hdr # aHdr[0] THEN aHdr[0].mx + 1 ELSE 0),
           wal[c].hdr.mx, pages, pages, job[c].iter, job[c].changed)
  /\ UNCHANGED <<dbVars, logVars, shmVars>>

LEMMA FramesEffect ==
  ASSUME TypesOK, NEW c \in Conn, NEW what \in {"spill", "commit"}, NEW pages \in SUBSET Page,
         PointOK(c), TaskOK(c), Frames(c, what, pages)
  PROVE  TypesOK' /\ OthersStay(c) /\ FramesDoes(c, what, pages)
<1>1. /\ wal[c] \in WalT /\ job[c] \in JobT /\ WalFields(c) /\ JobFields(c)
      /\ OwnTypes /\ SharedTypes
  BY Fields
<1>0. aHdr[0].mx \in 0 .. MaxFrame /\ wal[c].hdr.mx \in 0 .. MaxFrame
  BY Types
<1>2. Only(c)
  BY <1>1 DEF OwnTypes, Only, Frames, Step, Goto, dbVars, logVars, shmVars, lockVars
<1>3. /\ Moves(c, "writer", "frames")
      /\ call'[c] = what
      /\ SameLocks(c)
      /\ SameCache(c)
      /\ SameWal(c)
      /\ UNCHANGED <<dbVars, logVars, shmVars>>
  BY <1>1
  DEF OwnTypes, Moves, SameCall, SameLocks, SameCache, SameWal, SameJob, Frames, Step, Goto,
      dbVars, logVars, shmVars, lockVars
<1>4. JobRec(c, job[c].slot, job[c].mark, (IF wal[c].hdr # aHdr[0] THEN aHdr[0].mx + 1 ELSE
        0), wal[c].hdr.mx, pages, pages, job[c].iter, job[c].changed)
  <2>1. job'[c] = [job[c] EXCEPT !.first = (IF wal[c].hdr # aHdr[0] THEN aHdr[0].mx + 1 ELSE
        0), !.iFrame = wal[c].hdr.mx, !.todo = pages, !.batch = pages]
    BY <1>1 DEF OwnTypes, Frames, Step, Goto, dbVars, logVars, shmVars, lockVars
  <2> QED
    BY <1>1, <2>1 DEF JobRec, JobT
<1>5. job'[c] \in JobT
  BY <1>1, <1>4, Sizes, <1>0 DEF JobRec, JobFields, JobT
<1>6. OwnType(c)'
  BY <1>1, <1>3, <1>4, <1>5, Constants
  DEF OwnTypes, OwnType, Points, Lock, Moves, SameCall, SameLocks, SameCache, SameWal, SameJob
<1>7. SharedTypes'
  BY <1>1, <1>3 DEF SharedTypes, dbVars, logVars, shmVars
<1> QED
  BY <1>1, <1>2, <1>3, <1>4, <1>5, <1>6, <1>7, OwnTypesKept, TypePartsNext, WalRecIs, JobRecIs
 DEF FramesDoes
RestartHdrDoes(c) ==
  /\ Moves(c, "frames", "restart")
  /\ MayRestart(c)
  /\ Fresh # {}
  /\ SameCall(c)
  /\ exclMask'[c] = exclMask[c] \cup ReadLocks /\ sharedMask'[c] = sharedMask[c]
  /\ SameCache(c)
  /\ WalIs(c, [init |-> TRUE, salt |-> NewSalt, mx |-> 0, sum |-> <<>>],
                 wal[c].readLock, wal[c].minFrame, wal[c].iReCksum)
  /\ JobIs(c, job[c].slot, job[c].mark, job[c].first, 0, job[c].todo, job[c].batch,
           job[c].iter, job[c].changed)
  /\ UNCHANGED <<dbVars, logVars, aPgno, nBackfill, aReadMark>>
  /\ aHdr' = [aHdr EXCEPT ![1] = [init |-> TRUE, salt |-> NewSalt, mx |-> 0, sum |->
                 <<>>]]

LEMMA RestartHdrEffect ==
  ASSUME TypesOK, NEW c \in Conn, PointOK(c), TaskOK(c), RestartHdr(c)
  PROVE  TypesOK' /\ OthersStay(c) /\ RestartHdrDoes(c)
<1>1. /\ wal[c] \in WalT /\ job[c] \in JobT /\ WalFields(c) /\ JobFields(c)
      /\ OwnTypes /\ SharedTypes
  BY Fields
<1>0. [init |-> TRUE, salt |-> NewSalt, mx |-> 0, sum |-> <<>>] \in HdrT
  BY NewSaltIn, Constants DEF RestartHdr, HdrT
<1>2. Only(c)
  BY <1>1
  DEF OwnTypes, Only, RestartHdr, LockExclusive, Step, Goto, dbVars, logVars, shmVars, lockVars
<1>3. /\ Moves(c, "frames", "restart")
      /\ MayRestart(c)
      /\ Fresh # {}
      /\ SameCall(c)
      /\ exclMask'[c] = exclMask[c] \cup ReadLocks /\ sharedMask'[c] = sharedMask[c]
      /\ SameCache(c)
      /\ UNCHANGED <<dbVars, logVars, aPgno, nBackfill, aReadMark>>
      /\ aHdr' = [aHdr EXCEPT ![1] = [init |-> TRUE, salt |-> NewSalt, mx |-> 0, sum |->
                  <<>>]]
  BY <1>1
  DEF OwnTypes, Moves, SameCall, SameLocks, SameCache, SameWal, SameJob, RestartHdr,
      LockExclusive, Step, Goto, dbVars, logVars, shmVars, lockVars
<1>4. WalRec(c, [init |-> TRUE, salt |-> NewSalt, mx |-> 0, sum |-> <<>>], wal[c].readLock,
        wal[c].minFrame, wal[c].iReCksum)
  <2>1. wal'[c] = [wal[c] EXCEPT !.hdr = [init |-> TRUE, salt |-> NewSalt, mx |-> 0, sum |->
        <<>>]]
    BY <1>1
    DEF OwnTypes, RestartHdr, LockExclusive, Step, Goto, dbVars, logVars, shmVars, lockVars
  <2> QED
    BY <1>1, <2>1 DEF WalRec, WalT
<1>5. wal'[c] \in WalT
  BY <1>1, <1>4, Sizes, <1>0 DEF WalRec, WalFields, WalT
<1>6. JobRec(c, job[c].slot, job[c].mark, job[c].first, 0, job[c].todo, job[c].batch,
        job[c].iter, job[c].changed)
  <2>1. job'[c] = [job[c] EXCEPT !.iFrame = 0]
    BY <1>1
    DEF OwnTypes, RestartHdr, LockExclusive, Step, Goto, dbVars, logVars, shmVars, lockVars
  <2> QED
    BY <1>1, <2>1 DEF JobRec, JobT
<1>7. job'[c] \in JobT
  BY <1>1, <1>6, Sizes DEF JobRec, JobFields, JobT
<1>8. OwnType(c)'
  BY <1>1, <1>3, <1>4, <1>5, <1>6, <1>7, Constants
  DEF OwnTypes, OwnType, Points, Lock, Moves, SameCall, SameLocks, SameCache, SameWal, SameJob,
      ReadLocks, WAL_READ_LOCK, Mark
<1>9. SharedTypes'
  BY <1>1, <1>0, <1>3 DEF SharedTypes, dbVars, logVars
<1> QED
  BY <1>1, <1>2, <1>3, <1>4, <1>5, <1>6, <1>7, <1>8, <1>9, OwnTypesKept, TypePartsNext,
     WalRecIs, JobRecIs
 DEF RestartHdrDoes
RestartHdr0Does(c) ==
  /\ Moves(c, "restart", "restarted")
  /\ SameCall(c)
  /\ SameLocks(c)
  /\ SameCache(c)
  /\ SameWal(c)
  /\ SameJob(c)
  /\ UNCHANGED <<dbVars, logVars, aPgno, nBackfill, aReadMark>>
  /\ aHdr' = [aHdr EXCEPT ![0] = wal[c].hdr]

LEMMA RestartHdr0Effect ==
  ASSUME TypesOK, NEW c \in Conn, PointOK(c), TaskOK(c), RestartHdr0(c)
  PROVE  TypesOK' /\ OthersStay(c) /\ RestartHdr0Does(c)
<1>1. /\ wal[c] \in WalT /\ job[c] \in JobT /\ WalFields(c) /\ JobFields(c)
      /\ OwnTypes /\ SharedTypes
  BY Fields
<1>2. Only(c)
  BY <1>1 DEF OwnTypes, Only, RestartHdr0, Step, Goto, dbVars, logVars, shmVars, lockVars
<1>3. /\ Moves(c, "restart", "restarted")
      /\ SameCall(c)
      /\ SameLocks(c)
      /\ SameCache(c)
      /\ SameWal(c)
      /\ SameJob(c)
      /\ UNCHANGED <<dbVars, logVars, aPgno, nBackfill, aReadMark>>
      /\ aHdr' = [aHdr EXCEPT ![0] = wal[c].hdr]
  BY <1>1
  DEF OwnTypes, Moves, SameCall, SameLocks, SameCache, SameWal, SameJob, RestartHdr0, Step,
      Goto, dbVars, logVars, shmVars, lockVars
<1>4. OwnType(c)'
  BY <1>1, <1>3, Constants
  DEF OwnTypes, OwnType, Points, Lock, Moves, SameCall, SameLocks, SameCache, SameWal, SameJob
<1>5. SharedTypes'
  BY <1>1, <1>3 DEF SharedTypes, WalFields, dbVars, logVars
<1> QED
  BY <1>1, <1>2, <1>3, <1>4, <1>5, OwnTypesKept, TypePartsNext, WalRecIs, JobRecIs
 DEF RestartHdr0Does
RestartInfoDoes(c) ==
  /\ Moves(c, "restarted", "choose")
  /\ SameCall(c)
  /\ exclMask'[c] = exclMask[c] \ ReadLocks
  /\ sharedMask'[c] = sharedMask[c] \ {WAL_READ_LOCK(0)}
  /\ SameCache(c)
  /\ SameJob(c)
  /\ WalIs(c, wal[c].hdr, -1, wal[c].minFrame, wal[c].iReCksum)
  /\ UNCHANGED <<dbVars, logVars, aHdr, aPgno>>
  /\ nBackfill' = 0
  /\ aReadMark' = [i \in Mark |-> IF i = 1 THEN 0 ELSE READMARK_NOT_USED]

LEMMA RestartInfoEffect ==
  ASSUME TypesOK, NEW c \in Conn, PointOK(c), TaskOK(c), RestartInfo(c)
  PROVE  TypesOK' /\ OthersStay(c) /\ RestartInfoDoes(c)
<1>1. /\ wal[c] \in WalT /\ job[c] \in JobT /\ WalFields(c) /\ JobFields(c)
      /\ OwnTypes /\ SharedTypes
  BY Fields
<1>2. Only(c)
  BY <1>1
  DEF OwnTypes, Only, RestartInfo, LeaveZero, BackfillAtRestart, Step, Goto, dbVars, logVars,
      shmVars, lockVars
<1>3. /\ Moves(c, "restarted", "choose")
      /\ SameCall(c)
      /\ exclMask'[c] = exclMask[c] \ ReadLocks
      /\ sharedMask'[c] = sharedMask[c] \ {WAL_READ_LOCK(0)}
      /\ SameCache(c)
      /\ SameJob(c)
      /\ UNCHANGED <<dbVars, logVars, aHdr, aPgno>>
      /\ nBackfill' = 0
      /\ aReadMark' = [i \in Mark |-> IF i = 1 THEN 0 ELSE READMARK_NOT_USED]
  BY <1>1
  DEF OwnTypes, Moves, SameCall, SameLocks, SameCache, SameWal, SameJob, RestartInfo,
      LeaveZero, BackfillAtRestart, Step, Goto, dbVars, logVars, shmVars, lockVars
<1>4. WalRec(c, wal[c].hdr, -1, wal[c].minFrame, wal[c].iReCksum)
  <2>1. wal'[c] = [wal[c] EXCEPT !.readLock = -1]
    BY <1>1
    DEF OwnTypes, RestartInfo, LeaveZero, BackfillAtRestart, Step, Goto, dbVars, logVars,
        shmVars, lockVars
  <2> QED
    BY <1>1, <2>1 DEF WalRec, WalT
<1>5. wal'[c] \in WalT
  BY <1>1, <1>4, Sizes DEF WalRec, WalFields, WalT
<1>6. OwnType(c)'
  BY <1>1, <1>3, <1>4, <1>5, Constants
  DEF OwnTypes, OwnType, Points, Lock, Moves, SameCall, SameLocks, SameCache, SameWal, SameJob
<1>7. SharedTypes'
  BY <1>1, <1>3, Sizes DEF SharedTypes, dbVars, logVars, READMARK_NOT_USED
<1> QED
  BY <1>1, <1>2, <1>3, <1>4, <1>5, <1>6, <1>7, OwnTypesKept, TypePartsNext, WalRecIs, JobRecIs
 DEF RestartInfoDoes
KeepLogDoes(c) ==
  /\ \/ /\ Moves(c, "frames", "choose")
        /\ wal[c].readLock = 0
        /\ SameCall(c)
        /\ exclMask'[c] = exclMask[c]
        /\ sharedMask'[c] = sharedMask[c] \ {WAL_READ_LOCK(0)}
        /\ SameCache(c)
        /\ SameJob(c)
        /\ WalIs(c, wal[c].hdr, -1, wal[c].minFrame, wal[c].iReCksum)
        /\ UNCHANGED <<dbVars, logVars, shmVars>>
     \/ /\ Moves(c, "frames", ToLog(c))
        /\ wal[c].readLock # 0
        /\ SameCall(c)
        /\ SameLocks(c)
        /\ SameCache(c)
        /\ SameWal(c)
        /\ SameJob(c)
        /\ UNCHANGED <<dbVars, logVars, shmVars>>

LEMMA KeepLogEffect ==
  ASSUME TypesOK, NEW c \in Conn, PointOK(c), TaskOK(c), KeepLog(c)
  PROVE  TypesOK' /\ OthersStay(c) /\ KeepLogDoes(c)
<1>1. /\ wal[c] \in WalT /\ job[c] \in JobT /\ WalFields(c) /\ JobFields(c)
      /\ OwnTypes /\ SharedTypes
  BY Fields
<1>2. Only(c)
  BY <1>1
  DEF OwnTypes, Only, KeepLog, UnlockShared, LeaveZero, Step, Goto, dbVars, logVars, shmVars,
      lockVars
<1>3. CASE /\ Step(c, "frames", "choose")
           /\ wal[c].readLock = 0
           /\ UnlockShared(c, WAL_READ_LOCK(0))
           /\ LeaveZero(c)
           /\ UNCHANGED <<dbVars, logVars, shmVars, dirty, kept, call, job>>
  <2>1. /\ Moves(c, "frames", "choose")
        /\ wal[c].readLock = 0
        /\ SameCall(c)
        /\ exclMask'[c] = exclMask[c] /\ sharedMask'[c] = sharedMask[c] \ {WAL_READ_LOCK(0)}
        /\ SameCache(c)
        /\ SameJob(c)
        /\ UNCHANGED <<dbVars, logVars, shmVars>>
    BY <1>1, <1>3
    DEF OwnTypes, Moves, SameCall, SameLocks, SameCache, SameWal, SameJob, UnlockShared,
        LeaveZero, Step, Goto, dbVars, logVars, shmVars, lockVars
  <2>2. WalRec(c, wal[c].hdr, -1, wal[c].minFrame, wal[c].iReCksum)
    <3>1. wal'[c] = [wal[c] EXCEPT !.readLock = -1]
      BY <1>1, <1>3
      DEF OwnTypes, UnlockShared, LeaveZero, Step, Goto, dbVars, logVars, shmVars, lockVars
    <3> QED
      BY <1>1, <3>1 DEF WalRec, WalT
  <2>3. wal'[c] \in WalT
    BY <1>1, <2>2, Sizes DEF WalRec, WalFields, WalT
  <2>4. OwnType(c)'
    BY <1>1, <2>1, <2>2, <2>3, Constants
    DEF OwnTypes, OwnType, Points, Lock, Moves, SameCall, SameLocks, SameCache, SameWal,
        SameJob, ToLog
  <2>5. SharedTypes'
    BY <1>1, <2>1 DEF SharedTypes, dbVars, logVars, shmVars
  <2> QED
    BY <1>1, <1>2, <2>1, <2>2, <2>3, <2>4, <2>5, OwnTypesKept, TypePartsNext, WalRecIs,
       JobRecIs
    DEF KeepLogDoes
<1>4. CASE /\ Step(c, "frames", ToLog(c))
           /\ wal[c].readLock # 0
           /\ UNCHANGED <<lockVars, wal>>
           /\ UNCHANGED <<dbVars, logVars, shmVars, dirty, kept, call, job>>
  <2>1. /\ Moves(c, "frames", ToLog(c))
        /\ wal[c].readLock # 0
        /\ SameCall(c)
        /\ SameLocks(c)
        /\ SameCache(c)
        /\ SameWal(c)
        /\ SameJob(c)
        /\ UNCHANGED <<dbVars, logVars, shmVars>>
    BY <1>1, <1>4
    DEF OwnTypes, Moves, SameCall, SameLocks, SameCache, SameWal, SameJob, UnlockShared,
        LeaveZero, Step, Goto, dbVars, logVars, shmVars, lockVars
  <2>2. OwnType(c)'
    BY <1>1, <2>1, Constants
    DEF OwnTypes, OwnType, Points, Lock, Moves, SameCall, SameLocks, SameCache, SameWal,
        SameJob, ToLog
  <2>3. SharedTypes'
    BY <1>1, <2>1 DEF SharedTypes, dbVars, logVars, shmVars
  <2> QED
    BY <1>1, <1>2, <2>1, <2>2, <2>3, OwnTypesKept, TypePartsNext, WalRecIs, JobRecIs
    DEF KeepLogDoes
<1> QED
  BY <1>3, <1>4 DEF KeepLog

StartCheckpointDoes(c) ==
  /\ Moves(c, "idle", "ckhdr")
  /\ CanExclude(c, {WAL_CKPT_LOCK})
  /\ call'[c] = "ckpt"
  /\ exclMask'[c] = exclMask[c] \cup {WAL_CKPT_LOCK}
  /\ sharedMask'[c] = sharedMask[c]
  /\ SameCache(c)
  /\ SameWal(c)
  /\ SameJob(c)
  /\ UNCHANGED <<dbVars, logVars, shmVars>>

LEMMA StartCheckpointEffect ==
  ASSUME TypesOK, NEW c \in Conn, PointOK(c), TaskOK(c), StartCheckpoint(c)
  PROVE  TypesOK' /\ OthersStay(c) /\ StartCheckpointDoes(c)
<1>1. /\ wal[c] \in WalT /\ job[c] \in JobT /\ WalFields(c) /\ JobFields(c)
      /\ OwnTypes /\ SharedTypes
  BY Fields
<1>2. Only(c)
  BY <1>1
  DEF OwnTypes, Only, StartCheckpoint, LockExclusive, Step, Goto, dbVars, logVars, shmVars,
      lockVars
<1>3. /\ Moves(c, "idle", "ckhdr")
      /\ CanExclude(c, {WAL_CKPT_LOCK})
      /\ call'[c] = "ckpt"
      /\ exclMask'[c] = exclMask[c] \cup {WAL_CKPT_LOCK} /\ sharedMask'[c] = sharedMask[c]
      /\ SameCache(c)
      /\ SameWal(c)
      /\ SameJob(c)
      /\ UNCHANGED <<dbVars, logVars, shmVars>>
  BY <1>1
  DEF OwnTypes, Moves, SameCall, SameLocks, SameCache, SameWal, SameJob, StartCheckpoint,
      LockExclusive, Step, Goto, dbVars, logVars, shmVars, lockVars
<1>4. OwnType(c)'
  BY <1>1, <1>3, Constants
  DEF OwnTypes, OwnType, Points, Lock, Moves, SameCall, SameLocks, SameCache, SameWal, SameJob,
      WAL_CKPT_LOCK, WAL_READ_LOCK
<1>5. SharedTypes'
  BY <1>1, <1>3 DEF SharedTypes, dbVars, logVars, shmVars
<1> QED
  BY <1>1, <1>2, <1>3, <1>4, <1>5, OwnTypesKept, TypePartsNext, WalRecIs, JobRecIs
 DEF StartCheckpointDoes
InitIteratorDoes(c) ==
  /\ \/ /\ Moves(c, "ckstart", "ckslot")
        /\ nBackfill < wal[c].hdr.mx
        /\ SameCall(c)
        /\ SameLocks(c)
        /\ SameCache(c)
        /\ SameWal(c)
        /\ JobIs(c, 1, wal[c].hdr.mx, job[c].first, job[c].iFrame, job[c].todo, job[c].batch,
                 [p \in Page |-> Last(wal[c].hdr.mx, p)], job[c].changed)
        /\ UNCHANGED <<dbVars, logVars, shmVars>>
     \/ /\ Moves(c, "ckstart", "ckend")
        /\ SameCall(c)
        /\ SameLocks(c)
        /\ SameCache(c)
        /\ SameWal(c)
        /\ SameJob(c)
        /\ UNCHANGED <<dbVars, logVars, shmVars>>

LEMMA InitIteratorEffect ==
  ASSUME TypesOK, NEW c \in Conn, PointOK(c), TaskOK(c), InitIterator(c)
  PROVE  TypesOK' /\ OthersStay(c) /\ InitIteratorDoes(c)
<1>1. /\ wal[c] \in WalT /\ job[c] \in JobT /\ WalFields(c) /\ JobFields(c)
      /\ OwnTypes /\ SharedTypes
  BY Fields
<1>0. /\ wal[c].hdr.mx \in 0 .. MaxFrame
      /\ \A p \in Page : Last(wal[c].hdr.mx, p) \in 0 .. MaxFrame
  <2>1. wal[c].hdr.mx \in 0 .. MaxFrame
    BY Types
  <2>2. \A p \in Page : Last(wal[c].hdr.mx, p) \in 0 .. wal[c].hdr.mx
    BY <2>1, LastIn
  <2> QED
    BY <2>1, <2>2, Sizes
<1>2. Only(c)
  BY <1>1
  DEF OwnTypes, Only, InitIterator, Last, Step, Goto, dbVars, logVars, shmVars, lockVars
<1>3. CASE /\ nBackfill < wal[c].hdr.mx
           /\ Step(c, "ckstart", "ckslot")
           /\ job' = [job EXCEPT
                   ![c].iter = [p \in Page |-> Largest({i \in 1 .. wal[c].hdr.mx : aPgno[i] = p})],
                   ![c].mark = wal[c].hdr.mx,
                   ![c].slot = 1]
           /\ UNCHANGED <<dbVars, logVars, shmVars, lockVars, wal, dirty, kept, call>>
  <2>1. /\ Moves(c, "ckstart", "ckslot")
        /\ nBackfill < wal[c].hdr.mx
        /\ SameCall(c)
        /\ SameLocks(c)
        /\ SameCache(c)
        /\ SameWal(c)
        /\ UNCHANGED <<dbVars, logVars, shmVars>>
    BY <1>1, <1>3
    DEF OwnTypes, Moves, SameCall, SameLocks, SameCache, SameWal, SameJob, Last, Step, Goto,
        dbVars, logVars, shmVars, lockVars
  <2>2. JobRec(c, 1, wal[c].hdr.mx, job[c].first, job[c].iFrame, job[c].todo, job[c].batch,
          [p \in Page |-> Last(wal[c].hdr.mx, p)], job[c].changed)
    <3>1. job'[c] = [job[c] EXCEPT !.slot = 1, !.mark = wal[c].hdr.mx, !.iter = [p \in Page
          |-> Last(wal[c].hdr.mx, p)]]
      BY <1>1, <1>3 DEF OwnTypes, Last, Step, Goto, dbVars, logVars, shmVars, lockVars
    <3> QED
      BY <1>1, <3>1 DEF JobRec, JobT
  <2>3. job'[c] \in JobT
    BY <1>1, <2>2, Sizes, <1>0 DEF JobRec, JobFields, JobT
  <2>4. OwnType(c)'
    BY <1>1, <2>1, <2>2, <2>3, Constants
    DEF OwnTypes, OwnType, Points, Lock, Moves, SameCall, SameLocks, SameCache, SameWal,
        SameJob
  <2>5. SharedTypes'
    BY <1>1, <2>1 DEF SharedTypes, dbVars, logVars, shmVars
  <2> QED
    BY <1>1, <1>2, <2>1, <2>2, <2>3, <2>4, <2>5, OwnTypesKept, TypePartsNext, WalRecIs,
       JobRecIs
    DEF InitIteratorDoes
<1>4. CASE /\ nBackfill >= wal[c].hdr.mx
           /\ Step(c, "ckstart", "ckend")
           /\ UNCHANGED job
           /\ UNCHANGED <<dbVars, logVars, shmVars, lockVars, wal, dirty, kept, call>>
  <2>1. /\ Moves(c, "ckstart", "ckend")
        /\ SameCall(c)
        /\ SameLocks(c)
        /\ SameCache(c)
        /\ SameWal(c)
        /\ SameJob(c)
        /\ UNCHANGED <<dbVars, logVars, shmVars>>
    BY <1>1, <1>4
    DEF OwnTypes, Moves, SameCall, SameLocks, SameCache, SameWal, SameJob, Last, Step, Goto,
        dbVars, logVars, shmVars, lockVars
  <2>2. OwnType(c)'
    BY <1>1, <2>1, Constants
    DEF OwnTypes, OwnType, Points, Lock, Moves, SameCall, SameLocks, SameCache, SameWal,
        SameJob
  <2>3. SharedTypes'
    BY <1>1, <2>1 DEF SharedTypes, dbVars, logVars, shmVars
  <2> QED
    BY <1>1, <1>2, <2>1, <2>2, <2>3, OwnTypesKept, TypePartsNext, WalRecIs, JobRecIs
    DEF InitIteratorDoes
<1> QED
  BY <1>3, <1>4 DEF InitIterator

GiveUpDoes(c) ==
  /\ Moves(c, "ckzero", "ckend")
  /\ SameCall(c)
  /\ SameLocks(c)
  /\ SameCache(c)
  /\ SameWal(c)
  /\ SameJob(c)
  /\ UNCHANGED <<dbVars, logVars, shmVars>>

LEMMA GiveUpEffect ==
  ASSUME TypesOK, NEW c \in Conn, PointOK(c), TaskOK(c), GiveUp(c)
  PROVE  TypesOK' /\ OthersStay(c) /\ GiveUpDoes(c)
<1>1. /\ wal[c] \in WalT /\ job[c] \in JobT /\ WalFields(c) /\ JobFields(c)
      /\ OwnTypes /\ SharedTypes
  BY Fields
<1>2. Only(c)
  BY <1>1 DEF OwnTypes, Only, GiveUp, Step, Goto, dbVars, logVars, shmVars, lockVars
<1>3. /\ Moves(c, "ckzero", "ckend")
      /\ SameCall(c)
      /\ SameLocks(c)
      /\ SameCache(c)
      /\ SameWal(c)
      /\ SameJob(c)
      /\ UNCHANGED <<dbVars, logVars, shmVars>>
  BY <1>1
  DEF OwnTypes, Moves, SameCall, SameLocks, SameCache, SameWal, SameJob, GiveUp, Step, Goto,
      dbVars, logVars, shmVars, lockVars
<1>4. OwnType(c)'
  BY <1>1, <1>3, Constants
  DEF OwnTypes, OwnType, Points, Lock, Moves, SameCall, SameLocks, SameCache, SameWal, SameJob
<1>5. SharedTypes'
  BY <1>1, <1>3 DEF SharedTypes, dbVars, logVars, shmVars
<1> QED
  BY <1>1, <1>2, <1>3, <1>4, <1>5, OwnTypesKept, TypePartsNext, WalRecIs, JobRecIs
 DEF GiveUpDoes
LockZeroDoes(c) ==
  /\ Moves(c, "ckzero", "ckcopy")
  /\ nBackfill < job[c].mark
  /\ CanExclude(c, {WAL_READ_LOCK(0)})
  /\ SameCall(c)
  /\ exclMask'[c] = exclMask[c] \cup {WAL_READ_LOCK(0)}
  /\ sharedMask'[c] = sharedMask[c]
  /\ SameCache(c)
  /\ SameWal(c)
  /\ JobIs(c, job[c].slot, job[c].mark, job[c].first, job[c].iFrame, job[c].todo,
           job[c].batch,
           [p \in Page |-> IF job[c].iter[p] \in nBackfill + 1 .. job[c].mark
                            THEN job[c].iter[p]
                            ELSE 0],
           job[c].changed)
  /\ UNCHANGED <<dbVars, log, salt, shmVars>>
  /\ LogSynced

LEMMA LockZeroEffect ==
  ASSUME TypesOK, NEW c \in Conn, PointOK(c), TaskOK(c), LockZero(c)
  PROVE  TypesOK' /\ OthersStay(c) /\ LockZeroDoes(c)
<1>1. /\ wal[c] \in WalT /\ job[c] \in JobT /\ WalFields(c) /\ JobFields(c)
      /\ OwnTypes /\ SharedTypes
  BY Fields
<1>2. Only(c)
  BY <1>1
  DEF OwnTypes, Only, LockZero, LockExclusive, Step, Goto, dbVars, logVars, shmVars, lockVars
<1>3. /\ Moves(c, "ckzero", "ckcopy")
      /\ nBackfill < job[c].mark
      /\ CanExclude(c, {WAL_READ_LOCK(0)})
      /\ SameCall(c)
      /\ exclMask'[c] = exclMask[c] \cup {WAL_READ_LOCK(0)}
      /\ sharedMask'[c] = sharedMask[c]
      /\ SameCache(c)
      /\ SameWal(c)
      /\ UNCHANGED <<dbVars, log, salt, shmVars>>
      /\ LogSynced
  BY <1>1
  DEF OwnTypes, Moves, SameCall, SameLocks, SameCache, SameWal, SameJob, LockZero,
      LockExclusive, Step, Goto, dbVars, logVars, shmVars, lockVars
<1>4. JobRec(c, job[c].slot, job[c].mark, job[c].first, job[c].iFrame, job[c].todo,
        job[c].batch, [p \in Page |->
     IF job[c].iter[p] \in nBackfill + 1 ..
        job[c].mark THEN job[c].iter[p] ELSE 0], job[c].changed)
  <2>1. job'[c] = [job[c] EXCEPT !.iter = [p \in Page |->
     IF job[c].iter[p] \in
        nBackfill + 1 .. job[c].mark THEN job[c].iter[p] ELSE 0]]
    BY <1>1
    DEF OwnTypes, LockZero, LockExclusive, Step, Goto, dbVars, logVars, shmVars, lockVars
  <2> QED
    BY <1>1, <2>1 DEF JobRec, JobT
<1>5. job'[c] \in JobT
  BY <1>1, <1>4, Sizes DEF JobRec, JobFields, JobT
<1>6. OwnType(c)'
  BY <1>1, <1>3, <1>4, <1>5, Constants
  DEF OwnTypes, OwnType, Points, Lock, Moves, SameCall, SameLocks, SameCache, SameWal, SameJob,
      WAL_READ_LOCK
<1>7. SharedTypes'
  BY <1>1, <1>3 DEF SharedTypes, dbVars, shmVars, LogSynced, SyncLog
<1> QED
  BY <1>1, <1>2, <1>3, <1>4, <1>5, <1>6, <1>7, OwnTypesKept, TypePartsNext, WalRecIs, JobRecIs
 DEF LockZeroDoes
CopyPageDoes(c) ==
  /\ Moves(c, "ckcopy", "ckcopy")
  /\ Min(ToCopy(c)) \in ToCopy(c)
  /\ SameCall(c)
  /\ SameLocks(c)
  /\ SameCache(c)
  /\ SameWal(c)
  /\ JobIs(c, job[c].slot, job[c].mark, job[c].first, job[c].iFrame, job[c].todo,
           job[c].batch, [job[c].iter EXCEPT ![Min(ToCopy(c))] = 0], job[c].changed)
  /\ UNCHANGED <<change, logVars, shmVars>>
  /\ db' = [db EXCEPT ![Min(ToCopy(c))] = log[job[c].iter[Min(ToCopy(c))]].val]
  /\ platter' = [platter EXCEPT ![Min(ToCopy(c))] =
         @ \cup {log[job[c].iter[Min(ToCopy(c))]].val, Torn}]

LEMMA CopyPageEffect ==
  ASSUME TypesOK, NEW c \in Conn, PointOK(c), TaskOK(c), CopyPage(c)
  PROVE  TypesOK' /\ OthersStay(c) /\ CopyPageDoes(c)
<1>1. /\ wal[c] \in WalT /\ job[c] \in JobT /\ WalFields(c) /\ JobFields(c)
      /\ OwnTypes /\ SharedTypes
  BY Fields
<1>0. /\ Min(ToCopy(c)) \in ToCopy(c) /\ Min(ToCopy(c)) \in Page
      /\ log[job[c].iter[Min(ToCopy(c))]].val \in (0 .. MaxChange) \cup {Torn}
  <2>1. ToCopy(c) \subseteq Nat /\ ToCopy(c) # {}
    BY Sizes DEF ToCopy, Page, CopyPage
  <2>2. Min(ToCopy(c)) \in ToCopy(c)
    BY <2>1, MinOK
  <2>3. job[c].iter[Min(ToCopy(c))] \in Slot /\ Min(ToCopy(c)) \in Page
    <3>1. Min(ToCopy(c)) \in Page /\ job[c].iter[Min(ToCopy(c))] # 0
      BY <2>2 DEF ToCopy
    <3>2. job[c].iter[Min(ToCopy(c))] \in 0 .. MaxFrame
      BY <1>1, <3>1 DEF JobFields
    <3> QED
      BY <3>1, <3>2, Sizes DEF Slot
  <2> QED
    BY <2>2, <2>3, Types DEF Content
<1>2. Only(c)
  BY <1>1 DEF OwnTypes, Only, CopyPage, Step, Goto, dbVars, logVars, shmVars, lockVars
<1>3. /\ Moves(c, "ckcopy", "ckcopy")
      /\ Min(ToCopy(c)) \in ToCopy(c)
      /\ SameCall(c)
      /\ SameLocks(c)
      /\ SameCache(c)
      /\ SameWal(c)
      /\ UNCHANGED <<change, logVars, shmVars>>
      /\ db' = [db EXCEPT ![Min(ToCopy(c))] = log[job[c].iter[Min(ToCopy(c))]].val]
      /\ platter' = [platter EXCEPT ![Min(ToCopy(c))] =
             @ \cup
                  {log[job[c].iter[Min(ToCopy(c))]].val, Torn}]
  BY <1>1, <1>0
  DEF OwnTypes, Moves, SameCall, SameLocks, SameCache, SameWal, SameJob, CopyPage, Step, Goto,
      dbVars, logVars, shmVars, lockVars
<1>4. JobRec(c, job[c].slot, job[c].mark, job[c].first, job[c].iFrame, job[c].todo,
        job[c].batch, [job[c].iter EXCEPT ![Min(ToCopy(c))] = 0], job[c].changed)
  <2>1. job'[c] = [job[c] EXCEPT !.iter = [job[c].iter EXCEPT ![Min(ToCopy(c))] = 0]]
    BY <1>1 DEF OwnTypes, CopyPage, Step, Goto, dbVars, logVars, shmVars, lockVars
  <2> QED
    BY <1>1, <2>1 DEF JobRec, JobT
<1>5. job'[c] \in JobT
  BY <1>1, <1>4, Sizes, <1>0 DEF JobRec, JobFields, JobT
<1>6. OwnType(c)'
  BY <1>1, <1>3, <1>4, <1>5, Constants
  DEF OwnTypes, OwnType, Points, Lock, Moves, SameCall, SameLocks, SameCache, SameWal, SameJob
<1>7. SharedTypes'
  BY <1>1, <1>0, <1>3 DEF SharedTypes, logVars, shmVars
<1> QED
  BY <1>1, <1>2, <1>3, <1>4, <1>5, <1>6, <1>7, OwnTypesKept, TypePartsNext, WalRecIs, JobRecIs
 DEF CopyPageDoes
BackfilledDoes(c) ==
  /\ Moves(c, "ckcopy", "ckend")
  /\ ToCopy(c) = {}
  /\ SameCall(c)
  /\ exclMask'[c] = exclMask[c] \ {WAL_READ_LOCK(0)}
  /\ sharedMask'[c] = sharedMask[c]
  /\ SameCache(c)
  /\ SameWal(c)
  /\ SameJob(c)
  /\ UNCHANGED <<change, db, logVars, aHdr, aPgno, aReadMark>>
  /\ nBackfill' = job[c].mark
  /\ platter' = IF job[c].mark = aHdr[0].mx THEN [p \in Page |-> {db[p]}] ELSE platter

LEMMA BackfilledEffect ==
  ASSUME TypesOK, NEW c \in Conn, PointOK(c), TaskOK(c), Backfilled(c)
  PROVE  TypesOK' /\ OthersStay(c) /\ BackfilledDoes(c)
<1>1. /\ wal[c] \in WalT /\ job[c] \in JobT /\ WalFields(c) /\ JobFields(c)
      /\ OwnTypes /\ SharedTypes
  BY Fields
<1>2. Only(c)
  BY <1>1
  DEF OwnTypes, Only, Backfilled, UnlockExclusive, mxSafeFrame, Step, Goto, dbVars, logVars,
      shmVars, lockVars
<1>3. /\ Moves(c, "ckcopy", "ckend")
      /\ ToCopy(c) = {}
      /\ SameCall(c)
      /\ exclMask'[c] = exclMask[c] \ {WAL_READ_LOCK(0)} /\ sharedMask'[c] = sharedMask[c]
      /\ SameCache(c)
      /\ SameWal(c)
      /\ SameJob(c)
      /\ UNCHANGED <<change, db, logVars, aHdr, aPgno, aReadMark>>
      /\ nBackfill' = job[c].mark
      /\ platter' = IF job[c].mark = aHdr[0].mx THEN [p \in Page |-> {db[p]}] ELSE platter
  BY <1>1
  DEF OwnTypes, Moves, SameCall, SameLocks, SameCache, SameWal, SameJob, Backfilled,
      UnlockExclusive, mxSafeFrame, Step, Goto, dbVars, logVars, shmVars, lockVars
<1>4. OwnType(c)'
  BY <1>1, <1>3, Constants
  DEF OwnTypes, OwnType, Points, Lock, Moves, SameCall, SameLocks, SameCache, SameWal, SameJob
<1>5. SharedTypes'
  BY <1>1, <1>3 DEF SharedTypes, logVars, JobFields
<1> QED
  BY <1>1, <1>2, <1>3, <1>4, <1>5, OwnTypesKept, TypePartsNext, WalRecIs, JobRecIs
 DEF BackfilledDoes
CheckpointFailsDoes(c) ==
  /\ Moves(c, "ckcopy", "ckend")
  /\ SameCall(c)
  /\ exclMask'[c] = exclMask[c] \ {WAL_READ_LOCK(0)}
  /\ sharedMask'[c] = sharedMask[c]
  /\ SameCache(c)
  /\ SameWal(c)
  /\ SameJob(c)
  /\ UNCHANGED <<dbVars, logVars, shmVars>>

LEMMA CheckpointFailsEffect ==
  ASSUME TypesOK, NEW c \in Conn, PointOK(c), TaskOK(c), CheckpointFails(c)
  PROVE  TypesOK' /\ OthersStay(c) /\ CheckpointFailsDoes(c)
<1>1. /\ wal[c] \in WalT /\ job[c] \in JobT /\ WalFields(c) /\ JobFields(c)
      /\ OwnTypes /\ SharedTypes
  BY Fields
<1>2. Only(c)
  BY <1>1
  DEF OwnTypes, Only, CheckpointFails, UnlockExclusive, Step, Goto, dbVars, logVars, shmVars,
      lockVars
<1>3. /\ Moves(c, "ckcopy", "ckend")
      /\ SameCall(c)
      /\ exclMask'[c] = exclMask[c] \ {WAL_READ_LOCK(0)} /\ sharedMask'[c] = sharedMask[c]
      /\ SameCache(c)
      /\ SameWal(c)
      /\ SameJob(c)
      /\ UNCHANGED <<dbVars, logVars, shmVars>>
  BY <1>1
  DEF OwnTypes, Moves, SameCall, SameLocks, SameCache, SameWal, SameJob, CheckpointFails,
      UnlockExclusive, Step, Goto, dbVars, logVars, shmVars, lockVars
<1>4. OwnType(c)'
  BY <1>1, <1>3, Constants
  DEF OwnTypes, OwnType, Points, Lock, Moves, SameCall, SameLocks, SameCache, SameWal, SameJob
<1>5. SharedTypes'
  BY <1>1, <1>3 DEF SharedTypes, dbVars, logVars, shmVars
<1> QED
  BY <1>1, <1>2, <1>3, <1>4, <1>5, OwnTypesKept, TypePartsNext, WalRecIs, JobRecIs
 DEF CheckpointFailsDoes
EndCheckpointDoes(c) ==
  /\ Moves(c, "ckend", "idle")
  /\ call'[c] = "none"
  /\ exclMask'[c] = exclMask[c] \ {WAL_CKPT_LOCK} /\ sharedMask'[c] = sharedMask[c]
  /\ SameCache(c)
  /\ WalIs(c, HdrAfter(c), wal[c].readLock, wal[c].minFrame, wal[c].iReCksum)
  /\ job'[c] = NoJob
  /\ UNCHANGED <<dbVars, logVars, shmVars>>

LEMMA EndCheckpointEffect ==
  ASSUME TypesOK, NEW c \in Conn, PointOK(c), TaskOK(c), EndCheckpoint(c)
  PROVE  TypesOK' /\ OthersStay(c) /\ EndCheckpointDoes(c)
<1>1. /\ wal[c] \in WalT /\ job[c] \in JobT /\ WalFields(c) /\ JobFields(c)
      /\ OwnTypes /\ SharedTypes
  BY Fields
<1>0. HdrAfter(c) \in HdrT
  BY <1>1, Constants DEF HdrAfter, WalFields
<1>2. Only(c)
  BY <1>1
  DEF OwnTypes, Only, EndCheckpoint, UnlockExclusive, Step, Goto, dbVars, logVars, shmVars,
      lockVars
<1>3. /\ Moves(c, "ckend", "idle")
      /\ call'[c] = "none"
      /\ exclMask'[c] = exclMask[c] \ {WAL_CKPT_LOCK} /\ sharedMask'[c] = sharedMask[c]
      /\ SameCache(c)
      /\ UNCHANGED <<dbVars, logVars, shmVars>>
      /\ job'[c] = NoJob
  BY <1>1
  DEF OwnTypes, Moves, SameCall, SameLocks, SameCache, SameWal, SameJob, EndCheckpoint,
      UnlockExclusive, Step, Goto, dbVars, logVars, shmVars, lockVars
<1>4. WalRec(c, HdrAfter(c), wal[c].readLock, wal[c].minFrame, wal[c].iReCksum)
  <2>1. wal'[c] = [wal[c] EXCEPT !.hdr = HdrAfter(c)]
    BY <1>1
    DEF OwnTypes, EndCheckpoint, UnlockExclusive, Step, Goto, dbVars, logVars, shmVars,
        lockVars
  <2> QED
    BY <1>1, <2>1 DEF WalRec, WalT
<1>5. wal'[c] \in WalT
  BY <1>1, <1>4, Sizes, <1>0 DEF WalRec, WalFields, WalT
<1>6. OwnType(c)'
  BY <1>1, <1>3, <1>4, <1>5, Constants, Constants
  DEF OwnTypes, OwnType, Points, Lock, Moves, SameCall, SameLocks, SameCache, SameWal, SameJob
<1>7. SharedTypes'
  BY <1>1, <1>3 DEF SharedTypes, dbVars, logVars, shmVars
<1> QED
  BY <1>1, <1>2, <1>3, <1>4, <1>5, <1>6, <1>7, OwnTypesKept, TypePartsNext, WalRecIs, JobRecIs
 DEF EndCheckpointDoes
SyncHeaderDoes(c) ==
  /\ Moves(c, "headersync", "append")
  /\ SameCall(c)
  /\ SameLocks(c)
  /\ SameCache(c)
  /\ SameWal(c)
  /\ SameJob(c)
  /\ UNCHANGED <<dbVars, log, salt, shmVars>>
  /\ SyncLog

LEMMA SyncHeaderEffect ==
  ASSUME TypesOK, NEW c \in Conn, PointOK(c), TaskOK(c), SyncHeader(c)
  PROVE  TypesOK' /\ OthersStay(c) /\ SyncHeaderDoes(c)
<1>1. /\ wal[c] \in WalT /\ job[c] \in JobT /\ WalFields(c) /\ JobFields(c)
      /\ OwnTypes /\ SharedTypes
  BY Fields
<1>2. Only(c)
  BY <1>1 DEF OwnTypes, Only, SyncHeader, Step, Goto, dbVars, logVars, shmVars, lockVars
<1>3. /\ Moves(c, "headersync", "append")
      /\ SameCall(c)
      /\ SameLocks(c)
      /\ SameCache(c)
      /\ SameWal(c)
      /\ SameJob(c)
      /\ UNCHANGED <<dbVars, log, salt, shmVars>>
      /\ SyncLog
  BY <1>1
  DEF OwnTypes, Moves, SameCall, SameLocks, SameCache, SameWal, SameJob, SyncHeader, Step,
      Goto, dbVars, logVars, shmVars, lockVars
<1>4. OwnType(c)'
  BY <1>1, <1>3, Constants
  DEF OwnTypes, OwnType, Points, Lock, Moves, SameCall, SameLocks, SameCache, SameWal, SameJob
<1>5. SharedTypes'
  BY <1>1, <1>3 DEF SharedTypes, dbVars, shmVars, SyncLog
<1> QED
  BY <1>1, <1>2, <1>3, <1>4, <1>5, OwnTypesKept, TypePartsNext, WalRecIs, JobRecIs
 DEF SyncHeaderDoes
PublishHdr0Does(c) ==
  /\ Moves(c, "publish0", "reader")
  /\ call'[c] = "none"
  /\ exclMask'[c] = exclMask[c] \ {WAL_WRITE_LOCK} /\ sharedMask'[c] = sharedMask[c]
  /\ SameCache(c)
  /\ SameWal(c)
  /\ SameJob(c)
  /\ UNCHANGED <<dbVars, logVars, aPgno, nBackfill, aReadMark>>
  /\ aHdr' = [aHdr EXCEPT ![0] = wal[c].hdr]

LEMMA PublishHdr0Effect ==
  ASSUME TypesOK, NEW c \in Conn, PointOK(c), TaskOK(c), PublishHdr0(c)
  PROVE  TypesOK' /\ OthersStay(c) /\ PublishHdr0Does(c)
<1>1. /\ wal[c] \in WalT /\ job[c] \in JobT /\ WalFields(c) /\ JobFields(c)
      /\ OwnTypes /\ SharedTypes
  BY Fields
<1>2. Only(c)
  BY <1>1
  DEF OwnTypes, Only, PublishHdr0, UnlockExclusive, Step, Goto, dbVars, logVars, shmVars,
      lockVars
<1>3. /\ Moves(c, "publish0", "reader")
      /\ call'[c] = "none"
      /\ exclMask'[c] = exclMask[c] \ {WAL_WRITE_LOCK} /\ sharedMask'[c] = sharedMask[c]
      /\ SameCache(c)
      /\ SameWal(c)
      /\ SameJob(c)
      /\ UNCHANGED <<dbVars, logVars, aPgno, nBackfill, aReadMark>>
      /\ aHdr' = [aHdr EXCEPT ![0] = wal[c].hdr]
  BY <1>1
  DEF OwnTypes, Moves, SameCall, SameLocks, SameCache, SameWal, SameJob, PublishHdr0,
      UnlockExclusive, Step, Goto, dbVars, logVars, shmVars, lockVars
<1>4. OwnType(c)'
  BY <1>1, <1>3, Constants
  DEF OwnTypes, OwnType, Points, Lock, Moves, SameCall, SameLocks, SameCache, SameWal, SameJob
<1>5. SharedTypes'
  BY <1>1, <1>3 DEF SharedTypes, WalFields, dbVars, logVars
<1> QED
  BY <1>1, <1>2, <1>3, <1>4, <1>5, OwnTypesKept, TypePartsNext, WalRecIs, JobRecIs
 DEF PublishHdr0Does
RollbackDoes(c) ==
  /\ pc[c] \in {"writer", "headersync", "append", "rewrite"}
  /\ pc'[c] = "reader"
  /\ call'[c] = "none"
  /\ exclMask'[c] = exclMask[c] \ {WAL_WRITE_LOCK} /\ sharedMask'[c] = sharedMask[c]
  /\ dirty'[c] = Clean /\ kept'[c] = kept[c]
  /\ WalIs(c, aHdr[0], wal[c].readLock, wal[c].minFrame, 0)
  /\ job'[c] = NoJob
  /\ UNCHANGED <<dbVars, logVars, aHdr, nBackfill, aReadMark>>
  /\ aPgno' = IF aHdr[0].mx = 0 \/ aHdr[0].mx = wal[c].hdr.mx THEN aPgno
                 ELSE [i \in Slot |-> IF i <= aHdr[0].mx THEN aPgno[i] ELSE 0]

LEMMA RollbackEffect ==
  ASSUME TypesOK, NEW c \in Conn, PointOK(c), TaskOK(c), Rollback(c)
  PROVE  TypesOK' /\ OthersStay(c) /\ RollbackDoes(c)
<1>1. /\ wal[c] \in WalT /\ job[c] \in JobT /\ WalFields(c) /\ JobFields(c)
      /\ OwnTypes /\ SharedTypes
  BY Fields
<1>0. aHdr[0] \in HdrT
  BY Types
<1>2. Only(c)
  BY <1>1
  DEF OwnTypes, Only, Rollback, UnlockExclusive, Step, Goto, dbVars, logVars, shmVars, lockVars
<1>3. /\ pc[c] \in {"writer", "headersync", "append", "rewrite"}
      /\ pc'[c] = "reader"
      /\ call'[c] = "none"
      /\ exclMask'[c] = exclMask[c] \ {WAL_WRITE_LOCK} /\ sharedMask'[c] = sharedMask[c]
      /\ dirty'[c] = Clean /\ kept'[c] = kept[c]
      /\ UNCHANGED <<dbVars, logVars, aHdr, nBackfill, aReadMark>>
      /\ aPgno' = IF aHdr[0].mx = 0 \/ aHdr[0].mx = wal[c].hdr.mx THEN aPgno
                  ELSE
                  [i \in Slot |-> IF i <= aHdr[0].mx THEN aPgno[i] ELSE 0]
      /\ job'[c] = NoJob
  BY <1>1
  DEF OwnTypes, Moves, SameCall, SameLocks, SameCache, SameWal, SameJob, Rollback,
      UnlockExclusive, Step, Goto, dbVars, logVars, shmVars, lockVars
<1>4. WalRec(c, aHdr[0], wal[c].readLock, wal[c].minFrame, 0)
  <2>1. wal'[c] = [wal[c] EXCEPT !.hdr = aHdr[0], !.iReCksum = 0]
    BY <1>1
    DEF OwnTypes, Rollback, UnlockExclusive, Step, Goto, dbVars, logVars, shmVars, lockVars
  <2> QED
    BY <1>1, <2>1 DEF WalRec, WalT
<1>5. wal'[c] \in WalT
  BY <1>1, <1>4, Sizes, <1>0 DEF WalRec, WalFields, WalT
<1>6. OwnType(c)'
  BY <1>1, <1>3, <1>4, <1>5, Constants
  DEF OwnTypes, OwnType, Points, Lock, Moves, SameCall, SameLocks, SameCache, SameWal, SameJob
<1>7. SharedTypes'
  BY <1>1, <1>3, Sizes DEF SharedTypes, dbVars, logVars
<1> QED
  BY <1>1, <1>2, <1>3, <1>4, <1>5, <1>6, <1>7, OwnTypesKept, TypePartsNext, WalRecIs, JobRecIs
 DEF RollbackDoes
VisitMarkDoes(c) ==
  /\ \/ /\ Moves(c, "ckslot", IF job[c].slot = NMark THEN "ckzero" ELSE "ckslot")
        /\ aReadMark[job[c].slot] < job[c].mark
        /\ CanExclude(c, {WAL_READ_LOCK(job[c].slot)})
        /\ SameCall(c)
        /\ SameLocks(c)
        /\ SameCache(c)
        /\ SameWal(c)
        /\ JobIs(c, job[c].slot + 1, job[c].mark, job[c].first, job[c].iFrame, job[c].todo,
                 job[c].batch, job[c].iter, job[c].changed)
        /\ UNCHANGED <<dbVars, logVars, aHdr, aPgno, nBackfill>>
        /\ aReadMark' = [aReadMark EXCEPT ![job[c].slot] =
               IF job[c].slot = 1 THEN job[c].mark
               ELSE READMARK_NOT_USED]
     \/ /\ Moves(c, "ckslot", IF job[c].slot = NMark THEN "ckzero" ELSE "ckslot")
        /\ aReadMark[job[c].slot] < job[c].mark
        /\ SameCall(c)
        /\ SameLocks(c)
        /\ SameCache(c)
        /\ SameWal(c)
        /\ JobIs(c, job[c].slot + 1, aReadMark[job[c].slot], job[c].first, job[c].iFrame,
                 job[c].todo, job[c].batch, job[c].iter, job[c].changed)
        /\ UNCHANGED <<dbVars, logVars, aHdr, aPgno, nBackfill, aReadMark>>
     \/ /\ Moves(c, "ckslot", IF job[c].slot = NMark THEN "ckzero" ELSE "ckslot")
        /\ aReadMark[job[c].slot] >= job[c].mark
        /\ SameCall(c)
        /\ SameLocks(c)
        /\ SameCache(c)
        /\ SameWal(c)
        /\ JobIs(c, job[c].slot + 1, job[c].mark, job[c].first, job[c].iFrame, job[c].todo,
                 job[c].batch, job[c].iter, job[c].changed)
        /\ UNCHANGED <<dbVars, logVars, aHdr, aPgno, nBackfill, aReadMark>>

LEMMA VisitMarkEffect ==
  ASSUME TypesOK, NEW c \in Conn, PointOK(c), TaskOK(c), VisitMark(c)
  PROVE  TypesOK' /\ OthersStay(c) /\ VisitMarkDoes(c)
<1>1. /\ wal[c] \in WalT /\ job[c] \in JobT /\ WalFields(c) /\ JobFields(c)
      /\ OwnTypes /\ SharedTypes
  BY Fields
<1>0. /\ job[c].slot \in 1 .. NMark /\ aReadMark[job[c].slot] \in 0 .. MaxFrame + 1
      /\ job[c].mark \in 0 .. MaxFrame
  <2>1. job[c].slot \in Mark
    BY DEF PointOK, VisitMark, Step
  <2> QED
    BY <2>1, Types DEF Mark
<1>2. Only(c)
  BY <1>1 DEF OwnTypes, Only, VisitMark, Step, Goto, dbVars, logVars, shmVars, lockVars
<1>3. CASE /\ VisitMark(c)
           /\ aReadMark[job[c].slot] < job[c].mark
           /\ CanExclude(c, {WAL_READ_LOCK(job[c].slot)})
  <2>1. /\ Moves(c, "ckslot", IF job[c].slot = NMark THEN "ckzero" ELSE "ckslot")
        /\ aReadMark[job[c].slot] < job[c].mark
        /\ CanExclude(c, {WAL_READ_LOCK(job[c].slot)})
        /\ SameCall(c)
        /\ SameLocks(c)
        /\ SameCache(c)
        /\ SameWal(c)
        /\ UNCHANGED <<dbVars, logVars, aHdr, aPgno, nBackfill>>
        /\ aReadMark' = [aReadMark EXCEPT ![job[c].slot] =
               IF job[c].slot = 1 THEN job[c].mark
               ELSE READMARK_NOT_USED]
    BY <1>1, <1>3, <1>0
    DEF OwnTypes, Moves, SameCall, SameLocks, SameCache, SameWal, SameJob, Step, Goto, dbVars,
        logVars, shmVars, lockVars, VisitMark
  <2>2. JobRec(c, job[c].slot + 1, job[c].mark, job[c].first, job[c].iFrame, job[c].todo,
          job[c].batch, job[c].iter, job[c].changed)
    <3>1. job'[c] = [job[c] EXCEPT !.slot = job[c].slot + 1, !.mark = job[c].mark]
      BY <1>1, <1>3 DEF OwnTypes, Step, Goto, dbVars, logVars, shmVars, lockVars, VisitMark
    <3> QED
      BY <1>1, <3>1 DEF JobRec, JobT
  <2>3. job'[c] \in JobT
    BY <1>1, <2>2, Sizes, <1>0, <2>1 DEF JobRec, JobFields, JobT
  <2>4. OwnType(c)'
    BY <1>1, <2>1, <2>2, <2>3, Constants
    DEF OwnTypes, OwnType, Points, Lock, Moves, SameCall, SameLocks, SameCache, SameWal,
        SameJob
  <2>5. SharedTypes'
    BY <1>1, <1>0, <2>1, Sizes DEF SharedTypes, dbVars, logVars, READMARK_NOT_USED, Mark
  <2> QED
    BY <1>1, <1>2, <2>1, <2>2, <2>3, <2>4, <2>5, OwnTypesKept, TypePartsNext, WalRecIs,
       JobRecIs
    DEF VisitMarkDoes
<1>4. CASE /\ VisitMark(c)
           /\ aReadMark[job[c].slot] < job[c].mark
           /\ ~CanExclude(c, {WAL_READ_LOCK(job[c].slot)})
  <2>1. /\ Moves(c, "ckslot", IF job[c].slot = NMark THEN "ckzero" ELSE "ckslot")
        /\ aReadMark[job[c].slot] < job[c].mark
        /\ SameCall(c)
        /\ SameLocks(c)
        /\ SameCache(c)
        /\ SameWal(c)
        /\ UNCHANGED <<dbVars, logVars, aHdr, aPgno, nBackfill, aReadMark>>
    BY <1>1, <1>4, <1>0
    DEF OwnTypes, Moves, SameCall, SameLocks, SameCache, SameWal, SameJob, Step, Goto, dbVars,
        logVars, shmVars, lockVars, VisitMark
  <2>2. JobRec(c, job[c].slot + 1, aReadMark[job[c].slot], job[c].first, job[c].iFrame,
          job[c].todo, job[c].batch, job[c].iter, job[c].changed)
    <3>1. job'[c] = [job[c] EXCEPT !.slot = job[c].slot + 1, !.mark =
          aReadMark[job[c].slot]]
      BY <1>1, <1>4 DEF OwnTypes, Step, Goto, dbVars, logVars, shmVars, lockVars, VisitMark
    <3> QED
      BY <1>1, <3>1 DEF JobRec, JobT
  <2>3. job'[c] \in JobT
    BY <1>1, <2>2, Sizes, <1>0, <2>1 DEF JobRec, JobFields, JobT
  <2>4. OwnType(c)'
    BY <1>1, <2>1, <2>2, <2>3, Constants
    DEF OwnTypes, OwnType, Points, Lock, Moves, SameCall, SameLocks, SameCache, SameWal,
        SameJob
  <2>5. SharedTypes'
    BY <1>1, <1>0, <2>1, Sizes DEF SharedTypes, dbVars, logVars, READMARK_NOT_USED, Mark
  <2> QED
    BY <1>1, <1>2, <2>1, <2>2, <2>3, <2>4, <2>5, OwnTypesKept, TypePartsNext, WalRecIs,
       JobRecIs
    DEF VisitMarkDoes
<1>5. CASE /\ VisitMark(c)
           /\ ~(aReadMark[job[c].slot] < job[c].mark)
  <2>1. /\ Moves(c, "ckslot", IF job[c].slot = NMark THEN "ckzero" ELSE "ckslot")
        /\ aReadMark[job[c].slot] >= job[c].mark
        /\ SameCall(c)
        /\ SameLocks(c)
        /\ SameCache(c)
        /\ SameWal(c)
        /\ UNCHANGED <<dbVars, logVars, aHdr, aPgno, nBackfill, aReadMark>>
    BY <1>1, <1>5, <1>0
    DEF OwnTypes, Moves, SameCall, SameLocks, SameCache, SameWal, SameJob, Step, Goto, dbVars,
        logVars, shmVars, lockVars, VisitMark
  <2>2. JobRec(c, job[c].slot + 1, job[c].mark, job[c].first, job[c].iFrame, job[c].todo,
          job[c].batch, job[c].iter, job[c].changed)
    <3>1. job'[c] = [job[c] EXCEPT !.slot = job[c].slot + 1, !.mark = job[c].mark]
      BY <1>1, <1>5 DEF OwnTypes, Step, Goto, dbVars, logVars, shmVars, lockVars, VisitMark
    <3> QED
      BY <1>1, <3>1 DEF JobRec, JobT
  <2>3. job'[c] \in JobT
    BY <1>1, <2>2, Sizes, <1>0, <2>1 DEF JobRec, JobFields, JobT
  <2>4. OwnType(c)'
    BY <1>1, <2>1, <2>2, <2>3, Constants
    DEF OwnTypes, OwnType, Points, Lock, Moves, SameCall, SameLocks, SameCache, SameWal,
        SameJob
  <2>5. SharedTypes'
    BY <1>1, <1>0, <2>1, Sizes DEF SharedTypes, dbVars, logVars, READMARK_NOT_USED, Mark
  <2> QED
    BY <1>1, <1>2, <2>1, <2>2, <2>3, <2>4, <2>5, OwnTypesKept, TypePartsNext, WalRecIs,
       JobRecIs
    DEF VisitMarkDoes
<1> QED
  BY <1>3, <1>4, <1>5 DEF VisitMark

ChooseMarkDoes(c) ==
  /\ pc[c] \in {"choose", "marks"}
  /\ SameCall(c) /\ SameLocks(c) /\ SameCache(c) /\ SameWal(c)
  /\ UNCHANGED <<dbVars, logVars, aHdr, aPgno, nBackfill>>
  /\ \/ \E i \in Mark, m \in 0 .. wal[c].hdr.mx :
          /\ pc'[c] = "chosen"
          /\ JobIs(c, i, m, job[c].first, job[c].iFrame, job[c].todo, job[c].batch,
                   job[c].iter, job[c].changed)
          /\ \/ aReadMark' = aReadMark
             \/ /\ CanExclude(c, {WAL_READ_LOCK(i)})
                /\ aReadMark' = [aReadMark EXCEPT ![i] = m]
     \/ pc'[c] = Retry(c) /\ SameJob(c) /\ aReadMark' = aReadMark

LEMMA ChooseMarkEffect ==
  ASSUME TypesOK, NEW c \in Conn, PointOK(c), TaskOK(c), ChooseMark(c)
  PROVE  TypesOK' /\ OthersStay(c) /\ ChooseMarkDoes(c)
<1> DEFINE mx     == wal[c].hdr.mx
           usable == {i \in Mark : aReadMark[i] <= mx}
           value  == Largest({aReadMark[i] : i \in usable})
           best   == Largest({i \in usable : aReadMark[i] = value})
           free   == {i \in Mark : CanExclude(c, {WAL_READ_LOCK(i)})}
           Take(i, m) == Goto(c, "chosen") /\ job' = [job EXCEPT ![c].slot = i, ![c].mark = m]
<1>1. /\ wal[c] \in WalT /\ job[c] \in JobT /\ WalFields(c) /\ JobFields(c)
      /\ OwnTypes /\ SharedTypes
  BY Fields
<1>2. Only(c)
  BY <1>1 DEF OwnTypes, Only, ChooseMark, Goto, dbVars, logVars, lockVars
<1>3. /\ pc[c] \in {"choose", "marks"}
      /\ SameCall(c) /\ SameLocks(c) /\ SameCache(c) /\ SameWal(c)
      /\ UNCHANGED <<dbVars, logVars, aHdr, aPgno, nBackfill>>
  BY <1>1 DEF OwnTypes, ChooseMark, SameCall, SameLocks, SameCache, SameWal, lockVars
<1>4. mx \in 0 .. MaxFrame /\ mx \in Nat /\ \A i \in Mark : aReadMark[i] \in 0 .. MaxFrame + 1
  BY Types, Sizes
<1>5. value \in 0 .. mx
  <2>1. {aReadMark[i] : i \in usable} \subseteq 0 .. mx
    BY <1>4, Sizes
  <2> QED
    BY <1>4, <2>1, LargestOK
<1>6. best # 0 => best \in Mark
  <2>1. {i \in usable : aReadMark[i] = value} \subseteq 0 .. NMark
    BY Sizes DEF Mark
  <2>2. \/ best = 0
        \/ best \in {i \in usable : aReadMark[i] = value}
    BY <2>1, Sizes, LargestOK
  <2> QED
    BY <2>2
<1>7. free # {} => Min(free) \in Mark /\ CanExclude(c, {WAL_READ_LOCK(Min(free))})
  <2>1. free \subseteq Nat
    BY Sizes DEF Mark
  <2>2. free # {} => Min(free) \in free
    BY <2>1, MinOK
  <2> QED
    BY <2>2
<1>8. \/ Take(best, value) /\ best # 0 /\ aReadMark' = aReadMark
      \/ /\ free # {} /\ Take(Min(free), mx)
         /\ aReadMark' = [aReadMark EXCEPT ![Min(free)] = mx]
      \/ Goto(c, Retry(c)) /\ job' = job /\ aReadMark' = aReadMark
  BY DEF ChooseMark
<1> HIDE DEF mx, usable, value, best, free
<1>9. ASSUME NEW i \in Mark, NEW m \in 0 .. mx, Take(i, m)
      PROVE  /\ pc'[c] = "chosen"
             /\ JobRec(c, i, m, job[c].first, job[c].iFrame, job[c].todo, job[c].batch,
                       job[c].iter, job[c].changed)
             /\ OwnType(c)'
  <2>1. pc'[c] = "chosen"
    BY <1>1, <1>9 DEF OwnTypes, Goto
  <2>2. JobRec(c, i, m, job[c].first, job[c].iFrame, job[c].todo, job[c].batch,
              job[c].iter, job[c].changed)
    <3>1. job'[c] = [job[c] EXCEPT !.slot = i, !.mark = m]
      BY <1>1, <1>9 DEF OwnTypes
    <3> QED
      BY <1>1, <3>1 DEF JobRec, JobT
  <2>3. i \in 0 .. NMark + 1 /\ m \in 0 .. MaxFrame
    BY <1>4, Sizes DEF Mark
  <2>4. job'[c] \in JobT
    BY <1>1, <2>2, <2>3 DEF JobRec, JobFields, JobT
  <2> QED
    BY <1>1, <1>3, <2>1, <2>2, <2>4
    DEF OwnTypes, OwnType, Points, SameCall, SameLocks, SameCache, SameWal
<1>10. CASE Take(best, value) /\ best # 0 /\ aReadMark' = aReadMark
  <2>1. /\ best \in Mark /\ value \in 0 .. mx
    BY <1>5, <1>6, <1>10
  <2>2. SharedTypes'
    BY <1>1, <1>3, <1>10 DEF SharedTypes, dbVars, logVars
  <2> QED
    BY <1>1, <1>2, <1>3, <1>9, <1>10, <2>1, <2>2, OwnTypesKept, TypePartsNext, WalRecIs,
       JobRecIs
    DEF mx, ChooseMarkDoes
<1>11. CASE /\ free # {} /\ Take(Min(free), mx)
            /\ aReadMark' = [aReadMark EXCEPT ![Min(free)] = mx]
  <2>1. mx \in 0 .. mx /\ Min(free) \in Mark /\ mx \in 0 .. READMARK_NOT_USED
    BY <1>4, <1>7, <1>11, Sizes DEF READMARK_NOT_USED
  <2>2. SharedTypes'
    BY <1>1, <1>3, <1>11, <2>1 DEF SharedTypes, dbVars, logVars
  <2> QED
    BY <1>1, <1>2, <1>3, <1>7, <1>9, <1>11, <2>1, <2>2, OwnTypesKept, TypePartsNext, WalRecIs,
       JobRecIs
    DEF mx, ChooseMarkDoes
<1>12. CASE Goto(c, Retry(c)) /\ job' = job /\ aReadMark' = aReadMark
  <2>1. pc'[c] = Retry(c) /\ SameJob(c)
    BY <1>1, <1>12 DEF OwnTypes, Goto, SameJob
  <2>2. SharedTypes'
    BY <1>1, <1>3, <1>12 DEF SharedTypes, dbVars, logVars
  <2>3. OwnType(c)'
    BY <1>1, <1>3, <2>1
    DEF OwnTypes, OwnType, Points, Retry, SameCall, SameLocks, SameCache, SameWal, SameJob
  <2> QED
    BY <1>1, <1>2, <1>3, <1>12, <2>1, <2>2, <2>3, OwnTypesKept, TypePartsNext, WalRecIs,
       JobRecIs
    DEF ChooseMarkDoes
<1> QED
  BY <1>8, <1>10, <1>11, <1>12

WriteHeaderDoes(c) ==
  /\ Moves(c, "header", "headersync")
  /\ SameCall(c) /\ SameLocks(c) /\ SameCache(c) /\ SameJob(c)
  /\ UNCHANGED <<dbVars, log, logDisk, shmVars>>
  /\ \E s \in 1 .. MaxSalt :
       /\ s = wal[c].hdr.salt \/ s \notin Salts
       /\ salt' = s /\ saltDisk' = saltDisk \cup {s, 0}
       /\ WalIs(c, [init |-> wal[c].hdr.init, salt |-> s, mx |-> wal[c].hdr.mx, sum |-> <<>>],
                wal[c].readLock, wal[c].minFrame, wal[c].iReCksum)

LEMMA WriteHeaderEffect ==
  ASSUME TypesOK, NEW c \in Conn, PointOK(c), TaskOK(c), WriteHeader(c)
  PROVE  TypesOK' /\ OthersStay(c) /\ WriteHeaderDoes(c)
<1>1. /\ wal[c] \in WalT /\ job[c] \in JobT /\ WalFields(c) /\ JobFields(c)
      /\ OwnTypes /\ SharedTypes
  BY Fields
<1>2. PICK s \in {wal[c].hdr.salt} \cup (IF Fresh = {} THEN {} ELSE {NewSalt}) :
        /\ s # 0
        /\ salt' = s /\ saltDisk' = saltDisk \cup {s, 0}
        /\ wal' = [wal EXCEPT ![c].hdr.salt = s, ![c].hdr.sum = <<>>]
  BY DEF WriteHeader
<1>3. s \in 1 .. MaxSalt /\ (s = wal[c].hdr.salt \/ s \notin Salts)
  <2>1. wal[c].hdr.salt \in 0 .. MaxSalt
    BY Types
  <2> QED
    BY <1>2, <2>1, NewSaltIn, Sizes
<1>4. /\ Moves(c, "header", "headersync")
      /\ SameCall(c) /\ SameLocks(c) /\ SameCache(c) /\ SameJob(c)
      /\ UNCHANGED <<dbVars, log, logDisk, shmVars>>
  BY <1>1
  DEF OwnTypes, WriteHeader, Moves, SameCall, SameLocks, SameCache, SameJob, Step, Goto,
      lockVars
<1>5. Only(c)
  <2>1. UNCHANGED <<sharedMask, exclMask, dirty, kept, call, job>>
        /\ pc' = [pc EXCEPT ![c] = "headersync"]
    BY DEF WriteHeader, Step, Goto, lockVars
  <2>2. wal' = [wal EXCEPT ![c] = wal'[c]]
    BY <1>1, <1>2 DEF OwnTypes
  <2>3. pc' = [pc EXCEPT ![c] = pc'[c]]
    BY <1>1, <2>1 DEF OwnTypes
  <2> QED
    BY <1>1, <2>1, <2>2, <2>3 DEF OwnTypes, Only
<1> DEFINE h == [init |-> wal[c].hdr.init, salt |-> s, mx |-> wal[c].hdr.mx, sum |-> <<>>]
<1>6. WalRec(c, h, wal[c].readLock, wal[c].minFrame, wal[c].iReCksum)
  <2>1. wal'[c] = [wal[c] EXCEPT !.hdr = [[wal[c].hdr EXCEPT !.salt = s] EXCEPT !.sum = <<>>]]
    BY <1>1, <1>2 DEF OwnTypes
  <2>2. [wal[c].hdr EXCEPT !.salt = s] =
          [init |-> wal[c].hdr.init, salt |-> s, mx |-> wal[c].hdr.mx, sum |-> wal[c].hdr.sum]
    BY <1>1 DEF WalFields, HdrT
  <2>3. wal'[c] = [wal[c] EXCEPT !.hdr = h]
    BY <2>1, <2>2
  <2> QED
    BY <1>1, <2>3 DEF WalRec, WalT
<1>7. h \in HdrT
  BY <1>3, Types DEF HdrT
<1>8. OwnType(c)'
  <2>1. wal'[c] \in WalT
    BY <1>1, <1>6, <1>7 DEF WalRec, WalFields, WalT
  <2> QED
    BY <1>1, <1>4, <2>1
    DEF OwnTypes, OwnType, Points, Moves, SameCall, SameLocks, SameCache, SameJob
<1>9. SharedTypes'
  BY <1>1, <1>2, <1>3, <1>4, Sizes DEF SharedTypes, dbVars, shmVars
<1> QED
  BY <1>1, <1>2, <1>3, <1>4, <1>5, <1>6, <1>8, <1>9, OwnTypesKept, TypePartsNext, WalRecIs,
     JobRecIs
 DEF WriteHeaderDoes

\* What a write to frame i of the log leaves.
OneFrame(i) == /\ \A j \in Slot \ {i} : log'[j] = log[j]
               /\ log' \in [Slot -> FrameT]

LEMMA FrameWritten ==
  ASSUME TypesOK, NEW i \in Slot, NEW f \in FrameT, WriteFrame(i, f)
  PROVE  /\ OneFrame(i) /\ log'[i] = f
         /\ logDisk' \in [Slot -> SUBSET FrameT]
  BY Constants DEF TypesOK, WriteFrame, OneFrame

\* The page it logs next.
Next1(c) == Min(job[c].todo)

LEMMA NextPage ==
  ASSUME TypesOK, NEW c \in Conn, TaskOK(c), PointOK(c), pc[c] = "append"
  PROVE  Next1(c) \in job[c].todo /\ Next1(c) \in Page
<1>1. useWal(c)
  BY DEF PointOK, Alone
<1>2. job[c].todo # {}
  BY <1>1 DEF TaskOK, Logged
<1>3. job[c].todo \subseteq Page /\ job[c].todo \subseteq Nat
  BY Types, Sizes DEF Page
<1> QED
  BY <1>2, <1>3, MinOK DEF Next1

\* The point after the page.
AfterPage(c, p) ==
  IF job[c].todo # {p} THEN "append"
  ELSE IF call[c] = "commit" /\ wal'[c].iReCksum # 0 THEN "rewrite"
  ELSE "publish"

OverwriteOne(c, p) ==
  /\ Rewritable(c, p)
  /\ FindFrame(c, p) \in Slot
  /\ OneFrame(FindFrame(c, p))
  /\ log'[FindFrame(c, p)] =
       [page |-> log[FindFrame(c, p)].page, val |-> Seen(c)[p], last |-> log[FindFrame(c, p)].last,
        salt |-> log[FindFrame(c, p)].salt, sum |-> log[FindFrame(c, p)].sum]
  /\ dirty'[c] = [dirty[c] EXCEPT ![p] = NoPage]
  /\ \E k \in Slot :
       /\ k = FindFrame(c, p) \/ k = wal[c].iReCksum
       /\ k <= FindFrame(c, p)
       /\ wal[c].iReCksum # 0 => k <= wal[c].iReCksum
       /\ WalIs(c, wal[c].hdr, wal[c].readLock, wal[c].minFrame, k)
  /\ JobIs(c, job[c].slot, job[c].mark, job[c].first, job[c].iFrame, job[c].todo \ {p},
           job[c].batch \ {p}, job[c].iter, job[c].changed)

AppendOne(c, p) ==
  LET i    == job[c].iFrame + 1
      sums == Append(wal[c].hdr.sum, <<p, Seen(c)[p], Marked(c, p)>>)
      seal == wal[c].iReCksum = 0
  IN /\ ~Rewritable(c, p)
     /\ i \in Slot
     /\ OneFrame(i)
     /\ log'[i] = [page |-> p, val |-> Seen(c)[p], last |-> Marked(c, p),
                   salt |-> IF seal THEN wal[c].hdr.salt ELSE 0,
                   sum  |-> IF seal THEN sums ELSE <<>>]
     /\ dirty'[c] = dirty[c]
     /\ WalIs(c, [init |-> wal[c].hdr.init, salt |-> wal[c].hdr.salt, mx |-> wal[c].hdr.mx,
                  sum |-> IF seal THEN sums ELSE wal[c].hdr.sum],
              wal[c].readLock, wal[c].minFrame, wal[c].iReCksum)
     /\ JobIs(c, job[c].slot, job[c].mark, job[c].first, i, job[c].todo \ {p}, job[c].batch,
              job[c].iter, job[c].changed)

LogPageDoes(c) ==
  /\ Moves(c, "append", AfterPage(c, Next1(c)))
  /\ SameCall(c) /\ SameLocks(c) /\ kept'[c] = kept[c]
  /\ UNCHANGED <<dbVars, salt, saltDisk, shmVars>>
  /\ OverwriteOne(c, Next1(c)) \/ AppendOne(c, Next1(c))

LEMMA LogPageEffect ==
  ASSUME TypesOK, NEW c \in Conn, PointOK(c), TaskOK(c), LogPage(c)
  PROVE  TypesOK' /\ OthersStay(c) /\ LogPageDoes(c)
<1> DEFINE p == Next1(c)
           i == FindFrame(c, p)
<1>1. /\ wal[c] \in WalT /\ job[c] \in JobT /\ WalFields(c) /\ JobFields(c)
      /\ OwnTypes /\ SharedTypes
  BY Fields
<1>2. p \in job[c].todo /\ p \in Page
  <2>1. pc[c] = "append"
    BY DEF LogPage
  <2> QED
    BY <2>1, NextPage
<1>3. /\ Moves(c, "append", AfterPage(c, p))
      /\ SameCall(c) /\ SameLocks(c) /\ kept'[c] = kept[c]
      /\ UNCHANGED <<dbVars, salt, saltDisk, shmVars>>
      /\ kept' = kept /\ call' = call /\ UNCHANGED lockVars
      /\ pc' = [pc EXCEPT ![c] = AfterPage(c, p)]
  BY <1>1 DEF OwnTypes, LogPage, Moves, AfterPage, SameCall, SameLocks, Goto, Next1, lockVars
<1>4. Overwrite(c, p) \/ AppendFrame(c, p)
  BY DEF LogPage, Next1
<1>5. Seen(c)[p] \in Content
  BY <1>2, SeenAt
<1>6. AfterPage(c, p) \in Points
  BY DEF AfterPage, Points
<1> HIDE DEF p, i
<1>7. CASE Overwrite(c, p)
  <2>1. i \in 0 .. wal[c].hdr.mx /\ wal[c].hdr.mx \in 0 .. MaxFrame /\ job[c].first \in Nat
    BY <1>2, FindFrameIn, Types, Sizes DEF i
  <2>2. Rewritable(c, p) /\ i # 0 /\ i \in Slot
    BY <1>7, <2>1, Sizes DEF Overwrite, Rewritable, i, Slot
  <2> DEFINE f == [page |-> log[i].page, val |-> Seen(c)[p], last |-> log[i].last,
                   salt |-> log[i].salt, sum |-> log[i].sum]
             k == IF wal[c].iReCksum = 0 THEN i ELSE Min({wal[c].iReCksum, i})
  <2>3. f \in FrameT /\ [log[i] EXCEPT !.val = Seen(c)[p]] = f
    <3>1. log[i] \in FrameT
      BY <2>2, Types
    <3>2. f \in FrameT
      BY <1>5, <2>2, Types DEF FrameT
    <3> QED
      BY <3>1, <3>2 DEF FrameT
  <2>4. OneFrame(i) /\ log'[i] = f /\ logDisk' \in [Slot -> SUBSET FrameT]
    <3>1. WriteFrame(i, f)
      BY <1>7, <2>3 DEF Overwrite, i
    <3> QED
      BY <2>2, <2>3, <3>1, FrameWritten
  <2>5. /\ k \in Slot
        /\ k = i \/ k = wal[c].iReCksum
        /\ k <= i
        /\ wal[c].iReCksum # 0 => k <= wal[c].iReCksum
    <3>1. wal[c].iReCksum \in 0 .. MaxFrame
      BY Types
    <3>2. CASE wal[c].iReCksum = 0
      BY <2>2, <3>2, Sizes DEF Slot
    <3>3. CASE wal[c].iReCksum # 0
      <4>1. {wal[c].iReCksum, i} \subseteq Nat /\ {wal[c].iReCksum, i} # {}
        BY <2>2, <3>1, Sizes DEF Slot
      <4>2. /\ Min({wal[c].iReCksum, i}) \in {wal[c].iReCksum, i}
            /\ Min({wal[c].iReCksum, i}) <= i
            /\ Min({wal[c].iReCksum, i}) <= wal[c].iReCksum
        BY <4>1, MinOK
      <4>3. wal[c].iReCksum \in Slot
        BY <3>1, <3>3, Sizes DEF Slot
      <4> QED
        BY <2>2, <3>3, <4>2, <4>3
    <3> QED
      BY <3>2, <3>3
  <2>6. WalRec(c, wal[c].hdr, wal[c].readLock, wal[c].minFrame, k)
    <3>1. wal'[c] = [wal[c] EXCEPT !.iReCksum = k]
      BY <1>1, <1>7 DEF OwnTypes, Overwrite, i
    <3> HIDE DEF k
    <3> QED
      BY <1>1, <3>1 DEF WalRec, WalT
  <2>7. /\ JobRec(c, job[c].slot, job[c].mark, job[c].first, job[c].iFrame, job[c].todo \ {p},
                  job[c].batch \ {p}, job[c].iter, job[c].changed)
        /\ job'[c] \in JobT
    <3> DEFINE t == job[c].todo \ {p}
               b == job[c].batch \ {p}
    <3>1. job'[c] = [job[c] EXCEPT !.todo = t, !.batch = b]
      BY <1>1, <1>7 DEF OwnTypes, Overwrite
    <3>2. t \in SUBSET Page /\ b \in SUBSET Page
      BY <1>1 DEF JobFields
    <3>3. JobRec(c, job[c].slot, job[c].mark, job[c].first, job[c].iFrame, t, b,
                job[c].iter, job[c].changed)
      <4> HIDE DEF t, b
      <4> QED
        BY <1>1, <3>1 DEF JobRec, JobT
    <3>4. job'[c] \in JobT
      <4> HIDE DEF t, b
      <4> QED
        BY <1>1, <3>2, <3>3 DEF JobRec, JobFields, JobT
    <3> QED
      BY <3>3, <3>4
  <2>8. dirty'[c] = [dirty[c] EXCEPT ![p] = NoPage] /\ dirty[c] \in [Page -> Content \cup {NoPage}]
    BY <1>1, <1>7, Types DEF OwnTypes, Overwrite
  <2>9. wal'[c] \in WalT
    <3>1. k \in 0 .. MaxFrame
      BY <2>5, Sizes DEF Slot
    <3> HIDE DEF k
    <3> QED
      BY <1>1, <2>6, <3>1 DEF WalRec, WalFields, WalT
  <2>10. OwnType(c)'
    BY <1>1, <1>2, <1>3, <1>6, <2>7, <2>8, <2>9
    DEF OwnTypes, OwnType, Moves, SameCall, SameLocks
  <2>11. Only(c)
    BY <1>1, <1>3, <1>7 DEF OwnTypes, Only, Overwrite, lockVars
  <2>12. SharedTypes'
    BY <1>1, <1>3, <2>4 DEF SharedTypes, OneFrame, dbVars, shmVars
  <2>13. OverwriteOne(c, p)
    <3> HIDE DEF k
    <3> QED
      BY <2>2, <2>4, <2>5, <2>6, <2>7, <2>8, WalRecIs, JobRecIs DEF OverwriteOne, i
  <2> QED
    BY <1>3, <2>10, <2>11, <2>12, <2>13, OwnTypesKept, TypePartsNext, WalRecIs, JobRecIs
    DEF p, LogPageDoes
<1>8. CASE AppendFrame(c, p)
  <2> DEFINE n    == job[c].iFrame + 1
             sums == Append(wal[c].hdr.sum, <<p, Seen(c)[p], Marked(c, p)>>)
             seal == wal[c].iReCksum = 0
             f    == [page |-> p, val |-> Seen(c)[p], last |-> Marked(c, p),
                      salt |-> IF seal THEN wal[c].hdr.salt ELSE 0,
                      sum  |-> IF seal THEN sums ELSE <<>>]
             h    == [init |-> wal[c].hdr.init, salt |-> wal[c].hdr.salt, mx |-> wal[c].hdr.mx,
                      sum |-> IF seal THEN sums ELSE wal[c].hdr.sum]
  <2>1. n \in Slot
    <3>1. job[c].iFrame \in 0 .. MaxFrame /\ n <= MaxFrame
      BY <1>1, <1>8 DEF JobFields, AppendFrame
    <3> QED
      BY <3>1, Sizes DEF Slot
  <2>2. sums \in Seq(PayloadT) /\ <<>> \in Seq(PayloadT)
    <3>1. p \in 0 .. NPage /\ Marked(c, p) \in BOOLEAN
      BY <1>2, Sizes DEF Page, Marked
    <3>2. <<p, Seen(c)[p], Marked(c, p)>> \in PayloadT
      BY <1>5, <3>1 DEF PayloadT
    <3>3. wal[c].hdr.sum \in Seq(PayloadT)
      BY Types
    <3> QED
      BY <3>2, <3>3
  <2>3. f \in FrameT /\ h \in HdrT
    <3>1. p \in 0 .. NPage /\ Marked(c, p) \in BOOLEAN
      BY <1>2, Sizes DEF Page, Marked
    <3>2. wal[c].hdr.salt \in 0 .. MaxSalt /\ 0 \in 0 .. MaxSalt
      BY Types, Sizes
    <3> HIDE DEF sums, seal
    <3>3. f \in FrameT
      BY <1>5, <2>2, <3>1, <3>2 DEF FrameT
    <3>4. h \in HdrT
      BY <2>2, <3>2, Types DEF HdrT
    <3> QED
      BY <3>3, <3>4
  <2>4. OneFrame(n) /\ log'[n] = f /\ logDisk' \in [Slot -> SUBSET FrameT]
    <3>1. WriteFrame(n, f)
      BY <1>8 DEF AppendFrame
    <3> QED
      BY <2>1, <2>3, <3>1, FrameWritten
  <2>5. WalRec(c, h, wal[c].readLock, wal[c].minFrame, wal[c].iReCksum)
    <3>1. CASE seal
      <4>1. wal'[c] = [wal[c] EXCEPT !.hdr = [@ EXCEPT !.sum = sums]]
        BY <1>1, <1>8, <3>1 DEF OwnTypes, AppendFrame
      <4> HIDE DEF sums
      <4>2. [wal[c].hdr EXCEPT !.sum = sums] = h
        BY <1>1, <3>1 DEF WalFields, HdrT
      <4>3. wal'[c] = [wal[c] EXCEPT !.hdr = h]
        BY <4>1, <4>2
      <4> HIDE DEF h
      <4> QED
        BY <1>1, <4>3 DEF WalRec, WalT
    <3>2. CASE ~seal
      <4>1. wal' = wal
        BY <1>8, <3>2 DEF AppendFrame
      <4> HIDE DEF sums
      <4>2. wal[c].hdr = h
        BY <1>1, <3>2 DEF WalFields, HdrT
      <4> HIDE DEF h
      <4> QED
        BY <1>1, <4>1, <4>2 DEF WalRec, WalT
    <3> QED
      BY <3>1, <3>2
  <2>6. /\ JobRec(c, job[c].slot, job[c].mark, job[c].first, n, job[c].todo \ {p},
                  job[c].batch, job[c].iter, job[c].changed)
        /\ job'[c] \in JobT
    <3> DEFINE t == job[c].todo \ {p}
    <3>1. job'[c] = [job[c] EXCEPT !.todo = t, !.iFrame = n]
      BY <1>1, <1>8 DEF OwnTypes, AppendFrame
    <3>2. t \in SUBSET Page /\ n \in 0 .. MaxFrame
      BY <1>1, <2>1, Sizes DEF JobFields, Slot
    <3>3. JobRec(c, job[c].slot, job[c].mark, job[c].first, n, t, job[c].batch,
                job[c].iter, job[c].changed)
      <4> HIDE DEF t, n
      <4> QED
        BY <1>1, <3>1 DEF JobRec, JobT
    <3>4. job'[c] \in JobT
      <4> HIDE DEF t, n
      <4> QED
        BY <1>1, <3>2, <3>3 DEF JobRec, JobFields, JobT
    <3> QED
      BY <3>3, <3>4
  <2>7. dirty' = dirty /\ ~Rewritable(c, p)
    BY <1>8 DEF AppendFrame
  <2>8. wal'[c] \in WalT
    <3> HIDE DEF h
    <3> QED
      BY <1>1, <2>3, <2>5 DEF WalRec, WalFields, WalT
  <2>9. OwnType(c)'
    BY <1>1, <1>2, <1>3, <1>6, <2>6, <2>7, <2>8
    DEF OwnTypes, OwnType, Moves, SameCall, SameLocks
  <2>10. Only(c)
    BY <1>1, <1>3, <1>8 DEF OwnTypes, Only, AppendFrame, lockVars
  <2>11. SharedTypes'
    <3> HIDE DEF f, n
    <3> QED
      BY <1>1, <1>3, <2>4 DEF SharedTypes, OneFrame, dbVars, shmVars
  <2>12. AppendOne(c, p)
    BY WalRecIs, JobRecIs, <2>1, <2>4, <2>5, <2>6, <2>7 DEF AppendOne
  <2> QED
    BY <1>3, <2>9, <2>10, <2>11, <2>12, OwnTypesKept, TypePartsNext, WalRecIs, JobRecIs
    DEF p, LogPageDoes
<1> QED
  BY <1>4, <1>7, <1>8

LEMMA Resealed ==
  ASSUME NEW f \in FrameT, NEW s, NEW q
  PROVE  [f EXCEPT !.salt = s, !.sum = q] =
           [page |-> f.page, val |-> f.val, last |-> f.last, salt |-> s, sum |-> q]
<1> DEFINE g == [page |-> f.page, val |-> f.val, last |-> f.last, salt |-> s, sum |-> f.sum]
<1>1. [f EXCEPT !.salt = s] = g
  BY DEF FrameT
<1>2. [f EXCEPT !.salt = s, !.sum = q] = [g EXCEPT !.sum = q]
  <2> HIDE DEF g
  <2> QED
    BY <1>1
<1> QED
  BY <1>2

RewriteChecksumDoes(c) ==
  LET i    == wal[c].iReCksum
      sums == Append(IF i = 1 THEN <<>> ELSE log[i - 1].sum, Payload(log[i]))
      done == i = job[c].iFrame
  IN /\ Moves(c, "rewrite", IF done THEN "publish" ELSE "rewrite")
     /\ SameCall(c) /\ SameLocks(c) /\ SameCache(c) /\ SameJob(c)
     /\ UNCHANGED <<dbVars, salt, saltDisk, shmVars>>
     /\ i \in Slot /\ i <= job[c].iFrame
     /\ OneFrame(i)
     /\ log'[i] = [page |-> log[i].page, val |-> log[i].val, last |-> log[i].last,
                   salt |-> wal[c].hdr.salt, sum |-> sums]
     /\ WalIs(c, [init |-> wal[c].hdr.init, salt |-> wal[c].hdr.salt, mx |-> wal[c].hdr.mx,
                  sum |-> sums],
              wal[c].readLock, wal[c].minFrame, IF done THEN 0 ELSE i + 1)

LEMMA RewriteChecksumEffect ==
  ASSUME TypesOK, NEW c \in Conn, PointOK(c), TaskOK(c), RewriteChecksum(c)
  PROVE  TypesOK' /\ OthersStay(c) /\ RewriteChecksumDoes(c)
<1> DEFINE i    == wal[c].iReCksum
           sums == Append(IF i = 1 THEN <<>> ELSE log[i - 1].sum, Payload(log[i]))
           done == i = job[c].iFrame
           f    == [page |-> log[i].page, val |-> log[i].val, last |-> log[i].last,
                    salt |-> wal[c].hdr.salt, sum |-> sums]
           h    == [init |-> wal[c].hdr.init, salt |-> wal[c].hdr.salt, mx |-> wal[c].hdr.mx,
                    sum |-> sums]
           k    == IF done THEN 0 ELSE i + 1
<1>1. /\ wal[c] \in WalT /\ job[c] \in JobT /\ WalFields(c) /\ JobFields(c)
      /\ OwnTypes /\ SharedTypes
  BY Fields
<1>2. /\ Moves(c, "rewrite", IF done THEN "publish" ELSE "rewrite")
      /\ SameCall(c) /\ SameLocks(c) /\ SameCache(c) /\ SameJob(c)
      /\ UNCHANGED <<dbVars, salt, saltDisk, shmVars>>
  BY <1>1
  DEF OwnTypes, RewriteChecksum, Moves, SameCall, SameLocks, SameCache, SameJob, Goto, lockVars
<1>3. Only(c)
  BY <1>1 DEF OwnTypes, Only, RewriteChecksum, Goto, lockVars
<1>4. i \in Slot /\ i <= job[c].iFrame /\ i >= 1 /\ job[c].iFrame \in 0 .. MaxFrame
  <2>1. pc[c] = "rewrite"
    BY <1>2 DEF Moves
  <2>2. i # 0 /\ i <= job[c].iFrame
    BY <2>1 DEF TaskOK
  <2>3. i \in 0 .. MaxFrame /\ job[c].iFrame \in 0 .. MaxFrame
    BY Types
  <2> QED
    BY <2>2, <2>3, Sizes DEF Slot
<1>5. sums \in Seq(PayloadT)
  <2>1. Payload(log[i]) \in PayloadT
    BY <1>4, Types DEF Payload, PayloadT
  <2>2. i # 1 => i - 1 \in Slot
    BY <1>4, Sizes DEF Slot
  <2>3. i # 1 => log[i - 1].sum \in Seq(PayloadT)
    BY <2>2, Types
  <2> QED
    BY <2>1, <2>3
<1>6. f \in FrameT /\ h \in HdrT
  <2> HIDE DEF sums
  <2>1. f \in FrameT
    BY <1>4, <1>5, Types DEF FrameT
  <2>2. h \in HdrT
    BY <1>5, Types DEF HdrT
  <2> QED
    BY <2>1, <2>2
<1>7. OneFrame(i) /\ log'[i] = f /\ logDisk' \in [Slot -> SUBSET FrameT]
  <2>1. [log[i] EXCEPT !.salt = wal[c].hdr.salt, !.sum = sums] = f
    <3>1. log[i] \in FrameT
      BY <1>4, Types
    <3> HIDE DEF sums, i
    <3> QED
      BY <3>1, Resealed
  <2>2. WriteFrame(i, [log[i] EXCEPT !.salt = wal[c].hdr.salt, !.sum = sums])
    BY DEF RewriteChecksum
  <2>3. WriteFrame(i, f)
    <3> HIDE DEF f, i, sums
    <3> QED
      BY <2>1, <2>2
  <2> QED
    BY <1>4, <1>6, <2>3, FrameWritten
<1>8. WalRec(c, h, wal[c].readLock, wal[c].minFrame, k) /\ wal'[c] \in WalT
  <2>1. wal'[c] = [[wal[c] EXCEPT !.hdr = [@ EXCEPT !.sum = sums]] EXCEPT !.iReCksum = k]
    BY <1>1 DEF OwnTypes, RewriteChecksum
  <2>2. k \in 0 .. MaxFrame
    BY <1>4, Sizes DEF Slot
  <2> HIDE DEF sums, k
  <2>3. [wal[c].hdr EXCEPT !.sum = sums] = h
    BY <1>1 DEF WalFields, HdrT
  <2>4. wal'[c] = [[wal[c] EXCEPT !.hdr = h] EXCEPT !.iReCksum = k]
    BY <2>1, <2>3
  <2> HIDE DEF h
  <2>5. [wal[c] EXCEPT !.hdr = h] = [hdr |-> h, readLock |-> wal[c].readLock,
                                     minFrame |-> wal[c].minFrame, iReCksum |-> wal[c].iReCksum]
    BY <1>1 DEF WalT
  <2>6. WalRec(c, h, wal[c].readLock, wal[c].minFrame, k)
    BY <2>4, <2>5 DEF WalRec
  <2> QED
    BY <1>1, <1>6, <2>2, <2>6 DEF WalRec, WalFields, WalT
<1>9. OwnType(c)'
  BY <1>1, <1>2, <1>8
  DEF OwnTypes, OwnType, Points, Moves, SameCall, SameLocks, SameCache, SameJob
<1>10. SharedTypes'
  <2> HIDE DEF f, i
  <2> QED
    BY <1>1, <1>2, <1>7 DEF SharedTypes, OneFrame, dbVars, shmVars
<1> QED
  BY <1>1, <1>2, <1>3, <1>4, <1>7, <1>8, <1>9, <1>10, OwnTypesKept, TypePartsNext, WalRecIs,
     JobRecIs
 DEF RewriteChecksumDoes
\* The header a writer has when its frames are in the wal-index.
NewHdr(c) == [init |-> wal[c].hdr.init, salt |-> wal[c].hdr.salt, mx |-> job[c].iFrame,
              sum |-> wal[c].hdr.sum]

PublishDoes(c) ==
  /\ pc[c] = "publish" /\ SameLocks(c) /\ kept'[c] = kept[c]
  /\ \A i \in Slot : aPgno'[i] = IF i <= wal[c].hdr.mx THEN aPgno[i]
                                 ELSE IF i <= job[c].iFrame THEN log[i].page ELSE 0
  /\ WalIs(c, NewHdr(c), wal[c].readLock, wal[c].minFrame, wal[c].iReCksum)
  /\ dirty'[c] = [p \in Page |-> IF p \in job[c].batch THEN NoPage ELSE dirty[c][p]]
  /\ job'[c] = NoJob
  /\ \/ /\ call[c] = "spill" /\ call'[c] = "none" /\ pc'[c] = "writer"
        /\ aHdr' = aHdr
     \/ /\ call[c] = "commit" /\ call'[c] = "commit" /\ pc'[c] = "publish0"
        /\ aHdr' = [aHdr EXCEPT ![1] = NewHdr(c)]
  /\ UNCHANGED <<dbVars, logVars, nBackfill, aReadMark>>

LEMMA PublishEffect ==
  ASSUME TypesOK, NEW c \in Conn, PointOK(c), TaskOK(c), Publish(c)
  PROVE  TypesOK' /\ OthersStay(c) /\ PublishDoes(c)
<1>1. /\ wal[c] \in WalT /\ job[c] \in JobT /\ WalFields(c) /\ JobFields(c)
      /\ OwnTypes /\ SharedTypes
  BY Fields
<1>2. [wal[c].hdr EXCEPT !.mx = job[c].iFrame] = NewHdr(c) /\ NewHdr(c) \in HdrT
  <2>1. NewHdr(c) \in HdrT
    BY Types DEF NewHdr, HdrT
  <2> QED
    BY <1>1, <2>1 DEF WalFields, HdrT, NewHdr
<1>3. Only(c)
  BY <1>1 DEF OwnTypes, Only, Publish, Goto, lockVars
<1>4. /\ pc[c] = "publish" /\ SameLocks(c) /\ kept'[c] = kept[c]
      /\ job'[c] = NoJob
      /\ UNCHANGED <<dbVars, logVars, nBackfill, aReadMark>>
  BY <1>1 DEF OwnTypes, Publish, SameLocks, lockVars
<1>5. aPgno' = [i \in Slot |-> IF i <= wal[c].hdr.mx THEN aPgno[i]
                               ELSE IF i <= job[c].iFrame THEN log[i].page ELSE 0]
  <2>1. [wal[c].hdr EXCEPT !.mx = job[c].iFrame].mx = job[c].iFrame
    BY <1>2 DEF NewHdr
  <2> QED
    BY <2>1 DEF Publish
<1>6. WalRec(c, NewHdr(c), wal[c].readLock, wal[c].minFrame, wal[c].iReCksum)
  <2>1. wal'[c] = [wal[c] EXCEPT !.hdr = NewHdr(c)]
    BY <1>1, <1>2 DEF OwnTypes, Publish
  <2> QED
    BY <1>1, <2>1 DEF WalRec, WalT
<1>7. dirty'[c] = [p \in Page |-> IF p \in job[c].batch THEN NoPage ELSE dirty[c][p]]
  BY <1>1 DEF OwnTypes, Publish
<1>8. \/ /\ call[c] = "spill" /\ call'[c] = "none" /\ pc'[c] = "writer"
         /\ aHdr' = aHdr
      \/ /\ call[c] = "commit" /\ call'[c] = "commit" /\ pc'[c] = "publish0"
         /\ aHdr' = [aHdr EXCEPT ![1] = NewHdr(c)]
  BY <1>1, <1>2 DEF OwnTypes, Publish, Goto
<1>9. OwnType(c)'
  <2>1. wal'[c] \in WalT
    BY <1>1, <1>2, <1>6 DEF WalRec, WalFields, WalT
  <2>2. dirty'[c] \in [Page -> Content \cup {NoPage}]
    BY <1>7, Types
  <2> QED
    BY <1>1, <1>4, <1>8, <2>1, <2>2, Constants DEF OwnTypes, OwnType, Points, SameLocks
<1>10. SharedTypes'
  <2>1. aPgno' \in [Slot -> 0 .. NPage]
    BY <1>5, Types, Sizes
  <2>2. aHdr' \in [{0, 1} -> HdrT]
    BY <1>1, <1>2, <1>8 DEF SharedTypes
  <2> QED
    BY <1>1, <1>4, <2>1, <2>2 DEF SharedTypes, dbVars, logVars
<1> QED
  BY <1>1, <1>3, <1>4, <1>5, <1>6, <1>7, <1>8, <1>9, <1>10, OwnTypesKept, TypePartsNext,
     WalRecIs, JobRecIs
 DEF PublishDoes

-----------------------------------------------------------------------------
(* What a connection keeps to by itself. *)

OwnOK(c) == PointOK(c) /\ TaskOK(c) /\ LockOK(c)

\* The locks it has taken were free.
LocksTaken(c) ==
  /\ \A l \in exclMask'[c] : l \in exclMask[c] \/ CanExclude(c, {l})
  /\ \A l \in sharedMask'[c] : l \in sharedMask[c] \/ CanShare(c, l)

\* The numbers a connection has, for arithmetic.
Numbers(c) ==
  /\ wal[c].readLock \in -1 .. NMark /\ wal[c].hdr.mx \in 0 .. MaxFrame
  /\ wal[c].hdr.init \in BOOLEAN
  /\ wal[c].iReCksum \in 0 .. MaxFrame
  /\ job[c].slot \in 0 .. NMark + 1 /\ job[c].mark \in 0 .. MaxFrame
  /\ job[c].iFrame \in 0 .. MaxFrame
  /\ call[c] \in {"none", "spill", "commit", "ckpt"}

LEMMA NumbersOK ==
  ASSUME TypesOK, NEW c \in Conn
  PROVE  Numbers(c)
  BY Types DEF Numbers

LEMMA LockNames ==
  /\ WAL_WRITE_LOCK # WAL_CKPT_LOCK
  /\ \A i \in 0 .. NMark : /\ WAL_READ_LOCK(i) # WAL_WRITE_LOCK
                           /\ WAL_READ_LOCK(i) # WAL_CKPT_LOCK
                           /\ \A j \in 0 .. NMark : WAL_READ_LOCK(i) = WAL_READ_LOCK(j) => i = j
  BY Sizes DEF WAL_WRITE_LOCK, WAL_CKPT_LOCK, WAL_READ_LOCK

LEMMA ReadHdrOwn ==
  ASSUME TypesOK, NEW c \in Conn, OwnOK(c), ReadHdr(c)
  PROVE  OwnOK(c)' /\ LocksTaken(c)
<1>1. ReadHdrDoes(c) /\ PointOK(c) /\ TaskOK(c) /\ LockOK(c) /\ Numbers(c)
  BY ReadHdrEffect, NumbersOK DEF OwnOK
<1>2. PointOK(c)'
  BY <1>1, Sizes
  DEF ReadHdrDoes, PointOK, CkPoints, Alone, useWal, Marking, Logging, WritePoints, Waiting,
      Moves, SameCall, SameLocks, SameWal, SameJob, WalIs, JobIs, Numbers, Mark, HdrGood
<1>3. TaskOK(c)'
  BY <1>1, Sizes
  DEF ReadHdrDoes, TaskOK, PointOK, CkPoints, Alone, Logged, Logging, useWal, Writing,
      WritePoints, Marking, Moves, SameCall, SameLocks, SameWal, SameJob, WalIs, JobIs,
      Numbers, HdrGood
<1>4. LockOK(c)'
  BY <1>1, Sizes, LockNames
  DEF ReadHdrDoes, LockOK, PointOK, CkPoints, Alone, Logging, Marking, WritePoints, Writing,
      useWal, Mark, Moves, SameCall, SameLocks, SameWal, SameJob, WalIs, JobIs, Numbers,
      HdrGood
<1>5. LocksTaken(c)
  BY <1>1
  DEF ReadHdrDoes, LocksTaken, CanExclude, CanShare, Moves, SameCall, SameLocks, SameWal,
      SameJob, WalIs, JobIs, HdrGood
<1> QED
  BY <1>2, <1>3, <1>4, <1>5 DEF OwnOK

LEMMA HdrLockedOwn ==
  ASSUME TypesOK, NEW c \in Conn, OwnOK(c), HdrLocked(c)
  PROVE  OwnOK(c)' /\ LocksTaken(c)
<1>1. HdrLockedDoes(c) /\ PointOK(c) /\ TaskOK(c) /\ LockOK(c) /\ Numbers(c)
  BY HdrLockedEffect, NumbersOK DEF OwnOK
<1>2. PointOK(c)'
  BY <1>1, Sizes
  DEF HdrLockedDoes, PointOK, CkPoints, Alone, useWal, Marking, Logging, WritePoints, Waiting,
      Moves, SameCall, SameLocks, SameWal, SameJob, WalIs, JobIs, Numbers, Mark
<1>3. TaskOK(c)'
  BY <1>1, Sizes
  DEF HdrLockedDoes, TaskOK, PointOK, CkPoints, Alone, Logged, Logging, useWal, Writing,
      WritePoints, Marking, Moves, SameCall, SameLocks, SameWal, SameJob, WalIs, JobIs, Numbers
<1>4. LockOK(c)'
  BY <1>1, Sizes, LockNames
  DEF HdrLockedDoes, LockOK, PointOK, CkPoints, Alone, Logging, Marking, WritePoints, Writing,
      useWal, Mark, Moves, SameCall, SameLocks, SameWal, SameJob, WalIs, JobIs, Numbers
<1>5. LocksTaken(c)
  BY <1>1
  DEF HdrLockedDoes, LocksTaken, CanExclude, CanShare, Moves, SameCall, SameLocks, SameWal,
      SameJob, WalIs, JobIs
<1> QED
  BY <1>2, <1>3, <1>4, <1>5 DEF OwnOK

LEMMA ChooseZeroOwn ==
  ASSUME TypesOK, NEW c \in Conn, OwnOK(c), ChooseZero(c)
  PROVE  OwnOK(c)' /\ LocksTaken(c)
<1>1. ChooseZeroDoes(c) /\ PointOK(c) /\ TaskOK(c) /\ LockOK(c) /\ Numbers(c)
  BY ChooseZeroEffect, NumbersOK DEF OwnOK
<1>2. PointOK(c)'
  BY <1>1, Sizes
  DEF ChooseZeroDoes, PointOK, CkPoints, Alone, useWal, Marking, Logging, WritePoints, Waiting,
      Moves, SameCall, SameLocks, SameWal, SameJob, WalIs, JobIs, Numbers, Mark
<1>3. TaskOK(c)'
  BY <1>1, Sizes
  DEF ChooseZeroDoes, TaskOK, PointOK, CkPoints, Alone, Logged, Logging, useWal, Writing,
      WritePoints, Marking, Moves, SameCall, SameLocks, SameWal, SameJob, WalIs, JobIs, Numbers
<1>4. LockOK(c)'
  BY <1>1, Sizes, LockNames
  DEF ChooseZeroDoes, LockOK, PointOK, CkPoints, Alone, Logging, Marking, WritePoints, Writing,
      useWal, Mark, Moves, SameCall, SameLocks, SameWal, SameJob, WalIs, JobIs, Numbers
<1>5. LocksTaken(c)
  BY <1>1
  DEF ChooseZeroDoes, LocksTaken, CanExclude, CanShare, Moves, SameCall, SameLocks, SameWal,
      SameJob, WalIs, JobIs
<1> QED
  BY <1>2, <1>3, <1>4, <1>5 DEF OwnOK

LEMMA LockMarkZeroOwn ==
  ASSUME TypesOK, NEW c \in Conn, OwnOK(c), LockMarkZero(c)
  PROVE  OwnOK(c)' /\ LocksTaken(c)
<1>1. LockMarkZeroDoes(c) /\ PointOK(c) /\ TaskOK(c) /\ LockOK(c) /\ Numbers(c)
  BY LockMarkZeroEffect, NumbersOK DEF OwnOK
<1>2. PointOK(c)'
  BY <1>1, Sizes
  DEF LockMarkZeroDoes, PointOK, CkPoints, Alone, useWal, Marking, Logging, WritePoints,
      Waiting, Moves, SameCall, SameLocks, SameWal, SameJob, WalIs, JobIs, Numbers, Mark
<1>3. TaskOK(c)'
  BY <1>1, Sizes
  DEF LockMarkZeroDoes, TaskOK, PointOK, CkPoints, Alone, Logged, Logging, useWal, Writing,
      WritePoints, Marking, Moves, SameCall, SameLocks, SameWal, SameJob, WalIs, JobIs, Numbers
<1>4. LockOK(c)'
  BY <1>1, Sizes, LockNames
  DEF LockMarkZeroDoes, LockOK, PointOK, CkPoints, Alone, Logging, Marking, WritePoints,
      Writing, useWal, Mark, Moves, SameCall, SameLocks, SameWal, SameJob, WalIs, JobIs,
      Numbers
<1>5. LocksTaken(c)
  BY <1>1
  DEF LockMarkZeroDoes, LocksTaken, CanExclude, CanShare, Moves, SameCall, SameLocks, SameWal,
      SameJob, WalIs, JobIs
<1> QED
  BY <1>2, <1>3, <1>4, <1>5 DEF OwnOK

LEMMA ChooseMarkOwn ==
  ASSUME TypesOK, NEW c \in Conn, OwnOK(c), ChooseMark(c)
  PROVE  OwnOK(c)' /\ LocksTaken(c)
<1>1. ChooseMarkDoes(c) /\ PointOK(c) /\ TaskOK(c) /\ LockOK(c) /\ Numbers(c)
  BY ChooseMarkEffect, NumbersOK DEF OwnOK
<1>2. PointOK(c)'
  <2>1. CASE pc'[c] = Retry(c) /\ SameJob(c)
    BY <1>1, <2>1
    DEF ChooseMarkDoes, PointOK, Retry, CkPoints, Alone, useWal, Marking, Logging, WritePoints,
        Waiting, SameCall, SameWal, SameJob
  <2>2. ASSUME NEW i \in Mark, NEW m \in 0 .. wal[c].hdr.mx, pc'[c] = "chosen",
               job'[c].slot = i, job'[c].mark = m
        PROVE  PointOK(c)'
    BY <1>1, <2>2
    DEF ChooseMarkDoes, PointOK, CkPoints, Alone, useWal, Marking, Logging, WritePoints,
        Waiting, SameCall, SameWal, Numbers
  <2> QED
    BY <1>1, <2>1, <2>2 DEF ChooseMarkDoes, JobIs
<1>3. TaskOK(c)'
  BY <1>1, Sizes
  DEF ChooseMarkDoes, TaskOK, PointOK, CkPoints, Alone, Logged, Logging, useWal, Writing,
      WritePoints, Marking, Moves, SameCall, SameLocks, SameWal, SameJob, WalIs, JobIs,
      Numbers, Retry
<1>4. LockOK(c)'
  <2>1. /\ pc[c] \in {"choose", "marks"} /\ pc'[c] \in {"chosen", "choose", "idle"}
        /\ call'[c] = call[c] /\ wal'[c] = wal[c]
        /\ exclMask'[c] = exclMask[c] /\ sharedMask'[c] = sharedMask[c]
    BY <1>1 DEF ChooseMarkDoes, SameCall, SameLocks, SameWal, Retry
  <2>2. Writing(c)' <=> Writing(c)
    BY <2>1 DEF Writing, WritePoints, useWal
  <2> QED
    BY <1>1, <2>1, <2>2 DEF LockOK
<1>5. LocksTaken(c)
  BY <1>1
  DEF ChooseMarkDoes, LocksTaken, CanExclude, CanShare, Moves, SameCall, SameLocks, SameWal,
      SameJob, WalIs, JobIs, Retry
<1> QED
  BY <1>2, <1>3, <1>4, <1>5 DEF OwnOK

LEMMA LockMarkOwn ==
  ASSUME TypesOK, NEW c \in Conn, OwnOK(c), LockMark(c)
  PROVE  OwnOK(c)' /\ LocksTaken(c)
<1>1. LockMarkDoes(c) /\ PointOK(c) /\ TaskOK(c) /\ LockOK(c) /\ Numbers(c)
  BY LockMarkEffect, NumbersOK DEF OwnOK
<1>2. PointOK(c)'
  BY <1>1, Sizes
  DEF LockMarkDoes, PointOK, CkPoints, Alone, useWal, Marking, Logging, WritePoints, Waiting,
      Moves, SameCall, SameLocks, SameWal, SameJob, WalIs, JobIs, Numbers, Mark, Retry
<1>3. TaskOK(c)'
  BY <1>1, Sizes
  DEF LockMarkDoes, TaskOK, PointOK, CkPoints, Alone, Logged, Logging, useWal, Writing,
      WritePoints, Marking, Moves, SameCall, SameLocks, SameWal, SameJob, WalIs, JobIs,
      Numbers, Retry
<1>4. LockOK(c)'
  BY <1>1, Sizes, LockNames
  DEF LockMarkDoes, LockOK, PointOK, CkPoints, Alone, Logging, Marking, WritePoints, Writing,
      useWal, Mark, Moves, SameCall, SameLocks, SameWal, SameJob, WalIs, JobIs, Numbers, Retry
<1>5. LocksTaken(c)
  BY <1>1
  DEF LockMarkDoes, LocksTaken, CanExclude, CanShare, Moves, SameCall, SameLocks, SameWal,
      SameJob, WalIs, JobIs, Retry
<1> QED
  BY <1>2, <1>3, <1>4, <1>5 DEF OwnOK

LEMMA CheckMarkOwn ==
  ASSUME TypesOK, NEW c \in Conn, OwnOK(c), CheckMark(c)
  PROVE  OwnOK(c)' /\ LocksTaken(c)
<1>1. CheckMarkDoes(c) /\ PointOK(c) /\ TaskOK(c) /\ LockOK(c) /\ Numbers(c)
  BY CheckMarkEffect, NumbersOK DEF OwnOK
<1>2. PointOK(c)'
  BY <1>1, Sizes
  DEF CheckMarkDoes, PointOK, CkPoints, Alone, useWal, Marking, Logging, WritePoints, Waiting,
      Moves, SameCall, SameLocks, SameWal, SameJob, WalIs, JobIs, Numbers, Mark, Retry, ToLog,
      Unchanged
<1>3. TaskOK(c)'
  BY <1>1, Sizes
  DEF CheckMarkDoes, TaskOK, PointOK, CkPoints, Alone, Logged, Logging, useWal, Writing,
      WritePoints, Marking, Moves, SameCall, SameLocks, SameWal, SameJob, WalIs, JobIs,
      Numbers, Retry, ToLog, Unchanged
<1>4. LockOK(c)'
  BY <1>1, Sizes, LockNames
  DEF CheckMarkDoes, LockOK, PointOK, CkPoints, Alone, Logging, Marking, WritePoints, Writing,
      useWal, Mark, Moves, SameCall, SameLocks, SameWal, SameJob, WalIs, JobIs, Numbers, Retry,
      ToLog, Unchanged
<1>5. LocksTaken(c)
  BY <1>1
  DEF CheckMarkDoes, LocksTaken, CanExclude, CanShare, Moves, SameCall, SameLocks, SameWal,
      SameJob, WalIs, JobIs, Retry, ToLog, Unchanged
<1> QED
  BY <1>2, <1>3, <1>4, <1>5 DEF OwnOK

LEMMA EndReadOwn ==
  ASSUME TypesOK, NEW c \in Conn, OwnOK(c), EndRead(c)
  PROVE  OwnOK(c)' /\ LocksTaken(c)
<1>1. EndReadDoes(c) /\ PointOK(c) /\ TaskOK(c) /\ LockOK(c) /\ Numbers(c)
  BY EndReadEffect, NumbersOK DEF OwnOK
<1>2. PointOK(c)'
  BY <1>1, Sizes
  DEF EndReadDoes, PointOK, CkPoints, Alone, useWal, Marking, Logging, WritePoints, Waiting,
      Moves, SameCall, SameLocks, SameWal, SameJob, WalIs, JobIs, Numbers, Mark
<1>3. TaskOK(c)'
  BY <1>1, Sizes
  DEF EndReadDoes, TaskOK, PointOK, CkPoints, Alone, Logged, Logging, useWal, Writing,
      WritePoints, Marking, Moves, SameCall, SameLocks, SameWal, SameJob, WalIs, JobIs, Numbers
<1>4. LockOK(c)'
  BY <1>1, Sizes, LockNames
  DEF EndReadDoes, LockOK, PointOK, CkPoints, Alone, Logging, Marking, WritePoints, Writing,
      useWal, Mark, Moves, SameCall, SameLocks, SameWal, SameJob, WalIs, JobIs, Numbers
<1>5. LocksTaken(c)
  BY <1>1
  DEF EndReadDoes, LocksTaken, CanExclude, CanShare, Moves, SameCall, SameLocks, SameWal,
      SameJob, WalIs, JobIs
<1> QED
  BY <1>2, <1>3, <1>4, <1>5 DEF OwnOK

LEMMA BeginWriteOwn ==
  ASSUME TypesOK, NEW c \in Conn, OwnOK(c), BeginWrite(c)
  PROVE  OwnOK(c)' /\ LocksTaken(c)
<1>1. BeginWriteDoes(c) /\ PointOK(c) /\ TaskOK(c) /\ LockOK(c) /\ Numbers(c)
  BY BeginWriteEffect, NumbersOK DEF OwnOK
<1>2. PointOK(c)'
  BY <1>1, Sizes
  DEF BeginWriteDoes, PointOK, CkPoints, Alone, useWal, Marking, Logging, WritePoints, Waiting,
      Moves, SameCall, SameLocks, SameWal, SameJob, WalIs, JobIs, Numbers, Mark
<1>3. TaskOK(c)'
  BY <1>1, Sizes
  DEF BeginWriteDoes, TaskOK, PointOK, CkPoints, Alone, Logged, Logging, useWal, Writing,
      WritePoints, Marking, Moves, SameCall, SameLocks, SameWal, SameJob, WalIs, JobIs, Numbers
<1>4. LockOK(c)'
  BY <1>1, Sizes, LockNames
  DEF BeginWriteDoes, LockOK, PointOK, CkPoints, Alone, Logging, Marking, WritePoints, Writing,
      useWal, Mark, Moves, SameCall, SameLocks, SameWal, SameJob, WalIs, JobIs, Numbers
<1>5. LocksTaken(c)
  BY <1>1
  DEF BeginWriteDoes, LocksTaken, CanExclude, CanShare, Moves, SameCall, SameLocks, SameWal,
      SameJob, WalIs, JobIs
<1> QED
  BY <1>2, <1>3, <1>4, <1>5 DEF OwnOK

LEMMA RollbackOwn ==
  ASSUME TypesOK, NEW c \in Conn, OwnOK(c), Rollback(c), ~aHdr[0].init => Unused
  PROVE  OwnOK(c)' /\ LocksTaken(c)
<1>1. RollbackDoes(c) /\ PointOK(c) /\ TaskOK(c) /\ LockOK(c) /\ Numbers(c)
  BY RollbackEffect, NumbersOK DEF OwnOK
<1>2. PointOK(c)'
  <2>1. wal[c].readLock >= 0
    BY <1>1 DEF RollbackDoes, PointOK, Logging, Numbers
  <2>2. aHdr[0].init
    BY <1>1 DEF RollbackDoes, Unused, Waiting
  <2> QED
    BY <1>1, <2>1, <2>2
    DEF RollbackDoes, PointOK, CkPoints, Alone, useWal, Marking, Logging, WritePoints, Waiting,
        SameLocks, WalIs, NoJob
<1>3. TaskOK(c)'
  BY <1>1, Sizes
  DEF RollbackDoes, TaskOK, PointOK, CkPoints, Alone, Logged, Logging, useWal, Writing,
      WritePoints, Marking, Moves, SameCall, SameLocks, SameWal, SameJob, WalIs, JobIs,
      Numbers, NoJob
<1>4. LockOK(c)'
  BY <1>1, Sizes, LockNames
  DEF RollbackDoes, LockOK, PointOK, CkPoints, Alone, Logging, Marking, WritePoints, Writing,
      useWal, Mark, Moves, SameCall, SameLocks, SameWal, SameJob, WalIs, JobIs, Numbers, NoJob
<1>5. LocksTaken(c)
  BY <1>1
  DEF RollbackDoes, LocksTaken, CanExclude, CanShare, Moves, SameCall, SameLocks, SameWal,
      SameJob, WalIs, JobIs, NoJob
<1> QED
  BY <1>2, <1>3, <1>4, <1>5 DEF OwnOK

LEMMA RestartHdrOwn ==
  ASSUME TypesOK, NEW c \in Conn, OwnOK(c), RestartHdr(c)
  PROVE  OwnOK(c)' /\ LocksTaken(c)
<1>1. RestartHdrDoes(c) /\ PointOK(c) /\ TaskOK(c) /\ LockOK(c) /\ Numbers(c)
  BY RestartHdrEffect, NumbersOK DEF OwnOK
<1>2. PointOK(c)'
  BY <1>1, Sizes
  DEF RestartHdrDoes, PointOK, CkPoints, Alone, useWal, Marking, Logging, WritePoints, Waiting,
      Moves, SameCall, SameLocks, SameWal, SameJob, WalIs, JobIs, Numbers, Mark, ReadLocks,
      MayRestart
<1>3. TaskOK(c)'
  BY <1>1, Sizes
  DEF RestartHdrDoes, TaskOK, PointOK, CkPoints, Alone, Logged, Logging, useWal, Writing,
      WritePoints, Marking, Moves, SameCall, SameLocks, SameWal, SameJob, WalIs, JobIs,
      Numbers, ReadLocks, MayRestart
<1>4. LockOK(c)'
  BY <1>1, Sizes, LockNames
  DEF RestartHdrDoes, LockOK, PointOK, CkPoints, Alone, Logging, Marking, WritePoints, Writing,
      useWal, Mark, Moves, SameCall, SameLocks, SameWal, SameJob, WalIs, JobIs, Numbers,
      ReadLocks, MayRestart
<1>5. LocksTaken(c)
  BY <1>1
  DEF RestartHdrDoes, LocksTaken, CanExclude, CanShare, Moves, SameCall, SameLocks, SameWal,
      SameJob, WalIs, JobIs, ReadLocks, MayRestart
<1> QED
  BY <1>2, <1>3, <1>4, <1>5 DEF OwnOK

LEMMA RestartHdr0Own ==
  ASSUME TypesOK, NEW c \in Conn, OwnOK(c), RestartHdr0(c)
  PROVE  OwnOK(c)' /\ LocksTaken(c)
<1>1. RestartHdr0Does(c) /\ PointOK(c) /\ TaskOK(c) /\ LockOK(c) /\ Numbers(c)
  BY RestartHdr0Effect, NumbersOK DEF OwnOK
<1>2. PointOK(c)'
  BY <1>1, Sizes
  DEF RestartHdr0Does, PointOK, CkPoints, Alone, useWal, Marking, Logging, WritePoints,
      Waiting, Moves, SameCall, SameLocks, SameWal, SameJob, WalIs, JobIs, Numbers, Mark
<1>3. TaskOK(c)'
  BY <1>1, Sizes
  DEF RestartHdr0Does, TaskOK, PointOK, CkPoints, Alone, Logged, Logging, useWal, Writing,
      WritePoints, Marking, Moves, SameCall, SameLocks, SameWal, SameJob, WalIs, JobIs, Numbers
<1>4. LockOK(c)'
  BY <1>1, Sizes, LockNames
  DEF RestartHdr0Does, LockOK, PointOK, CkPoints, Alone, Logging, Marking, WritePoints,
      Writing, useWal, Mark, Moves, SameCall, SameLocks, SameWal, SameJob, WalIs, JobIs,
      Numbers
<1>5. LocksTaken(c)
  BY <1>1
  DEF RestartHdr0Does, LocksTaken, CanExclude, CanShare, Moves, SameCall, SameLocks, SameWal,
      SameJob, WalIs, JobIs
<1> QED
  BY <1>2, <1>3, <1>4, <1>5 DEF OwnOK

LEMMA RestartInfoOwn ==
  ASSUME TypesOK, NEW c \in Conn, OwnOK(c), RestartInfo(c)
  PROVE  OwnOK(c)' /\ LocksTaken(c)
<1>1. RestartInfoDoes(c) /\ PointOK(c) /\ TaskOK(c) /\ LockOK(c) /\ Numbers(c)
  BY RestartInfoEffect, NumbersOK DEF OwnOK
<1>2. PointOK(c)'
  BY <1>1, Sizes
  DEF RestartInfoDoes, PointOK, CkPoints, Alone, useWal, Marking, Logging, WritePoints,
      Waiting, Moves, SameCall, SameLocks, SameWal, SameJob, WalIs, JobIs, Numbers, Mark,
      ReadLocks
<1>3. TaskOK(c)'
  BY <1>1, Sizes
  DEF RestartInfoDoes, TaskOK, PointOK, CkPoints, Alone, Logged, Logging, useWal, Writing,
      WritePoints, Marking, Moves, SameCall, SameLocks, SameWal, SameJob, WalIs, JobIs,
      Numbers, ReadLocks
<1>4. LockOK(c)'
  BY <1>1, Sizes, LockNames
  DEF RestartInfoDoes, LockOK, PointOK, CkPoints, Alone, Logging, Marking, WritePoints,
      Writing, useWal, Mark, Moves, SameCall, SameLocks, SameWal, SameJob, WalIs, JobIs,
      Numbers, ReadLocks
<1>5. LocksTaken(c)
  BY <1>1
  DEF RestartInfoDoes, LocksTaken, CanExclude, CanShare, Moves, SameCall, SameLocks, SameWal,
      SameJob, WalIs, JobIs, ReadLocks
<1> QED
  BY <1>2, <1>3, <1>4, <1>5 DEF OwnOK

LEMMA KeepLogOwn ==
  ASSUME TypesOK, NEW c \in Conn, OwnOK(c), KeepLog(c)
  PROVE  OwnOK(c)' /\ LocksTaken(c)
<1>1. KeepLogDoes(c) /\ PointOK(c) /\ TaskOK(c) /\ LockOK(c) /\ Numbers(c)
  BY KeepLogEffect, NumbersOK DEF OwnOK
<1>2. PointOK(c)'
  BY <1>1, Sizes
  DEF KeepLogDoes, PointOK, CkPoints, Alone, useWal, Marking, Logging, WritePoints, Waiting,
      Moves, SameCall, SameLocks, SameWal, SameJob, WalIs, JobIs, Numbers, Mark, ToLog
<1>3. TaskOK(c)'
  BY <1>1, Sizes
  DEF KeepLogDoes, TaskOK, PointOK, CkPoints, Alone, Logged, Logging, useWal, Writing,
      WritePoints, Marking, Moves, SameCall, SameLocks, SameWal, SameJob, WalIs, JobIs,
      Numbers, ToLog
<1>4. LockOK(c)'
  BY <1>1, Sizes, LockNames
  DEF KeepLogDoes, LockOK, PointOK, CkPoints, Alone, Logging, Marking, WritePoints, Writing,
      useWal, Mark, Moves, SameCall, SameLocks, SameWal, SameJob, WalIs, JobIs, Numbers, ToLog
<1>5. LocksTaken(c)
  BY <1>1
  DEF KeepLogDoes, LocksTaken, CanExclude, CanShare, Moves, SameCall, SameLocks, SameWal,
      SameJob, WalIs, JobIs, ToLog
<1> QED
  BY <1>2, <1>3, <1>4, <1>5 DEF OwnOK

LEMMA WriteHeaderOwn ==
  ASSUME TypesOK, NEW c \in Conn, OwnOK(c), WriteHeader(c)
  PROVE  OwnOK(c)' /\ LocksTaken(c)
<1>1. WriteHeaderDoes(c) /\ PointOK(c) /\ TaskOK(c) /\ LockOK(c) /\ Numbers(c)
  BY WriteHeaderEffect, NumbersOK DEF OwnOK
<1>2. PointOK(c)'
  BY <1>1, Sizes
  DEF WriteHeaderDoes, PointOK, CkPoints, Alone, useWal, Marking, Logging, WritePoints,
      Waiting, Moves, SameCall, SameLocks, SameWal, SameJob, WalIs, JobIs, Numbers, Mark
<1>3. TaskOK(c)'
  BY <1>1, Sizes
  DEF WriteHeaderDoes, TaskOK, PointOK, CkPoints, Alone, Logged, Logging, useWal, Writing,
      WritePoints, Marking, Moves, SameCall, SameLocks, SameWal, SameJob, WalIs, JobIs, Numbers
<1>4. LockOK(c)'
  BY <1>1, Sizes, LockNames
  DEF WriteHeaderDoes, LockOK, PointOK, CkPoints, Alone, Logging, Marking, WritePoints,
      Writing, useWal, Mark, Moves, SameCall, SameLocks, SameWal, SameJob, WalIs, JobIs,
      Numbers
<1>5. LocksTaken(c)
  BY <1>1
  DEF WriteHeaderDoes, LocksTaken, CanExclude, CanShare, Moves, SameCall, SameLocks, SameWal,
      SameJob, WalIs, JobIs
<1> QED
  BY <1>2, <1>3, <1>4, <1>5 DEF OwnOK

LEMMA LogPageOwn ==
  ASSUME TypesOK, NEW c \in Conn, OwnOK(c), LogPage(c)
  PROVE  OwnOK(c)' /\ LocksTaken(c)
<1>1. LogPageDoes(c) /\ PointOK(c) /\ TaskOK(c) /\ LockOK(c) /\ Numbers(c)
  BY LogPageEffect, NumbersOK DEF OwnOK
<1>2. PointOK(c)'
  <2>1. /\ pc[c] = "append" /\ pc'[c] \in {"append", "rewrite", "publish"} /\ SameCall(c)
        /\ pc'[c] = "rewrite" => call[c] = "commit"
    BY <1>1 DEF LogPageDoes, Moves, AfterPage
  <2>2. wal'[c].readLock = wal[c].readLock /\ wal'[c].hdr.init = wal[c].hdr.init
    BY <1>1 DEF LogPageDoes, OverwriteOne, AppendOne, WalIs
  <2> QED
    BY <1>1, <2>1, <2>2, Sizes
    DEF PointOK, CkPoints, Alone, useWal, Marking, Logging, WritePoints, Waiting, SameCall,
        Numbers
<1>3. TaskOK(c)'
  <2> DEFINE p == Next1(c)
  <2>1. /\ pc[c] = "append" /\ useWal(c) /\ Writing(c) /\ wal[c].readLock > 0
        /\ SameCall(c) /\ pc'[c] = AfterPage(c, p)
    BY <1>1 DEF LogPageDoes, Moves, PointOK, Alone, Logging, Writing
  <2>2. p \in job[c].todo /\ p \in Page
    BY <1>1, <2>1, NextPage
  <2>3. FindFrame(c, p) <= wal[c].hdr.mx /\ FindFrame(c, p) \in Nat
    BY <1>1, <2>2, FindFrameIn, Sizes DEF Numbers
  <2> HIDE DEF p
  <2>4. job[c].iFrame >= wal[c].hdr.mx /\ ~job[c].changed
        /\ (wal[c].iReCksum # 0 => wal[c].iReCksum <= wal[c].hdr.mx)
    BY <1>1, <2>1 DEF TaskOK, CkPoints
  <2>5. CASE OverwriteOne(c, p)
    <3>1. PICK k \in Slot : k <= FindFrame(c, p)
                            /\ WalIs(c, wal[c].hdr, wal[c].readLock, wal[c].minFrame, k)
      BY <2>5 DEF OverwriteOne
    <3>2. /\ wal'[c].iReCksum = k /\ k # 0 /\ k <= wal[c].hdr.mx
          /\ wal'[c].hdr.mx = wal[c].hdr.mx /\ wal'[c].readLock = wal[c].readLock
          /\ job'[c].iFrame = job[c].iFrame /\ job'[c].todo = job[c].todo \ {p}
          /\ ~job'[c].changed
      BY <1>1, <2>3, <2>4, <2>5, <3>1, Sizes DEF OverwriteOne, WalIs, JobIs, Slot, Numbers
    <3> QED
      BY <1>1, <2>1, <2>2, <2>4, <3>2, Sizes
      DEF Slot, AfterPage, TaskOK, CkPoints, Logged, useWal, Writing, WritePoints, SameCall,
          Numbers
  <2>6. CASE AppendOne(c, p)
    <3>1. /\ wal'[c].iReCksum = wal[c].iReCksum
          /\ wal'[c].hdr.mx = wal[c].hdr.mx /\ wal'[c].readLock = wal[c].readLock
          /\ job'[c].iFrame = job[c].iFrame + 1 /\ job'[c].todo = job[c].todo \ {p}
          /\ ~job'[c].changed
      BY <1>1, <2>4, <2>6 DEF AppendOne, WalIs, JobIs
    <3> QED
      BY <1>1, <2>1, <2>2, <2>4, <3>1
      DEF AfterPage, TaskOK, CkPoints, Logged, useWal, Writing, WritePoints, SameCall, Numbers
  <2> QED
    BY <1>1, <2>5, <2>6 DEF LogPageDoes, p
<1>4. LockOK(c)'
  BY <1>1, Sizes, LockNames
  DEF LogPageDoes, LockOK, PointOK, CkPoints, Alone, Logging, Marking, WritePoints, Writing,
      useWal, Mark, Moves, SameCall, SameLocks, SameWal, SameJob, WalIs, JobIs, Numbers,
      OverwriteOne, AppendOne, AfterPage
<1>5. LocksTaken(c)
  BY <1>1
  DEF LogPageDoes, LocksTaken, CanExclude, CanShare, Moves, SameCall, SameLocks, SameWal,
      SameJob, WalIs, JobIs, OverwriteOne, AppendOne, AfterPage
<1> QED
  BY <1>2, <1>3, <1>4, <1>5 DEF OwnOK

LEMMA RewriteChecksumOwn ==
  ASSUME TypesOK, NEW c \in Conn, OwnOK(c), RewriteChecksum(c)
  PROVE  OwnOK(c)' /\ LocksTaken(c)
<1>1. RewriteChecksumDoes(c) /\ PointOK(c) /\ TaskOK(c) /\ LockOK(c) /\ Numbers(c)
  BY RewriteChecksumEffect, NumbersOK DEF OwnOK
<1>2. PointOK(c)'
  BY <1>1, Sizes
  DEF RewriteChecksumDoes, PointOK, CkPoints, Alone, useWal, Marking, Logging, WritePoints,
      Waiting, Moves, SameCall, SameLocks, SameWal, SameJob, WalIs, JobIs, Numbers, Mark
<1>3. TaskOK(c)'
  <2>1. /\ pc[c] = "rewrite" /\ SameCall(c) /\ SameJob(c)
        /\ wal[c].iReCksum >= 1 /\ wal[c].iReCksum <= job[c].iFrame
        /\ pc'[c] = IF wal[c].iReCksum = job[c].iFrame THEN "publish" ELSE "rewrite"
        /\ wal'[c].hdr.mx = wal[c].hdr.mx /\ wal'[c].readLock = wal[c].readLock
        /\ wal'[c].iReCksum = IF wal[c].iReCksum = job[c].iFrame THEN 0 ELSE wal[c].iReCksum + 1
    BY <1>1, Sizes DEF RewriteChecksumDoes, Moves, WalIs, Slot
  <2> QED
    BY <1>1, <2>1
    DEF TaskOK, PointOK, CkPoints, Alone, Logged, Logging, useWal, Writing, WritePoints,
        SameCall, SameJob, Numbers
<1>4. LockOK(c)'
  BY <1>1, Sizes, LockNames
  DEF RewriteChecksumDoes, LockOK, PointOK, CkPoints, Alone, Logging, Marking, WritePoints,
      Writing, useWal, Mark, Moves, SameCall, SameLocks, SameWal, SameJob, WalIs, JobIs,
      Numbers
<1>5. LocksTaken(c)
  BY <1>1
  DEF RewriteChecksumDoes, LocksTaken, CanExclude, CanShare, Moves, SameCall, SameLocks,
      SameWal, SameJob, WalIs, JobIs
<1> QED
  BY <1>2, <1>3, <1>4, <1>5 DEF OwnOK

LEMMA PublishOwn ==
  ASSUME TypesOK, NEW c \in Conn, OwnOK(c), Publish(c)
  PROVE  OwnOK(c)' /\ LocksTaken(c)
<1>1. PublishDoes(c) /\ PointOK(c) /\ TaskOK(c) /\ LockOK(c) /\ Numbers(c)
  BY PublishEffect, NumbersOK DEF OwnOK
<1>2. PointOK(c)'
  BY <1>1, Sizes
  DEF PublishDoes, PointOK, CkPoints, Alone, useWal, Marking, Logging, WritePoints, Waiting,
      Moves, SameCall, SameLocks, SameWal, SameJob, WalIs, JobIs, Numbers, Mark, NewHdr, NoJob
<1>3. TaskOK(c)'
  BY <1>1, Sizes
  DEF PublishDoes, TaskOK, PointOK, CkPoints, Alone, Logged, Logging, useWal, Writing,
      WritePoints, Marking, Moves, SameCall, SameLocks, SameWal, SameJob, WalIs, JobIs,
      Numbers, NewHdr, NoJob
<1>4. LockOK(c)'
  BY <1>1, Sizes, LockNames
  DEF PublishDoes, LockOK, PointOK, CkPoints, Alone, Logging, Marking, WritePoints, Writing,
      useWal, Mark, Moves, SameCall, SameLocks, SameWal, SameJob, WalIs, JobIs, Numbers,
      NewHdr, NoJob
<1>5. LocksTaken(c)
  BY <1>1
  DEF PublishDoes, LocksTaken, CanExclude, CanShare, Moves, SameCall, SameLocks, SameWal,
      SameJob, WalIs, JobIs, NewHdr, NoJob
<1> QED
  BY <1>2, <1>3, <1>4, <1>5 DEF OwnOK

LEMMA StartCheckpointOwn ==
  ASSUME TypesOK, NEW c \in Conn, OwnOK(c), StartCheckpoint(c)
  PROVE  OwnOK(c)' /\ LocksTaken(c)
<1>1. StartCheckpointDoes(c) /\ PointOK(c) /\ TaskOK(c) /\ LockOK(c) /\ Numbers(c)
  BY StartCheckpointEffect, NumbersOK DEF OwnOK
<1>2. PointOK(c)'
  BY <1>1, Sizes
  DEF StartCheckpointDoes, PointOK, CkPoints, Alone, useWal, Marking, Logging, WritePoints,
      Waiting, Moves, SameCall, SameLocks, SameWal, SameJob, WalIs, JobIs, Numbers, Mark
<1>3. TaskOK(c)'
  BY <1>1, Sizes
  DEF StartCheckpointDoes, TaskOK, PointOK, CkPoints, Alone, Logged, Logging, useWal, Writing,
      WritePoints, Marking, Moves, SameCall, SameLocks, SameWal, SameJob, WalIs, JobIs, Numbers
<1>4. LockOK(c)'
  BY <1>1, Sizes, LockNames
  DEF StartCheckpointDoes, LockOK, PointOK, CkPoints, Alone, Logging, Marking, WritePoints,
      Writing, useWal, Mark, Moves, SameCall, SameLocks, SameWal, SameJob, WalIs, JobIs,
      Numbers
<1>5. LocksTaken(c)
  BY <1>1
  DEF StartCheckpointDoes, LocksTaken, CanExclude, CanShare, Moves, SameCall, SameLocks,
      SameWal, SameJob, WalIs, JobIs
<1> QED
  BY <1>2, <1>3, <1>4, <1>5 DEF OwnOK

LEMMA InitIteratorOwn ==
  ASSUME TypesOK, NEW c \in Conn, OwnOK(c), InitIterator(c)
  PROVE  OwnOK(c)' /\ LocksTaken(c)
<1>1. InitIteratorDoes(c) /\ PointOK(c) /\ TaskOK(c) /\ LockOK(c) /\ Numbers(c)
  BY InitIteratorEffect, NumbersOK DEF OwnOK
<1>2. PointOK(c)'
  BY <1>1, Sizes
  DEF InitIteratorDoes, PointOK, CkPoints, Alone, useWal, Marking, Logging, WritePoints,
      Waiting, Moves, SameCall, SameLocks, SameWal, SameJob, WalIs, JobIs, Numbers, Mark
<1>3. TaskOK(c)'
  BY <1>1, Sizes
  DEF InitIteratorDoes, TaskOK, PointOK, CkPoints, Alone, Logged, Logging, useWal, Writing,
      WritePoints, Marking, Moves, SameCall, SameLocks, SameWal, SameJob, WalIs, JobIs, Numbers
<1>4. LockOK(c)'
  BY <1>1, Sizes, LockNames
  DEF InitIteratorDoes, LockOK, PointOK, CkPoints, Alone, Logging, Marking, WritePoints,
      Writing, useWal, Mark, Moves, SameCall, SameLocks, SameWal, SameJob, WalIs, JobIs,
      Numbers
<1>5. LocksTaken(c)
  BY <1>1
  DEF InitIteratorDoes, LocksTaken, CanExclude, CanShare, Moves, SameCall, SameLocks, SameWal,
      SameJob, WalIs, JobIs
<1> QED
  BY <1>2, <1>3, <1>4, <1>5 DEF OwnOK

LEMMA VisitMarkOwn ==
  ASSUME TypesOK, NEW c \in Conn, OwnOK(c), VisitMark(c)
  PROVE  OwnOK(c)' /\ LocksTaken(c)
<1>1. VisitMarkDoes(c) /\ PointOK(c) /\ TaskOK(c) /\ LockOK(c) /\ Numbers(c)
  BY VisitMarkEffect, NumbersOK DEF OwnOK
<1>2. PointOK(c)'
  BY <1>1, Sizes
  DEF VisitMarkDoes, PointOK, CkPoints, Alone, useWal, Marking, Logging, WritePoints, Waiting,
      Moves, SameCall, SameLocks, SameWal, SameJob, WalIs, JobIs, Numbers, Mark
<1>3. TaskOK(c)'
  <2>1. aReadMark[job[c].slot] \in 0 .. MaxFrame + 1
    <3>1. job[c].slot \in Mark
      BY <1>1 DEF VisitMarkDoes, Moves, PointOK
    <3> QED
      BY <3>1, Types
  <2> QED
    BY <1>1, <2>1, Sizes
    DEF VisitMarkDoes, TaskOK, PointOK, CkPoints, Alone, Logged, Logging, useWal, Writing,
        WritePoints, Marking, Moves, SameCall, SameLocks, SameWal, SameJob, WalIs, JobIs,
        Numbers
<1>4. LockOK(c)'
  BY <1>1, Sizes, LockNames
  DEF VisitMarkDoes, LockOK, PointOK, CkPoints, Alone, Logging, Marking, WritePoints, Writing,
      useWal, Mark, Moves, SameCall, SameLocks, SameWal, SameJob, WalIs, JobIs, Numbers
<1>5. LocksTaken(c)
  BY <1>1
  DEF VisitMarkDoes, LocksTaken, CanExclude, CanShare, Moves, SameCall, SameLocks, SameWal,
      SameJob, WalIs, JobIs
<1> QED
  BY <1>2, <1>3, <1>4, <1>5 DEF OwnOK

LEMMA GiveUpOwn ==
  ASSUME TypesOK, NEW c \in Conn, OwnOK(c), GiveUp(c)
  PROVE  OwnOK(c)' /\ LocksTaken(c)
<1>1. GiveUpDoes(c) /\ PointOK(c) /\ TaskOK(c) /\ LockOK(c) /\ Numbers(c)
  BY GiveUpEffect, NumbersOK DEF OwnOK
<1>2. PointOK(c)'
  BY <1>1, Sizes
  DEF GiveUpDoes, PointOK, CkPoints, Alone, useWal, Marking, Logging, WritePoints, Waiting,
      Moves, SameCall, SameLocks, SameWal, SameJob, WalIs, JobIs, Numbers, Mark
<1>3. TaskOK(c)'
  BY <1>1, Sizes
  DEF GiveUpDoes, TaskOK, PointOK, CkPoints, Alone, Logged, Logging, useWal, Writing,
      WritePoints, Marking, Moves, SameCall, SameLocks, SameWal, SameJob, WalIs, JobIs, Numbers
<1>4. LockOK(c)'
  BY <1>1, Sizes, LockNames
  DEF GiveUpDoes, LockOK, PointOK, CkPoints, Alone, Logging, Marking, WritePoints, Writing,
      useWal, Mark, Moves, SameCall, SameLocks, SameWal, SameJob, WalIs, JobIs, Numbers
<1>5. LocksTaken(c)
  BY <1>1
  DEF GiveUpDoes, LocksTaken, CanExclude, CanShare, Moves, SameCall, SameLocks, SameWal,
      SameJob, WalIs, JobIs
<1> QED
  BY <1>2, <1>3, <1>4, <1>5 DEF OwnOK

LEMMA CopyPageOwn ==
  ASSUME TypesOK, NEW c \in Conn, OwnOK(c), CopyPage(c)
  PROVE  OwnOK(c)' /\ LocksTaken(c)
<1>1. CopyPageDoes(c) /\ PointOK(c) /\ TaskOK(c) /\ LockOK(c) /\ Numbers(c)
  BY CopyPageEffect, NumbersOK DEF OwnOK
<1>2. PointOK(c)'
  BY <1>1, Sizes
  DEF CopyPageDoes, PointOK, CkPoints, Alone, useWal, Marking, Logging, WritePoints, Waiting,
      Moves, SameCall, SameLocks, SameWal, SameJob, WalIs, JobIs, Numbers, Mark
<1>3. TaskOK(c)'
  BY <1>1, Sizes
  DEF CopyPageDoes, TaskOK, PointOK, CkPoints, Alone, Logged, Logging, useWal, Writing,
      WritePoints, Marking, Moves, SameCall, SameLocks, SameWal, SameJob, WalIs, JobIs, Numbers
<1>4. LockOK(c)'
  BY <1>1, Sizes, LockNames
  DEF CopyPageDoes, LockOK, PointOK, CkPoints, Alone, Logging, Marking, WritePoints, Writing,
      useWal, Mark, Moves, SameCall, SameLocks, SameWal, SameJob, WalIs, JobIs, Numbers
<1>5. LocksTaken(c)
  BY <1>1
  DEF CopyPageDoes, LocksTaken, CanExclude, CanShare, Moves, SameCall, SameLocks, SameWal,
      SameJob, WalIs, JobIs
<1> QED
  BY <1>2, <1>3, <1>4, <1>5 DEF OwnOK

LEMMA BackfilledOwn ==
  ASSUME TypesOK, NEW c \in Conn, OwnOK(c), Backfilled(c)
  PROVE  OwnOK(c)' /\ LocksTaken(c)
<1>1. BackfilledDoes(c) /\ PointOK(c) /\ TaskOK(c) /\ LockOK(c) /\ Numbers(c)
  BY BackfilledEffect, NumbersOK DEF OwnOK
<1>2. PointOK(c)'
  BY <1>1, Sizes
  DEF BackfilledDoes, PointOK, CkPoints, Alone, useWal, Marking, Logging, WritePoints, Waiting,
      Moves, SameCall, SameLocks, SameWal, SameJob, WalIs, JobIs, Numbers, Mark
<1>3. TaskOK(c)'
  BY <1>1, Sizes
  DEF BackfilledDoes, TaskOK, PointOK, CkPoints, Alone, Logged, Logging, useWal, Writing,
      WritePoints, Marking, Moves, SameCall, SameLocks, SameWal, SameJob, WalIs, JobIs, Numbers
<1>4. LockOK(c)'
  BY <1>1, Sizes, LockNames
  DEF BackfilledDoes, LockOK, PointOK, CkPoints, Alone, Logging, Marking, WritePoints, Writing,
      useWal, Mark, Moves, SameCall, SameLocks, SameWal, SameJob, WalIs, JobIs, Numbers
<1>5. LocksTaken(c)
  BY <1>1
  DEF BackfilledDoes, LocksTaken, CanExclude, CanShare, Moves, SameCall, SameLocks, SameWal,
      SameJob, WalIs, JobIs
<1> QED
  BY <1>2, <1>3, <1>4, <1>5 DEF OwnOK

LEMMA CheckpointFailsOwn ==
  ASSUME TypesOK, NEW c \in Conn, OwnOK(c), CheckpointFails(c)
  PROVE  OwnOK(c)' /\ LocksTaken(c)
<1>1. CheckpointFailsDoes(c) /\ PointOK(c) /\ TaskOK(c) /\ LockOK(c) /\ Numbers(c)
  BY CheckpointFailsEffect, NumbersOK DEF OwnOK
<1>2. PointOK(c)'
  BY <1>1, Sizes
  DEF CheckpointFailsDoes, PointOK, CkPoints, Alone, useWal, Marking, Logging, WritePoints,
      Waiting, Moves, SameCall, SameLocks, SameWal, SameJob, WalIs, JobIs, Numbers, Mark
<1>3. TaskOK(c)'
  BY <1>1, Sizes
  DEF CheckpointFailsDoes, TaskOK, PointOK, CkPoints, Alone, Logged, Logging, useWal, Writing,
      WritePoints, Marking, Moves, SameCall, SameLocks, SameWal, SameJob, WalIs, JobIs, Numbers
<1>4. LockOK(c)'
  BY <1>1, Sizes, LockNames
  DEF CheckpointFailsDoes, LockOK, PointOK, CkPoints, Alone, Logging, Marking, WritePoints,
      Writing, useWal, Mark, Moves, SameCall, SameLocks, SameWal, SameJob, WalIs, JobIs,
      Numbers
<1>5. LocksTaken(c)
  BY <1>1
  DEF CheckpointFailsDoes, LocksTaken, CanExclude, CanShare, Moves, SameCall, SameLocks,
      SameWal, SameJob, WalIs, JobIs
<1> QED
  BY <1>2, <1>3, <1>4, <1>5 DEF OwnOK

LEMMA EndCheckpointOwn ==
  ASSUME TypesOK, NEW c \in Conn, OwnOK(c), EndCheckpoint(c)
  PROVE  OwnOK(c)' /\ LocksTaken(c)
<1>1. EndCheckpointDoes(c) /\ PointOK(c) /\ TaskOK(c) /\ LockOK(c) /\ Numbers(c)
  BY EndCheckpointEffect, NumbersOK DEF OwnOK
<1>2. PointOK(c)'
  BY <1>1, Sizes
  DEF EndCheckpointDoes, PointOK, CkPoints, Alone, useWal, Marking, Logging, WritePoints,
      Waiting, Moves, SameCall, SameLocks, SameWal, SameJob, WalIs, JobIs, Numbers, Mark,
      HdrAfter, NoJob
<1>3. TaskOK(c)'
  BY <1>1, Sizes
  DEF EndCheckpointDoes, TaskOK, PointOK, CkPoints, Alone, Logged, Logging, useWal, Writing,
      WritePoints, Marking, Moves, SameCall, SameLocks, SameWal, SameJob, WalIs, JobIs,
      Numbers, HdrAfter, NoJob
<1>4. LockOK(c)'
  BY <1>1, Sizes, LockNames
  DEF EndCheckpointDoes, LockOK, PointOK, CkPoints, Alone, Logging, Marking, WritePoints,
      Writing, useWal, Mark, Moves, SameCall, SameLocks, SameWal, SameJob, WalIs, JobIs,
      Numbers, HdrAfter, NoJob
<1>5. LocksTaken(c)
  BY <1>1
  DEF EndCheckpointDoes, LocksTaken, CanExclude, CanShare, Moves, SameCall, SameLocks, SameWal,
      SameJob, WalIs, JobIs, HdrAfter, NoJob
<1> QED
  BY <1>2, <1>3, <1>4, <1>5 DEF OwnOK

LEMMA RecoverOwn ==
  ASSUME TypesOK, NEW c \in Conn, OwnOK(c), Recover(c)
  PROVE  OwnOK(c)' /\ LocksTaken(c)
<1>1. RecoverDoes(c) /\ PointOK(c) /\ TaskOK(c) /\ LockOK(c) /\ Numbers(c)
  BY RecoverEffect, NumbersOK, LogRead DEF OwnOK
<1>2. PointOK(c)'
  BY <1>1, Sizes, LogRead
  DEF RecoverDoes, PointOK, CkPoints, Alone, useWal, Marking, Logging, WritePoints, Waiting,
      Moves, SameCall, SameLocks, SameWal, SameJob, WalIs, JobIs, Numbers, Mark
<1>3. TaskOK(c)'
  BY <1>1, Sizes, LogRead
  DEF RecoverDoes, TaskOK, PointOK, CkPoints, Alone, Logged, Logging, useWal, Writing,
      WritePoints, Marking, Moves, SameCall, SameLocks, SameWal, SameJob, WalIs, JobIs, Numbers
<1>4. LockOK(c)'
  BY <1>1, Sizes, LogRead, LockNames
  DEF RecoverDoes, LockOK, PointOK, CkPoints, Alone, Logging, Marking, WritePoints, Writing,
      useWal, Mark, Moves, SameCall, SameLocks, SameWal, SameJob, WalIs, JobIs, Numbers
<1>5. LocksTaken(c)
  BY <1>1
  DEF RecoverDoes, LocksTaken, CanExclude, CanShare, Moves, SameCall, SameLocks, SameWal,
      SameJob, WalIs, JobIs
<1> QED
  BY <1>2, <1>3, <1>4, <1>5 DEF OwnOK

LEMMA PublishHdr0Own ==
  ASSUME TypesOK, NEW c \in Conn, OwnOK(c), PublishHdr0(c)
  PROVE  OwnOK(c)' /\ LocksTaken(c)
<1>1. PublishHdr0Does(c) /\ PointOK(c) /\ TaskOK(c) /\ LockOK(c) /\ Numbers(c)
  BY PublishHdr0Effect, NumbersOK DEF OwnOK
<1>2. PointOK(c)'
  BY <1>1, Sizes
  DEF PublishHdr0Does, PointOK, CkPoints, Alone, useWal, Marking, Logging, WritePoints,
      Waiting, Moves, SameCall, SameLocks, SameWal, SameJob, WalIs, JobIs, Numbers, Mark
<1>3. TaskOK(c)'
  BY <1>1, Sizes
  DEF PublishHdr0Does, TaskOK, PointOK, CkPoints, Alone, Logged, Logging, useWal, Writing,
      WritePoints, Marking, Moves, SameCall, SameLocks, SameWal, SameJob, WalIs, JobIs, Numbers
<1>4. LockOK(c)'
  BY <1>1, Sizes, LockNames
  DEF PublishHdr0Does, LockOK, PointOK, CkPoints, Alone, Logging, Marking, WritePoints,
      Writing, useWal, Mark, Moves, SameCall, SameLocks, SameWal, SameJob, WalIs, JobIs,
      Numbers
<1>5. LocksTaken(c)
  BY <1>1
  DEF PublishHdr0Does, LocksTaken, CanExclude, CanShare, Moves, SameCall, SameLocks, SameWal,
      SameJob, WalIs, JobIs
<1> QED
  BY <1>2, <1>3, <1>4, <1>5 DEF OwnOK

LEMMA SyncHeaderOwn ==
  ASSUME TypesOK, NEW c \in Conn, OwnOK(c), SyncHeader(c)
  PROVE  OwnOK(c)' /\ LocksTaken(c)
<1>1. SyncHeaderDoes(c) /\ PointOK(c) /\ TaskOK(c) /\ LockOK(c) /\ Numbers(c)
  BY SyncHeaderEffect, NumbersOK DEF OwnOK
<1>2. PointOK(c)'
  BY <1>1, Sizes
  DEF SyncHeaderDoes, PointOK, CkPoints, Alone, useWal, Marking, Logging, WritePoints, Waiting,
      Moves, SameCall, SameLocks, SameWal, SameJob, WalIs, JobIs, Numbers, Mark
<1>3. TaskOK(c)'
  BY <1>1, Sizes
  DEF SyncHeaderDoes, TaskOK, PointOK, CkPoints, Alone, Logged, Logging, useWal, Writing,
      WritePoints, Marking, Moves, SameCall, SameLocks, SameWal, SameJob, WalIs, JobIs, Numbers
<1>4. LockOK(c)'
  BY <1>1, Sizes, LockNames
  DEF SyncHeaderDoes, LockOK, PointOK, CkPoints, Alone, Logging, Marking, WritePoints, Writing,
      useWal, Mark, Moves, SameCall, SameLocks, SameWal, SameJob, WalIs, JobIs, Numbers
<1>5. LocksTaken(c)
  BY <1>1
  DEF SyncHeaderDoes, LocksTaken, CanExclude, CanShare, Moves, SameCall, SameLocks, SameWal,
      SameJob, WalIs, JobIs
<1> QED
  BY <1>2, <1>3, <1>4, <1>5 DEF OwnOK

LEMMA LockZeroOwn ==
  ASSUME TypesOK, NEW c \in Conn, OwnOK(c), LockZero(c)
  PROVE  OwnOK(c)' /\ LocksTaken(c)
<1>1. LockZeroDoes(c) /\ PointOK(c) /\ TaskOK(c) /\ LockOK(c) /\ Numbers(c)
  BY LockZeroEffect, NumbersOK DEF OwnOK
<1>2. PointOK(c)'
  BY <1>1, Sizes
  DEF LockZeroDoes, PointOK, CkPoints, Alone, useWal, Marking, Logging, WritePoints, Waiting,
      Moves, SameCall, SameLocks, SameWal, SameJob, WalIs, JobIs, Numbers, Mark
<1>3. TaskOK(c)'
  BY <1>1, Sizes
  DEF LockZeroDoes, TaskOK, PointOK, CkPoints, Alone, Logged, Logging, useWal, Writing,
      WritePoints, Marking, Moves, SameCall, SameLocks, SameWal, SameJob, WalIs, JobIs, Numbers
<1>4. LockOK(c)'
  BY <1>1, Sizes, LockNames
  DEF LockZeroDoes, LockOK, PointOK, CkPoints, Alone, Logging, Marking, WritePoints, Writing,
      useWal, Mark, Moves, SameCall, SameLocks, SameWal, SameJob, WalIs, JobIs, Numbers
<1>5. LocksTaken(c)
  BY <1>1
  DEF LockZeroDoes, LocksTaken, CanExclude, CanShare, Moves, SameCall, SameLocks, SameWal,
      SameJob, WalIs, JobIs
<1> QED
  BY <1>2, <1>3, <1>4, <1>5 DEF OwnOK

LEMMA WriteOwn ==
  ASSUME TypesOK, NEW c \in Conn, NEW p \in Page, OwnOK(c), Write(c, p)
  PROVE  OwnOK(c)' /\ LocksTaken(c)
<1>1. WriteDoes(c, p) /\ PointOK(c) /\ TaskOK(c) /\ LockOK(c)
  BY WriteEffect DEF OwnOK
<1>2. pc'[c] = pc[c] /\ SameCall(c) /\ SameLocks(c) /\ SameWal(c) /\ SameJob(c)
  BY <1>1 DEF WriteDoes, Moves
<1>3. PointOK(c)'
  BY <1>1, <1>2 DEF PointOK, useWal, SameCall, SameWal, SameJob
<1>4. TaskOK(c)'
  BY <1>1, <1>2 DEF TaskOK, useWal, Writing, SameCall, SameWal, SameJob
<1>5. LockOK(c)'
  BY <1>1, <1>2 DEF LockOK, useWal, Writing, SameCall, SameLocks, SameWal, SameJob
<1> QED
  BY <1>2, <1>3, <1>4, <1>5 DEF OwnOK, LocksTaken, SameLocks

LEMMA FramesOwn ==
  ASSUME TypesOK, NEW c \in Conn, NEW what \in {"spill", "commit"}, NEW pages \in SUBSET Page,
         pages # {}, OwnOK(c), Frames(c, what, pages)
  PROVE  OwnOK(c)' /\ LocksTaken(c)
<1>1. /\ FramesDoes(c, what, pages) /\ PointOK(c) /\ TaskOK(c) /\ LockOK(c)
      /\ Numbers(c)
  BY FramesEffect, NumbersOK DEF OwnOK
<1>2. PointOK(c)'
  BY <1>1, Sizes
  DEF FramesDoes, PointOK, CkPoints, Alone, useWal, Marking, Logging, WritePoints, Waiting,
      Moves, SameLocks, SameWal, JobIs, Numbers, Mark
<1>3. TaskOK(c)'
  BY <1>1, Sizes
  DEF FramesDoes, TaskOK, PointOK, CkPoints, Alone, Logged, Logging, useWal, Writing,
      WritePoints, Marking, Moves, SameLocks, SameWal, JobIs, Numbers
<1>4. LockOK(c)'
  BY <1>1, Sizes, LockNames
  DEF FramesDoes, LockOK, PointOK, CkPoints, Alone, Logging, Marking, WritePoints, Writing,
      useWal, Mark, Moves, SameLocks, SameWal, JobIs, Numbers
<1> QED
  BY <1>1, <1>2, <1>3, <1>4 DEF OwnOK, LocksTaken, SameLocks, FramesDoes

\* The pages a call of sqlite3WalFrames is for.
LEMMA Batches ==
  ASSUME TypesOK, NEW c \in Conn
  PROVE  /\ \A p \in Page : Spill(c, p) =>
              p \in Dirty(c) /\ {p} \in SUBSET Page /\ {p} # {} /\ Frames(c, "spill", {p})
         /\ Commit(c) => \E pages \in SUBSET Page :
              /\ pages # {} /\ Dirty(c) \subseteq pages
              /\ Frames(c, "commit", pages)
<1>1. Dirty(c) \subseteq Page /\ 1 \in Page
  BY Constants DEF Dirty
<1>2. \A p \in Page : Spill(c, p) =>
        p \in Dirty(c) /\ {p} \in SUBSET Page /\ {p} # {} /\ Frames(c, "spill", {p})
  BY DEF Spill
<1>3. Commit(c) => \E pages \in SUBSET Page :
        /\ pages # {} /\ Dirty(c) \subseteq pages
        /\ Frames(c, "commit", pages)
  <2>1. CASE Dirty(c) = {}
    <3>1. Commit(c) => Frames(c, "commit", {1})
      BY <2>1 DEF Commit
    <3> QED
      BY <1>1, <2>1, <3>1
  <2>2. CASE Dirty(c) # {}
    <3>1. Commit(c) => Frames(c, "commit", Dirty(c))
      BY <2>2 DEF Commit
    <3> QED
      BY <1>1, <2>2, <3>1
  <2> QED
    BY <2>1, <2>2
<1> QED
  BY <1>2, <1>3

\* Every step of a connection.
LEMMA OwnStep ==
  ASSUME TypesOK, NEW c \in Conn, OwnOK(c), ~aHdr[0].init => Unused, StepOf(c)
  PROVE  TypesOK' /\ OthersStay(c) /\ OwnOK(c)' /\ LocksTaken(c)
<1>1. PointOK(c) /\ TaskOK(c)
  BY DEF OwnOK
<1>2. CASE Read(c)
  <2>1. CASE ReadHdr(c)
    BY <1>1, <2>1, ReadHdrEffect, ReadHdrOwn
  <2>2. CASE HdrLocked(c)
    BY <1>1, <2>2, HdrLockedEffect, HdrLockedOwn
  <2>3. CASE ChooseZero(c)
    BY <1>1, <2>3, ChooseZeroEffect, ChooseZeroOwn
  <2>4. CASE LockMarkZero(c)
    BY <1>1, <2>4, LockMarkZeroEffect, LockMarkZeroOwn
  <2>5. CASE ChooseMark(c)
    BY <1>1, <2>5, ChooseMarkEffect, ChooseMarkOwn
  <2>6. CASE LockMark(c)
    BY <1>1, <2>6, LockMarkEffect, LockMarkOwn
  <2>7. CASE CheckMark(c)
    BY <1>1, <2>7, CheckMarkEffect, CheckMarkOwn
  <2>8. CASE EndRead(c)
    BY <1>1, <2>8, EndReadEffect, EndReadOwn
  <2> QED
    BY <1>2, <2>1, <2>2, <2>3, <2>4, <2>5, <2>6, <2>7, <2>8 DEF Read
<1>3. CASE Checkpoint(c)
  <2>1. CASE StartCheckpoint(c)
    BY <1>1, <2>1, StartCheckpointEffect, StartCheckpointOwn
  <2>2. CASE InitIterator(c)
    BY <1>1, <2>2, InitIteratorEffect, InitIteratorOwn
  <2>3. CASE VisitMark(c)
    BY <1>1, <2>3, VisitMarkEffect, VisitMarkOwn
  <2>4. CASE GiveUp(c)
    BY <1>1, <2>4, GiveUpEffect, GiveUpOwn
  <2>5. CASE CopyPage(c)
    BY <1>1, <2>5, CopyPageEffect, CopyPageOwn
  <2>6. CASE Backfilled(c)
    BY <1>1, <2>6, BackfilledEffect, BackfilledOwn
  <2>7. CASE CheckpointFails(c)
    BY <1>1, <2>7, CheckpointFailsEffect, CheckpointFailsOwn
  <2>8. CASE EndCheckpoint(c)
    BY <1>1, <2>8, EndCheckpointEffect, EndCheckpointOwn
  <2> QED
    BY <1>3, <2>1, <2>2, <2>3, <2>4, <2>5, <2>6, <2>7, <2>8 DEF Checkpoint
<1>4. CASE Recover(c)
  BY <1>1, <1>4, RecoverEffect, RecoverOwn
<1>5. CASE PublishHdr0(c)
  BY <1>1, <1>5, PublishHdr0Effect, PublishHdr0Own
<1>6. CASE SyncHeader(c)
  BY <1>1, <1>6, SyncHeaderEffect, SyncHeaderOwn
<1>7. CASE LockZero(c)
  BY <1>1, <1>7, LockZeroEffect, LockZeroOwn
<1>8. CASE Change(c)
  <2>1. CASE BeginWrite(c)
    BY <1>1, <2>1, BeginWriteEffect, BeginWriteOwn
  <2>2. CASE Rollback(c)
    BY <1>1, <2>2, RollbackEffect, RollbackOwn
  <2>3. CASE RestartHdr(c)
    BY <1>1, <2>3, RestartHdrEffect, RestartHdrOwn
  <2>4. CASE RestartHdr0(c)
    BY <1>1, <2>4, RestartHdr0Effect, RestartHdr0Own
  <2>5. CASE RestartInfo(c)
    BY <1>1, <2>5, RestartInfoEffect, RestartInfoOwn
  <2>6. CASE KeepLog(c)
    BY <1>1, <2>6, KeepLogEffect, KeepLogOwn
  <2>7. CASE WriteHeader(c)
    BY <1>1, <2>7, WriteHeaderEffect, WriteHeaderOwn
  <2>8. CASE LogPage(c)
    BY <1>1, <2>8, LogPageEffect, LogPageOwn
  <2>9. CASE RewriteChecksum(c)
    BY <1>1, <2>9, RewriteChecksumEffect, RewriteChecksumOwn
  <2>10. CASE Publish(c)
    BY <1>1, <2>10, PublishEffect, PublishOwn
  <2>11. CASE Commit(c)
    <3>1. PICK pages \in SUBSET Page : pages # {} /\ Frames(c, "commit", pages)
      BY <2>11, Batches
    <3> QED
      BY <1>1, <3>1, FramesEffect, FramesOwn
  <2>12. ASSUME NEW p \in Page, Write(c, p)
         PROVE OwnOK(c)' /\ LocksTaken(c) /\ TypesOK' /\ OthersStay(c)
    BY <1>1, <2>12, WriteEffect, WriteOwn
  <2>13. ASSUME NEW p \in Page, Spill(c, p)
         PROVE OwnOK(c)' /\ LocksTaken(c) /\ TypesOK' /\ OthersStay(c)
    <3>1. {p} \in SUBSET Page /\ {p} # {} /\ Frames(c, "spill", {p})
      BY <2>13, Batches
    <3> QED
      BY <1>1, <3>1, FramesEffect, FramesOwn
  <2> QED
    BY <1>8, <2>1, <2>2, <2>3, <2>4, <2>5, <2>6, <2>7, <2>8, <2>9, <2>10, <2>11, <2>12, <2>13
    DEF Change
<1> QED
  BY <1>2, <1>3, <1>4, <1>5, <1>6, <1>7, <1>8 DEF StepOf

\* No two connections come to hold a lock that excludes the other.
LEMMA LocksStep ==
  ASSUME LocksOK, NEW c \in Conn, OthersStay(c), LocksTaken(c)
  PROVE  LocksOK'
<1> SUFFICES ASSUME NEW a \in Conn, NEW b \in Conn, a # b,
                    NEW l \in exclMask'[a], l \in exclMask'[b] \/ l \in sharedMask'[b]
             PROVE  FALSE
  BY DEF LocksOK
<1>1. \A d \in Conn \ {c} : exclMask'[d] = exclMask[d] /\ sharedMask'[d] = sharedMask[d]
  BY DEF OthersStay, Stays
<1>2. l \notin exclMask[a] \/ (l \notin exclMask[b] /\ l \notin sharedMask[b])
  BY DEF LocksOK
<1>3. CASE a = c
  <2>1. b \in Conn \ {c} /\ (l \in exclMask[b] \/ l \in sharedMask[b])
    BY <1>1, <1>3
  <2>2. l \in exclMask[c] \/ CanExclude(c, {l})
    BY <1>3 DEF LocksTaken
  <2>3. ~CanExclude(c, {l})
    BY <2>1 DEF CanExclude
  <2> QED
    BY <1>2, <1>3, <2>1, <2>2, <2>3
<1>4. CASE b = c
  <2>1. a \in Conn \ {c} /\ l \in exclMask[a]
    BY <1>1, <1>4
  <2>2. CASE l \in exclMask'[c]
    <3>1. l \in exclMask[c] \/ CanExclude(c, {l})
      BY <2>2 DEF LocksTaken
    <3>2. ~CanExclude(c, {l})
      BY <2>1 DEF CanExclude
    <3> QED
      BY <1>2, <1>4, <2>1, <3>1, <3>2
  <2>3. CASE l \in sharedMask'[c]
    <3>1. l \in sharedMask[c] \/ CanShare(c, l)
      BY <2>3 DEF LocksTaken
    <3>2. ~CanShare(c, l)
      BY <2>1 DEF CanShare
    <3> QED
      BY <1>2, <1>4, <2>1, <3>1, <3>2
  <2> QED
    BY <1>4, <2>2, <2>3
<1>5. CASE a # c /\ b # c
  BY <1>1, <1>2, <1>5
<1> QED
  BY <1>3, <1>4, <1>5

LEMMA OwnStays ==
  ASSUME NEW d \in Conn, OwnOK(d), Stays(d)
  PROVE  OwnOK(d)'
<1>1. PointOK(d)'
  BY DEF OwnOK, PointOK, Stays, useWal
<1>2. TaskOK(d)'
  BY DEF OwnOK, TaskOK, Stays, useWal, Writing
<1>3. LockOK(d)'
  BY DEF OwnOK, LockOK, Stays, useWal, Writing
<1> QED
  BY <1>1, <1>2, <1>3 DEF OwnOK

-----------------------------------------------------------------------------
(* The headers. *)

BaseOK == TypesOK /\ LocksOK /\ (\A c \in Conn : OwnOK(c)) /\ HdrsOK

LEMMA OneWriter ==
  ASSUME LocksOK, NEW c \in Conn, NEW d \in Conn, LockOK(c), LockOK(d), Writing(c), Writing(d)
  PROVE  c = d
<1>1. WAL_WRITE_LOCK \in exclMask[c] /\ WAL_WRITE_LOCK \in exclMask[d]
  BY DEF LockOK
<1> QED
  BY <1>1 DEF LocksOK

\* Who does not write is not at the points of a writer.
LEMMA NotWriting ==
  ASSUME NEW d \in Conn, ~Writing(d), TaskOK(d)
  PROVE  /\ ~useWal(d) /\ wal[d].iReCksum = 0
         /\ pc[d] \notin {"writer", "frames", "restart", "restarted", "header", "headersync",
                          "append", "rewrite", "publish", "publish0"}
         /\ WriterHdrOK(d)
<1>1. ~useWal(d) /\ pc[d] \notin WritePoints /\ wal[d].iReCksum = 0
  BY DEF Writing, TaskOK
<1> QED
  BY <1>1 DEF WritePoints, WriterHdrOK

\* The header connection c has now has a salt that is no news to the others.
SaltKept(c) ==
  wal'[c].hdr.init => \/ wal[c].hdr.init /\ wal'[c].hdr.salt = wal[c].hdr.salt
                      \/ wal'[c].hdr.salt = aHdr[0].salt
                      \/ Writing(c)

LEMMA HdrOthers ==
  ASSUME BaseOK, NEW c \in Conn, OthersStay(c), SaltKept(c), NEW d \in Conn \ {c},
         aHdr'[0] = aHdr[0], aHdr'[1] = aHdr[1] \/ Writing(c)
  PROVE  WriterHdrOK(d)' /\ OtherHdrOK(d)'
<1>1. WriterHdrOK(d) /\ OtherHdrOK(d) /\ OwnOK(d) /\ OwnOK(c) /\ Stays(d)
  BY DEF BaseOK, HdrsOK, OthersStay
<1>2. useWal(d)' <=> useWal(d)
  BY <1>1 DEF useWal, Stays
<1>3. Writing(d)' <=> Writing(d)
  BY <1>1, <1>2 DEF Writing, Stays
<1>4. OtherHdrOK(d)'
  BY <1>1, <1>3 DEF OtherHdrOK, Stays
<1>5. CASE ~Writing(d)
  <2>1. OwnOK(d)'
    BY <1>1, OwnStays
  <2>2. ~Writing(d)' /\ TaskOK(d)'
    BY <1>3, <1>5, <2>1 DEF OwnOK
  <2>3. WriterHdrOK(d)'
    <3>1. ~useWal(d)' /\ (pc[d] \notin WritePoints)' /\ (wal[d].iReCksum = 0)'
      BY <2>2 DEF Writing, TaskOK
    <3> QED
      BY <3>1, <2>2 DEF WritePoints, WriterHdrOK
  <2> QED
    BY <1>4, <2>3
<1>6. CASE Writing(d)
  <2>1. ~Writing(c)
    BY <1>1, <1>6, OneWriter DEF BaseOK, OwnOK
  <2>2. Fresher(d) /\ wal[d].hdr.salt # aHdr[0].salt => Fresher(d)'
    <3>1. ASSUME Fresher(d), wal[d].hdr.salt # aHdr[0].salt, wal'[c].hdr.init
          PROVE  wal'[c].hdr.salt # wal'[d].hdr.salt
      BY <1>1, <2>1, <3>1 DEF SaltKept, Fresher, Stays
    <3>2. \A e \in Conn \ {c} : wal'[e] = wal[e]
      BY DEF OthersStay, Stays
    <3> QED
      BY <3>1, <3>2 DEF Fresher
  <2>3. WriterHdrOK(d)'
    BY <1>1, <1>2, <1>3, <2>1, <2>2 DEF WriterHdrOK, Stays
  <2> QED
    BY <1>4, <2>3
<1> QED
  BY <1>5, <1>6

LEMMA HdrCalm ==
  ASSUME HdrOK, NEW c \in Conn, OthersStay(c), aHdr' = aHdr, aHdr[0].init,
         pc[c] \notin {"restart", "publish0"}
  PROVE  HdrOK'
  BY DEF HdrOK, OthersStay, Stays

\* A step that leaves the header of the wal-index alone.
LEMMA HdrStep ==
  ASSUME BaseOK, NEW c \in Conn, OthersStay(c), SaltKept(c), aHdr' = aHdr, aHdr[0].init,
         pc[c] \notin {"restart", "publish0"}, WriterHdrOK(c)', OtherHdrOK(c)'
  PROVE  HdrsOK'
<1>1. HdrOK'
  BY HdrCalm DEF BaseOK, HdrsOK
<1>2. \A d \in Conn \ {c} : WriterHdrOK(d)' /\ OtherHdrOK(d)'
  BY HdrOthers
<1> QED
  BY <1>1, <1>2 DEF HdrsOK

\* What is known of connection c before its step.
Before(c) ==
  PointOK(c) /\ TaskOK(c) /\ LockOK(c) /\ Numbers(c) /\ WriterHdrOK(c) /\ OtherHdrOK(c) /\ HdrOK

LEMMA BeforeOK ==
  ASSUME BaseOK, NEW c \in Conn
  PROVE  TypesOK /\ Before(c) /\ OwnOK(c) /\ (pc[c] \notin Waiting => aHdr[0].init)
         /\ aHdr[0].mx \in 0 .. MaxFrame
<1>1. HdrOK
  BY DEF BaseOK, HdrsOK
<1>2. pc[c] \notin Waiting => aHdr[0].init
  BY <1>1 DEF HdrOK, Unused
<1> QED
  BY <1>1, <1>2, NumbersOK, Types DEF BaseOK, HdrsOK, OwnOK, Before

LEMMA ReadHdrHdr ==
  ASSUME BaseOK, NEW c \in Conn, ReadHdr(c)
  PROVE  HdrsOK'
<1>1. /\ ReadHdrDoes(c) /\ OthersStay(c) /\ Before(c)
      /\ aHdr[0].mx \in 0 .. MaxFrame /\ (pc[c] \notin Waiting => aHdr[0].init)
  BY BeforeOK, ReadHdrEffect DEF Before
<1>2. /\ aHdr' = aHdr /\ aHdr[0].init /\ pc[c] \notin {"restart", "publish0"}
      /\ wal'[c].hdr.salt = wal[c].hdr.salt \/ wal'[c].hdr = aHdr[0]
      /\ wal'[c].hdr.init = wal[c].hdr.init \/ wal'[c].hdr = aHdr[0]
  BY <1>1
  DEF ReadHdrDoes, Before, shmVars, Waiting, Moves, SameCall, SameWal, SameJob, WalIs, JobIs,
      HdrGood
<1>3. SaltKept(c)
  BY <1>2 DEF SaltKept
<1>4. Fresher(c) /\ wal'[c].hdr.salt = wal[c].hdr.salt => Fresher(c)'
  BY <1>1 DEF Fresher, OthersStay, Stays
<1>5. WriterHdrOK(c)'
  BY <1>1, <1>2, <1>4, Sizes
  DEF ReadHdrDoes, Before, WriterHdrOK, PointOK, TaskOK, Alone, Marking, Logging, Logged,
      CkPoints, WritePoints, Writing, useWal, Numbers, Moves, SameCall, SameWal, SameJob,
      WalIs, JobIs, HdrGood
<1>6. OtherHdrOK(c)'
  BY <1>1, <1>2
  DEF ReadHdrDoes, Before, OtherHdrOK, PointOK, Alone, Marking, WritePoints, Writing, useWal,
      Moves, SameCall, SameWal, SameJob, WalIs, JobIs, HdrGood
<1> QED
  BY <1>1, <1>2, <1>3, <1>5, <1>6, HdrStep

LEMMA ChooseZeroHdr ==
  ASSUME BaseOK, NEW c \in Conn, ChooseZero(c)
  PROVE  HdrsOK'
<1>1. /\ ChooseZeroDoes(c) /\ OthersStay(c) /\ Before(c)
      /\ aHdr[0].mx \in 0 .. MaxFrame /\ (pc[c] \notin Waiting => aHdr[0].init)
  BY BeforeOK, ChooseZeroEffect DEF Before
<1>2. /\ aHdr' = aHdr /\ aHdr[0].init /\ pc[c] \notin {"restart", "publish0"}
      /\ wal'[c].hdr.salt = wal[c].hdr.salt \/ wal'[c].hdr = aHdr[0]
      /\ wal'[c].hdr.init = wal[c].hdr.init \/ wal'[c].hdr = aHdr[0]
  BY <1>1
  DEF ChooseZeroDoes, Before, shmVars, Waiting, Moves, SameCall, SameWal, SameJob, WalIs, JobIs
<1>3. SaltKept(c)
  BY <1>2 DEF SaltKept
<1>4. Fresher(c) /\ wal'[c].hdr.salt = wal[c].hdr.salt => Fresher(c)'
  BY <1>1 DEF Fresher, OthersStay, Stays
<1>5. WriterHdrOK(c)'
  BY <1>1, <1>2, <1>4, Sizes
  DEF ChooseZeroDoes, Before, WriterHdrOK, PointOK, TaskOK, Alone, Marking, Logging, Logged,
      CkPoints, WritePoints, Writing, useWal, Numbers, Moves, SameCall, SameWal, SameJob,
      WalIs, JobIs
<1>6. OtherHdrOK(c)'
  BY <1>1, <1>2
  DEF ChooseZeroDoes, Before, OtherHdrOK, PointOK, Alone, Marking, WritePoints, Writing,
      useWal, Moves, SameCall, SameWal, SameJob, WalIs, JobIs
<1> QED
  BY <1>1, <1>2, <1>3, <1>5, <1>6, HdrStep

LEMMA LockMarkZeroHdr ==
  ASSUME BaseOK, NEW c \in Conn, LockMarkZero(c)
  PROVE  HdrsOK'
<1>1. /\ LockMarkZeroDoes(c) /\ OthersStay(c) /\ Before(c)
      /\ aHdr[0].mx \in 0 .. MaxFrame /\ (pc[c] \notin Waiting => aHdr[0].init)
  BY BeforeOK, LockMarkZeroEffect DEF Before
<1>2. /\ aHdr' = aHdr /\ aHdr[0].init /\ pc[c] \notin {"restart", "publish0"}
      /\ wal'[c].hdr.salt = wal[c].hdr.salt \/ wal'[c].hdr = aHdr[0]
      /\ wal'[c].hdr.init = wal[c].hdr.init \/ wal'[c].hdr = aHdr[0]
  BY <1>1
  DEF LockMarkZeroDoes, Before, shmVars, Waiting, Moves, SameCall, SameWal, SameJob, WalIs,
      JobIs
<1>3. SaltKept(c)
  BY <1>2 DEF SaltKept
<1>4. Fresher(c) /\ wal'[c].hdr.salt = wal[c].hdr.salt => Fresher(c)'
  BY <1>1 DEF Fresher, OthersStay, Stays
<1>5. WriterHdrOK(c)'
  BY <1>1, <1>2, <1>4, Sizes
  DEF LockMarkZeroDoes, Before, WriterHdrOK, PointOK, TaskOK, Alone, Marking, Logging, Logged,
      CkPoints, WritePoints, Writing, useWal, Numbers, Moves, SameCall, SameWal, SameJob,
      WalIs, JobIs
<1>6. OtherHdrOK(c)'
  BY <1>1, <1>2
  DEF LockMarkZeroDoes, Before, OtherHdrOK, PointOK, Alone, Marking, WritePoints, Writing,
      useWal, Moves, SameCall, SameWal, SameJob, WalIs, JobIs
<1> QED
  BY <1>1, <1>2, <1>3, <1>5, <1>6, HdrStep

LEMMA ChooseMarkHdr ==
  ASSUME BaseOK, NEW c \in Conn, ChooseMark(c)
  PROVE  HdrsOK'
<1>1. /\ ChooseMarkDoes(c) /\ OthersStay(c) /\ Before(c)
      /\ aHdr[0].mx \in 0 .. MaxFrame /\ (pc[c] \notin Waiting => aHdr[0].init)
  BY BeforeOK, ChooseMarkEffect DEF Before
<1>2. /\ aHdr' = aHdr /\ aHdr[0].init /\ pc[c] \notin {"restart", "publish0"}
      /\ wal'[c].hdr.salt = wal[c].hdr.salt \/ wal'[c].hdr = aHdr[0]
      /\ wal'[c].hdr.init = wal[c].hdr.init \/ wal'[c].hdr = aHdr[0]
  BY <1>1
  DEF ChooseMarkDoes, Before, shmVars, Waiting, Moves, SameCall, SameWal, SameJob, WalIs,
      JobIs, Retry
<1>3. SaltKept(c)
  BY <1>2 DEF SaltKept
<1>4. Fresher(c) /\ wal'[c].hdr.salt = wal[c].hdr.salt => Fresher(c)'
  BY <1>1 DEF Fresher, OthersStay, Stays
<1>5. WriterHdrOK(c)'
  BY <1>1, <1>2, <1>4, Sizes
  DEF ChooseMarkDoes, Before, WriterHdrOK, PointOK, TaskOK, Alone, Marking, Logging, Logged,
      CkPoints, WritePoints, Writing, useWal, Numbers, Moves, SameCall, SameWal, SameJob,
      WalIs, JobIs, Retry
<1>6. OtherHdrOK(c)'
  BY <1>1, <1>2
  DEF ChooseMarkDoes, Before, OtherHdrOK, PointOK, Alone, Marking, WritePoints, Writing,
      useWal, Moves, SameCall, SameWal, SameJob, WalIs, JobIs, Retry
<1> QED
  BY <1>1, <1>2, <1>3, <1>5, <1>6, HdrStep

LEMMA LockMarkHdr ==
  ASSUME BaseOK, NEW c \in Conn, LockMark(c)
  PROVE  HdrsOK'
<1>1. /\ LockMarkDoes(c) /\ OthersStay(c) /\ Before(c)
      /\ aHdr[0].mx \in 0 .. MaxFrame /\ (pc[c] \notin Waiting => aHdr[0].init)
  BY BeforeOK, LockMarkEffect DEF Before
<1>2. /\ aHdr' = aHdr /\ aHdr[0].init /\ pc[c] \notin {"restart", "publish0"}
      /\ wal'[c].hdr.salt = wal[c].hdr.salt \/ wal'[c].hdr = aHdr[0]
      /\ wal'[c].hdr.init = wal[c].hdr.init \/ wal'[c].hdr = aHdr[0]
  BY <1>1
  DEF LockMarkDoes, Before, shmVars, Waiting, Moves, SameCall, SameWal, SameJob, WalIs, JobIs,
      Retry
<1>3. SaltKept(c)
  BY <1>2 DEF SaltKept
<1>4. Fresher(c) /\ wal'[c].hdr.salt = wal[c].hdr.salt => Fresher(c)'
  BY <1>1 DEF Fresher, OthersStay, Stays
<1>5. WriterHdrOK(c)'
  BY <1>1, <1>2, <1>4, Sizes
  DEF LockMarkDoes, Before, WriterHdrOK, PointOK, TaskOK, Alone, Marking, Logging, Logged,
      CkPoints, WritePoints, Writing, useWal, Numbers, Moves, SameCall, SameWal, SameJob,
      WalIs, JobIs, Retry
<1>6. OtherHdrOK(c)'
  BY <1>1, <1>2
  DEF LockMarkDoes, Before, OtherHdrOK, PointOK, Alone, Marking, WritePoints, Writing, useWal,
      Moves, SameCall, SameWal, SameJob, WalIs, JobIs, Retry
<1> QED
  BY <1>1, <1>2, <1>3, <1>5, <1>6, HdrStep

LEMMA CheckMarkHdr ==
  ASSUME BaseOK, NEW c \in Conn, CheckMark(c)
  PROVE  HdrsOK'
<1>1. /\ CheckMarkDoes(c) /\ OthersStay(c) /\ Before(c)
      /\ aHdr[0].mx \in 0 .. MaxFrame /\ (pc[c] \notin Waiting => aHdr[0].init)
  BY BeforeOK, CheckMarkEffect DEF Before
<1>2. /\ aHdr' = aHdr /\ aHdr[0].init /\ pc[c] \notin {"restart", "publish0"}
      /\ wal'[c].hdr.salt = wal[c].hdr.salt \/ wal'[c].hdr = aHdr[0]
      /\ wal'[c].hdr.init = wal[c].hdr.init \/ wal'[c].hdr = aHdr[0]
  BY <1>1
  DEF CheckMarkDoes, Before, shmVars, Waiting, Moves, SameCall, SameWal, SameJob, WalIs, JobIs,
      Retry, ToLog, Unchanged
<1>3. SaltKept(c)
  BY <1>2 DEF SaltKept
<1>4. Fresher(c) /\ wal'[c].hdr.salt = wal[c].hdr.salt => Fresher(c)'
  BY <1>1 DEF Fresher, OthersStay, Stays
<1>5. WriterHdrOK(c)'
  BY <1>1, <1>2, <1>4, Sizes
  DEF CheckMarkDoes, Before, WriterHdrOK, PointOK, TaskOK, Alone, Marking, Logging, Logged,
      CkPoints, WritePoints, Writing, useWal, Numbers, Moves, SameCall, SameWal, SameJob,
      WalIs, JobIs, Retry, ToLog, Unchanged
<1>6. OtherHdrOK(c)'
  BY <1>1, <1>2
  DEF CheckMarkDoes, Before, OtherHdrOK, PointOK, Alone, Marking, WritePoints, Writing, useWal,
      Moves, SameCall, SameWal, SameJob, WalIs, JobIs, Retry, ToLog, Unchanged
<1> QED
  BY <1>1, <1>2, <1>3, <1>5, <1>6, HdrStep

LEMMA EndReadHdr ==
  ASSUME BaseOK, NEW c \in Conn, EndRead(c)
  PROVE  HdrsOK'
<1>1. /\ EndReadDoes(c) /\ OthersStay(c) /\ Before(c)
      /\ aHdr[0].mx \in 0 .. MaxFrame /\ (pc[c] \notin Waiting => aHdr[0].init)
  BY BeforeOK, EndReadEffect DEF Before
<1>2. /\ aHdr' = aHdr /\ aHdr[0].init /\ pc[c] \notin {"restart", "publish0"}
      /\ wal'[c].hdr.salt = wal[c].hdr.salt \/ wal'[c].hdr = aHdr[0]
      /\ wal'[c].hdr.init = wal[c].hdr.init \/ wal'[c].hdr = aHdr[0]
  BY <1>1
  DEF EndReadDoes, Before, shmVars, Waiting, Moves, SameCall, SameWal, SameJob, WalIs, JobIs
<1>3. SaltKept(c)
  BY <1>2 DEF SaltKept
<1>4. Fresher(c) /\ wal'[c].hdr.salt = wal[c].hdr.salt => Fresher(c)'
  BY <1>1 DEF Fresher, OthersStay, Stays
<1>5. WriterHdrOK(c)'
  BY <1>1, <1>2, <1>4, Sizes
  DEF EndReadDoes, Before, WriterHdrOK, PointOK, TaskOK, Alone, Marking, Logging, Logged,
      CkPoints, WritePoints, Writing, useWal, Numbers, Moves, SameCall, SameWal, SameJob,
      WalIs, JobIs
<1>6. OtherHdrOK(c)'
  BY <1>1, <1>2
  DEF EndReadDoes, Before, OtherHdrOK, PointOK, Alone, Marking, WritePoints, Writing, useWal,
      Moves, SameCall, SameWal, SameJob, WalIs, JobIs
<1> QED
  BY <1>1, <1>2, <1>3, <1>5, <1>6, HdrStep

LEMMA BeginWriteHdr ==
  ASSUME BaseOK, NEW c \in Conn, BeginWrite(c)
  PROVE  HdrsOK'
<1>1. /\ BeginWriteDoes(c) /\ OthersStay(c) /\ Before(c)
      /\ aHdr[0].mx \in 0 .. MaxFrame /\ (pc[c] \notin Waiting => aHdr[0].init)
  BY BeforeOK, BeginWriteEffect DEF Before
<1>2. /\ aHdr' = aHdr /\ aHdr[0].init /\ pc[c] \notin {"restart", "publish0"}
      /\ wal'[c].hdr.salt = wal[c].hdr.salt \/ wal'[c].hdr = aHdr[0]
      /\ wal'[c].hdr.init = wal[c].hdr.init \/ wal'[c].hdr = aHdr[0]
  BY <1>1
  DEF BeginWriteDoes, Before, shmVars, Waiting, Moves, SameCall, SameWal, SameJob, WalIs, JobIs
<1>3. SaltKept(c)
  BY <1>2 DEF SaltKept
<1>4. Fresher(c) /\ wal'[c].hdr.salt = wal[c].hdr.salt => Fresher(c)'
  BY <1>1 DEF Fresher, OthersStay, Stays
<1>5. WriterHdrOK(c)'
  BY <1>1, <1>2, <1>4, Sizes
  DEF BeginWriteDoes, Before, WriterHdrOK, PointOK, TaskOK, Alone, Marking, Logging, Logged,
      CkPoints, WritePoints, Writing, useWal, Numbers, Moves, SameCall, SameWal, SameJob,
      WalIs, JobIs
<1>6. OtherHdrOK(c)'
  BY <1>1, <1>2
  DEF BeginWriteDoes, Before, OtherHdrOK, PointOK, Alone, Marking, WritePoints, Writing,
      useWal, Moves, SameCall, SameWal, SameJob, WalIs, JobIs
<1> QED
  BY <1>1, <1>2, <1>3, <1>5, <1>6, HdrStep

LEMMA RollbackHdr ==
  ASSUME BaseOK, NEW c \in Conn, Rollback(c)
  PROVE  HdrsOK'
<1>1. /\ RollbackDoes(c) /\ OthersStay(c) /\ Before(c)
      /\ aHdr[0].mx \in 0 .. MaxFrame /\ (pc[c] \notin Waiting => aHdr[0].init)
  BY BeforeOK, RollbackEffect DEF Before
<1>2. /\ aHdr' = aHdr /\ aHdr[0].init /\ pc[c] \notin {"restart", "publish0"}
      /\ wal'[c].hdr.salt = wal[c].hdr.salt \/ wal'[c].hdr = aHdr[0]
      /\ wal'[c].hdr.init = wal[c].hdr.init \/ wal'[c].hdr = aHdr[0]
  BY <1>1
  DEF RollbackDoes, Before, shmVars, Waiting, Moves, SameCall, SameWal, SameJob, WalIs, JobIs,
      NoJob
<1>3. SaltKept(c)
  BY <1>2 DEF SaltKept
<1>4. Fresher(c) /\ wal'[c].hdr.salt = wal[c].hdr.salt => Fresher(c)'
  BY <1>1 DEF Fresher, OthersStay, Stays
<1>5. WriterHdrOK(c)'
  BY <1>1, <1>2, <1>4, Sizes
  DEF RollbackDoes, Before, WriterHdrOK, PointOK, TaskOK, Alone, Marking, Logging, Logged,
      CkPoints, WritePoints, Writing, useWal, Numbers, Moves, SameCall, SameWal, SameJob,
      WalIs, JobIs, NoJob
<1>6. OtherHdrOK(c)'
  BY <1>1, <1>2
  DEF RollbackDoes, Before, OtherHdrOK, PointOK, Alone, Marking, WritePoints, Writing, useWal,
      Moves, SameCall, SameWal, SameJob, WalIs, JobIs, NoJob
<1> QED
  BY <1>1, <1>2, <1>3, <1>5, <1>6, HdrStep

LEMMA RestartInfoHdr ==
  ASSUME BaseOK, NEW c \in Conn, RestartInfo(c)
  PROVE  HdrsOK'
<1>1. /\ RestartInfoDoes(c) /\ OthersStay(c) /\ Before(c)
      /\ aHdr[0].mx \in 0 .. MaxFrame /\ (pc[c] \notin Waiting => aHdr[0].init)
  BY BeforeOK, RestartInfoEffect DEF Before
<1>2. /\ aHdr' = aHdr /\ aHdr[0].init /\ pc[c] \notin {"restart", "publish0"}
      /\ wal'[c].hdr.salt = wal[c].hdr.salt \/ wal'[c].hdr = aHdr[0]
      /\ wal'[c].hdr.init = wal[c].hdr.init \/ wal'[c].hdr = aHdr[0]
  BY <1>1
  DEF RestartInfoDoes, Before, shmVars, Waiting, Moves, SameCall, SameWal, SameJob, WalIs,
      JobIs, ReadLocks
<1>3. SaltKept(c)
  BY <1>2 DEF SaltKept
<1>4. Fresher(c) /\ wal'[c].hdr.salt = wal[c].hdr.salt => Fresher(c)'
  BY <1>1 DEF Fresher, OthersStay, Stays
<1>5. WriterHdrOK(c)'
  BY <1>1, <1>2, <1>4, Sizes
  DEF RestartInfoDoes, Before, WriterHdrOK, PointOK, TaskOK, Alone, Marking, Logging, Logged,
      CkPoints, WritePoints, Writing, useWal, Numbers, Moves, SameCall, SameWal, SameJob,
      WalIs, JobIs, ReadLocks
<1>6. OtherHdrOK(c)'
  BY <1>1, <1>2
  DEF RestartInfoDoes, Before, OtherHdrOK, PointOK, Alone, Marking, WritePoints, Writing,
      useWal, Moves, SameCall, SameWal, SameJob, WalIs, JobIs, ReadLocks
<1> QED
  BY <1>1, <1>2, <1>3, <1>5, <1>6, HdrStep

LEMMA KeepLogHdr ==
  ASSUME BaseOK, NEW c \in Conn, KeepLog(c)
  PROVE  HdrsOK'
<1>1. /\ KeepLogDoes(c) /\ OthersStay(c) /\ Before(c)
      /\ aHdr[0].mx \in 0 .. MaxFrame /\ (pc[c] \notin Waiting => aHdr[0].init)
  BY BeforeOK, KeepLogEffect DEF Before
<1>2. /\ aHdr' = aHdr /\ aHdr[0].init /\ pc[c] \notin {"restart", "publish0"}
      /\ wal'[c].hdr.salt = wal[c].hdr.salt \/ wal'[c].hdr = aHdr[0]
      /\ wal'[c].hdr.init = wal[c].hdr.init \/ wal'[c].hdr = aHdr[0]
  BY <1>1
  DEF KeepLogDoes, Before, shmVars, Waiting, Moves, SameCall, SameWal, SameJob, WalIs, JobIs,
      ToLog
<1>3. SaltKept(c)
  BY <1>2 DEF SaltKept
<1>4. Fresher(c) /\ wal'[c].hdr.salt = wal[c].hdr.salt => Fresher(c)'
  BY <1>1 DEF Fresher, OthersStay, Stays
<1>5. WriterHdrOK(c)'
  BY <1>1, <1>2, <1>4, Sizes
  DEF KeepLogDoes, Before, WriterHdrOK, PointOK, TaskOK, Alone, Marking, Logging, Logged,
      CkPoints, WritePoints, Writing, useWal, Numbers, Moves, SameCall, SameWal, SameJob,
      WalIs, JobIs, ToLog
<1>6. OtherHdrOK(c)'
  BY <1>1, <1>2
  DEF KeepLogDoes, Before, OtherHdrOK, PointOK, Alone, Marking, WritePoints, Writing, useWal,
      Moves, SameCall, SameWal, SameJob, WalIs, JobIs, ToLog
<1> QED
  BY <1>1, <1>2, <1>3, <1>5, <1>6, HdrStep

LEMMA LogPageHdr ==
  ASSUME BaseOK, NEW c \in Conn, LogPage(c)
  PROVE  HdrsOK'
<1>1. /\ LogPageDoes(c) /\ OthersStay(c) /\ Before(c)
      /\ aHdr[0].mx \in 0 .. MaxFrame /\ (pc[c] \notin Waiting => aHdr[0].init)
  BY BeforeOK, LogPageEffect DEF Before
<1>2. /\ aHdr' = aHdr /\ aHdr[0].init /\ pc[c] \notin {"restart", "publish0"}
      /\ wal'[c].hdr.salt = wal[c].hdr.salt \/ wal'[c].hdr = aHdr[0]
      /\ wal'[c].hdr.init = wal[c].hdr.init \/ wal'[c].hdr = aHdr[0]
  BY <1>1
  DEF LogPageDoes, Before, shmVars, Waiting, Moves, SameCall, SameWal, SameJob, WalIs, JobIs,
      OverwriteOne, AppendOne, AfterPage
<1>3. SaltKept(c)
  BY <1>2 DEF SaltKept
<1>4. Fresher(c) /\ wal'[c].hdr.salt = wal[c].hdr.salt => Fresher(c)'
  BY <1>1 DEF Fresher, OthersStay, Stays
<1>5. WriterHdrOK(c)'
  <2> DEFINE p == Next1(c)
  <2>1. /\ pc[c] = "append" /\ useWal(c) /\ Writing(c) /\ useWal(c)' /\ Writing(c)'
        /\ pc'[c] = AfterPage(c, p) /\ pc'[c] \in {"append", "rewrite", "publish"}
    BY <1>1
    DEF LogPageDoes, Moves, Before, PointOK, Alone, Writing, AfterPage, useWal, SameCall
  <2>2. p \in Page
    BY <1>1, <2>1, BeforeOK, NextPage DEF Before
  <2>3. FindFrame(c, p) \in Nat
    BY <1>1, <2>2, FindFrameIn, Sizes, BeforeOK DEF Before, Numbers
  <2> HIDE DEF p
  <2>4. /\ job[c].iFrame >= wal[c].hdr.mx /\ wal[c].hdr.mx >= aHdr[0].mx
        /\ wal[c].hdr.salt # aHdr[0].salt => aHdr[0].mx = 0 /\ Fresher(c)
        /\ job[c].first # 0 => job[c].first = aHdr[0].mx + 1 /\ wal[c].hdr.mx > aHdr[0].mx
        /\ wal[c].iReCksum # 0 => wal[c].iReCksum > aHdr[0].mx
    BY <1>1, <2>1 DEF Before, WriterHdrOK, TaskOK
  <2>5. CASE OverwriteOne(c, p)
    <3>1. PICK k \in Slot : /\ k = FindFrame(c, p) \/ k = wal[c].iReCksum
                            /\ WalIs(c, wal[c].hdr, wal[c].readLock, wal[c].minFrame, k)
      BY <2>5 DEF OverwriteOne
    <3>2. job[c].first # 0 /\ FindFrame(c, p) >= job[c].first
      BY <2>5 DEF OverwriteOne, Rewritable
    <3>3. k > aHdr[0].mx /\ wal[c].hdr.mx > aHdr[0].mx
      BY <1>1, <2>3, <2>4, <3>1, <3>2, Sizes DEF Slot
    <3>4. wal'[c].hdr = wal[c].hdr /\ wal'[c].iReCksum = k
      BY <3>1 DEF WalIs
    <3>5. job'[c].first = job[c].first /\ job'[c].iFrame = job[c].iFrame
      BY <2>5 DEF OverwriteOne, JobIs
    <3> QED
      BY <1>1, <1>2, <1>4, <2>1, <2>4, <3>3, <3>4, <3>5, Sizes
      DEF WriterHdrOK, Before, Numbers, Marking
  <2>6. CASE AppendOne(c, p)
    <3>1. /\ wal'[c].hdr.mx = wal[c].hdr.mx /\ wal'[c].hdr.salt = wal[c].hdr.salt
          /\ wal'[c].iReCksum = wal[c].iReCksum
      BY <2>6 DEF AppendOne, WalIs
    <3>2. job'[c].first = job[c].first /\ job'[c].iFrame = job[c].iFrame + 1
      BY <2>6 DEF AppendOne, JobIs
    <3> QED
      BY <1>1, <1>2, <1>4, <2>1, <2>4, <3>1, <3>2, Sizes
      DEF WriterHdrOK, Before, Numbers, Marking
  <2> QED
    BY <1>1, <2>5, <2>6 DEF LogPageDoes, p
<1>6. OtherHdrOK(c)'
  BY <1>1, <1>2
  DEF LogPageDoes, Before, OtherHdrOK, PointOK, Alone, Marking, WritePoints, Writing, useWal,
      Moves, SameCall, SameWal, SameJob, WalIs, JobIs, OverwriteOne, AppendOne, AfterPage
<1> QED
  BY <1>1, <1>2, <1>3, <1>5, <1>6, HdrStep

LEMMA RewriteChecksumHdr ==
  ASSUME BaseOK, NEW c \in Conn, RewriteChecksum(c)
  PROVE  HdrsOK'
<1>1. /\ RewriteChecksumDoes(c) /\ OthersStay(c) /\ Before(c)
      /\ aHdr[0].mx \in 0 .. MaxFrame /\ (pc[c] \notin Waiting => aHdr[0].init)
  BY BeforeOK, RewriteChecksumEffect DEF Before
<1>2. /\ aHdr' = aHdr /\ aHdr[0].init /\ pc[c] \notin {"restart", "publish0"}
      /\ wal'[c].hdr.salt = wal[c].hdr.salt \/ wal'[c].hdr = aHdr[0]
      /\ wal'[c].hdr.init = wal[c].hdr.init \/ wal'[c].hdr = aHdr[0]
  BY <1>1
  DEF RewriteChecksumDoes, Before, shmVars, Waiting, Moves, SameCall, SameWal, SameJob, WalIs,
      JobIs
<1>3. SaltKept(c)
  BY <1>2 DEF SaltKept
<1>4. Fresher(c) /\ wal'[c].hdr.salt = wal[c].hdr.salt => Fresher(c)'
  BY <1>1 DEF Fresher, OthersStay, Stays
<1>5. WriterHdrOK(c)'
  BY <1>1, <1>2, <1>4, Sizes
  DEF RewriteChecksumDoes, Before, WriterHdrOK, PointOK, TaskOK, Alone, Marking, Logging,
      Logged, CkPoints, WritePoints, Writing, useWal, Numbers, Moves, SameCall, SameWal,
      SameJob, WalIs, JobIs
<1>6. OtherHdrOK(c)'
  BY <1>1, <1>2
  DEF RewriteChecksumDoes, Before, OtherHdrOK, PointOK, Alone, Marking, WritePoints, Writing,
      useWal, Moves, SameCall, SameWal, SameJob, WalIs, JobIs
<1> QED
  BY <1>1, <1>2, <1>3, <1>5, <1>6, HdrStep

LEMMA InitIteratorHdr ==
  ASSUME BaseOK, NEW c \in Conn, InitIterator(c)
  PROVE  HdrsOK'
<1>1. /\ InitIteratorDoes(c) /\ OthersStay(c) /\ Before(c)
      /\ aHdr[0].mx \in 0 .. MaxFrame /\ (pc[c] \notin Waiting => aHdr[0].init)
  BY BeforeOK, InitIteratorEffect DEF Before
<1>2. /\ aHdr' = aHdr /\ aHdr[0].init /\ pc[c] \notin {"restart", "publish0"}
      /\ wal'[c].hdr.salt = wal[c].hdr.salt \/ wal'[c].hdr = aHdr[0]
      /\ wal'[c].hdr.init = wal[c].hdr.init \/ wal'[c].hdr = aHdr[0]
  BY <1>1
  DEF InitIteratorDoes, Before, shmVars, Waiting, Moves, SameCall, SameWal, SameJob, WalIs,
      JobIs
<1>3. SaltKept(c)
  BY <1>2 DEF SaltKept
<1>4. Fresher(c) /\ wal'[c].hdr.salt = wal[c].hdr.salt => Fresher(c)'
  BY <1>1 DEF Fresher, OthersStay, Stays
<1>5. WriterHdrOK(c)'
  BY <1>1, <1>2, <1>4, Sizes
  DEF InitIteratorDoes, Before, WriterHdrOK, PointOK, TaskOK, Alone, Marking, Logging, Logged,
      CkPoints, WritePoints, Writing, useWal, Numbers, Moves, SameCall, SameWal, SameJob,
      WalIs, JobIs
<1>6. OtherHdrOK(c)'
  BY <1>1, <1>2
  DEF InitIteratorDoes, Before, OtherHdrOK, PointOK, Alone, Marking, WritePoints, Writing,
      useWal, Moves, SameCall, SameWal, SameJob, WalIs, JobIs
<1> QED
  BY <1>1, <1>2, <1>3, <1>5, <1>6, HdrStep

LEMMA VisitMarkHdr ==
  ASSUME BaseOK, NEW c \in Conn, VisitMark(c)
  PROVE  HdrsOK'
<1>1. /\ VisitMarkDoes(c) /\ OthersStay(c) /\ Before(c)
      /\ aHdr[0].mx \in 0 .. MaxFrame /\ (pc[c] \notin Waiting => aHdr[0].init)
  BY BeforeOK, VisitMarkEffect DEF Before
<1>2. /\ aHdr' = aHdr /\ aHdr[0].init /\ pc[c] \notin {"restart", "publish0"}
      /\ wal'[c].hdr.salt = wal[c].hdr.salt \/ wal'[c].hdr = aHdr[0]
      /\ wal'[c].hdr.init = wal[c].hdr.init \/ wal'[c].hdr = aHdr[0]
  BY <1>1
  DEF VisitMarkDoes, Before, shmVars, Waiting, Moves, SameCall, SameWal, SameJob, WalIs, JobIs
<1>3. SaltKept(c)
  BY <1>2 DEF SaltKept
<1>4. Fresher(c) /\ wal'[c].hdr.salt = wal[c].hdr.salt => Fresher(c)'
  BY <1>1 DEF Fresher, OthersStay, Stays
<1>5. WriterHdrOK(c)'
  BY <1>1, <1>2, <1>4, Sizes
  DEF VisitMarkDoes, Before, WriterHdrOK, PointOK, TaskOK, Alone, Marking, Logging, Logged,
      CkPoints, WritePoints, Writing, useWal, Numbers, Moves, SameCall, SameWal, SameJob,
      WalIs, JobIs
<1>6. OtherHdrOK(c)'
  BY <1>1, <1>2
  DEF VisitMarkDoes, Before, OtherHdrOK, PointOK, Alone, Marking, WritePoints, Writing, useWal,
      Moves, SameCall, SameWal, SameJob, WalIs, JobIs
<1> QED
  BY <1>1, <1>2, <1>3, <1>5, <1>6, HdrStep

LEMMA GiveUpHdr ==
  ASSUME BaseOK, NEW c \in Conn, GiveUp(c)
  PROVE  HdrsOK'
<1>1. /\ GiveUpDoes(c) /\ OthersStay(c) /\ Before(c)
      /\ aHdr[0].mx \in 0 .. MaxFrame /\ (pc[c] \notin Waiting => aHdr[0].init)
  BY BeforeOK, GiveUpEffect DEF Before
<1>2. /\ aHdr' = aHdr /\ aHdr[0].init /\ pc[c] \notin {"restart", "publish0"}
      /\ wal'[c].hdr.salt = wal[c].hdr.salt \/ wal'[c].hdr = aHdr[0]
      /\ wal'[c].hdr.init = wal[c].hdr.init \/ wal'[c].hdr = aHdr[0]
  BY <1>1
  DEF GiveUpDoes, Before, shmVars, Waiting, Moves, SameCall, SameWal, SameJob, WalIs, JobIs
<1>3. SaltKept(c)
  BY <1>2 DEF SaltKept
<1>4. Fresher(c) /\ wal'[c].hdr.salt = wal[c].hdr.salt => Fresher(c)'
  BY <1>1 DEF Fresher, OthersStay, Stays
<1>5. WriterHdrOK(c)'
  BY <1>1, <1>2, <1>4, Sizes
  DEF GiveUpDoes, Before, WriterHdrOK, PointOK, TaskOK, Alone, Marking, Logging, Logged,
      CkPoints, WritePoints, Writing, useWal, Numbers, Moves, SameCall, SameWal, SameJob,
      WalIs, JobIs
<1>6. OtherHdrOK(c)'
  BY <1>1, <1>2
  DEF GiveUpDoes, Before, OtherHdrOK, PointOK, Alone, Marking, WritePoints, Writing, useWal,
      Moves, SameCall, SameWal, SameJob, WalIs, JobIs
<1> QED
  BY <1>1, <1>2, <1>3, <1>5, <1>6, HdrStep

LEMMA CopyPageHdr ==
  ASSUME BaseOK, NEW c \in Conn, CopyPage(c)
  PROVE  HdrsOK'
<1>1. /\ CopyPageDoes(c) /\ OthersStay(c) /\ Before(c)
      /\ aHdr[0].mx \in 0 .. MaxFrame /\ (pc[c] \notin Waiting => aHdr[0].init)
  BY BeforeOK, CopyPageEffect DEF Before
<1>2. /\ aHdr' = aHdr /\ aHdr[0].init /\ pc[c] \notin {"restart", "publish0"}
      /\ wal'[c].hdr.salt = wal[c].hdr.salt \/ wal'[c].hdr = aHdr[0]
      /\ wal'[c].hdr.init = wal[c].hdr.init \/ wal'[c].hdr = aHdr[0]
  BY <1>1
  DEF CopyPageDoes, Before, shmVars, Waiting, Moves, SameCall, SameWal, SameJob, WalIs, JobIs
<1>3. SaltKept(c)
  BY <1>2 DEF SaltKept
<1>4. Fresher(c) /\ wal'[c].hdr.salt = wal[c].hdr.salt => Fresher(c)'
  BY <1>1 DEF Fresher, OthersStay, Stays
<1>5. WriterHdrOK(c)'
  BY <1>1, <1>2, <1>4, Sizes
  DEF CopyPageDoes, Before, WriterHdrOK, PointOK, TaskOK, Alone, Marking, Logging, Logged,
      CkPoints, WritePoints, Writing, useWal, Numbers, Moves, SameCall, SameWal, SameJob,
      WalIs, JobIs
<1>6. OtherHdrOK(c)'
  BY <1>1, <1>2
  DEF CopyPageDoes, Before, OtherHdrOK, PointOK, Alone, Marking, WritePoints, Writing, useWal,
      Moves, SameCall, SameWal, SameJob, WalIs, JobIs
<1> QED
  BY <1>1, <1>2, <1>3, <1>5, <1>6, HdrStep

LEMMA BackfilledHdr ==
  ASSUME BaseOK, NEW c \in Conn, Backfilled(c)
  PROVE  HdrsOK'
<1>1. /\ BackfilledDoes(c) /\ OthersStay(c) /\ Before(c)
      /\ aHdr[0].mx \in 0 .. MaxFrame /\ (pc[c] \notin Waiting => aHdr[0].init)
  BY BeforeOK, BackfilledEffect DEF Before
<1>2. /\ aHdr' = aHdr /\ aHdr[0].init /\ pc[c] \notin {"restart", "publish0"}
      /\ wal'[c].hdr.salt = wal[c].hdr.salt \/ wal'[c].hdr = aHdr[0]
      /\ wal'[c].hdr.init = wal[c].hdr.init \/ wal'[c].hdr = aHdr[0]
  BY <1>1
  DEF BackfilledDoes, Before, shmVars, Waiting, Moves, SameCall, SameWal, SameJob, WalIs, JobIs
<1>3. SaltKept(c)
  BY <1>2 DEF SaltKept
<1>4. Fresher(c) /\ wal'[c].hdr.salt = wal[c].hdr.salt => Fresher(c)'
  BY <1>1 DEF Fresher, OthersStay, Stays
<1>5. WriterHdrOK(c)'
  BY <1>1, <1>2, <1>4, Sizes
  DEF BackfilledDoes, Before, WriterHdrOK, PointOK, TaskOK, Alone, Marking, Logging, Logged,
      CkPoints, WritePoints, Writing, useWal, Numbers, Moves, SameCall, SameWal, SameJob,
      WalIs, JobIs
<1>6. OtherHdrOK(c)'
  BY <1>1, <1>2
  DEF BackfilledDoes, Before, OtherHdrOK, PointOK, Alone, Marking, WritePoints, Writing,
      useWal, Moves, SameCall, SameWal, SameJob, WalIs, JobIs
<1> QED
  BY <1>1, <1>2, <1>3, <1>5, <1>6, HdrStep

LEMMA CheckpointFailsHdr ==
  ASSUME BaseOK, NEW c \in Conn, CheckpointFails(c)
  PROVE  HdrsOK'
<1>1. /\ CheckpointFailsDoes(c) /\ OthersStay(c) /\ Before(c)
      /\ aHdr[0].mx \in 0 .. MaxFrame /\ (pc[c] \notin Waiting => aHdr[0].init)
  BY BeforeOK, CheckpointFailsEffect DEF Before
<1>2. /\ aHdr' = aHdr /\ aHdr[0].init /\ pc[c] \notin {"restart", "publish0"}
      /\ wal'[c].hdr.salt = wal[c].hdr.salt \/ wal'[c].hdr = aHdr[0]
      /\ wal'[c].hdr.init = wal[c].hdr.init \/ wal'[c].hdr = aHdr[0]
  BY <1>1
  DEF CheckpointFailsDoes, Before, shmVars, Waiting, Moves, SameCall, SameWal, SameJob, WalIs,
      JobIs
<1>3. SaltKept(c)
  BY <1>2 DEF SaltKept
<1>4. Fresher(c) /\ wal'[c].hdr.salt = wal[c].hdr.salt => Fresher(c)'
  BY <1>1 DEF Fresher, OthersStay, Stays
<1>5. WriterHdrOK(c)'
  BY <1>1, <1>2, <1>4, Sizes
  DEF CheckpointFailsDoes, Before, WriterHdrOK, PointOK, TaskOK, Alone, Marking, Logging,
      Logged, CkPoints, WritePoints, Writing, useWal, Numbers, Moves, SameCall, SameWal,
      SameJob, WalIs, JobIs
<1>6. OtherHdrOK(c)'
  BY <1>1, <1>2
  DEF CheckpointFailsDoes, Before, OtherHdrOK, PointOK, Alone, Marking, WritePoints, Writing,
      useWal, Moves, SameCall, SameWal, SameJob, WalIs, JobIs
<1> QED
  BY <1>1, <1>2, <1>3, <1>5, <1>6, HdrStep

LEMMA SyncHeaderHdr ==
  ASSUME BaseOK, NEW c \in Conn, SyncHeader(c)
  PROVE  HdrsOK'
<1>1. /\ SyncHeaderDoes(c) /\ OthersStay(c) /\ Before(c)
      /\ aHdr[0].mx \in 0 .. MaxFrame /\ (pc[c] \notin Waiting => aHdr[0].init)
  BY BeforeOK, SyncHeaderEffect DEF Before
<1>2. /\ aHdr' = aHdr /\ aHdr[0].init /\ pc[c] \notin {"restart", "publish0"}
      /\ wal'[c].hdr.salt = wal[c].hdr.salt \/ wal'[c].hdr = aHdr[0]
      /\ wal'[c].hdr.init = wal[c].hdr.init \/ wal'[c].hdr = aHdr[0]
  BY <1>1
  DEF SyncHeaderDoes, Before, shmVars, Waiting, Moves, SameCall, SameWal, SameJob, WalIs, JobIs
<1>3. SaltKept(c)
  BY <1>2 DEF SaltKept
<1>4. Fresher(c) /\ wal'[c].hdr.salt = wal[c].hdr.salt => Fresher(c)'
  BY <1>1 DEF Fresher, OthersStay, Stays
<1>5. WriterHdrOK(c)'
  BY <1>1, <1>2, <1>4, Sizes
  DEF SyncHeaderDoes, Before, WriterHdrOK, PointOK, TaskOK, Alone, Marking, Logging, Logged,
      CkPoints, WritePoints, Writing, useWal, Numbers, Moves, SameCall, SameWal, SameJob,
      WalIs, JobIs
<1>6. OtherHdrOK(c)'
  BY <1>1, <1>2
  DEF SyncHeaderDoes, Before, OtherHdrOK, PointOK, Alone, Marking, WritePoints, Writing,
      useWal, Moves, SameCall, SameWal, SameJob, WalIs, JobIs
<1> QED
  BY <1>1, <1>2, <1>3, <1>5, <1>6, HdrStep

LEMMA LockZeroHdr ==
  ASSUME BaseOK, NEW c \in Conn, LockZero(c)
  PROVE  HdrsOK'
<1>1. /\ LockZeroDoes(c) /\ OthersStay(c) /\ Before(c)
      /\ aHdr[0].mx \in 0 .. MaxFrame /\ (pc[c] \notin Waiting => aHdr[0].init)
  BY BeforeOK, LockZeroEffect DEF Before
<1>2. /\ aHdr' = aHdr /\ aHdr[0].init /\ pc[c] \notin {"restart", "publish0"}
      /\ wal'[c].hdr.salt = wal[c].hdr.salt \/ wal'[c].hdr = aHdr[0]
      /\ wal'[c].hdr.init = wal[c].hdr.init \/ wal'[c].hdr = aHdr[0]
  BY <1>1
  DEF LockZeroDoes, Before, shmVars, Waiting, Moves, SameCall, SameWal, SameJob, WalIs, JobIs
<1>3. SaltKept(c)
  BY <1>2 DEF SaltKept
<1>4. Fresher(c) /\ wal'[c].hdr.salt = wal[c].hdr.salt => Fresher(c)'
  BY <1>1 DEF Fresher, OthersStay, Stays
<1>5. WriterHdrOK(c)'
  BY <1>1, <1>2, <1>4, Sizes
  DEF LockZeroDoes, Before, WriterHdrOK, PointOK, TaskOK, Alone, Marking, Logging, Logged,
      CkPoints, WritePoints, Writing, useWal, Numbers, Moves, SameCall, SameWal, SameJob,
      WalIs, JobIs
<1>6. OtherHdrOK(c)'
  BY <1>1, <1>2
  DEF LockZeroDoes, Before, OtherHdrOK, PointOK, Alone, Marking, WritePoints, Writing, useWal,
      Moves, SameCall, SameWal, SameJob, WalIs, JobIs
<1> QED
  BY <1>1, <1>2, <1>3, <1>5, <1>6, HdrStep

LEMMA WriteHdr ==
  ASSUME BaseOK, NEW c \in Conn, NEW p \in Page, Write(c, p)
  PROVE  HdrsOK'
<1>1. /\ WriteDoes(c, p) /\ OthersStay(c) /\ Before(c)
      /\ aHdr[0].mx \in 0 .. MaxFrame /\ (pc[c] \notin Waiting => aHdr[0].init)
  BY BeforeOK, WriteEffect DEF Before
<1>2. /\ aHdr' = aHdr /\ aHdr[0].init /\ pc[c] \notin {"restart", "publish0"}
      /\ wal'[c].hdr.salt = wal[c].hdr.salt \/ wal'[c].hdr = aHdr[0]
      /\ wal'[c].hdr.init = wal[c].hdr.init \/ wal'[c].hdr = aHdr[0]
  BY <1>1
  DEF WriteDoes, Before, shmVars, Waiting, Moves, SameCall, SameWal, SameJob, WalIs, JobIs
<1>3. SaltKept(c)
  BY <1>2 DEF SaltKept
<1>4. Fresher(c) /\ wal'[c].hdr.salt = wal[c].hdr.salt => Fresher(c)'
  BY <1>1 DEF Fresher, OthersStay, Stays
<1>5. WriterHdrOK(c)'
  BY <1>1, <1>2, <1>4, Sizes
  DEF WriteDoes, Before, WriterHdrOK, PointOK, TaskOK, Alone, Marking, Logging, Logged,
      CkPoints, WritePoints, Writing, useWal, Numbers, Moves, SameCall, SameWal, SameJob,
      WalIs, JobIs
<1>6. OtherHdrOK(c)'
  BY <1>1, <1>2
  DEF WriteDoes, Before, OtherHdrOK, PointOK, Alone, Marking, WritePoints, Writing, useWal,
      Moves, SameCall, SameWal, SameJob, WalIs, JobIs
<1> QED
  BY <1>1, <1>2, <1>3, <1>5, <1>6, HdrStep

LEMMA FramesHdr ==
  ASSUME BaseOK, NEW c \in Conn,
         NEW what \in {"spill", "commit"}, NEW pages \in SUBSET Page, Frames(c, what, pages)
  PROVE  HdrsOK'
<1>1. /\ FramesDoes(c, what, pages) /\ OthersStay(c) /\ Before(c)
      /\ aHdr[0].mx \in 0 .. MaxFrame /\ (pc[c] \notin Waiting => aHdr[0].init)
  BY BeforeOK, FramesEffect DEF Before
<1>2. /\ aHdr' = aHdr /\ aHdr[0].init /\ pc[c] \notin {"restart", "publish0"}
      /\ wal'[c].hdr.salt = wal[c].hdr.salt \/ wal'[c].hdr = aHdr[0]
      /\ wal'[c].hdr.init = wal[c].hdr.init \/ wal'[c].hdr = aHdr[0]
  BY <1>1
  DEF FramesDoes, Before, shmVars, Waiting, Moves, SameCall, SameWal, SameJob, WalIs, JobIs
<1>3. SaltKept(c)
  BY <1>2 DEF SaltKept
<1>4. Fresher(c) /\ wal'[c].hdr.salt = wal[c].hdr.salt => Fresher(c)'
  BY <1>1 DEF Fresher, OthersStay, Stays
<1>5. WriterHdrOK(c)'
  BY <1>1, <1>2, <1>4, Sizes
  DEF FramesDoes, Before, WriterHdrOK, PointOK, TaskOK, Alone, Marking, Logging, Logged,
      CkPoints, WritePoints, Writing, useWal, Numbers, Moves, SameCall, SameWal, SameJob,
      WalIs, JobIs
<1>6. OtherHdrOK(c)'
  BY <1>1, <1>2
  DEF FramesDoes, Before, OtherHdrOK, PointOK, Alone, Marking, WritePoints, Writing, useWal,
      Moves, SameCall, SameWal, SameJob, WalIs, JobIs
<1> QED
  BY <1>1, <1>2, <1>3, <1>5, <1>6, HdrStep

LEMMA HdrLockedHdr ==
  ASSUME BaseOK, NEW c \in Conn, HdrLocked(c) \/ StartCheckpoint(c) \/ EndCheckpoint(c)
  PROVE  HdrsOK'
<1>1. /\ HdrLockedDoes(c) \/ StartCheckpointDoes(c) \/ EndCheckpointDoes(c)
      /\ OthersStay(c) /\ Before(c) /\ TypesOK'
      /\ pc[c] \notin Waiting => aHdr[0].init
  BY BeforeOK, HdrLockedEffect, StartCheckpointEffect, EndCheckpointEffect DEF Before
<1>2. /\ aHdr' = aHdr /\ nBackfill' = nBackfill /\ kept'[c] = kept[c]
      /\ pc[c] \in {"idle", "ckhdr", "ckend"} /\ pc'[c] \in Waiting
      /\ \/ SameWal(c)
         \/ WalIs(c, wal[c].hdr, wal[c].readLock, wal[c].minFrame, wal[c].iReCksum)
         \/ WalIs(c, NoHdr, wal[c].readLock, wal[c].minFrame, wal[c].iReCksum)
      /\ call'[c] \in {"ckpt", "none", call[c]}
  BY <1>1
  DEF HdrLockedDoes, StartCheckpointDoes, EndCheckpointDoes, SameCache, SameCall, Moves,
      shmVars, Waiting, HdrAfter
<1>3. SaltKept(c)
  BY <1>2 DEF SaltKept, SameWal, WalIs, NoHdr
<1>4. \A d \in Conn \ {c} : WriterHdrOK(d)' /\ OtherHdrOK(d)'
  BY <1>1, <1>2, <1>3, HdrOthers
<1>5. HdrOK'
  <2>1. ASSUME ~aHdr[0].init
        PROVE  Unused'
    <3>1. Unused
      BY <1>1, <2>1 DEF Before, HdrOK
    <3>2. WalIs(c, NoHdr, -1, 0, 0)
      BY <1>2, <3>1 DEF Unused, SameWal, WalIs, NoWal
    <3>3. wal'[c] = NoWal
      <4>1. wal'[c] \in WalT
        BY <1>1, Types DEF TypesOK
      <4> QED
        BY <3>2, <4>1 DEF WalIs, NoWal, WalT
    <3> QED
      BY <1>1, <1>2, <3>1, <3>3 DEF Unused, OthersStay, Stays
  <2>2. aHdr[1] # aHdr[0] => \E d \in Conn : pc'[d] \in {"restart", "publish0"}
    BY <1>1, <1>2 DEF Before, HdrOK, OthersStay, Stays
  <2> QED
    BY <1>2, <2>1, <2>2 DEF HdrOK
<1>6. ~Writing(c)'
  <2>1. ~useWal(c)
    BY <1>1, <1>2 DEF Before, PointOK, Alone, Marking
  <2> QED
    BY <1>2, <2>1 DEF Writing, useWal, WritePoints, Waiting
<1>7. WriterHdrOK(c)'
  <2>1. wal'[c].iReCksum = 0
    <3>1. ~useWal(c) /\ wal[c].iReCksum = 0
      BY <1>1, <1>2 DEF Before, PointOK, TaskOK, Alone, Marking, Writing, WritePoints
    <3> QED
      BY <1>2, <3>1 DEF SameWal, WalIs
  <2>2. ~useWal(c)' /\ pc'[c] \notin WritePoints
    BY <1>6 DEF Writing
  <2> QED
    BY <1>6, <2>1, <2>2 DEF WriterHdrOK, WritePoints
<1>8. OtherHdrOK(c)'
  <2>1. ~Writing(c)
    BY <1>1, <1>2 DEF Before, PointOK, Alone, Marking, Writing, WritePoints
  <2> QED
    BY <1>1, <1>2, <2>1 DEF Before, OtherHdrOK, SameWal, WalIs, NoHdr
<1> QED
  BY <1>4, <1>5, <1>7, <1>8 DEF HdrsOK

\* The writer has no rival.
LEMMA Rivals ==
  ASSUME BaseOK, NEW c \in Conn, Writing(c)
  PROVE  \A d \in Conn \ {c} : ~Writing(d)
  BY OneWriter DEF BaseOK, OwnOK

\* Without one, the header of the wal-index is good or there is none.
LEMMA Recoverable ==
  ASSUME BaseOK, NEW c \in Conn, pc[c] \in {"idle", "ckhdr"}, ~HdrGood,
         CanExclude(c, RecoveryLocks(c))
  PROVE  Unused
<1>1. HdrOK /\ \A d \in Conn : LockOK(d) /\ PointOK(d)
  BY DEF BaseOK, HdrsOK, OwnOK
<1>2. CASE ~aHdr[0].init
  BY <1>1, <1>2 DEF HdrOK
<1>3. CASE aHdr[0].init
  <2>1. PICK d \in Conn : pc[d] \in {"restart", "publish0"}
    BY <1>1, <1>3 DEF HdrGood, HdrOK
  <2>2. WAL_WRITE_LOCK \in exclMask[d]
    BY <1>1, <2>1 DEF LockOK, Writing, WritePoints
  <2>3. WAL_WRITE_LOCK \notin exclMask[c]
    BY <1>1 DEF LockOK, Writing, WritePoints, PointOK, Alone, Marking
  <2>4. WAL_WRITE_LOCK \in RecoveryLocks(c)
    BY <2>3, Sizes DEF RecoveryLocks, Lock, WAL_WRITE_LOCK, WAL_READ_LOCK
  <2> QED
    BY <2>1, <2>2, <2>4 DEF CanExclude
<1> QED
  BY <1>2, <1>3

LEMMA RecoverHdr ==
  ASSUME BaseOK, NEW c \in Conn, Recover(c)
  PROVE  HdrsOK'
<1>1. RecoverDoes(c) /\ OthersStay(c) /\ Before(c) /\ TypesOK
  BY BeforeOK, RecoverEffect DEF Before
<1>2. Unused
  <2>1. pc[c] \in {"idle", "ckhdr"} /\ ~HdrGood /\ CanExclude(c, RecoveryLocks(c))
    BY DEF Recover
  <2> QED
    BY <2>1, Recoverable
<1>3. /\ aHdr' = [i \in {0, 1} |-> RecoveredHdr(log, salt)]
      /\ wal'[c].hdr = RecoveredHdr(log, salt)
      /\ wal'[c].iReCksum = wal[c].iReCksum
      /\ pc'[c] \in {"choose", "ckstart"} /\ SameCall(c)
      /\ pc[c] \in {"idle", "ckhdr"}
  BY <1>1 DEF RecoverDoes, WalIs, Moves
<1>4. RecoveredHdr(log, salt).init /\ RecoveredHdr(log, salt).mx \in Int
  BY <1>1, LogRead, Sizes DEF HdrT
<1>5. HdrOK'
  BY <1>3, <1>4 DEF HdrOK
<1>6. ~useWal(c) /\ wal[c].iReCksum = 0
  BY <1>1, <1>3 DEF Before, PointOK, TaskOK, Alone, Marking, Writing, WritePoints
<1>7. WriterHdrOK(c)' /\ OtherHdrOK(c)'
  <2>1. ~useWal(c)' /\ ~Writing(c)'
    BY <1>3, <1>6 DEF useWal, SameCall, Writing, WritePoints
  <2>2. WriterHdrOK(c)'
    BY <1>3, <1>6, <2>1 DEF WriterHdrOK
  <2> QED
    BY <1>3, <1>4, <2>2 DEF OtherHdrOK
<1>8. ASSUME NEW d \in Conn \ {c}
      PROVE  WriterHdrOK(d)' /\ OtherHdrOK(d)'
  <2>1. pc[d] \in Waiting /\ wal[d] = NoWal /\ PointOK(d) /\ Stays(d)
    BY <1>1, <1>2 DEF Unused, BaseOK, OwnOK, OthersStay
  <2>2. ~useWal(d)' /\ pc'[d] \in Waiting /\ wal'[d] = NoWal
    BY <2>1 DEF PointOK, Waiting, Alone, Marking, useWal, Stays
  <2>3. ~Writing(d)'
    BY <2>2 DEF Writing, useWal, Waiting, WritePoints
  <2>4. OtherHdrOK(d)'
    BY <2>2 DEF OtherHdrOK, NoWal, NoHdr
  <2>5. wal'[d].iReCksum = 0
    BY <2>2 DEF NoWal
  <2>6. WriterHdrOK(d)'
    <3>1. ~useWal(d)' /\ (pc[d] \notin WritePoints)'
      BY <2>3 DEF Writing
    <3> QED
      BY <2>3, <2>5, <3>1 DEF WriterHdrOK, WritePoints
  <2> QED
    BY <2>4, <2>6
<1> QED
  BY <1>5, <1>7, <1>8 DEF HdrsOK

LEMMA RestartHdrHdr ==
  ASSUME BaseOK, NEW c \in Conn, RestartHdr(c)
  PROVE  HdrsOK'
<1> DEFINE h == [init |-> TRUE, salt |-> NewSalt, mx |-> 0, sum |-> <<>>]
<1>1. RestartHdrDoes(c) /\ OthersStay(c) /\ Before(c) /\ TypesOK
      /\ (pc[c] \notin Waiting => aHdr[0].init) /\ aHdr[0].mx \in 0 .. MaxFrame
  BY BeforeOK, RestartHdrEffect DEF Before
<1>2. /\ aHdr' = [aHdr EXCEPT ![1] = h] /\ wal'[c].hdr = h /\ wal'[c].iReCksum = wal[c].iReCksum
      /\ pc[c] = "frames" /\ pc'[c] = "restart" /\ SameCall(c) /\ Fresh # {}
      /\ job'[c].first = job[c].first /\ wal[c].readLock = 0
  BY <1>1 DEF RestartHdrDoes, WalIs, JobIs, Moves, MayRestart
<1>3. aHdr'[0] = aHdr[0] /\ aHdr'[1] = h /\ aHdr[0].init
  BY <1>1, <1>2 DEF TypesOK, Waiting
<1>4. NewSalt \notin Salts
  BY <1>1, <1>2, NewSaltIn
<1>5. NewSalt # aHdr[0].salt /\ \A d \in Conn : NewSalt # wal[d].hdr.salt
  BY <1>4 DEF Salts
<1>6. Fresher(c)'
  BY <1>1, <1>2, <1>5 DEF Fresher, OthersStay, Stays
<1>7. useWal(c) /\ Writing(c) /\ wal[c].hdr = aHdr[0] /\ job[c].first = 0 /\ wal[c].iReCksum = 0
  <2>1. useWal(c) /\ Writing(c)
    BY <1>1, <1>2 DEF Before, PointOK, Alone, Writing
  <2>2. wal[c].hdr = aHdr[0] /\ wal[c].iReCksum = 0
    BY <1>1, <1>2 DEF Before, WriterHdrOK, TaskOK
  <2>3. job[c].first = 0
    BY <1>1, <2>1, <2>2 DEF Before, WriterHdrOK
  <2> QED
    BY <2>1, <2>2, <2>3
<1>8. WriterHdrOK(c)'
  BY <1>2, <1>3, <1>5, <1>6, <1>7 DEF WriterHdrOK, Marking
<1>9. OtherHdrOK(c)'
  <2>1. Writing(c)'
    BY <1>2 DEF Writing, WritePoints
  <2> QED
    BY <2>1 DEF OtherHdrOK
<1>10. HdrOK'
  BY <1>2, <1>3 DEF HdrOK
<1>11. \A d \in Conn \ {c} : WriterHdrOK(d)' /\ OtherHdrOK(d)'
  <2>1. SaltKept(c)
    BY <1>7 DEF SaltKept
  <2> QED
    BY <1>1, <1>3, <1>7, <2>1, HdrOthers
<1> QED
  BY <1>8, <1>9, <1>10, <1>11 DEF HdrsOK

\* A writer puts its header into the wal-index.
LEMMA HdrPut ==
  ASSUME BaseOK, NEW c \in Conn, OthersStay(c), Writing(c), pc[c] \in {"restart", "publish0"},
         aHdr' = [aHdr EXCEPT ![0] = wal[c].hdr], wal'[c] = wal[c],
         pc[c] = "restart" \/ wal[c].hdr.mx > aHdr[0].mx
  PROVE  /\ HdrOK' /\ aHdr'[0] = wal'[c].hdr /\ aHdr'[1] = wal'[c].hdr
         /\ \A d \in Conn \ {c} : WriterHdrOK(d)' /\ OtherHdrOK(d)'
<1>1. TypesOK /\ Before(c) /\ (pc[c] \notin Waiting => aHdr[0].init) /\ aHdr[0].mx \in 0 .. MaxFrame
  BY BeforeOK
<1>2. aHdr'[0] = wal[c].hdr /\ aHdr'[1] = wal[c].hdr /\ wal[c].hdr.init
  BY <1>1 DEF TypesOK, Before, WriterHdrOK, PointOK, Waiting
<1>3. HdrOK'
  BY <1>2 DEF HdrOK
<1>4. ASSUME NEW d \in Conn \ {c}
      PROVE  WriterHdrOK(d)' /\ OtherHdrOK(d)'
  <2>1. ~Writing(d) /\ Stays(d) /\ OwnOK(d) /\ OtherHdrOK(d) /\ Numbers(d) /\ Numbers(c)
    BY Rivals, NumbersOK DEF BaseOK, HdrsOK, OthersStay
  <2>2. OwnOK(d)'
    BY <2>1, OwnStays
  <2>3. ~Writing(d)' /\ TaskOK(d)'
    BY <2>1, <2>2 DEF OwnOK, Writing, useWal, Stays
  <2>4. WriterHdrOK(d)'
    <3>1. ~useWal(d)' /\ (pc[d] \notin WritePoints)' /\ (wal[d].iReCksum = 0)'
      BY <2>3 DEF Writing, TaskOK
    <3> QED
      BY <3>1, <2>3 DEF WritePoints, WriterHdrOK
  <2>5. OtherHdrOK(d)'
    <3> SUFFICES ASSUME wal[d].hdr.init, wal[d].hdr.salt = wal[c].hdr.salt
                 PROVE  wal[d].hdr.mx < wal[c].hdr.mx
      BY <1>2, <2>1, Sizes DEF OtherHdrOK, Stays, Numbers
    <3>1. ~Fresher(c)
      BY DEF Fresher
    <3>2. pc[c] # "restart" /\ wal[c].hdr.mx > aHdr[0].mx
      BY <1>1, <3>1 DEF Before, WriterHdrOK
    <3>3. wal[c].hdr.salt = aHdr[0].salt
      BY <1>1, <3>1, <3>2 DEF Before, WriterHdrOK
    <3>4. wal[d].hdr.mx <= aHdr[0].mx
      BY <2>1, <3>3 DEF OtherHdrOK
    <3> QED
      BY <1>1, <2>1, <3>2, <3>4, Sizes DEF Numbers
  <2> QED
    BY <2>4, <2>5
<1> QED
  BY <1>2, <1>3, <1>4

LEMMA RestartHdr0Hdr ==
  ASSUME BaseOK, NEW c \in Conn, RestartHdr0(c)
  PROVE  HdrsOK'
<1>1. RestartHdr0Does(c) /\ OthersStay(c) /\ Before(c)
  BY BeforeOK, RestartHdr0Effect DEF Before
<1>2. /\ aHdr' = [aHdr EXCEPT ![0] = wal[c].hdr] /\ wal'[c] = wal[c] /\ job'[c] = job[c]
      /\ pc[c] = "restart" /\ pc'[c] = "restarted" /\ SameCall(c)
  BY <1>1 DEF RestartHdr0Does, SameWal, SameJob, Moves
<1>3. Writing(c) /\ Writing(c)' /\ wal[c].hdr.mx = 0
  BY <1>1, <1>2 DEF Writing, WritePoints, Before, WriterHdrOK
<1>4. /\ HdrOK' /\ aHdr'[0] = wal'[c].hdr /\ aHdr'[1] = wal'[c].hdr
      /\ \A d \in Conn \ {c} : WriterHdrOK(d)' /\ OtherHdrOK(d)'
  BY <1>1, <1>2, <1>3, HdrPut
<1>5. WriterHdrOK(c)'
  <2>1. useWal(c) /\ wal[c].iReCksum = 0
    <3>1. useWal(c) /\ wal[c].readLock = 0
      BY <1>1, <1>2 DEF Before, PointOK, Alone
    <3> QED
      BY <1>1, <3>1 DEF Before, TaskOK
  <2>2. job[c].first = 0
    <3>1. job[c].first # 0 => wal[c].hdr.mx > aHdr[0].mx
      BY <1>1, <2>1 DEF Before, WriterHdrOK
    <3> QED
      BY <1>3, <3>1, BeforeOK, Sizes
  <2> QED
    BY <1>2, <1>3, <1>4, <2>1, <2>2 DEF WriterHdrOK, Marking
<1> QED
  BY <1>3, <1>4, <1>5 DEF HdrsOK, OtherHdrOK

LEMMA PublishHdr0Hdr ==
  ASSUME BaseOK, NEW c \in Conn, PublishHdr0(c)
  PROVE  HdrsOK'
<1>1. PublishHdr0Does(c) /\ OthersStay(c) /\ Before(c)
  BY BeforeOK, PublishHdr0Effect DEF Before
<1>2. /\ aHdr' = [aHdr EXCEPT ![0] = wal[c].hdr] /\ wal'[c] = wal[c]
      /\ pc[c] = "publish0" /\ pc'[c] = "reader" /\ call'[c] = "none"
  BY <1>1 DEF PublishHdr0Does, SameWal, Moves
<1>3. Writing(c) /\ ~Writing(c)' /\ ~useWal(c)' /\ wal[c].hdr.mx > aHdr[0].mx /\ wal[c].iReCksum = 0
  BY <1>1, <1>2 DEF Writing, useWal, WritePoints, Before, WriterHdrOK, TaskOK, PointOK
<1>4. /\ HdrOK' /\ aHdr'[0] = wal'[c].hdr /\ aHdr'[1] = wal'[c].hdr
      /\ \A d \in Conn \ {c} : WriterHdrOK(d)' /\ OtherHdrOK(d)'
  BY <1>1, <1>2, <1>3, HdrPut
<1>5. WriterHdrOK(c)'
  BY <1>2, <1>3, <1>4 DEF WriterHdrOK, Marking
<1>6. OtherHdrOK(c)'
  BY <1>1, <1>2, <1>4 DEF OtherHdrOK, Before, Numbers
<1> QED
  BY <1>4, <1>5, <1>6 DEF HdrsOK

LEMMA WriteHeaderHdr ==
  ASSUME BaseOK, NEW c \in Conn, WriteHeader(c)
  PROVE  HdrsOK'
<1>1. WriteHeaderDoes(c) /\ OthersStay(c) /\ Before(c) /\ TypesOK
      /\ (pc[c] \notin Waiting => aHdr[0].init) /\ aHdr[0].mx \in 0 .. MaxFrame
  BY BeforeOK, WriteHeaderEffect DEF Before
<1>2. PICK s \in 1 .. MaxSalt :
        /\ s = wal[c].hdr.salt \/ s \notin Salts
        /\ wal'[c].hdr.salt = s /\ wal'[c].hdr.mx = wal[c].hdr.mx
        /\ wal'[c].iReCksum = wal[c].iReCksum
  BY <1>1 DEF WriteHeaderDoes, WalIs
<1>3. /\ pc[c] = "header" /\ pc'[c] = "headersync" /\ aHdr' = aHdr /\ SameCall(c) /\ SameJob(c)
      /\ aHdr[0].init
  BY <1>1 DEF WriteHeaderDoes, Moves, shmVars, Waiting
<1>4. Writing(c) /\ Writing(c)' /\ SaltKept(c)
  BY <1>3 DEF Writing, WritePoints, SaltKept
<1>5. s # wal[c].hdr.salt => Fresher(c)'
  <2>1. s \notin Salts => \A d \in Conn : wal[d].hdr.salt # s
    BY DEF Salts
  <2> QED
    BY <1>1, <1>2, <2>1 DEF Fresher, OthersStay, Stays
<1>6. Fresher(c) /\ s = wal[c].hdr.salt => Fresher(c)'
  BY <1>1, <1>2 DEF Fresher, OthersStay, Stays
<1>7. wal[c].hdr.mx = 0 /\ aHdr[0].mx = 0
  BY <1>1, <1>3, <1>4, Sizes DEF Before, WriterHdrOK
<1>8. WriterHdrOK(c)'
  BY <1>1, <1>2, <1>3, <1>4, <1>5, <1>6, <1>7
  DEF Before, WriterHdrOK, SameCall, SameJob, useWal, Marking
<1>9. OtherHdrOK(c)'
  BY <1>4 DEF OtherHdrOK
<1> QED
  BY <1>1, <1>3, <1>4, <1>8, <1>9, HdrStep

LEMMA PublishHdr ==
  ASSUME BaseOK, NEW c \in Conn, Publish(c)
  PROVE  HdrsOK'
<1>1. PublishDoes(c) /\ OthersStay(c) /\ Before(c) /\ TypesOK
      /\ (pc[c] \notin Waiting => aHdr[0].init) /\ aHdr[0].mx \in 0 .. MaxFrame
  BY BeforeOK, PublishEffect DEF Before
<1>2. /\ pc[c] = "publish" /\ aHdr[0].init
      /\ wal'[c].hdr = NewHdr(c) /\ wal'[c].iReCksum = wal[c].iReCksum /\ job'[c].first = 0
      /\ \/ call'[c] = "none" /\ pc'[c] = "writer" /\ aHdr' = aHdr
         \/ call'[c] = "commit" /\ pc'[c] = "publish0" /\ aHdr' = [aHdr EXCEPT ![1] = NewHdr(c)]
  BY <1>1 DEF PublishDoes, WalIs, NoJob, Waiting
<1>3. aHdr'[0] = aHdr[0] /\ (aHdr'[1] = aHdr[1] \/ aHdr'[1] = NewHdr(c))
      /\ (pc'[c] = "publish0" => aHdr'[1] = NewHdr(c))
  BY <1>1, <1>2 DEF TypesOK
<1>4. NewHdr(c).mx = job[c].iFrame /\ NewHdr(c).salt = wal[c].hdr.salt
  BY DEF NewHdr
<1>5. Writing(c) /\ Writing(c)' /\ SaltKept(c)
  BY <1>2 DEF Writing, WritePoints, SaltKept
<1>6. Fresher(c) => Fresher(c)'
  BY <1>1, <1>2, <1>4 DEF Fresher, OthersStay, Stays
<1>7. job[c].iFrame > aHdr[0].mx
  BY <1>1, <1>2 DEF Before, WriterHdrOK
<1>8. WriterHdrOK(c)'
  <2>1. wal[c].hdr.salt # aHdr[0].salt => aHdr[0].mx = 0 /\ Fresher(c)
    BY <1>1, <1>2, <1>5 DEF Before, WriterHdrOK
  <2>2. wal[c].iReCksum # 0 => wal[c].iReCksum > aHdr[0].mx
    BY <1>1 DEF Before, WriterHdrOK
  <2>3. pc'[c] = "writer" => wal[c].readLock > 0 /\ wal'[c].readLock > 0
    BY <1>1, <1>2 DEF PublishDoes, WalIs, Before, PointOK, Logging
  <2> QED
    BY <1>1, <1>2, <1>3, <1>4, <1>5, <1>6, <1>7, <2>1, <2>2, <2>3, Sizes
    DEF WriterHdrOK, Before, Numbers, useWal, Marking
<1>9. OtherHdrOK(c)'
  BY <1>5 DEF OtherHdrOK
<1>10. HdrOK'
  <2>1. aHdr[1] # aHdr[0] => \E d \in Conn \ {c} : pc[d] \in {"restart", "publish0"}
    BY <1>1, <1>2 DEF Before, HdrOK
  <2>2. \A d \in Conn \ {c} : pc'[d] = pc[d]
    BY <1>1 DEF OthersStay, Stays
  <2> QED
    BY <1>2, <1>3, <2>1, <2>2 DEF HdrOK
<1>11. \A d \in Conn \ {c} : WriterHdrOK(d)' /\ OtherHdrOK(d)'
  BY <1>1, <1>3, <1>5, HdrOthers
<1> QED
  BY <1>8, <1>9, <1>10, <1>11 DEF HdrsOK

\* Any step of a connection.
LEMMA HdrsStep ==
  ASSUME BaseOK, NEW c \in Conn, StepOf(c)
  PROVE  HdrsOK'
<1>1. ASSUME NEW p \in Page, Spill(c, p)
      PROVE  HdrsOK'
  <2>1. {p} \in SUBSET Page /\ Frames(c, "spill", {p})
    BY <1>1, Batches DEF BaseOK
  <2> QED
    BY <2>1, FramesHdr
<1>2. ASSUME Commit(c)
      PROVE  HdrsOK'
  <2>1. PICK pages \in SUBSET Page : Frames(c, "commit", pages)
    BY <1>2, Batches DEF BaseOK
  <2> QED
    BY <2>1, FramesHdr
<1>3. Read(c) => HdrsOK'
  BY ReadHdrHdr, HdrLockedHdr, ChooseZeroHdr, LockMarkZeroHdr, ChooseMarkHdr, LockMarkHdr,
     CheckMarkHdr, EndReadHdr
  DEF Read
<1>4. Change(c) => HdrsOK'
  BY <1>1, <1>2, BeginWriteHdr, RollbackHdr, WriteHdr, RestartHdrHdr, RestartHdr0Hdr,
     RestartInfoHdr, KeepLogHdr, WriteHeaderHdr, LogPageHdr, RewriteChecksumHdr, PublishHdr
  DEF Change
<1>5. Checkpoint(c) => HdrsOK'
  BY HdrLockedHdr, InitIteratorHdr, VisitMarkHdr, GiveUpHdr, CopyPageHdr, BackfilledHdr,
     CheckpointFailsHdr
  DEF Checkpoint
<1> QED
  BY <1>3, <1>4, <1>5, RecoverHdr, PublishHdr0Hdr, SyncHeaderHdr, LockZeroHdr DEF StepOf

-----------------------------------------------------------------------------
(* No process has the database open. *)

\* A process that has not begun: all of a connection's variables.
Closed ==
  /\ aHdr[0] = NoHdr /\ aHdr[1] = NoHdr /\ nBackfill = 0
  /\ \A c \in Conn : /\ pc[c] = "idle" /\ call[c] = "none" /\ wal[c] = NoWal /\ job[c] = NoJob
                     /\ exclMask[c] = {} /\ sharedMask[c] = {}
                     /\ dirty[c] = Clean /\ kept[c] = NoImage

LEMMA ClosedOwn ==
  ASSUME Closed, NEW c \in Conn
  PROVE  OwnOK(c)
<1>1. /\ pc[c] = "idle" /\ call[c] = "none" /\ wal[c] = NoWal /\ job[c] = NoJob
      /\ exclMask[c] = {} /\ sharedMask[c] = {}
  BY DEF Closed
<1>2. wal[c].readLock = -1 /\ wal[c].iReCksum = 0 /\ ~job[c].changed
  BY <1>1 DEF NoWal, NoJob
<1>3. ~useWal(c) /\ ~Writing(c)
  BY <1>1 DEF useWal, Writing, WritePoints
<1>4. PointOK(c)
  BY <1>1, <1>2, <1>3 DEF PointOK, CkPoints, Alone, Logging, Waiting
<1>5. TaskOK(c)
  BY <1>1, <1>2, <1>3 DEF TaskOK
<1>6. LockOK(c)
  BY <1>1, <1>2, <1>3, Sizes DEF LockOK
<1> QED
  BY <1>4, <1>5, <1>6 DEF OwnOK

LEMMA ClosedBase ==
  ASSUME Closed, TypesOK
  PROVE  BaseOK
<1>1. \A c \in Conn : OwnOK(c)
  BY ClosedOwn
<1>2. LocksOK
  BY DEF Closed, LocksOK
<1>3. HdrOK
  BY DEF Closed, HdrOK, Unused, Waiting
<1>4. ASSUME NEW c \in Conn
      PROVE  WriterHdrOK(c) /\ OtherHdrOK(c)
  <2>1. pc[c] = "idle" /\ call[c] = "none" /\ wal[c] = NoWal
    BY DEF Closed
  <2>2. ~Writing(c) /\ TaskOK(c)
    BY <1>1, <2>1 DEF Writing, WritePoints, useWal, OwnOK
  <2> QED
    BY <2>1, <2>2, NotWriting DEF OtherHdrOK, NoWal, NoHdr
<1> QED
  BY <1>1, <1>2, <1>3, <1>4 DEF BaseOK, HdrsOK

LEMMA InitClosed ==
  ASSUME Init
  PROVE  TypesOK /\ Closed
<1>1. SharedTypes
  BY Constants DEF Init, SharedTypes, READMARK_NOT_USED
<1>2. OwnTypes
  BY Constants DEF Init, OwnTypes, Points
<1>3. Closed
  BY DEF Init, Closed
<1> QED
  BY <1>1, <1>2, <1>3, TypeParts

LEMMA CrashClosed ==
  ASSUME TypesOK, Crash
  PROVE  (TypesOK /\ Closed)'
<1>1. SharedTypes'
  BY Constants, TypeParts DEF Crash, Forget, SharedTypes, READMARK_NOT_USED, dbVars, logVars
<1>2. OwnTypes'
  BY Constants DEF Crash, Forget, OwnTypes, Points
<1>3. Closed'
  BY DEF Crash, Forget, Closed
<1> QED
  BY <1>1, <1>2, <1>3, TypePartsNext

\* What a loss of power leaves is of the right type.
LEMMA Left ==
  ASSUME TypesOK
  PROVE  /\ \A d \in DbLeft : d \in [Page -> Content]
         /\ \A l \in LogLeft : l \in [Slot -> FrameT]
         /\ saltDisk \subseteq 0 .. MaxSalt
<1>1. platter \in [Page -> SUBSET Content] /\ logDisk \in [Slot -> SUBSET FrameT]
  BY DEF TypesOK, TypeOK, Content
<1>2. \A d \in DbLeft : d \in [Page -> Content]
  BY <1>1 DEF DbLeft, Outcomes
<1>3. \A l \in LogLeft : l \in [Slot -> FrameT]
  BY <1>1 DEF LogLeft, Outcomes
<1> QED
  BY <1>2, <1>3 DEF TypesOK, TypeOK

LEMMA PowerLossTypes ==
  ASSUME TypesOK, PowerLoss
  PROVE  TypesOK'
<1>1. SharedTypes /\ OwnTypes
  BY TypeParts
<1>2. db' \in [Page -> Content] /\ log' \in [Slot -> FrameT] /\ salt' \in 0 .. MaxSalt
  BY Left DEF PowerLoss
<1>3. SharedTypes'
  BY <1>1, <1>2 DEF PowerLoss, SharedTypes, shmVars, Content
<1>4. OwnTypes'
  BY <1>1 DEF PowerLoss, OwnTypes, lockVars
<1> QED
  BY <1>3, <1>4, TypePartsNext

LEMMA PowerLossBase ==
  ASSUME BaseOK, PowerLoss
  PROVE  BaseOK'
<1>1. TypesOK'
  BY PowerLossTypes DEF BaseOK
<1>2. UNCHANGED <<shmVars, lockVars, wal, dirty, kept, pc, call, job>>
  BY DEF PowerLoss
<1>3. \A c \in Conn : Stays(c)
  BY <1>2 DEF Stays, lockVars
<1>4. \A c \in Conn : OwnOK(c)'
  BY <1>3, OwnStays DEF BaseOK
<1>5. LocksOK'
  BY <1>2 DEF BaseOK, LocksOK, lockVars
<1>6. HdrsOK'
  <2>1. aHdr' = aHdr /\ nBackfill' = nBackfill
    BY <1>2 DEF shmVars
  <2> QED
    BY <1>2, <2>1
    DEF BaseOK, HdrsOK, HdrOK, Unused, WriterHdrOK, OtherHdrOK, Fresher, Writing, useWal
<1> QED
  BY <1>1, <1>4, <1>5, <1>6 DEF BaseOK

LEMMA BaseStep ==
  ASSUME BaseOK, NEW c \in Conn, StepOf(c)
  PROVE  BaseOK' /\ OthersStay(c)
<1>1. OwnOK(c) /\ TypesOK /\ (~aHdr[0].init => Unused)
  BY DEF BaseOK, HdrsOK, HdrOK
<1>2. TypesOK' /\ OthersStay(c) /\ OwnOK(c)' /\ LocksTaken(c)
  BY <1>1, OwnStep
<1>3. LocksOK'
  BY <1>2, LocksStep DEF BaseOK
<1>4. \A d \in Conn \ {c} : OwnOK(d)'
  BY <1>2, OwnStays DEF BaseOK, OthersStay
<1>5. HdrsOK'
  BY HdrsStep
<1> QED
  BY <1>2, <1>3, <1>4, <1>5 DEF BaseOK

\* What the steps come to.
LEMMA Steps ==
  ASSUME Next
  PROVE  (\E c \in Conn : StepOf(c)) \/ Crash \/ PowerLoss
  BY DEF Next, Publication, Recovery, Sync, StepOf

LEMMA BaseUnchanged ==
  ASSUME BaseOK, UNCHANGED vars
  PROVE  BaseOK'
<1>1. UNCHANGED <<shmVars, lockVars, wal, dirty, kept, pc, call, job, dbVars, logVars>>
  BY DEF vars
<1>2. SharedTypes' /\ OwnTypes'
  BY <1>1, TypeParts DEF BaseOK, SharedTypes, OwnTypes, shmVars, lockVars, dbVars, logVars
<1>3. \A c \in Conn : Stays(c)
  BY <1>1 DEF Stays, lockVars
<1>4. \A c \in Conn : OwnOK(c)'
  BY <1>3, OwnStays DEF BaseOK
<1>5. LocksOK'
  BY <1>1 DEF BaseOK, LocksOK, lockVars
<1>6. HdrsOK'
  <2>1. aHdr' = aHdr /\ nBackfill' = nBackfill
    BY <1>1 DEF shmVars
  <2> QED
    BY <1>1, <2>1
    DEF BaseOK, HdrsOK, HdrOK, Unused, WriterHdrOK, OtherHdrOK, Fresher, Writing, useWal
<1> QED
  BY <1>2, <1>4, <1>5, <1>6, TypePartsNext DEF BaseOK

\* Types, locks and headers, whenever the log is restarted.
THEOREM BaseInvariant == Spec => []BaseOK
<1>1. Init => BaseOK
  BY InitClosed, ClosedBase
<1>2. BaseOK /\ [Next]_vars => BaseOK'
  <2> SUFFICES ASSUME BaseOK, [Next]_vars
               PROVE  BaseOK'
    OBVIOUS
  <2>1. CASE \E c \in Conn : StepOf(c)
    BY <2>1, BaseStep
  <2>2. CASE Crash
    <3>1. TypesOK' /\ Closed'
      BY <2>2, CrashClosed DEF BaseOK
    <3> QED
      BY <3>1, ClosedBase, PTL
  <2>3. CASE PowerLoss
    BY <2>3, PowerLossBase
  <2>4. CASE UNCHANGED vars
    BY <2>4, BaseUnchanged
  <2> QED
    BY <2>1, <2>2, <2>3, <2>4, Steps
<1> QED
  BY <1>1, <1>2, PTL DEF Spec

\* TypeOK of run wal: every variable has its type.
THEOREM TypeCorrect == Spec => []TypeOK
<1>1. BaseOK => TypeOK
  BY DEF BaseOK, TypesOK
<1> QED
  BY <1>1, BaseInvariant, PTL

-----------------------------------------------------------------------------
(* The frames copied, and the marks of the readers. *)

MarkInv == BaseOK /\ MarksOK

\* What is known of connection c, with the numbers of the wal-index.
Around(c) ==
  /\ Before(c) /\ BackOf(c) /\ MarkOK(c) /\ CkptOK(c)
  /\ nBackfill \in 0 .. MaxFrame /\ aHdr[0].mx \in 0 .. MaxFrame
  /\ wal[c].minFrame \in 0 .. MaxFrame + 1
  /\ wal[c].readLock > 0 =>
       /\ wal[c].readLock \in Mark
       /\ aReadMark[wal[c].readLock] \in 0 .. MaxFrame + 1
  /\ job[c].slot \in Mark => aReadMark[job[c].slot] \in 0 .. MaxFrame + 1

LEMMA AroundOK ==
  ASSUME MarkInv, NEW c \in Conn
  PROVE  Around(c) /\ TypesOK /\ OwnOK(c) /\ (pc[c] \notin Waiting => aHdr[0].init)
<1>1. /\ TypesOK /\ Before(c) /\ OwnOK(c) /\ (pc[c] \notin Waiting => aHdr[0].init)
      /\ aHdr[0].mx \in 0 .. MaxFrame
  BY BeforeOK DEF MarkInv
<1>2. /\ nBackfill \in 0 .. MaxFrame /\ wal[c].minFrame \in 0 .. MaxFrame + 1
      /\ \A i \in Mark : aReadMark[i] \in 0 .. MaxFrame + 1
  BY <1>1, Types
<1>3. wal[c].readLock > 0 => wal[c].readLock \in Mark
  BY <1>1, Sizes DEF Before, Numbers, Mark
<1> QED
  BY <1>1, <1>2, <1>3 DEF Around, MarkInv, MarksOK, BackOK

\* And what is known of it afterwards.
LEMMA AfterOK ==
  ASSUME BaseOK', NEW c \in Conn
  PROVE  /\ TypesOK' /\ Before(c)'
         /\ nBackfill' \in 0 .. MaxFrame /\ aHdr'[0].mx \in 0 .. MaxFrame
         /\ \A i \in Mark : aReadMark'[i] \in 0 .. MaxFrame + 1
         /\ wal'[c].minFrame \in 0 .. MaxFrame + 1
<1>1. TypesOK' /\ OwnOK(c)' /\ HdrsOK'
  BY DEF BaseOK
<1>2. /\ wal'[c] \in WalT /\ job'[c] \in JobT
      /\ call'[c] \in {"none", "spill", "commit", "ckpt"}
      /\ nBackfill' \in 0 .. MaxFrame /\ aHdr'[0] \in HdrT
      /\ \A i \in Mark : aReadMark'[i] \in 0 .. MaxFrame + 1
  BY <1>1 DEF TypesOK, TypeOK, READMARK_NOT_USED
<1>3. Numbers(c)' /\ wal'[c].minFrame \in 0 .. MaxFrame + 1 /\ aHdr'[0].mx \in 0 .. MaxFrame
  BY <1>2 DEF WalT, HdrT, JobT, Numbers
<1> QED
  BY <1>1, <1>2, <1>3 DEF OwnOK, HdrsOK, Before

\* Who holds a read mark, and who copies.
LEMMA Holders ==
  ASSUME BaseOK, NEW c \in Conn, NEW d \in Conn, c # d
  PROVE  /\ \A i \in Mark : CanExclude(c, {WAL_READ_LOCK(i)}) =>
              /\ wal[d].readLock # i
              /\ ~(pc[d] = "check" /\ job[d].slot = i)
         /\ pc[c] \in {"restart", "restarted"} =>
              wal[d].readLock <= 0 /\ pc[d] # "check"
         /\ pc[c] = "ckcopy" => wal[d].readLock # 0
         /\ ~(call[c] = "ckpt" /\ call[d] = "ckpt")
         /\ ~(pc[c] \in CkPoints /\ pc[d] \in CkPoints)
         /\ pc[c] \in CkPoints => wal[c].readLock = -1
<1>1. /\ LockOK(c) /\ LockOK(d) /\ PointOK(c) /\ PointOK(d) /\ Numbers(d) /\ Numbers(c)
      /\ exclMask[c] \cap (exclMask[d] \cup sharedMask[d]) = {}
  BY NumbersOK DEF BaseOK, OwnOK, LocksOK
<1>2. ASSUME NEW i \in Mark, CanExclude(c, {WAL_READ_LOCK(i)})
      PROVE  wal[d].readLock # i /\ ~(pc[d] = "check" /\ job[d].slot = i)
  <2>1. WAL_READ_LOCK(i) \notin sharedMask[d]
    BY <1>2 DEF CanExclude
  <2>2. i \in 0 .. NMark
    BY Sizes DEF Mark
  <2> QED
    BY <1>1, <2>1, <2>2 DEF LockOK
<1>3. ASSUME pc[c] \in {"restart", "restarted"}
      PROVE  wal[d].readLock <= 0 /\ pc[d] # "check"
  <2>1. \A i \in Mark : WAL_READ_LOCK(i) \notin sharedMask[d]
    BY <1>1, <1>3 DEF LockOK
  <2>2. \A i \in Mark : wal[d].readLock # i /\ ~(pc[d] = "check" /\ job[d].slot = i)
    <3>1. \A i \in Mark : i \in 0 .. NMark
      BY Sizes DEF Mark
    <3> QED
      BY <1>1, <2>1, <3>1 DEF LockOK
  <2>3. pc[d] = "check" => job[d].slot \in Mark
    BY <1>1 DEF PointOK
  <2> QED
    BY <1>1, <2>2, <2>3, Sizes DEF Numbers, Mark
<1>4. pc[c] = "ckcopy" => wal[d].readLock # 0
  BY <1>1, Sizes DEF LockOK
<1>5. ~(call[c] = "ckpt" /\ call[d] = "ckpt")
  BY <1>1 DEF LockOK
<1>6. ~(pc[c] \in CkPoints /\ pc[d] \in CkPoints)
  BY <1>1, <1>5 DEF PointOK
<1>7. pc[c] \in CkPoints => wal[c].readLock = -1
  BY <1>1, Sizes DEF PointOK, Numbers, CkPoints, WritePoints
<1> QED
  BY <1>2, <1>3, <1>4, <1>5, <1>6, <1>7

\* The mark of the reader c stays behind a checkpoint,
MarkKept(c) ==
  wal'[c].readLock > 0 =>
    \/ wal[c].readLock = wal'[c].readLock /\ wal'[c].hdr.mx >= wal[c].hdr.mx
    \/ wal'[c].hdr = aHdr[0]

\* and the checkpoint c passes no other one.
CkptKept(c) ==
  /\ pc'[c] \in {"ckzero", "ckcopy"} =>
       pc[c] \in {"ckzero", "ckcopy"} /\ job'[c].mark = job[c].mark
  /\ pc'[c] = "ckslot" => job'[c].slot = 1

LEMMA SafeKept ==
  ASSUME MarkInv, BaseOK', NEW c \in Conn, OthersStay(c), MarkKept(c), CkptKept(c),
         NEW k \in Conn, NEW d \in Conn
  PROVE  SafeOK(k, d)'
<1>1. SafeOK(k, d) /\ Around(k) /\ Around(d) /\ Around(c)
  BY AroundOK DEF MarkInv, MarksOK
<1>2. /\ Numbers(k) /\ Numbers(d) /\ TaskOK(k) /\ CkptOK(k) /\ aHdr[0].mx \in 0 .. MaxFrame
      /\ Numbers(c)' /\ PointOK(c)'
  BY <1>1, AfterOK DEF Around, Before
<1> SUFFICES ASSUME Passed(k, d)'
             PROVE  job'[k].mark <= wal'[d].hdr.mx
  BY DEF SafeOK
<1>3. CASE k # c /\ d # c
  BY <1>1, <1>3 DEF OthersStay, Stays, SafeOK, Passed
<1>4. CASE k # c /\ d = c
  <2>1. Stays(k)
    BY <1>4 DEF OthersStay
  <2>2. CASE wal[c].readLock = wal'[c].readLock /\ wal'[c].hdr.mx >= wal[c].hdr.mx
    <3>1. Passed(k, c)
      BY <1>4, <2>1, <2>2 DEF Passed, Stays
    <3> QED
      BY <1>1, <1>2, <1>4, <2>1, <2>2, <3>1, Sizes DEF SafeOK, Stays, Numbers
  <2>3. CASE wal'[c].hdr = aHdr[0]
    <3>1. pc[k] \in {"ckslot", "ckzero", "ckcopy"} /\ job'[k] = job[k]
      BY <1>4, <2>1 DEF Passed, Stays
    <3>2. job[k].mark <= wal[k].hdr.mx /\ wal[k].hdr.mx <= aHdr[0].mx
      BY <1>2, <3>1 DEF TaskOK, CkptOK
    <3> QED
      BY <1>2, <1>4, <2>3, <3>1, <3>2, Sizes DEF Numbers
  <2> QED
    BY <1>4, <2>2, <2>3 DEF MarkKept, Passed
<1>5. CASE k = c
  <2>1. CASE d = c
    <3>1. pc'[c] \in {"ckslot", "ckzero", "ckcopy"} /\ wal'[c].readLock > 0
      BY <1>5, <2>1 DEF Passed
    <3> QED
      BY <3>1, <1>2, Sizes DEF PointOK, Numbers, WritePoints
  <2>2. CASE d # c
    <3>1. Stays(d)
      BY <2>2 DEF OthersStay
    <3>2. wal[d].readLock > 0 /\ wal'[d] = wal[d] /\ wal[d].readLock \in Int
      BY <1>2, <3>1, Sizes DEF Passed, Stays, Numbers
    <3>3. CASE pc'[c] = "ckslot"
      BY <1>5, <3>2, <3>3 DEF CkptKept, Passed
    <3>4. CASE pc'[c] \in {"ckzero", "ckcopy"}
      BY <1>1, <1>5, <3>2, <3>4 DEF CkptKept, Passed, SafeOK
    <3> QED
      BY <1>5, <3>3, <3>4 DEF Passed
  <2> QED
    BY <2>1, <2>2
<1> QED
  BY <1>3, <1>4, <1>5

\* The read marks that others hold stay.
HeldMarksStay(c) ==
  \A d \in Conn \ {c} :
    wal[d].readLock > 0 => aReadMark'[wal[d].readLock] = aReadMark[wal[d].readLock]

\* No checkpoint has read the header and not ended.
NoneCopies == \A d \in Conn : pc[d] \notin {"ckstart", "ckslot", "ckzero", "ckcopy"}

\* The others, where a step leaves the header and the count of frames as they are.
LEMMA MarkOthers ==
  ASSUME MarkInv, NEW c \in Conn, OthersStay(c), NEW d \in Conn \ {c},
         aHdr'[0] = aHdr[0], nBackfill' = nBackfill, HeldMarksStay(c),
         pc'[c] = "restart" => NoneCopies
  PROVE  BackOf(d)' /\ MarkOK(d)' /\ CkptOK(d)'
<1>1. Stays(d) /\ BackOf(d) /\ MarkOK(d) /\ CkptOK(d)
  BY DEF OthersStay, MarkInv, MarksOK, BackOK
<1>2. useWal(d)' <=> useWal(d)
  BY <1>1 DEF useWal, Stays
<1>3. BackOf(d)'
  BY <1>1, <1>2 DEF BackOf, Stays
<1>4. MarkOK(d)'
  BY <1>1 DEF MarkOK, Stays, HeldMarksStay
<1>5. CkptOK(d)'
  <2>1. \A e \in Conn \ {c} : pc'[e] = pc[e]
    BY DEF OthersStay, Stays
  <2> QED
    BY <1>1, <2>1 DEF CkptOK, Stays, NoneCopies
<1> QED
  BY <1>3, <1>4, <1>5

LEMMA MarksPut ==
  ASSUME MarkInv, NEW c \in Conn, OthersStay(c),
         aHdr'[0] = aHdr[0], nBackfill' = nBackfill, HeldMarksStay(c),
         pc'[c] = "restart" => NoneCopies, pc[c] # "restarted",
         BackOf(c)', MarkOK(c)', CkptOK(c)', \A k, d \in Conn : SafeOK(k, d)'
  PROVE  MarksOK'
<1>1. \A d \in Conn \ {c} : BackOf(d)' /\ MarkOK(d)' /\ CkptOK(d)'
  BY MarkOthers
<1>2. nBackfill' <= aHdr'[0].mx \/ \E d \in Conn : pc'[d] = "restarted"
  BY DEF MarkInv, MarksOK, BackOK, OthersStay, Stays
<1> QED
  BY <1>1, <1>2 DEF MarksOK, BackOK

LEMMA MarksCalm ==
  ASSUME MarkInv, BaseOK', NEW c \in Conn, OthersStay(c),
         aHdr'[0] = aHdr[0], nBackfill' = nBackfill, aReadMark' = aReadMark,
         pc[c] # "restarted", pc'[c] # "restart", MarkKept(c), CkptKept(c),
         BackOf(c)', MarkOK(c)', CkptOK(c)'
  PROVE  MarksOK'
<1>1. \A k, d \in Conn : SafeOK(k, d)'
  BY SafeKept
<1>2. HeldMarksStay(c)
  BY DEF HeldMarksStay
<1> QED
  BY <1>1, <1>2, MarksPut

LEMMA ReadHdrMarks ==
  ASSUME MarkInv, BaseOK', NEW c \in Conn, ReadHdr(c)
  PROVE  MarksOK'
<1>1. /\ ReadHdrDoes(c) /\ OthersStay(c) /\ Around(c) /\ Before(c)'
      /\ aHdr'[0].mx \in 0 .. MaxFrame /\ wal'[c].minFrame \in 0 .. MaxFrame + 1
  BY AroundOK, AfterOK, ReadHdrEffect DEF OwnOK
<1>2. /\ aHdr' = aHdr /\ nBackfill' = nBackfill /\ aReadMark' = aReadMark
      /\ pc[c] # "restarted" /\ pc'[c] # "restart"
  BY <1>1
  DEF ReadHdrDoes, Around, Before, PointOK, shmVars, Moves, SameCall, SameWal, SameJob, WalIs,
      JobIs, HdrGood
<1>3. MarkKept(c)
  BY <1>1, <1>2, Sizes
  DEF ReadHdrDoes, Around, MarkKept, PointOK, Before, WritePoints, Waiting, TaskOK, Alone,
      useWal, Numbers, Moves, SameCall, SameWal, SameJob, WalIs, JobIs, HdrGood
<1>4. CkptKept(c)
  BY <1>1, <1>2, Sizes
  DEF ReadHdrDoes, Around, CkptKept, Moves, SameCall, SameWal, SameJob, WalIs, JobIs, HdrGood
<1>5. BackOf(c)'
  BY <1>1, <1>2, Sizes
  DEF ReadHdrDoes, Around, BackOf, Before, PointOK, Alone, Marking, Logging, WritePoints,
      WriterHdrOK, Writing, useWal, Numbers, Moves, SameCall, SameWal, SameJob, WalIs, JobIs,
      HdrGood
<1>6. MarkOK(c)'
  BY <1>1, <1>2, Sizes
  DEF ReadHdrDoes, Around, MarkOK, Before, PointOK, TaskOK, Alone, Logging, useWal, Marking,
      WritePoints, Numbers, Moves, SameCall, SameWal, SameJob, WalIs, JobIs, HdrGood
<1>7. CkptOK(c)'
  <2>1. ASSUME NEW d \in Conn, pc[d] = "restart"
        PROVE  FALSE
    <3>1. WriterHdrOK(d) /\ HdrGood
      BY <1>1 DEF MarkInv, BaseOK, HdrsOK, ReadHdrDoes
    <3> QED
      BY <2>1, <3>1 DEF WriterHdrOK, HdrGood
  <2>2. \A d \in Conn : pc'[d] # "restart"
    BY <1>1, <1>2, <2>1 DEF OthersStay, Stays
  <2> QED
    BY <1>1, <1>2, <2>2 DEF ReadHdrDoes, CkptOK, Moves, WalIs
<1> QED
  BY <1>1, <1>2, <1>3, <1>4, <1>5, <1>6, <1>7, MarksCalm

LEMMA HdrLockedMarks ==
  ASSUME MarkInv, BaseOK', NEW c \in Conn, HdrLocked(c)
  PROVE  MarksOK'
<1>1. /\ HdrLockedDoes(c) /\ OthersStay(c) /\ Around(c) /\ Before(c)'
      /\ aHdr'[0].mx \in 0 .. MaxFrame /\ wal'[c].minFrame \in 0 .. MaxFrame + 1
  BY AroundOK, AfterOK, HdrLockedEffect DEF OwnOK
<1>2. /\ aHdr' = aHdr /\ nBackfill' = nBackfill /\ aReadMark' = aReadMark
      /\ pc[c] # "restarted" /\ pc'[c] # "restart"
  BY <1>1
  DEF HdrLockedDoes, Around, Before, PointOK, shmVars, Moves, SameCall, SameWal, SameJob,
      WalIs, JobIs
<1>3. MarkKept(c)
  BY <1>1, <1>2, Sizes
  DEF HdrLockedDoes, Around, MarkKept, PointOK, Before, WritePoints, Waiting, TaskOK, Alone,
      useWal, Numbers, Moves, SameCall, SameWal, SameJob, WalIs, JobIs
<1>4. CkptKept(c)
  BY <1>1, <1>2, Sizes
  DEF HdrLockedDoes, Around, CkptKept, Moves, SameCall, SameWal, SameJob, WalIs, JobIs
<1>5. BackOf(c)'
  BY <1>1, <1>2, Sizes
  DEF HdrLockedDoes, Around, BackOf, Before, PointOK, Alone, Marking, Logging, WritePoints,
      WriterHdrOK, Writing, useWal, Numbers, Moves, SameCall, SameWal, SameJob, WalIs, JobIs
<1>6. MarkOK(c)'
  BY <1>1, <1>2, Sizes
  DEF HdrLockedDoes, Around, MarkOK, Before, PointOK, TaskOK, Alone, Logging, useWal, Marking,
      WritePoints, Numbers, Moves, SameCall, SameWal, SameJob, WalIs, JobIs
<1>7. CkptOK(c)'
  BY <1>1, <1>2, Sizes
  DEF HdrLockedDoes, Around, CkptOK, Before, PointOK, CkPoints, Numbers, TaskOK, OthersStay,
      Stays, Moves, SameCall, SameWal, SameJob, WalIs, JobIs
<1> QED
  BY <1>1, <1>2, <1>3, <1>4, <1>5, <1>6, <1>7, MarksCalm

LEMMA ChooseZeroMarks ==
  ASSUME MarkInv, BaseOK', NEW c \in Conn, ChooseZero(c)
  PROVE  MarksOK'
<1>1. /\ ChooseZeroDoes(c) /\ OthersStay(c) /\ Around(c) /\ Before(c)'
      /\ aHdr'[0].mx \in 0 .. MaxFrame /\ wal'[c].minFrame \in 0 .. MaxFrame + 1
  BY AroundOK, AfterOK, ChooseZeroEffect DEF OwnOK
<1>2. /\ aHdr' = aHdr /\ nBackfill' = nBackfill /\ aReadMark' = aReadMark
      /\ pc[c] # "restarted" /\ pc'[c] # "restart"
  BY <1>1
  DEF ChooseZeroDoes, Around, Before, PointOK, shmVars, Moves, SameCall, SameWal, SameJob,
      WalIs, JobIs
<1>3. MarkKept(c)
  BY <1>1, <1>2, Sizes
  DEF ChooseZeroDoes, Around, MarkKept, PointOK, Before, WritePoints, Waiting, TaskOK, Alone,
      useWal, Numbers, Moves, SameCall, SameWal, SameJob, WalIs, JobIs
<1>4. CkptKept(c)
  BY <1>1, <1>2, Sizes
  DEF ChooseZeroDoes, Around, CkptKept, Moves, SameCall, SameWal, SameJob, WalIs, JobIs
<1>5. BackOf(c)'
  BY <1>1, <1>2, Sizes
  DEF ChooseZeroDoes, Around, BackOf, Before, PointOK, Alone, Marking, Logging, WritePoints,
      WriterHdrOK, Writing, useWal, Numbers, Moves, SameCall, SameWal, SameJob, WalIs, JobIs
<1>6. MarkOK(c)'
  BY <1>1, <1>2, Sizes
  DEF ChooseZeroDoes, Around, MarkOK, Before, PointOK, TaskOK, Alone, Logging, useWal, Marking,
      WritePoints, Numbers, Moves, SameCall, SameWal, SameJob, WalIs, JobIs
<1>7. CkptOK(c)'
  BY <1>1, <1>2, Sizes
  DEF ChooseZeroDoes, Around, CkptOK, Before, PointOK, CkPoints, Numbers, TaskOK, OthersStay,
      Stays, Moves, SameCall, SameWal, SameJob, WalIs, JobIs
<1> QED
  BY <1>1, <1>2, <1>3, <1>4, <1>5, <1>6, <1>7, MarksCalm

LEMMA LockMarkZeroMarks ==
  ASSUME MarkInv, BaseOK', NEW c \in Conn, LockMarkZero(c)
  PROVE  MarksOK'
<1>1. /\ LockMarkZeroDoes(c) /\ OthersStay(c) /\ Around(c) /\ Before(c)'
      /\ aHdr'[0].mx \in 0 .. MaxFrame /\ wal'[c].minFrame \in 0 .. MaxFrame + 1
  BY AroundOK, AfterOK, LockMarkZeroEffect DEF OwnOK
<1>2. /\ aHdr' = aHdr /\ nBackfill' = nBackfill /\ aReadMark' = aReadMark
      /\ pc[c] # "restarted" /\ pc'[c] # "restart"
  BY <1>1
  DEF LockMarkZeroDoes, Around, Before, PointOK, shmVars, Moves, SameCall, SameWal, SameJob,
      WalIs, JobIs, StillWhole
<1>3. MarkKept(c)
  BY <1>1, <1>2, Sizes
  DEF LockMarkZeroDoes, Around, MarkKept, PointOK, Before, WritePoints, Waiting, TaskOK, Alone,
      useWal, Numbers, Moves, SameCall, SameWal, SameJob, WalIs, JobIs, StillWhole
<1>4. CkptKept(c)
  BY <1>1, <1>2, Sizes
  DEF LockMarkZeroDoes, Around, CkptKept, Moves, SameCall, SameWal, SameJob, WalIs, JobIs,
      StillWhole
<1>5. BackOf(c)'
  BY <1>1, <1>2, Sizes
  DEF LockMarkZeroDoes, Around, BackOf, Before, PointOK, Alone, Marking, Logging, WritePoints,
      WriterHdrOK, Writing, useWal, Numbers, Moves, SameCall, SameWal, SameJob, WalIs, JobIs,
      StillWhole
<1>6. MarkOK(c)'
  BY <1>1, <1>2, Sizes
  DEF LockMarkZeroDoes, Around, MarkOK, Before, PointOK, TaskOK, Alone, Logging, useWal,
      Marking, WritePoints, Numbers, Moves, SameCall, SameWal, SameJob, WalIs, JobIs,
      StillWhole
<1>7. CkptOK(c)'
  BY <1>1, <1>2, Sizes
  DEF LockMarkZeroDoes, Around, CkptOK, Before, PointOK, CkPoints, Numbers, TaskOK, OthersStay,
      Stays, Moves, SameCall, SameWal, SameJob, WalIs, JobIs, StillWhole
<1> QED
  BY <1>1, <1>2, <1>3, <1>4, <1>5, <1>6, <1>7, MarksCalm

LEMMA LockMarkMarks ==
  ASSUME MarkInv, BaseOK', NEW c \in Conn, LockMark(c)
  PROVE  MarksOK'
<1>1. /\ LockMarkDoes(c) /\ OthersStay(c) /\ Around(c) /\ Before(c)'
      /\ aHdr'[0].mx \in 0 .. MaxFrame /\ wal'[c].minFrame \in 0 .. MaxFrame + 1
  BY AroundOK, AfterOK, LockMarkEffect DEF OwnOK
<1>2. /\ aHdr' = aHdr /\ nBackfill' = nBackfill /\ aReadMark' = aReadMark
      /\ pc[c] # "restarted" /\ pc'[c] # "restart"
  BY <1>1
  DEF LockMarkDoes, Around, Before, PointOK, shmVars, Moves, SameCall, SameWal, SameJob, WalIs,
      JobIs, Retry
<1>3. MarkKept(c)
  BY <1>1, <1>2, Sizes
  DEF LockMarkDoes, Around, MarkKept, PointOK, Before, WritePoints, Waiting, TaskOK, Alone,
      useWal, Numbers, Moves, SameCall, SameWal, SameJob, WalIs, JobIs, Retry
<1>4. CkptKept(c)
  BY <1>1, <1>2, Sizes
  DEF LockMarkDoes, Around, CkptKept, Moves, SameCall, SameWal, SameJob, WalIs, JobIs, Retry
<1>5. BackOf(c)'
  BY <1>1, <1>2, Sizes
  DEF LockMarkDoes, Around, BackOf, Before, PointOK, Alone, Marking, Logging, WritePoints,
      WriterHdrOK, Writing, useWal, Numbers, Moves, SameCall, SameWal, SameJob, WalIs, JobIs,
      Retry
<1>6. MarkOK(c)'
  BY <1>1, <1>2, Sizes
  DEF LockMarkDoes, Around, MarkOK, Before, PointOK, TaskOK, Alone, Logging, useWal, Marking,
      WritePoints, Numbers, Moves, SameCall, SameWal, SameJob, WalIs, JobIs, Retry
<1>7. CkptOK(c)'
  BY <1>1, <1>2, Sizes
  DEF LockMarkDoes, Around, CkptOK, Before, PointOK, CkPoints, Numbers, TaskOK, OthersStay,
      Stays, Moves, SameCall, SameWal, SameJob, WalIs, JobIs, Retry
<1> QED
  BY <1>1, <1>2, <1>3, <1>4, <1>5, <1>6, <1>7, MarksCalm

LEMMA CheckMarkMarks ==
  ASSUME MarkInv, BaseOK', NEW c \in Conn, CheckMark(c)
  PROVE  MarksOK'
<1>1. /\ CheckMarkDoes(c) /\ OthersStay(c) /\ Around(c) /\ Before(c)'
      /\ aHdr'[0].mx \in 0 .. MaxFrame /\ wal'[c].minFrame \in 0 .. MaxFrame + 1
  BY AroundOK, AfterOK, CheckMarkEffect DEF OwnOK
<1>2. /\ aHdr' = aHdr /\ nBackfill' = nBackfill /\ aReadMark' = aReadMark
      /\ pc[c] # "restarted" /\ pc'[c] # "restart"
  BY <1>1
  DEF CheckMarkDoes, Around, Before, PointOK, shmVars, Moves, SameCall, SameWal, SameJob,
      WalIs, JobIs, Retry, ToLog, Unchanged
<1>3. MarkKept(c)
  BY <1>1, <1>2, Sizes
  DEF CheckMarkDoes, Around, MarkKept, PointOK, Before, WritePoints, Waiting, TaskOK, Alone,
      useWal, Numbers, Moves, SameCall, SameWal, SameJob, WalIs, JobIs, Retry, ToLog, Unchanged
<1>4. CkptKept(c)
  BY <1>1, <1>2, Sizes
  DEF CheckMarkDoes, Around, CkptKept, Moves, SameCall, SameWal, SameJob, WalIs, JobIs, Retry,
      ToLog, Unchanged
<1>5. BackOf(c)'
  <2>1. useWal(c)' <=> useWal(c)
    BY <1>1 DEF CheckMarkDoes, SameCall, useWal
  <2>2. pc[c] = "check" /\ pc'[c] \notin {"zero", "restart", "restarted"} /\ wal[c].readLock = -1
    BY <1>1, Sizes
    DEF CheckMarkDoes, Around, Before, PointOK, Numbers, WritePoints, Moves, ToLog, Retry
  <2>3. wal'[c].readLock # 0
    BY <1>1, <2>2, Sizes DEF CheckMarkDoes, Around, Before, PointOK, WalIs, Mark
  <2> QED
    BY <1>1, <1>2, <2>1, <2>2, <2>3 DEF Around, BackOf, Marking
<1>6. MarkOK(c)'
  BY <1>1, <1>2, Sizes
  DEF CheckMarkDoes, Around, MarkOK, Before, PointOK, TaskOK, Alone, Logging, useWal, Marking,
      WritePoints, Numbers, Moves, SameCall, SameWal, SameJob, WalIs, JobIs, Retry, ToLog,
      Unchanged
<1>7. CkptOK(c)'
  BY <1>1, <1>2, Sizes
  DEF CheckMarkDoes, Around, CkptOK, Before, PointOK, CkPoints, Numbers, TaskOK, OthersStay,
      Stays, Moves, SameCall, SameWal, SameJob, WalIs, JobIs, Retry, ToLog, Unchanged
<1> QED
  BY <1>1, <1>2, <1>3, <1>4, <1>5, <1>6, <1>7, MarksCalm

LEMMA EndReadMarks ==
  ASSUME MarkInv, BaseOK', NEW c \in Conn, EndRead(c)
  PROVE  MarksOK'
<1>1. /\ EndReadDoes(c) /\ OthersStay(c) /\ Around(c) /\ Before(c)'
      /\ aHdr'[0].mx \in 0 .. MaxFrame /\ wal'[c].minFrame \in 0 .. MaxFrame + 1
  BY AroundOK, AfterOK, EndReadEffect DEF OwnOK
<1>2. /\ aHdr' = aHdr /\ nBackfill' = nBackfill /\ aReadMark' = aReadMark
      /\ pc[c] # "restarted" /\ pc'[c] # "restart"
  BY <1>1
  DEF EndReadDoes, Around, Before, PointOK, shmVars, Moves, SameCall, SameWal, SameJob, WalIs,
      JobIs
<1>3. MarkKept(c)
  BY <1>1, <1>2, Sizes
  DEF EndReadDoes, Around, MarkKept, PointOK, Before, WritePoints, Waiting, TaskOK, Alone,
      useWal, Numbers, Moves, SameCall, SameWal, SameJob, WalIs, JobIs
<1>4. CkptKept(c)
  BY <1>1, <1>2, Sizes
  DEF EndReadDoes, Around, CkptKept, Moves, SameCall, SameWal, SameJob, WalIs, JobIs
<1>5. BackOf(c)'
  BY <1>1, <1>2, Sizes
  DEF EndReadDoes, Around, BackOf, Before, PointOK, Alone, Marking, Logging, WritePoints,
      WriterHdrOK, Writing, useWal, Numbers, Moves, SameCall, SameWal, SameJob, WalIs, JobIs
<1>6. MarkOK(c)'
  BY <1>1, <1>2, Sizes
  DEF EndReadDoes, Around, MarkOK, Before, PointOK, TaskOK, Alone, Logging, useWal, Marking,
      WritePoints, Numbers, Moves, SameCall, SameWal, SameJob, WalIs, JobIs
<1>7. CkptOK(c)'
  BY <1>1, <1>2, Sizes
  DEF EndReadDoes, Around, CkptOK, Before, PointOK, CkPoints, Numbers, TaskOK, OthersStay,
      Stays, Moves, SameCall, SameWal, SameJob, WalIs, JobIs
<1> QED
  BY <1>1, <1>2, <1>3, <1>4, <1>5, <1>6, <1>7, MarksCalm

LEMMA BeginWriteMarks ==
  ASSUME MarkInv, BaseOK', NEW c \in Conn, BeginWrite(c)
  PROVE  MarksOK'
<1>1. /\ BeginWriteDoes(c) /\ OthersStay(c) /\ Around(c) /\ Before(c)'
      /\ aHdr'[0].mx \in 0 .. MaxFrame /\ wal'[c].minFrame \in 0 .. MaxFrame + 1
  BY AroundOK, AfterOK, BeginWriteEffect DEF OwnOK
<1>2. /\ aHdr' = aHdr /\ nBackfill' = nBackfill /\ aReadMark' = aReadMark
      /\ pc[c] # "restarted" /\ pc'[c] # "restart"
  BY <1>1
  DEF BeginWriteDoes, Around, Before, PointOK, shmVars, Moves, SameCall, SameWal, SameJob,
      WalIs, JobIs
<1>3. MarkKept(c)
  BY <1>1, <1>2, Sizes
  DEF BeginWriteDoes, Around, MarkKept, PointOK, Before, WritePoints, Waiting, TaskOK, Alone,
      useWal, Numbers, Moves, SameCall, SameWal, SameJob, WalIs, JobIs
<1>4. CkptKept(c)
  BY <1>1, <1>2, Sizes
  DEF BeginWriteDoes, Around, CkptKept, Moves, SameCall, SameWal, SameJob, WalIs, JobIs
<1>5. BackOf(c)'
  BY <1>1, <1>2, Sizes
  DEF BeginWriteDoes, Around, BackOf, Before, PointOK, Alone, Marking, Logging, WritePoints,
      WriterHdrOK, Writing, useWal, Numbers, Moves, SameCall, SameWal, SameJob, WalIs, JobIs
<1>6. MarkOK(c)'
  BY <1>1, <1>2, Sizes
  DEF BeginWriteDoes, Around, MarkOK, Before, PointOK, TaskOK, Alone, Logging, useWal, Marking,
      WritePoints, Numbers, Moves, SameCall, SameWal, SameJob, WalIs, JobIs
<1>7. CkptOK(c)'
  BY <1>1, <1>2, Sizes
  DEF BeginWriteDoes, Around, CkptOK, Before, PointOK, CkPoints, Numbers, TaskOK, OthersStay,
      Stays, Moves, SameCall, SameWal, SameJob, WalIs, JobIs
<1> QED
  BY <1>1, <1>2, <1>3, <1>4, <1>5, <1>6, <1>7, MarksCalm

LEMMA RollbackMarks ==
  ASSUME MarkInv, BaseOK', NEW c \in Conn, Rollback(c)
  PROVE  MarksOK'
<1>1. /\ RollbackDoes(c) /\ OthersStay(c) /\ Around(c) /\ Before(c)'
      /\ aHdr'[0].mx \in 0 .. MaxFrame /\ wal'[c].minFrame \in 0 .. MaxFrame + 1
  BY AroundOK, AfterOK, RollbackEffect DEF OwnOK
<1>2. /\ aHdr' = aHdr /\ nBackfill' = nBackfill /\ aReadMark' = aReadMark
      /\ pc[c] # "restarted" /\ pc'[c] # "restart"
  BY <1>1
  DEF RollbackDoes, Around, Before, PointOK, shmVars, Moves, SameCall, SameWal, SameJob, WalIs,
      JobIs, NoJob
<1>3. MarkKept(c)
  BY <1>1, <1>2, Sizes
  DEF RollbackDoes, Around, MarkKept, PointOK, Before, WritePoints, Waiting, TaskOK, Alone,
      useWal, Numbers, Moves, SameCall, SameWal, SameJob, WalIs, JobIs, NoJob
<1>4. CkptKept(c)
  BY <1>1, <1>2, Sizes
  DEF RollbackDoes, Around, CkptKept, Moves, SameCall, SameWal, SameJob, WalIs, JobIs, NoJob
<1>5. BackOf(c)'
  BY <1>1, <1>2, Sizes
  DEF RollbackDoes, Around, BackOf, Before, PointOK, Alone, Marking, Logging, WritePoints,
      WriterHdrOK, Writing, useWal, Numbers, Moves, SameCall, SameWal, SameJob, WalIs, JobIs,
      NoJob
<1>6. MarkOK(c)'
  BY <1>1, <1>2, Sizes
  DEF RollbackDoes, Around, MarkOK, Before, PointOK, TaskOK, Alone, Logging, useWal, Marking,
      WritePoints, Numbers, Moves, SameCall, SameWal, SameJob, WalIs, JobIs, NoJob
<1>7. CkptOK(c)'
  BY <1>1, <1>2, Sizes
  DEF RollbackDoes, Around, CkptOK, Before, PointOK, CkPoints, Numbers, TaskOK, OthersStay,
      Stays, Moves, SameCall, SameWal, SameJob, WalIs, JobIs, NoJob
<1> QED
  BY <1>1, <1>2, <1>3, <1>4, <1>5, <1>6, <1>7, MarksCalm

LEMMA KeepLogMarks ==
  ASSUME MarkInv, BaseOK', NEW c \in Conn, KeepLog(c)
  PROVE  MarksOK'
<1>1. /\ KeepLogDoes(c) /\ OthersStay(c) /\ Around(c) /\ Before(c)'
      /\ aHdr'[0].mx \in 0 .. MaxFrame /\ wal'[c].minFrame \in 0 .. MaxFrame + 1
  BY AroundOK, AfterOK, KeepLogEffect DEF OwnOK
<1>2. /\ aHdr' = aHdr /\ nBackfill' = nBackfill /\ aReadMark' = aReadMark
      /\ pc[c] # "restarted" /\ pc'[c] # "restart"
  BY <1>1
  DEF KeepLogDoes, Around, Before, PointOK, shmVars, Moves, SameCall, SameWal, SameJob, WalIs,
      JobIs, ToLog
<1>3. MarkKept(c)
  BY <1>1, <1>2, Sizes
  DEF KeepLogDoes, Around, MarkKept, PointOK, Before, WritePoints, Waiting, TaskOK, Alone,
      useWal, Numbers, Moves, SameCall, SameWal, SameJob, WalIs, JobIs, ToLog
<1>4. CkptKept(c)
  BY <1>1, <1>2, Sizes
  DEF KeepLogDoes, Around, CkptKept, Moves, SameCall, SameWal, SameJob, WalIs, JobIs, ToLog
<1>5. BackOf(c)'
  BY <1>1, <1>2, Sizes
  DEF KeepLogDoes, Around, BackOf, Before, PointOK, Alone, Marking, Logging, WritePoints,
      WriterHdrOK, Writing, useWal, Numbers, Moves, SameCall, SameWal, SameJob, WalIs, JobIs,
      ToLog
<1>6. MarkOK(c)'
  BY <1>1, <1>2, Sizes
  DEF KeepLogDoes, Around, MarkOK, Before, PointOK, TaskOK, Alone, Logging, useWal, Marking,
      WritePoints, Numbers, Moves, SameCall, SameWal, SameJob, WalIs, JobIs, ToLog
<1>7. CkptOK(c)'
  BY <1>1, <1>2, Sizes
  DEF KeepLogDoes, Around, CkptOK, Before, PointOK, CkPoints, Numbers, TaskOK, OthersStay,
      Stays, Moves, SameCall, SameWal, SameJob, WalIs, JobIs, ToLog
<1> QED
  BY <1>1, <1>2, <1>3, <1>4, <1>5, <1>6, <1>7, MarksCalm

LEMMA WriteHeaderMarks ==
  ASSUME MarkInv, BaseOK', NEW c \in Conn, WriteHeader(c)
  PROVE  MarksOK'
<1>1. /\ WriteHeaderDoes(c) /\ OthersStay(c) /\ Around(c) /\ Before(c)'
      /\ aHdr'[0].mx \in 0 .. MaxFrame /\ wal'[c].minFrame \in 0 .. MaxFrame + 1
  BY AroundOK, AfterOK, WriteHeaderEffect DEF OwnOK
<1>2. /\ aHdr' = aHdr /\ nBackfill' = nBackfill /\ aReadMark' = aReadMark
      /\ pc[c] # "restarted" /\ pc'[c] # "restart"
  BY <1>1
  DEF WriteHeaderDoes, Around, Before, PointOK, shmVars, Moves, SameCall, SameWal, SameJob,
      WalIs, JobIs
<1>3. MarkKept(c)
  BY <1>1, <1>2, Sizes
  DEF WriteHeaderDoes, Around, MarkKept, PointOK, Before, WritePoints, Waiting, TaskOK, Alone,
      useWal, Numbers, Moves, SameCall, SameWal, SameJob, WalIs, JobIs
<1>4. CkptKept(c)
  BY <1>1, <1>2, Sizes
  DEF WriteHeaderDoes, Around, CkptKept, Moves, SameCall, SameWal, SameJob, WalIs, JobIs
<1>5. BackOf(c)'
  BY <1>1, <1>2, Sizes
  DEF WriteHeaderDoes, Around, BackOf, Before, PointOK, Alone, Marking, Logging, WritePoints,
      WriterHdrOK, Writing, useWal, Numbers, Moves, SameCall, SameWal, SameJob, WalIs, JobIs
<1>6. MarkOK(c)'
  BY <1>1, <1>2, Sizes
  DEF WriteHeaderDoes, Around, MarkOK, Before, PointOK, TaskOK, Alone, Logging, useWal,
      Marking, WritePoints, Numbers, Moves, SameCall, SameWal, SameJob, WalIs, JobIs
<1>7. CkptOK(c)'
  BY <1>1, <1>2, Sizes
  DEF WriteHeaderDoes, Around, CkptOK, Before, PointOK, CkPoints, Numbers, TaskOK, OthersStay,
      Stays, Moves, SameCall, SameWal, SameJob, WalIs, JobIs
<1> QED
  BY <1>1, <1>2, <1>3, <1>4, <1>5, <1>6, <1>7, MarksCalm

LEMMA LogPageMarks ==
  ASSUME MarkInv, BaseOK', NEW c \in Conn, LogPage(c)
  PROVE  MarksOK'
<1>1. /\ LogPageDoes(c) /\ OthersStay(c) /\ Around(c) /\ Before(c)'
      /\ aHdr'[0].mx \in 0 .. MaxFrame /\ wal'[c].minFrame \in 0 .. MaxFrame + 1
  BY AroundOK, AfterOK, LogPageEffect DEF OwnOK
<1>2. /\ aHdr' = aHdr /\ nBackfill' = nBackfill /\ aReadMark' = aReadMark
      /\ pc[c] # "restarted" /\ pc'[c] # "restart"
  BY <1>1
  DEF LogPageDoes, Around, Before, PointOK, shmVars, Moves, SameCall, SameWal, SameJob, WalIs,
      JobIs, OverwriteOne, AppendOne, AfterPage
<1>3. MarkKept(c)
  BY <1>1, <1>2, Sizes
  DEF LogPageDoes, Around, MarkKept, PointOK, Before, WritePoints, Waiting, TaskOK, Alone,
      useWal, Numbers, Moves, SameCall, SameWal, SameJob, WalIs, JobIs, OverwriteOne,
      AppendOne, AfterPage
<1>4. CkptKept(c)
  BY <1>1, <1>2, Sizes
  DEF LogPageDoes, Around, CkptKept, Moves, SameCall, SameWal, SameJob, WalIs, JobIs,
      OverwriteOne, AppendOne, AfterPage
<1>5. BackOf(c)'
  BY <1>1, <1>2, Sizes
  DEF LogPageDoes, Around, BackOf, Before, PointOK, Alone, Marking, Logging, WritePoints,
      WriterHdrOK, Writing, useWal, Numbers, Moves, SameCall, SameWal, SameJob, WalIs, JobIs,
      OverwriteOne, AppendOne, AfterPage
<1>6. MarkOK(c)'
  <2>1. /\ pc'[c] \in {"append", "rewrite", "publish"} /\ pc[c] = "append"
        /\ wal'[c].readLock = wal[c].readLock /\ wal'[c].minFrame = wal[c].minFrame
        /\ wal'[c].hdr.mx = wal[c].hdr.mx
    BY <1>1 DEF LogPageDoes, OverwriteOne, AppendOne, Moves, AfterPage, WalIs
  <2> QED
    BY <1>1, <1>2, <2>1 DEF Around, MarkOK
<1>7. CkptOK(c)'
  BY <1>1, <1>2, Sizes
  DEF LogPageDoes, Around, CkptOK, Before, PointOK, CkPoints, Numbers, TaskOK, OthersStay,
      Stays, Moves, SameCall, SameWal, SameJob, WalIs, JobIs, OverwriteOne, AppendOne,
      AfterPage
<1> QED
  BY <1>1, <1>2, <1>3, <1>4, <1>5, <1>6, <1>7, MarksCalm

LEMMA RewriteChecksumMarks ==
  ASSUME MarkInv, BaseOK', NEW c \in Conn, RewriteChecksum(c)
  PROVE  MarksOK'
<1>1. /\ RewriteChecksumDoes(c) /\ OthersStay(c) /\ Around(c) /\ Before(c)'
      /\ aHdr'[0].mx \in 0 .. MaxFrame /\ wal'[c].minFrame \in 0 .. MaxFrame + 1
  BY AroundOK, AfterOK, RewriteChecksumEffect DEF OwnOK
<1>2. /\ aHdr' = aHdr /\ nBackfill' = nBackfill /\ aReadMark' = aReadMark
      /\ pc[c] # "restarted" /\ pc'[c] # "restart"
  BY <1>1
  DEF RewriteChecksumDoes, Around, Before, PointOK, shmVars, Moves, SameCall, SameWal, SameJob,
      WalIs, JobIs
<1>3. MarkKept(c)
  BY <1>1, <1>2, Sizes
  DEF RewriteChecksumDoes, Around, MarkKept, PointOK, Before, WritePoints, Waiting, TaskOK,
      Alone, useWal, Numbers, Moves, SameCall, SameWal, SameJob, WalIs, JobIs
<1>4. CkptKept(c)
  BY <1>1, <1>2, Sizes
  DEF RewriteChecksumDoes, Around, CkptKept, Moves, SameCall, SameWal, SameJob, WalIs, JobIs
<1>5. BackOf(c)'
  BY <1>1, <1>2, Sizes
  DEF RewriteChecksumDoes, Around, BackOf, Before, PointOK, Alone, Marking, Logging,
      WritePoints, WriterHdrOK, Writing, useWal, Numbers, Moves, SameCall, SameWal, SameJob,
      WalIs, JobIs
<1>6. MarkOK(c)'
  BY <1>1, <1>2, Sizes
  DEF RewriteChecksumDoes, Around, MarkOK, Before, PointOK, TaskOK, Alone, Logging, useWal,
      Marking, WritePoints, Numbers, Moves, SameCall, SameWal, SameJob, WalIs, JobIs
<1>7. CkptOK(c)'
  BY <1>1, <1>2, Sizes
  DEF RewriteChecksumDoes, Around, CkptOK, Before, PointOK, CkPoints, Numbers, TaskOK,
      OthersStay, Stays, Moves, SameCall, SameWal, SameJob, WalIs, JobIs
<1> QED
  BY <1>1, <1>2, <1>3, <1>4, <1>5, <1>6, <1>7, MarksCalm

LEMMA PublishMarks ==
  ASSUME MarkInv, BaseOK', NEW c \in Conn, Publish(c)
  PROVE  MarksOK'
<1>1. /\ PublishDoes(c) /\ OthersStay(c) /\ Around(c) /\ Before(c)'
      /\ aHdr'[0].mx \in 0 .. MaxFrame /\ wal'[c].minFrame \in 0 .. MaxFrame + 1
  BY AroundOK, AfterOK, PublishEffect DEF OwnOK
<1>2. /\ aHdr'[0] = aHdr[0] /\ nBackfill' = nBackfill /\ aReadMark' = aReadMark
      /\ pc[c] # "restarted" /\ pc'[c] # "restart"
  BY <1>1, AroundOK DEF PublishDoes, TypesOK
<1>3. MarkKept(c)
  BY <1>1, <1>2, Sizes
  DEF PublishDoes, Around, MarkKept, PointOK, Before, WritePoints, Waiting, TaskOK, Alone,
      useWal, Numbers, Moves, SameCall, SameWal, SameJob, WalIs, JobIs, NewHdr, NoJob
<1>4. CkptKept(c)
  BY <1>1, <1>2, Sizes
  DEF PublishDoes, Around, CkptKept, Moves, SameCall, SameWal, SameJob, WalIs, JobIs, NewHdr,
      NoJob
<1>5. BackOf(c)'
  BY <1>1, <1>2, Sizes
  DEF PublishDoes, Around, BackOf, Before, PointOK, Alone, Marking, Logging, WritePoints,
      WriterHdrOK, Writing, useWal, Numbers, Moves, SameCall, SameWal, SameJob, WalIs, JobIs,
      NewHdr, NoJob
<1>6. MarkOK(c)'
  BY <1>1, <1>2, Sizes
  DEF PublishDoes, Around, MarkOK, Before, PointOK, TaskOK, Alone, Logging, useWal, Marking,
      WritePoints, Numbers, Moves, SameCall, SameWal, SameJob, WalIs, JobIs, NewHdr, NoJob
<1>7. CkptOK(c)'
  BY <1>1, <1>2, Sizes
  DEF PublishDoes, Around, CkptOK, Before, PointOK, CkPoints, Numbers, TaskOK, OthersStay,
      Stays, Moves, SameCall, SameWal, SameJob, WalIs, JobIs, NewHdr, NoJob
<1> QED
  BY <1>1, <1>2, <1>3, <1>4, <1>5, <1>6, <1>7, MarksCalm

LEMMA StartCheckpointMarks ==
  ASSUME MarkInv, BaseOK', NEW c \in Conn, StartCheckpoint(c)
  PROVE  MarksOK'
<1>1. /\ StartCheckpointDoes(c) /\ OthersStay(c) /\ Around(c) /\ Before(c)'
      /\ aHdr'[0].mx \in 0 .. MaxFrame /\ wal'[c].minFrame \in 0 .. MaxFrame + 1
  BY AroundOK, AfterOK, StartCheckpointEffect DEF OwnOK
<1>2. /\ aHdr' = aHdr /\ nBackfill' = nBackfill /\ aReadMark' = aReadMark
      /\ pc[c] # "restarted" /\ pc'[c] # "restart"
  BY <1>1
  DEF StartCheckpointDoes, Around, Before, PointOK, shmVars, Moves, SameCall, SameWal, SameJob,
      WalIs, JobIs
<1>3. MarkKept(c)
  BY <1>1, <1>2, Sizes
  DEF StartCheckpointDoes, Around, MarkKept, PointOK, Before, WritePoints, Waiting, TaskOK,
      Alone, useWal, Numbers, Moves, SameCall, SameWal, SameJob, WalIs, JobIs
<1>4. CkptKept(c)
  BY <1>1, <1>2, Sizes
  DEF StartCheckpointDoes, Around, CkptKept, Moves, SameCall, SameWal, SameJob, WalIs, JobIs
<1>5. BackOf(c)'
  BY <1>1, <1>2, Sizes
  DEF StartCheckpointDoes, Around, BackOf, Before, PointOK, Alone, Marking, Logging,
      WritePoints, WriterHdrOK, Writing, useWal, Numbers, Moves, SameCall, SameWal, SameJob,
      WalIs, JobIs
<1>6. MarkOK(c)'
  BY <1>1, <1>2, Sizes
  DEF StartCheckpointDoes, Around, MarkOK, Before, PointOK, TaskOK, Alone, Logging, useWal,
      Marking, WritePoints, Numbers, Moves, SameCall, SameWal, SameJob, WalIs, JobIs
<1>7. CkptOK(c)'
  BY <1>1, <1>2, Sizes
  DEF StartCheckpointDoes, Around, CkptOK, Before, PointOK, CkPoints, Numbers, TaskOK,
      OthersStay, Stays, Moves, SameCall, SameWal, SameJob, WalIs, JobIs
<1> QED
  BY <1>1, <1>2, <1>3, <1>4, <1>5, <1>6, <1>7, MarksCalm

LEMMA InitIteratorMarks ==
  ASSUME MarkInv, BaseOK', NEW c \in Conn, InitIterator(c)
  PROVE  MarksOK'
<1>1. /\ InitIteratorDoes(c) /\ OthersStay(c) /\ Around(c) /\ Before(c)'
      /\ aHdr'[0].mx \in 0 .. MaxFrame /\ wal'[c].minFrame \in 0 .. MaxFrame + 1
  BY AroundOK, AfterOK, InitIteratorEffect DEF OwnOK
<1>2. /\ aHdr' = aHdr /\ nBackfill' = nBackfill /\ aReadMark' = aReadMark
      /\ pc[c] # "restarted" /\ pc'[c] # "restart"
  BY <1>1
  DEF InitIteratorDoes, Around, Before, PointOK, shmVars, Moves, SameCall, SameWal, SameJob,
      WalIs, JobIs
<1>3. MarkKept(c)
  BY <1>1, <1>2, Sizes
  DEF InitIteratorDoes, Around, MarkKept, PointOK, Before, WritePoints, Waiting, TaskOK, Alone,
      useWal, Numbers, Moves, SameCall, SameWal, SameJob, WalIs, JobIs
<1>4. CkptKept(c)
  BY <1>1, <1>2, Sizes
  DEF InitIteratorDoes, Around, CkptKept, Moves, SameCall, SameWal, SameJob, WalIs, JobIs
<1>5. BackOf(c)'
  BY <1>1, <1>2, Sizes
  DEF InitIteratorDoes, Around, BackOf, Before, PointOK, Alone, Marking, Logging, WritePoints,
      WriterHdrOK, Writing, useWal, Numbers, Moves, SameCall, SameWal, SameJob, WalIs, JobIs
<1>6. MarkOK(c)'
  BY <1>1, <1>2, Sizes
  DEF InitIteratorDoes, Around, MarkOK, Before, PointOK, TaskOK, Alone, Logging, useWal,
      Marking, WritePoints, Numbers, Moves, SameCall, SameWal, SameJob, WalIs, JobIs
<1>7. CkptOK(c)'
  BY <1>1, <1>2, Sizes
  DEF InitIteratorDoes, Around, CkptOK, Before, PointOK, CkPoints, Numbers, TaskOK, OthersStay,
      Stays, Moves, SameCall, SameWal, SameJob, WalIs, JobIs
<1> QED
  BY <1>1, <1>2, <1>3, <1>4, <1>5, <1>6, <1>7, MarksCalm

LEMMA GiveUpMarks ==
  ASSUME MarkInv, BaseOK', NEW c \in Conn, GiveUp(c)
  PROVE  MarksOK'
<1>1. /\ GiveUpDoes(c) /\ OthersStay(c) /\ Around(c) /\ Before(c)'
      /\ aHdr'[0].mx \in 0 .. MaxFrame /\ wal'[c].minFrame \in 0 .. MaxFrame + 1
  BY AroundOK, AfterOK, GiveUpEffect DEF OwnOK
<1>2. /\ aHdr' = aHdr /\ nBackfill' = nBackfill /\ aReadMark' = aReadMark
      /\ pc[c] # "restarted" /\ pc'[c] # "restart"
  BY <1>1
  DEF GiveUpDoes, Around, Before, PointOK, shmVars, Moves, SameCall, SameWal, SameJob, WalIs,
      JobIs
<1>3. MarkKept(c)
  BY <1>1, <1>2, Sizes
  DEF GiveUpDoes, Around, MarkKept, PointOK, Before, WritePoints, Waiting, TaskOK, Alone,
      useWal, Numbers, Moves, SameCall, SameWal, SameJob, WalIs, JobIs
<1>4. CkptKept(c)
  BY <1>1, <1>2, Sizes
  DEF GiveUpDoes, Around, CkptKept, Moves, SameCall, SameWal, SameJob, WalIs, JobIs
<1>5. BackOf(c)'
  BY <1>1, <1>2, Sizes
  DEF GiveUpDoes, Around, BackOf, Before, PointOK, Alone, Marking, Logging, WritePoints,
      WriterHdrOK, Writing, useWal, Numbers, Moves, SameCall, SameWal, SameJob, WalIs, JobIs
<1>6. MarkOK(c)'
  BY <1>1, <1>2, Sizes
  DEF GiveUpDoes, Around, MarkOK, Before, PointOK, TaskOK, Alone, Logging, useWal, Marking,
      WritePoints, Numbers, Moves, SameCall, SameWal, SameJob, WalIs, JobIs
<1>7. CkptOK(c)'
  BY <1>1, <1>2, Sizes
  DEF GiveUpDoes, Around, CkptOK, Before, PointOK, CkPoints, Numbers, TaskOK, OthersStay,
      Stays, Moves, SameCall, SameWal, SameJob, WalIs, JobIs
<1> QED
  BY <1>1, <1>2, <1>3, <1>4, <1>5, <1>6, <1>7, MarksCalm

LEMMA CopyPageMarks ==
  ASSUME MarkInv, BaseOK', NEW c \in Conn, CopyPage(c)
  PROVE  MarksOK'
<1>1. /\ CopyPageDoes(c) /\ OthersStay(c) /\ Around(c) /\ Before(c)'
      /\ aHdr'[0].mx \in 0 .. MaxFrame /\ wal'[c].minFrame \in 0 .. MaxFrame + 1
  BY AroundOK, AfterOK, CopyPageEffect DEF OwnOK
<1>2. /\ aHdr' = aHdr /\ nBackfill' = nBackfill /\ aReadMark' = aReadMark
      /\ pc[c] # "restarted" /\ pc'[c] # "restart"
  BY <1>1
  DEF CopyPageDoes, Around, Before, PointOK, shmVars, Moves, SameCall, SameWal, SameJob, WalIs,
      JobIs
<1>3. MarkKept(c)
  BY <1>1, <1>2, Sizes
  DEF CopyPageDoes, Around, MarkKept, PointOK, Before, WritePoints, Waiting, TaskOK, Alone,
      useWal, Numbers, Moves, SameCall, SameWal, SameJob, WalIs, JobIs
<1>4. CkptKept(c)
  BY <1>1, <1>2, Sizes
  DEF CopyPageDoes, Around, CkptKept, Moves, SameCall, SameWal, SameJob, WalIs, JobIs
<1>5. BackOf(c)'
  BY <1>1, <1>2, Sizes
  DEF CopyPageDoes, Around, BackOf, Before, PointOK, Alone, Marking, Logging, WritePoints,
      WriterHdrOK, Writing, useWal, Numbers, Moves, SameCall, SameWal, SameJob, WalIs, JobIs
<1>6. MarkOK(c)'
  BY <1>1, <1>2, Sizes
  DEF CopyPageDoes, Around, MarkOK, Before, PointOK, TaskOK, Alone, Logging, useWal, Marking,
      WritePoints, Numbers, Moves, SameCall, SameWal, SameJob, WalIs, JobIs
<1>7. CkptOK(c)'
  BY <1>1, <1>2, Sizes
  DEF CopyPageDoes, Around, CkptOK, Before, PointOK, CkPoints, Numbers, TaskOK, OthersStay,
      Stays, Moves, SameCall, SameWal, SameJob, WalIs, JobIs
<1> QED
  BY <1>1, <1>2, <1>3, <1>4, <1>5, <1>6, <1>7, MarksCalm

LEMMA CheckpointFailsMarks ==
  ASSUME MarkInv, BaseOK', NEW c \in Conn, CheckpointFails(c)
  PROVE  MarksOK'
<1>1. /\ CheckpointFailsDoes(c) /\ OthersStay(c) /\ Around(c) /\ Before(c)'
      /\ aHdr'[0].mx \in 0 .. MaxFrame /\ wal'[c].minFrame \in 0 .. MaxFrame + 1
  BY AroundOK, AfterOK, CheckpointFailsEffect DEF OwnOK
<1>2. /\ aHdr' = aHdr /\ nBackfill' = nBackfill /\ aReadMark' = aReadMark
      /\ pc[c] # "restarted" /\ pc'[c] # "restart"
  BY <1>1
  DEF CheckpointFailsDoes, Around, Before, PointOK, shmVars, Moves, SameCall, SameWal, SameJob,
      WalIs, JobIs
<1>3. MarkKept(c)
  BY <1>1, <1>2, Sizes
  DEF CheckpointFailsDoes, Around, MarkKept, PointOK, Before, WritePoints, Waiting, TaskOK,
      Alone, useWal, Numbers, Moves, SameCall, SameWal, SameJob, WalIs, JobIs
<1>4. CkptKept(c)
  BY <1>1, <1>2, Sizes
  DEF CheckpointFailsDoes, Around, CkptKept, Moves, SameCall, SameWal, SameJob, WalIs, JobIs
<1>5. BackOf(c)'
  BY <1>1, <1>2, Sizes
  DEF CheckpointFailsDoes, Around, BackOf, Before, PointOK, Alone, Marking, Logging,
      WritePoints, WriterHdrOK, Writing, useWal, Numbers, Moves, SameCall, SameWal, SameJob,
      WalIs, JobIs
<1>6. MarkOK(c)'
  BY <1>1, <1>2, Sizes
  DEF CheckpointFailsDoes, Around, MarkOK, Before, PointOK, TaskOK, Alone, Logging, useWal,
      Marking, WritePoints, Numbers, Moves, SameCall, SameWal, SameJob, WalIs, JobIs
<1>7. CkptOK(c)'
  BY <1>1, <1>2, Sizes
  DEF CheckpointFailsDoes, Around, CkptOK, Before, PointOK, CkPoints, Numbers, TaskOK,
      OthersStay, Stays, Moves, SameCall, SameWal, SameJob, WalIs, JobIs
<1> QED
  BY <1>1, <1>2, <1>3, <1>4, <1>5, <1>6, <1>7, MarksCalm

LEMMA EndCheckpointMarks ==
  ASSUME MarkInv, BaseOK', NEW c \in Conn, EndCheckpoint(c)
  PROVE  MarksOK'
<1>1. /\ EndCheckpointDoes(c) /\ OthersStay(c) /\ Around(c) /\ Before(c)'
      /\ aHdr'[0].mx \in 0 .. MaxFrame /\ wal'[c].minFrame \in 0 .. MaxFrame + 1
  BY AroundOK, AfterOK, EndCheckpointEffect DEF OwnOK
<1>2. /\ aHdr' = aHdr /\ nBackfill' = nBackfill /\ aReadMark' = aReadMark
      /\ pc[c] # "restarted" /\ pc'[c] # "restart"
  BY <1>1
  DEF EndCheckpointDoes, Around, Before, PointOK, shmVars, Moves, SameCall, SameWal, SameJob,
      WalIs, JobIs, HdrAfter, NoJob, NoHdr
<1>3. MarkKept(c)
  BY <1>1, <1>2, Sizes
  DEF EndCheckpointDoes, Around, MarkKept, PointOK, Before, WritePoints, Waiting, TaskOK,
      Alone, useWal, Numbers, Moves, SameCall, SameWal, SameJob, WalIs, JobIs, HdrAfter, NoJob,
      NoHdr
<1>4. CkptKept(c)
  BY <1>1, <1>2, Sizes
  DEF EndCheckpointDoes, Around, CkptKept, Moves, SameCall, SameWal, SameJob, WalIs, JobIs,
      HdrAfter, NoJob, NoHdr
<1>5. BackOf(c)'
  BY <1>1, <1>2, Sizes
  DEF EndCheckpointDoes, Around, BackOf, Before, PointOK, Alone, Marking, Logging, WritePoints,
      WriterHdrOK, Writing, useWal, Numbers, Moves, SameCall, SameWal, SameJob, WalIs, JobIs,
      HdrAfter, NoJob, NoHdr
<1>6. MarkOK(c)'
  BY <1>1, <1>2, Sizes
  DEF EndCheckpointDoes, Around, MarkOK, Before, PointOK, TaskOK, Alone, Logging, useWal,
      Marking, WritePoints, Numbers, Moves, SameCall, SameWal, SameJob, WalIs, JobIs, HdrAfter,
      NoJob, NoHdr
<1>7. CkptOK(c)'
  BY <1>1, <1>2, Sizes
  DEF EndCheckpointDoes, Around, CkptOK, Before, PointOK, CkPoints, Numbers, TaskOK,
      OthersStay, Stays, Moves, SameCall, SameWal, SameJob, WalIs, JobIs, HdrAfter, NoJob,
      NoHdr
<1> QED
  BY <1>1, <1>2, <1>3, <1>4, <1>5, <1>6, <1>7, MarksCalm

LEMMA SyncHeaderMarks ==
  ASSUME MarkInv, BaseOK', NEW c \in Conn, SyncHeader(c)
  PROVE  MarksOK'
<1>1. /\ SyncHeaderDoes(c) /\ OthersStay(c) /\ Around(c) /\ Before(c)'
      /\ aHdr'[0].mx \in 0 .. MaxFrame /\ wal'[c].minFrame \in 0 .. MaxFrame + 1
  BY AroundOK, AfterOK, SyncHeaderEffect DEF OwnOK
<1>2. /\ aHdr' = aHdr /\ nBackfill' = nBackfill /\ aReadMark' = aReadMark
      /\ pc[c] # "restarted" /\ pc'[c] # "restart"
  BY <1>1
  DEF SyncHeaderDoes, Around, Before, PointOK, shmVars, Moves, SameCall, SameWal, SameJob,
      WalIs, JobIs
<1>3. MarkKept(c)
  BY <1>1, <1>2, Sizes
  DEF SyncHeaderDoes, Around, MarkKept, PointOK, Before, WritePoints, Waiting, TaskOK, Alone,
      useWal, Numbers, Moves, SameCall, SameWal, SameJob, WalIs, JobIs
<1>4. CkptKept(c)
  BY <1>1, <1>2, Sizes
  DEF SyncHeaderDoes, Around, CkptKept, Moves, SameCall, SameWal, SameJob, WalIs, JobIs
<1>5. BackOf(c)'
  BY <1>1, <1>2, Sizes
  DEF SyncHeaderDoes, Around, BackOf, Before, PointOK, Alone, Marking, Logging, WritePoints,
      WriterHdrOK, Writing, useWal, Numbers, Moves, SameCall, SameWal, SameJob, WalIs, JobIs
<1>6. MarkOK(c)'
  BY <1>1, <1>2, Sizes
  DEF SyncHeaderDoes, Around, MarkOK, Before, PointOK, TaskOK, Alone, Logging, useWal, Marking,
      WritePoints, Numbers, Moves, SameCall, SameWal, SameJob, WalIs, JobIs
<1>7. CkptOK(c)'
  BY <1>1, <1>2, Sizes
  DEF SyncHeaderDoes, Around, CkptOK, Before, PointOK, CkPoints, Numbers, TaskOK, OthersStay,
      Stays, Moves, SameCall, SameWal, SameJob, WalIs, JobIs
<1> QED
  BY <1>1, <1>2, <1>3, <1>4, <1>5, <1>6, <1>7, MarksCalm

LEMMA LockZeroMarks ==
  ASSUME MarkInv, BaseOK', NEW c \in Conn, LockZero(c)
  PROVE  MarksOK'
<1>1. /\ LockZeroDoes(c) /\ OthersStay(c) /\ Around(c) /\ Before(c)'
      /\ aHdr'[0].mx \in 0 .. MaxFrame /\ wal'[c].minFrame \in 0 .. MaxFrame + 1
  BY AroundOK, AfterOK, LockZeroEffect DEF OwnOK
<1>2. /\ aHdr' = aHdr /\ nBackfill' = nBackfill /\ aReadMark' = aReadMark
      /\ pc[c] # "restarted" /\ pc'[c] # "restart"
  BY <1>1
  DEF LockZeroDoes, Around, Before, PointOK, shmVars, Moves, SameCall, SameWal, SameJob, WalIs,
      JobIs
<1>3. MarkKept(c)
  BY <1>1, <1>2, Sizes
  DEF LockZeroDoes, Around, MarkKept, PointOK, Before, WritePoints, Waiting, TaskOK, Alone,
      useWal, Numbers, Moves, SameCall, SameWal, SameJob, WalIs, JobIs
<1>4. CkptKept(c)
  BY <1>1, <1>2, Sizes
  DEF LockZeroDoes, Around, CkptKept, Moves, SameCall, SameWal, SameJob, WalIs, JobIs
<1>5. BackOf(c)'
  BY <1>1, <1>2, Sizes
  DEF LockZeroDoes, Around, BackOf, Before, PointOK, Alone, Marking, Logging, WritePoints,
      WriterHdrOK, Writing, useWal, Numbers, Moves, SameCall, SameWal, SameJob, WalIs, JobIs
<1>6. MarkOK(c)'
  BY <1>1, <1>2, Sizes
  DEF LockZeroDoes, Around, MarkOK, Before, PointOK, TaskOK, Alone, Logging, useWal, Marking,
      WritePoints, Numbers, Moves, SameCall, SameWal, SameJob, WalIs, JobIs
<1>7. CkptOK(c)'
  BY <1>1, <1>2, Sizes
  DEF LockZeroDoes, Around, CkptOK, Before, PointOK, CkPoints, Numbers, TaskOK, OthersStay,
      Stays, Moves, SameCall, SameWal, SameJob, WalIs, JobIs
<1> QED
  BY <1>1, <1>2, <1>3, <1>4, <1>5, <1>6, <1>7, MarksCalm

LEMMA WriteMarks ==
  ASSUME MarkInv, BaseOK', NEW c \in Conn, NEW p \in Page, Write(c, p)
  PROVE  MarksOK'
<1>1. /\ WriteDoes(c, p) /\ OthersStay(c) /\ Around(c) /\ Before(c)'
      /\ aHdr'[0].mx \in 0 .. MaxFrame /\ wal'[c].minFrame \in 0 .. MaxFrame + 1
  BY AroundOK, AfterOK, WriteEffect DEF OwnOK
<1>2. /\ aHdr' = aHdr /\ nBackfill' = nBackfill /\ aReadMark' = aReadMark
      /\ pc[c] # "restarted" /\ pc'[c] # "restart"
  BY <1>1
  DEF WriteDoes, Around, Before, PointOK, shmVars, Moves, SameCall, SameWal, SameJob, WalIs,
      JobIs
<1>3. MarkKept(c)
  BY <1>1, <1>2, Sizes
  DEF WriteDoes, Around, MarkKept, PointOK, Before, WritePoints, Waiting, TaskOK, Alone,
      useWal, Numbers, Moves, SameCall, SameWal, SameJob, WalIs, JobIs
<1>4. CkptKept(c)
  BY <1>1, <1>2, Sizes
  DEF WriteDoes, Around, CkptKept, Moves, SameCall, SameWal, SameJob, WalIs, JobIs
<1>5. BackOf(c)'
  BY <1>1, <1>2, Sizes
  DEF WriteDoes, Around, BackOf, Before, PointOK, Alone, Marking, Logging, WritePoints,
      WriterHdrOK, Writing, useWal, Numbers, Moves, SameCall, SameWal, SameJob, WalIs, JobIs
<1>6. MarkOK(c)'
  BY <1>1, <1>2, Sizes
  DEF WriteDoes, Around, MarkOK, Before, PointOK, TaskOK, Alone, Logging, useWal, Marking,
      WritePoints, Numbers, Moves, SameCall, SameWal, SameJob, WalIs, JobIs
<1>7. CkptOK(c)'
  BY <1>1, <1>2, Sizes
  DEF WriteDoes, Around, CkptOK, Before, PointOK, CkPoints, Numbers, TaskOK, OthersStay, Stays,
      Moves, SameCall, SameWal, SameJob, WalIs, JobIs
<1> QED
  BY <1>1, <1>2, <1>3, <1>4, <1>5, <1>6, <1>7, MarksCalm

LEMMA FramesMarks ==
  ASSUME MarkInv, BaseOK', NEW c \in Conn,
         NEW what \in {"spill", "commit"}, NEW pages \in SUBSET Page, Frames(c, what, pages)
  PROVE  MarksOK'
<1>1. /\ FramesDoes(c, what, pages) /\ OthersStay(c) /\ Around(c) /\ Before(c)'
      /\ aHdr'[0].mx \in 0 .. MaxFrame /\ wal'[c].minFrame \in 0 .. MaxFrame + 1
  BY AroundOK, AfterOK, FramesEffect DEF OwnOK
<1>2. /\ aHdr' = aHdr /\ nBackfill' = nBackfill /\ aReadMark' = aReadMark
      /\ pc[c] # "restarted" /\ pc'[c] # "restart"
  BY <1>1
  DEF FramesDoes, Around, Before, PointOK, shmVars, Moves, SameCall, SameWal, SameJob, WalIs,
      JobIs
<1>3. MarkKept(c)
  BY <1>1, <1>2, Sizes
  DEF FramesDoes, Around, MarkKept, PointOK, Before, WritePoints, Waiting, TaskOK, Alone,
      useWal, Numbers, Moves, SameCall, SameWal, SameJob, WalIs, JobIs
<1>4. CkptKept(c)
  BY <1>1, <1>2, Sizes
  DEF FramesDoes, Around, CkptKept, Moves, SameCall, SameWal, SameJob, WalIs, JobIs
<1>5. BackOf(c)'
  BY <1>1, <1>2, Sizes
  DEF FramesDoes, Around, BackOf, Before, PointOK, Alone, Marking, Logging, WritePoints,
      WriterHdrOK, Writing, useWal, Numbers, Moves, SameCall, SameWal, SameJob, WalIs, JobIs
<1>6. MarkOK(c)'
  BY <1>1, <1>2, Sizes
  DEF FramesDoes, Around, MarkOK, Before, PointOK, TaskOK, Alone, Logging, useWal, Marking,
      WritePoints, Numbers, Moves, SameCall, SameWal, SameJob, WalIs, JobIs
<1>7. CkptOK(c)'
  BY <1>1, <1>2, Sizes
  DEF FramesDoes, Around, CkptOK, Before, PointOK, CkPoints, Numbers, TaskOK, OthersStay,
      Stays, Moves, SameCall, SameWal, SameJob, WalIs, JobIs
<1> QED
  BY <1>1, <1>2, <1>3, <1>4, <1>5, <1>6, <1>7, MarksCalm

-----------------------------------------------------------------------------
(* The steps that change what others go by. *)

LEMMA ChooseMarkMarks ==
  ASSUME MarkInv, BaseOK', NEW c \in Conn, ChooseMark(c)
  PROVE  MarksOK'
<1>1. ChooseMarkDoes(c) /\ OthersStay(c) /\ Around(c) /\ TypesOK
  BY AroundOK, ChooseMarkEffect DEF Around, Before
<1>2. /\ aHdr' = aHdr /\ nBackfill' = nBackfill /\ pc[c] \in {"choose", "marks"}
      /\ wal'[c] = wal[c] /\ call'[c] = call[c]
      /\ pc'[c] = "chosen" \/ pc'[c] = Retry(c)
  BY <1>1 DEF ChooseMarkDoes, SameCall, SameWal
<1>3. wal[c].readLock = -1
  BY <1>1, <1>2, Sizes DEF Around, Before, PointOK, Numbers, WritePoints
<1>4. HeldMarksStay(c)
  <2> SUFFICES ASSUME NEW d \in Conn \ {c}, wal[d].readLock > 0
               PROVE  aReadMark'[wal[d].readLock] = aReadMark[wal[d].readLock]
    BY DEF HeldMarksStay
  <2>1. aReadMark \in [Mark -> 0 .. MaxFrame + 1] /\ wal[d].readLock \in Mark
    BY <1>1, AroundOK DEF TypesOK, TypeOK, READMARK_NOT_USED, Around
  <2>2. CASE aReadMark' = aReadMark
    BY <2>2
  <2>3. ASSUME NEW i \in Mark, NEW m \in 0 .. wal[c].hdr.mx, CanExclude(c, {WAL_READ_LOCK(i)}),
               aReadMark' = [aReadMark EXCEPT ![i] = m]
        PROVE  aReadMark'[wal[d].readLock] = aReadMark[wal[d].readLock]
    <3>1. wal[d].readLock # i
      BY <2>3, Holders DEF MarkInv
    <3> QED
      BY <2>1, <2>3, <3>1
  <2> QED
    BY <1>1, <2>2, <2>3 DEF ChooseMarkDoes
<1>5. BackOf(c)'
  BY <1>1, <1>2, <1>3 DEF Around, BackOf, Before, PointOK, Alone, Marking, Retry, useWal
<1>6. MarkOK(c)' /\ CkptOK(c)' /\ MarkKept(c) /\ CkptKept(c) /\ pc'[c] # "restart"
  BY <1>2, <1>3 DEF MarkOK, CkptOK, MarkKept, CkptKept, Retry
<1>7. \A k, d \in Conn : SafeOK(k, d)'
  BY <1>1, <1>6, SafeKept
<1> QED
  BY <1>1, <1>2, <1>4, <1>5, <1>6, <1>7, MarksPut

\* A mark that limits a checkpoint is that of a reader, or of none.
LEMMA VisitMarkMarks ==
  ASSUME MarkInv, BaseOK', NEW c \in Conn, VisitMark(c)
  PROVE  MarksOK'
<1> DEFINE i == job[c].slot
<1>1. VisitMarkDoes(c) /\ OthersStay(c) /\ Around(c) /\ TypesOK /\ Numbers(c)
  BY AroundOK, VisitMarkEffect DEF Around, Before
<1>2. /\ aHdr' = aHdr /\ nBackfill' = nBackfill /\ pc[c] = "ckslot" /\ call'[c] = call[c]
      /\ wal'[c] = wal[c] /\ pc'[c] = (IF i = NMark THEN "ckzero" ELSE "ckslot")
      /\ job'[c].slot = i + 1
      /\ job'[c].mark <= job[c].mark
  BY <1>1, Sizes
  DEF VisitMarkDoes, SameCall, SameWal, Moves, JobIs, Numbers, Around, Before, PointOK
<1>3. wal[c].readLock = -1 /\ call[c] = "ckpt" /\ i \in Mark
  BY <1>1, <1>2, Sizes DEF Around, Before, PointOK, Numbers, WritePoints, CkPoints
<1>4. aReadMark[i] \in 0 .. MaxFrame + 1
  BY <1>1, <1>3, Types
<1>5. HeldMarksStay(c)
  <2> SUFFICES ASSUME NEW d \in Conn \ {c}, wal[d].readLock > 0
               PROVE  aReadMark'[wal[d].readLock] = aReadMark[wal[d].readLock]
    BY DEF HeldMarksStay
  <2>1. aReadMark \in [Mark -> 0 .. MaxFrame + 1] /\ wal[d].readLock \in Mark
    BY <1>1, AroundOK DEF TypesOK, TypeOK, READMARK_NOT_USED, Around
  <2>2. CASE aReadMark' = aReadMark
    BY <2>2
  <2>3. CASE CanExclude(c, {WAL_READ_LOCK(i)})
    <3>1. wal[d].readLock # i
      BY <1>3, <2>3, Holders DEF MarkInv
    <3> QED
      BY <1>1, <2>1, <3>1 DEF VisitMarkDoes
  <2> QED
    BY <1>1, <2>2, <2>3 DEF VisitMarkDoes
<1>6. BackOf(c)'
  BY <1>2, <1>3 DEF BackOf, useWal
<1>7. MarkOK(c)' /\ CkptOK(c)' /\ pc'[c] # "restart"
  <2>1. \A d \in Conn : pc'[d] # "restart"
    BY <1>1, <1>2 DEF Around, CkptOK, OthersStay, Stays
  <2> QED
    BY <1>1, <1>2, <1>3, <2>1 DEF MarkOK, CkptOK, Around
<1>8. ASSUME NEW k \in Conn, NEW d \in Conn
      PROVE  SafeOK(k, d)'
  <2>1. SafeOK(k, d) /\ Around(d) /\ Numbers(d)
    BY AroundOK DEF MarkInv, MarksOK, Around, Before
  <2>2. CASE k # c
    <3>1. Stays(k) /\ wal'[d] = wal[d]
      BY <1>1, <1>2, <2>2 DEF OthersStay, Stays
    <3> QED
      BY <2>1, <3>1 DEF SafeOK, Passed, Stays
  <2>3. CASE k = c /\ d = c
    BY <1>2, <1>3, <2>3 DEF SafeOK, Passed
  <2>4. CASE k = c /\ d # c
    <3>1. wal'[d] = wal[d]
      BY <1>1, <2>4 DEF OthersStay, Stays
    <3> SUFFICES ASSUME Passed(c, d)'
                 PROVE  job'[c].mark <= wal[d].hdr.mx
      BY <2>4, <3>1 DEF SafeOK
    <3>2. wal[d].readLock > 0 /\ wal[d].readLock <= i
      BY <1>1, <1>2, <2>1, <3>1, Sizes DEF Passed, Numbers
    <3>3. job[c].mark \in Int /\ wal[d].hdr.mx \in Int /\ wal[d].readLock \in Int /\ i \in Int
      BY <1>1, <2>1, Sizes DEF Numbers
    <3>4. CASE wal[d].readLock < i
      <4>1. job[c].mark <= wal[d].hdr.mx
        BY <1>2, <2>1, <2>4, <3>2, <3>4 DEF SafeOK, Passed
      <4>2. job'[c].mark \in Int
        BY <1>1, <1>4, <3>3 DEF VisitMarkDoes, JobIs
      <4> QED
        BY <1>2, <3>3, <4>1, <4>2
    <3>5. CASE wal[d].readLock = i
      <4>1. aReadMark[i] <= wal[d].hdr.mx
        BY <2>1, <3>2, <3>5 DEF Around, MarkOK
      <4>2. ~CanExclude(c, {WAL_READ_LOCK(i)})
        BY <1>3, <2>4, <3>5, Holders DEF MarkInv
      <4> QED
        BY <1>1, <1>4, <3>3, <4>1, <4>2 DEF VisitMarkDoes, JobIs
    <3> QED
      BY <3>2, <3>3, <3>4, <3>5
  <2> QED
    BY <2>2, <2>3, <2>4
<1> QED
  BY <1>1, <1>2, <1>5, <1>6, <1>7, <1>8, MarksPut

\* A checkpoint ends with all of the log in the database, or some readers
\* have their header from before.
LEMMA BackfilledMarks ==
  ASSUME MarkInv, BaseOK', NEW c \in Conn, Backfilled(c)
  PROVE  MarksOK'
<1> DEFINE m == job[c].mark
<1>1. BackfilledDoes(c) /\ OthersStay(c) /\ Around(c) /\ Numbers(c)
  BY AroundOK, BackfilledEffect DEF Around, Before
<1>2. /\ aHdr' = aHdr /\ aReadMark' = aReadMark /\ pc[c] = "ckcopy" /\ pc'[c] = "ckend"
      /\ wal'[c] = wal[c] /\ call'[c] = call[c] /\ nBackfill' = m /\ SameJob(c)
  BY <1>1 DEF BackfilledDoes, SameCall, SameWal, Moves
<1>3. wal[c].readLock = -1 /\ call[c] = "ckpt"
  BY <1>1, <1>2, Sizes DEF Around, Before, PointOK, Numbers, WritePoints, CkPoints
<1>4. nBackfill < m /\ m <= aHdr[0].mx /\ m \in 0 .. MaxFrame /\ nBackfill \in 0 .. MaxFrame
      /\ aHdr[0].mx \in 0 .. MaxFrame
  BY <1>1, <1>2, Sizes DEF Around, Before, TaskOK, CkptOK, Numbers
<1>5. \A k, d \in Conn : SafeOK(k, d)'
  <2>1. MarkKept(c) /\ CkptKept(c)
    BY <1>2, <1>3 DEF MarkKept, CkptKept
  <2> QED
    BY <1>1, <2>1, SafeKept
<1>6. BackOf(c)' /\ MarkOK(c)' /\ CkptOK(c)'
  BY <1>2, <1>3 DEF BackOf, MarkOK, CkptOK, useWal
<1>7. ASSUME NEW d \in Conn \ {c}
      PROVE  BackOf(d)' /\ MarkOK(d)' /\ CkptOK(d)'
  <2>1. Stays(d) /\ Around(d) /\ pc[d] # "ckcopy"
    BY <1>1, <1>2, AroundOK, Holders DEF OthersStay, MarkInv, CkPoints
  <2>2. BackOf(d)'
    <3>1. useWal(d)' <=> useWal(d)
      BY <2>1 DEF Stays, useWal
    <3> QED
      BY <1>2, <1>4, <2>1, <3>1, Sizes DEF Around, BackOf, Stays
  <2>3. MarkOK(d)'
    BY <1>2, <1>4, <2>1, Sizes DEF Around, MarkOK, Stays
  <2>4. CkptOK(d)'
    <3>1. \A e \in Conn \ {c} : pc'[e] = pc[e]
      BY <1>1 DEF OthersStay, Stays
    <3> QED
      BY <1>2, <2>1, <3>1 DEF Around, CkptOK, Stays
  <2> QED
    BY <2>2, <2>3, <2>4
<1>8. nBackfill' <= aHdr'[0].mx
  BY <1>2, <1>4
<1> QED
  BY <1>5, <1>6, <1>7, <1>8 DEF MarksOK, BackOK

\* A new log overtakes every checkpoint that has read the header and has no lock yet.
LEMMA RestartOvertakes ==
  ASSUME TypesOK, NoneOvertaken', NEW c \in Conn, RestartHdrDoes(c), OthersStay(c),
         NEW d \in Conn
  PROVE  ~BeforeLock(d)
<1> SUFFICES ASSUME BeforeLock(d)
             PROVE  FALSE
  OBVIOUS
<1>1. /\ pc[c] = "frames" /\ Fresh # {} /\ nBackfill > 0 /\ nBackfill' = nBackfill
      /\ aHdr' = [aHdr EXCEPT ![1] = [init |-> TRUE, salt |-> NewSalt, mx |-> 0, sum |-> <<>>]]
  BY DEF RestartHdrDoes, Moves, MayRestart
<1>2. aHdr'[1].salt = NewSalt
  BY <1>1, Fields DEF SharedTypes
<1>3. pc'[d] = pc[d] /\ wal'[d] = wal[d]
  BY <1>1 DEF BeforeLock, OthersStay, Stays
<1>4. NewSalt # wal[d].hdr.salt
  BY <1>1, NewSaltIn DEF Salts
<1>5. BeforeLock(d)'
  BY <1>3 DEF BeforeLock
<1>6. wal'[d].hdr.salt = aHdr'[1].salt \/ nBackfill' = 0
  BY <1>5 DEF NoneOvertaken
<1> QED
  BY <1>1, <1>2, <1>3, <1>4, <1>6

\* The log is begun anew with all of it in the database, and no checkpoint at work.
LEMMA RestartHdrMarks ==
  ASSUME MarkInv, BaseOK', NoneOvertaken', NEW c \in Conn, RestartHdr(c)
  PROVE  MarksOK'
<1>1. RestartHdrDoes(c) /\ OthersStay(c) /\ Around(c) /\ Before(c)'
  BY AroundOK, AfterOK, RestartHdrEffect DEF Around, Before
<1>0. TypesOK
  BY AroundOK
<1>2. /\ aHdr'[0] = aHdr[0] /\ nBackfill' = nBackfill /\ aReadMark' = aReadMark
      /\ pc[c] = "frames" /\ pc'[c] = "restart" /\ wal[c].readLock = 0 /\ wal'[c].readLock = 0
      /\ nBackfill > 0
  BY <1>0, <1>1 DEF RestartHdrDoes, Moves, WalIs, MayRestart, TypesOK
<1>3. NoneCopies
  <2> SUFFICES ASSUME NEW d \in Conn, pc[d] = "ckcopy"
               PROVE  FALSE
    BY <1>0, <1>1, RestartOvertakes DEF NoneCopies, BeforeLock
  <2> QED
    BY <1>2, Holders DEF MarkInv
<1>4. BackOf(c)'
  <2>1. nBackfill = aHdr[0].mx
    BY <1>1, <1>2 DEF Around, BackOf, Before, WriterHdrOK
  <2>2. wal'[c].hdr # aHdr'[0]
    BY <1>1, <1>2 DEF Before, WriterHdrOK
  <2> QED
    BY <1>2, <2>1, <2>2 DEF BackOf
<1>5. MarkOK(c)' /\ CkptOK(c)' /\ MarkKept(c) /\ CkptKept(c)
  BY <1>2 DEF MarkOK, CkptOK, MarkKept, CkptKept
<1>6. \A k, d \in Conn : SafeOK(k, d)'
  BY <1>1, <1>5, SafeKept
<1>7. HeldMarksStay(c)
  BY <1>2 DEF HeldMarksStay
<1> QED
  BY <1>1, <1>2, <1>3, <1>4, <1>5, <1>6, <1>7, MarksPut

LEMMA RestartHdr0Marks ==
  ASSUME MarkInv, BaseOK', NEW c \in Conn, RestartHdr0(c)
  PROVE  MarksOK'
<1>1. RestartHdr0Does(c) /\ OthersStay(c) /\ Around(c) /\ TypesOK
  BY AroundOK, RestartHdr0Effect DEF Around, Before
<1>2. /\ aHdr'[0] = wal[c].hdr /\ nBackfill' = nBackfill /\ aReadMark' = aReadMark
      /\ pc[c] = "restart" /\ pc'[c] = "restarted" /\ wal[c].readLock = 0 /\ wal'[c] = wal[c]
      /\ wal[c].hdr.init /\ Fresher(c) /\ nBackfill > 0 /\ Writing(c)
  BY <1>1
  DEF RestartHdr0Does, Around, Before, PointOK, WriterHdrOK, BackOf, Moves, SameWal, TypesOK,
      Waiting, Writing, WritePoints
<1>3. BackOf(c)' /\ MarkOK(c)' /\ CkptOK(c)' /\ MarkKept(c) /\ CkptKept(c)
  BY <1>2 DEF BackOf, MarkOK, CkptOK, MarkKept, CkptKept, Marking
<1>4. \A k, d \in Conn : SafeOK(k, d)'
  BY <1>1, <1>3, SafeKept
<1>5. ASSUME NEW d \in Conn \ {c}
      PROVE  BackOf(d)' /\ MarkOK(d)' /\ CkptOK(d)'
  <2>1. Stays(d) /\ Around(d) /\ wal[d].readLock <= 0 /\ pc[d] # "check"
    BY <1>1, <1>2, AroundOK, Holders DEF OthersStay, MarkInv
  <2>2. ~Writing(d)
    BY <1>2, Rivals DEF MarkInv
  <2>3. wal[d].hdr # aHdr'[0]
    BY <1>2 DEF Fresher
  <2>4. BackOf(d)'
    BY <2>1, <2>2, <2>3 DEF BackOf, Stays, Writing, WritePoints, useWal
  <2>5. MarkOK(d)'
    <3>1. ~(wal[d].readLock > 0)
      <4>1. wal[d].readLock \in Int
        BY <2>1, Sizes DEF Around, Before, Numbers
      <4> QED
        BY <2>1, <4>1
    <3> QED
      BY <2>1, <3>1 DEF MarkOK, Stays
  <2>6. CkptOK(d)'
    BY <1>2, <2>1 DEF CkptOK, Around, Stays
  <2> QED
    BY <2>4, <2>5, <2>6
<1> QED
  BY <1>2, <1>3, <1>4, <1>5 DEF MarksOK, BackOK

LEMMA RestartInfoMarks ==
  ASSUME MarkInv, BaseOK', NEW c \in Conn, RestartInfo(c)
  PROVE  MarksOK'
<1>1. RestartInfoDoes(c) /\ OthersStay(c) /\ Around(c)
  BY AroundOK, RestartInfoEffect DEF Around, Before
<1>2. /\ aHdr' = aHdr /\ nBackfill' = 0 /\ pc[c] = "restarted" /\ pc'[c] = "choose"
      /\ wal'[c].readLock = -1 /\ wal'[c].hdr = wal[c].hdr /\ aHdr[0].mx = 0 /\ Writing(c)
  BY <1>1 DEF RestartInfoDoes, Around, Before, WriterHdrOK, Moves, WalIs, Writing, WritePoints
<1>3. BackOf(c)' /\ MarkOK(c)' /\ CkptOK(c)' /\ MarkKept(c) /\ CkptKept(c)
  BY <1>2 DEF BackOf, MarkOK, CkptOK, MarkKept, CkptKept
<1>4. \A k, d \in Conn : SafeOK(k, d)'
  BY <1>1, <1>3, SafeKept
<1>5. ASSUME NEW d \in Conn \ {c}
      PROVE  BackOf(d)' /\ MarkOK(d)' /\ CkptOK(d)'
  <2>1. Stays(d) /\ Around(d) /\ wal[d].readLock <= 0 /\ pc[d] # "check"
    BY <1>1, <1>2, AroundOK, Holders DEF OthersStay, MarkInv
  <2>2. ~Writing(d)
    BY <1>2, Rivals DEF MarkInv
  <2>3. BackOf(d)'
    BY <1>2, <2>1, <2>2 DEF BackOf, Stays, Writing, WritePoints
  <2>4. MarkOK(d)'
    <3>1. ~(wal[d].readLock > 0)
      <4>1. wal[d].readLock \in Int
        BY <2>1, Sizes DEF Around, Before, Numbers
      <4> QED
        BY <2>1, <4>1
    <3> QED
      BY <2>1, <3>1 DEF MarkOK, Stays
  <2>5. CkptOK(d)'
    <3>1. \A e \in Conn \ {c} : pc'[e] = pc[e]
      BY <1>1 DEF OthersStay, Stays
    <3>2. pc[d] # "ckcopy" \/ 0 < job[d].mark
      BY <2>1, Sizes DEF Around, CkptOK, Before, Numbers
    <3> QED
      BY <1>2, <2>1, <3>1, <3>2 DEF Around, CkptOK, Stays
  <2> QED
    BY <2>3, <2>4, <2>5
<1> QED
  BY <1>2, <1>3, <1>4, <1>5 DEF MarksOK, BackOK

\* A commit leaves behind those who ignore the log.
LEMMA PublishHdr0Marks ==
  ASSUME MarkInv, BaseOK', NEW c \in Conn, PublishHdr0(c)
  PROVE  MarksOK'
<1>1. PublishHdr0Does(c) /\ OthersStay(c) /\ Around(c) /\ TypesOK
  BY AroundOK, PublishHdr0Effect DEF Around, Before
<1>2. /\ aHdr'[0] = wal[c].hdr /\ nBackfill' = nBackfill /\ aReadMark' = aReadMark
      /\ pc[c] = "publish0" /\ pc'[c] = "reader" /\ wal[c].readLock > 0 /\ wal'[c] = wal[c]
      /\ wal[c].hdr.init /\ wal[c].hdr.mx > aHdr[0].mx /\ Writing(c) /\ call'[c] = "none"
      /\ wal[c].hdr.mx \in 0 .. MaxFrame /\ aHdr[0].mx \in 0 .. MaxFrame
      /\ (wal[c].hdr.salt # aHdr[0].salt => Fresher(c))
  BY <1>1
  DEF PublishHdr0Does, Around, Before, PointOK, WriterHdrOK, Moves, SameWal, TypesOK, Numbers,
      Waiting, Logging, Writing, WritePoints
<1>3. BackOf(c)' /\ CkptOK(c)'
  BY <1>2 DEF BackOf, CkptOK, useWal
<1>4. MarkOK(c)'
  BY <1>1, <1>2, Sizes DEF MarkOK, Around
<1>5. \A k, d \in Conn : SafeOK(k, d)'
  <2>1. MarkKept(c) /\ CkptKept(c)
    BY <1>2, Sizes DEF MarkKept, CkptKept
  <2> QED
    BY <1>1, <2>1, SafeKept
<1>6. ASSUME NEW d \in Conn \ {c}
      PROVE  BackOf(d)' /\ MarkOK(d)' /\ CkptOK(d)'
  <2>1. Stays(d) /\ Around(d)
    BY <1>1, AroundOK DEF OthersStay
  <2>2. ~Writing(d)
    BY <1>2, Rivals DEF MarkInv
  <2>3. wal[d].hdr # aHdr'[0]
    BY <1>2, <2>1, <2>2, Sizes DEF Fresher, Around, Before, OtherHdrOK
  <2>4. BackOf(d)'
    BY <2>1, <2>2, <2>3 DEF BackOf, Stays, Writing, WritePoints, useWal
  <2>5. MarkOK(d)'
    BY <1>2, <2>1, Sizes DEF Around, MarkOK, Stays, Before, Numbers
  <2>6. CkptOK(d)'
    <3>1. \A e \in Conn : pc'[e] = "restart" => pc[e] = "restart"
      BY <1>1, <1>2 DEF OthersStay, Stays
    <3> QED
      BY <1>2, <2>1, <3>1, Sizes DEF Around, CkptOK, Stays, Before, Numbers
  <2> QED
    BY <2>4, <2>5, <2>6
<1>7. nBackfill' <= aHdr'[0].mx
  <2>1. \A d \in Conn : pc[d] # "restarted"
    BY <1>2, Rivals DEF MarkInv, Writing, WritePoints
  <2> QED
    BY <1>1, <1>2, <2>1, Sizes DEF MarkInv, MarksOK, BackOK, Around
<1> QED
  BY <1>3, <1>4, <1>5, <1>6, <1>7 DEF MarksOK, BackOK

LEMMA RecoverMarks ==
  ASSUME MarkInv, BaseOK', NEW c \in Conn, Recover(c)
  PROVE  MarksOK'
<1>1. RecoverDoes(c) /\ OthersStay(c) /\ Around(c)
  BY AroundOK, RecoverEffect DEF Around, Before
<1>2. Unused
  <2>1. pc[c] \in {"idle", "ckhdr"} /\ ~HdrGood /\ CanExclude(c, RecoveryLocks(c))
    BY DEF Recover
  <2> QED
    BY <2>1, Recoverable DEF MarkInv
<1>3. /\ aHdr'[0] = RecoveredHdr(log, salt) /\ wal'[c].hdr = RecoveredHdr(log, salt)
      /\ nBackfill' = 0 /\ call'[c] = call[c] /\ wal'[c].readLock = wal[c].readLock
      /\ pc'[c] \in {"choose", "ckstart"} /\ pc[c] \in Waiting
  BY <1>1 DEF RecoverDoes, WalIs, Moves, SameCall, Waiting
<1>4. aHdr'[0].mx \in 0 .. MaxFrame
  BY AfterOK
<1>5. /\ \A d \in Conn : wal'[d].readLock = -1 /\ ~useWal(d)'
      /\ \A d \in Conn \ {c} : pc'[d] \in Waiting
  <2>1. ASSUME NEW d \in Conn
        PROVE  /\ wal[d].readLock = -1 /\ ~useWal(d) /\ pc[d] \in Waiting
               /\ wal'[d].readLock = wal[d].readLock /\ call'[d] = call[d]
               /\ (d # c => pc'[d] = pc[d])
    <3>1. pc[d] \in Waiting /\ wal[d] = NoWal /\ Around(d)
      BY <1>2, AroundOK DEF Unused
    <3>2. ~useWal(d)
      BY <3>1 DEF Around, Before, PointOK, Alone, Marking, Waiting
    <3>3. wal'[d].readLock = wal[d].readLock /\ call'[d] = call[d] /\ (d # c => pc'[d] = pc[d])
      BY <1>1, <1>3 DEF OthersStay, Stays
    <3> QED
      BY <3>1, <3>2, <3>3 DEF NoWal
  <2> QED
    BY <2>1 DEF useWal
<1>6. \A d \in Conn : BackOf(d)' /\ MarkOK(d)'
  BY <1>3, <1>5 DEF BackOf, MarkOK, Waiting
<1>7. \A d \in Conn : CkptOK(d)'
  BY <1>3, <1>4, <1>5, Sizes DEF CkptOK, Waiting
<1>8. \A k, d \in Conn : SafeOK(k, d)'
  BY <1>5 DEF SafeOK, Passed
<1> QED
  BY <1>3, <1>4, <1>6, <1>7, <1>8 DEF MarksOK, BackOK

LEMMA MarksStep ==
  ASSUME MarkInv, BaseOK', NoneOvertaken', NEW c \in Conn, StepOf(c)
  PROVE  MarksOK'
<1>1. ASSUME NEW p \in Page, Spill(c, p)
      PROVE  MarksOK'
  <2>1. {p} \in SUBSET Page /\ Frames(c, "spill", {p})
    BY <1>1, Batches DEF MarkInv, BaseOK
  <2> QED
    BY <2>1, FramesMarks
<1>2. ASSUME Commit(c)
      PROVE  MarksOK'
  <2>1. PICK pages \in SUBSET Page : Frames(c, "commit", pages)
    BY <1>2, Batches DEF MarkInv, BaseOK
  <2> QED
    BY <2>1, FramesMarks
<1>3. Read(c) => MarksOK'
  BY ReadHdrMarks, HdrLockedMarks, ChooseZeroMarks, LockMarkZeroMarks, ChooseMarkMarks,
     LockMarkMarks, CheckMarkMarks, EndReadMarks
  DEF Read
<1>4. Change(c) => MarksOK'
  BY <1>1, <1>2, BeginWriteMarks, RollbackMarks, WriteMarks, RestartHdrMarks, RestartHdr0Marks,
     RestartInfoMarks, KeepLogMarks, WriteHeaderMarks, LogPageMarks, RewriteChecksumMarks,
     PublishMarks
  DEF Change
<1>5. Checkpoint(c) => MarksOK'
  BY StartCheckpointMarks, InitIteratorMarks, VisitMarkMarks, GiveUpMarks, CopyPageMarks,
     BackfilledMarks, CheckpointFailsMarks, EndCheckpointMarks
  DEF Checkpoint
<1> QED
  BY <1>3, <1>4, <1>5, RecoverMarks, PublishHdr0Marks, SyncHeaderMarks, LockZeroMarks
  DEF StepOf

LEMMA ClosedMarks ==
  ASSUME Closed, TypesOK
  PROVE  MarksOK
<1>1. /\ aHdr[0].mx = 0 /\ nBackfill = 0
      /\ \A c \in Conn : pc[c] = "idle" /\ ~useWal(c) /\ wal[c].readLock = -1
  BY DEF Closed, NoHdr, NoWal, useWal
<1>2. \A c \in Conn : BackOf(c) /\ MarkOK(c) /\ CkptOK(c)
  BY <1>1 DEF BackOf, MarkOK, CkptOK
<1>3. \A k, c \in Conn : SafeOK(k, c)
  BY <1>1 DEF SafeOK, Passed
<1> QED
  BY <1>1, <1>2, <1>3 DEF MarksOK, BackOK

LEMMA MarksUnchanged ==
  ASSUME MarksOK, UNCHANGED <<shmVars, wal, pc, call, job>>
  PROVE  MarksOK'
  BY DEF MarksOK, BackOK, BackOf, MarkOK, CkptOK, SafeOK, Passed, useWal, shmVars

\* A log is never counted as copied beyond its end, and a writer that ignores it
\* has all of it in the database, as long as no checkpoint is overtaken by a new one.
LEMMA MarkInvStep ==
  ASSUME MarkInv, NoneOvertaken', [Next]_vars
  PROVE  MarkInv'
<1>1. CASE UNCHANGED vars
  BY <1>1, BaseUnchanged, MarksUnchanged DEF MarkInv, vars
<1>2. ASSUME NEW c \in Conn, StepOf(c)
      PROVE  MarkInv'
  BY <1>2, BaseStep, MarksStep DEF MarkInv
<1>3. CASE Crash
  <2>1. TypesOK' /\ Closed'
    BY <1>3, CrashClosed DEF MarkInv, BaseOK
  <2>2. (TypesOK /\ Closed => MarksOK /\ BaseOK)'
    BY ClosedMarks, ClosedBase, PTL
  <2> QED
    BY <2>1, <2>2 DEF MarkInv
<1>4. CASE PowerLoss
  BY <1>4, PowerLossBase, MarksUnchanged DEF MarkInv, PowerLoss
<1> QED
  BY <1>1, <1>2, <1>3, <1>4, Steps

\* As long as no checkpoint is overtaken by a new log: every reader's frames stay in
\* the log below its mark, what a reader or a new log leaves to the database is there,
\* and the count of the frames copied is about the log it is kept with.
THEOREM MarksInvariant == Spec /\ []NoneOvertaken => []MarkInv
<1>1. Init => MarkInv
  BY InitClosed, ClosedBase, ClosedMarks DEF MarkInv
<1>2. MarkInv /\ NoneOvertaken' /\ [Next]_vars => MarkInv'
  BY MarkInvStep
<1> QED
  BY <1>1, <1>2, PTL DEF Spec

\* The count of the frames copied, from the marks.
LEMMA MarksBackfill ==
  ASSUME MarkInv
  PROVE  BackfillWithinLog
<1>1. ASSUME NEW c \in Conn, pc[c] = "frames", wal[c].readLock = 0
      PROVE  nBackfill = wal[c].hdr.mx
  BY <1>1, AroundOK DEF Around, Before, WriterHdrOK, BackOf
<1> QED
  BY <1>1 DEF MarkInv, MarksOK, BackOK, BackfillWithinLog

\* Writers may begin a new log at any time, as walRestartLog lets them.  What the
\* wal-index says was copied of the log goes beyond the log, or a writer that ignores
\* the log finds less than all of it in the database, in no state before the first
\* checkpoint is overtaken: nothing else, no reader, commit, recovery or end of a
\* process, makes nBackfill wrong (walCheckpoint, walTryBeginRead, walRestartHdr).
THEOREM BackfillHolds == Spec /\ []NoneOvertaken => []BackfillWithinLog
  BY MarksInvariant, MarksBackfill, PTL
=============================================================================
