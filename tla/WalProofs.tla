------------------------------ MODULE WalProofs ------------------------------
(***************************************************************************)
(* Proofs about Wal, upon the marks of WalSteps and like them as long as   *)
(* no writer restarts the log between the moment a checkpoint reads the    *)
(* header and the moment it locks WAL_READ_LOCK(0).  First the contents of *)
(* the frames, of the database and of the page caches, then the chain of   *)
(* checksums, by which a new process finds the commits, then the steps of  *)
(* VersionStore that the steps of the log are, and last what may be on the *)
(* disk, which is what a loss of power leaves.                             *)
(***************************************************************************)
EXTENDS WalSteps

-----------------------------------------------------------------------------
(* The last frame of a page, and what a connection sees in it. *)

\* The last of the first n frames with page p, in the wal-index a.
Latest(a, n, p) == Largest({i \in 1 .. n : a[i] = p})

LEMMA LastIs == \A n, p : Last(n, p) = Latest(aPgno, n, p)
  BY DEF Last, Latest

LEMMA LatestOK ==
  ASSUME NEW n \in Nat, NEW a, NEW p
  PROVE  /\ Latest(a, n, p) \in 0 .. n
         /\ Latest(a, n, p) # 0 => a[Latest(a, n, p)] = p
         /\ \A i \in 1 .. n : a[i] = p => i <= Latest(a, n, p)
<1> DEFINE S == {i \in 1 .. n : a[i] = p}
<1>1. S \subseteq 0 .. n
  OBVIOUS
<1>2. /\ Largest(S) \in 0 .. n
      /\ S = {} => Largest(S) = 0
      /\ S # {} => Largest(S) \in S
      /\ \A y \in S : y <= Largest(S)
  BY <1>1, LargestOK
<1> QED
  BY <1>2 DEF Latest

\* It is the only number of which this can be said.
LEMMA LatestIs ==
  ASSUME NEW n \in Nat, NEW a, NEW p, NEW k \in 1 .. n, a[k] = p,
         \A i \in 1 .. n : a[i] = p => i <= k
  PROVE  Latest(a, n, p) = k
<1>1. Latest(a, n, p) \in 0 .. n /\ k <= Latest(a, n, p)
  BY LatestOK
<1>2. Latest(a, n, p) # 0 => Latest(a, n, p) <= k
  BY LatestOK
<1> QED
  BY <1>1, <1>2

LEMMA LatestShrinks ==
  ASSUME NEW m \in Nat, NEW n \in 0 .. m, NEW a, NEW p
  PROVE  /\ Latest(a, n, p) <= Latest(a, m, p)
         /\ Latest(a, m, p) <= n => Latest(a, n, p) = Latest(a, m, p)
<1> DEFINE j == Latest(a, n, p)
           k == Latest(a, m, p)
<1>1. n \in Nat /\ j \in 0 .. n /\ k \in 0 .. m
  BY LatestOK
<1>2. j # 0 => a[j] = p /\ j \in 1 .. n
  BY <1>1, LatestOK
<1>3. j <= k
  <2>1. j # 0 => j <= k
    BY <1>1, <1>2, LatestOK
  <2> QED
    BY <1>1, <2>1
<1>4. k # 0 /\ k <= n => k <= j
  <2>1. k # 0 => a[k] = p
    BY LatestOK
  <2> QED
    BY <1>1, <2>1, LatestOK
<1> QED
  BY <1>1, <1>3, <1>4

LEMMA LatestFrom ==
  ASSUME NEW n \in Nat, NEW m \in Nat, m >= 1, NEW a, NEW p
  PROVE  Largest({i \in m .. n : a[i] = p})
           = IF Latest(a, n, p) >= m THEN Latest(a, n, p) ELSE 0
<1> DEFINE S == {i \in m .. n : a[i] = p}
           k == Latest(a, n, p)
<1>1. S \subseteq 0 .. n
  OBVIOUS
<1>2. /\ Largest(S) \in 0 .. n
      /\ S = {} => Largest(S) = 0
      /\ S # {} => Largest(S) \in S
      /\ \A y \in S : y <= Largest(S)
  BY <1>1, LargestOK
<1>3. k \in 0 .. n /\ (k # 0 => a[k] = p) /\ \A i \in 1 .. n : a[i] = p => i <= k
  BY LatestOK
<1>4. CASE k >= m
  <2>1. k \in S
    BY <1>3, <1>4
  <2>2. k <= Largest(S) /\ Largest(S) \in S
    BY <1>2, <2>1
  <2> QED
    BY <1>2, <1>3, <1>4, <2>2
<1>5. CASE ~(k >= m)
  <2>1. S = {}
    BY <1>3, <1>5
  <2> QED
    BY <1>2, <1>5, <2>1
<1> QED
  BY <1>4, <1>5

LEMMA LatestSame ==
  ASSUME NEW n \in Nat, NEW a, NEW b, NEW p, \A i \in 1 .. n : a[i] = b[i]
  PROVE  Latest(a, n, p) = Latest(b, n, p)
<1>1. {i \in 1 .. n : a[i] = p} = {i \in 1 .. n : b[i] = p}
  OBVIOUS
<1> QED
  BY <1>1 DEF Latest

LEMMA FindFrameValue ==
  ASSUME TypesOK, NEW c \in Conn, NEW p \in Page, wal[c].readLock > 0 => wal[c].minFrame >= 1
  PROVE  FindFrame(c, p) =
           IF wal[c].readLock > 0 /\ Last(wal[c].hdr.mx, p) >= wal[c].minFrame
           THEN Last(wal[c].hdr.mx, p) ELSE 0
<1>1. /\ wal[c].readLock \in Int /\ wal[c].hdr.mx \in Nat /\ wal[c].minFrame \in Nat
  BY Types, Sizes
<1>2. CASE wal[c].readLock > 0
  BY <1>1, <1>2, LatestFrom, LastIs DEF FindFrame
<1>3. CASE ~(wal[c].readLock > 0)
  BY <1>1, <1>3 DEF FindFrame
<1> QED
  BY <1>2, <1>3

\* What a connection sees of a page.
LEMMA SeenValue ==
  TypesOK =>
    \A c \in Conn, p \in Page :
      (wal[c].readLock > 0 => wal[c].minFrame >= 1) =>
        Seen(c)[p] = IF dirty[c][p] # NoPage THEN dirty[c][p]
                     ELSE IF wal[c].readLock > 0 /\ Last(wal[c].hdr.mx, p) >= wal[c].minFrame
                     THEN log[Last(wal[c].hdr.mx, p)].val
                     ELSE db[p]
<1> SUFFICES ASSUME TypesOK, NEW c \in Conn, NEW p \in Page,
                    wal[c].readLock > 0 => wal[c].minFrame >= 1
             PROVE  Seen(c)[p] = IF dirty[c][p] # NoPage THEN dirty[c][p]
                     ELSE IF wal[c].readLock > 0 /\ Last(wal[c].hdr.mx, p) >= wal[c].minFrame
                     THEN log[Last(wal[c].hdr.mx, p)].val
                     ELSE db[p]
  OBVIOUS
<1>1. Seen(c)[p] = IF dirty[c][p] # NoPage THEN dirty[c][p]
                   ELSE IF FindFrame(c, p) = 0 THEN db[p]
                   ELSE log[FindFrame(c, p)].val
  BY SeenAt
<1>2. Last(wal[c].hdr.mx, p) \in Nat /\ wal[c].minFrame \in Nat
  <2>1. wal[c].hdr.mx \in 0 .. MaxFrame /\ wal[c].minFrame \in Nat
    BY Types, Sizes
  <2> QED
    BY <2>1, LastIn, Sizes
<1>3. wal[c].readLock > 0 /\ Last(wal[c].hdr.mx, p) >= wal[c].minFrame
        => Last(wal[c].hdr.mx, p) # 0
  BY <1>2
<1> QED
  BY <1>1, <1>3, FindFrameValue

LEMMA SeenValueNext ==
  TypesOK' =>
    \A c \in Conn, p \in Page :
      (wal'[c].readLock > 0 => wal'[c].minFrame >= 1) =>
        Seen(c)'[p] = IF dirty'[c][p] # NoPage THEN dirty'[c][p]
                      ELSE IF wal'[c].readLock > 0
                                /\ Last(wal[c].hdr.mx, p)' >= wal'[c].minFrame
                      THEN log'[Last(wal[c].hdr.mx, p)'].val
                      ELSE db'[p]
<1>1. (TypesOK =>
    \A c \in Conn, p \in Page :
      (wal[c].readLock > 0 => wal[c].minFrame >= 1) =>
        Seen(c)[p] = IF dirty[c][p] # NoPage THEN dirty[c][p]
                     ELSE IF wal[c].readLock > 0 /\ Last(wal[c].hdr.mx, p) >= wal[c].minFrame
                     THEN log[Last(wal[c].hdr.mx, p)].val
                     ELSE db[p])'
  BY SeenValue, PTL
<1> QED
  BY <1>1

\* The page under a header.
LEMMA UnderValue ==
  TypesOK =>
    \A p \in Page :
      Under(aHdr[0])[p] = IF Last(aHdr[0].mx, p) = 0 THEN db[p]
                          ELSE log[Last(aHdr[0].mx, p)].val
  BY UnderAt, Types

LEMMA UnderValueNext ==
  TypesOK' =>
    \A p \in Page :
      Under(aHdr[0])'[p] = IF Last(aHdr[0].mx, p)' = 0 THEN db'[p]
                           ELSE log'[Last(aHdr[0].mx, p)'].val
<1>1. (TypesOK =>
    \A p \in Page :
      Under(aHdr[0])[p] = IF Last(aHdr[0].mx, p) = 0 THEN db[p]
                          ELSE log[Last(aHdr[0].mx, p)].val)'
  BY UnderValue, PTL
<1> QED
  BY <1>1

\* Images are functions, so that they are the same if their pages are.
LEMMA Images ==
  /\ \A c : Seen(c) = [p \in Page |-> Seen(c)[p]]
  /\ \A h : Under(h) = [p \in Page |-> Under(h)[p]]
  BY DEF Seen, Under

LEMMA ImagesNext ==
  /\ \A c \in Conn : Seen(c)' = [p \in Page |-> Seen(c)'[p]]
  /\ Under(aHdr[0])' = [p \in Page |-> Under(aHdr[0])'[p]]
  BY DEF Seen, Under

-----------------------------------------------------------------------------
(* What stays when the log grows, and when pages are copied. *)

ContInv == MarkInv /\ ContentsOK

\* The first n frames stay.
FramesStay(n) ==
  \A i \in 1 .. n : /\ aPgno'[i] = aPgno[i]
                    /\ log'[i].page = log[i].page /\ log'[i].val = log[i].val

LEMMA LastStays ==
  ASSUME TypesOK, NEW m \in 0 .. MaxFrame, FramesStay(m), NEW n \in 0 .. m, NEW p
  PROVE  /\ Latest(aPgno', n, p) = Last(n, p)
         /\ Last(n, p) \in 0 .. n
         /\ Last(n, p) # 0 => log'[Last(n, p)].val = log[Last(n, p)].val
                              /\ log'[Last(n, p)].page = log[Last(n, p)].page
<1>1. n \in Nat /\ m \in Nat /\ \A i \in 1 .. n : i \in 1 .. m
  BY Sizes
<1>2. \A i \in 1 .. n : aPgno'[i] = aPgno[i]
  BY <1>1 DEF FramesStay
<1>3. Latest(aPgno', n, p) = Last(n, p)
  BY <1>1, <1>2, LatestSame, LastIs
<1>4. Last(n, p) \in 0 .. n
  BY <1>1, LatestOK, LastIs
<1> QED
  BY <1>1, <1>3, <1>4 DEF FramesStay

\* What a connection keeps of its header and its own changes.
SameView(d) ==
  /\ dirty'[d] = dirty[d]
  /\ wal'[d].readLock = wal[d].readLock /\ wal'[d].minFrame = wal[d].minFrame
  /\ wal'[d].hdr.mx = wal[d].hdr.mx

LEMMA SeenStays ==
  ASSUME TypesOK, TypesOK', NEW d \in Conn, SameView(d),
         wal[d].readLock > 0 => wal[d].minFrame >= 1 /\ FramesStay(wal[d].hdr.mx),
         \A p \in Page : \/ db'[p] = db[p]
                         \/ wal[d].readLock > 0 /\ Last(wal[d].hdr.mx, p) >= wal[d].minFrame
  PROVE  Seen(d)' = Seen(d)
<1>1. wal[d].hdr.mx \in 0 .. MaxFrame /\ wal[d].readLock \in Int /\ wal[d].minFrame \in Nat
  BY Types, Sizes
<1>2. ASSUME NEW p \in Page
      PROVE  Seen(d)'[p] = Seen(d)[p]
  <2>1. Seen(d)[p] = IF dirty[d][p] # NoPage THEN dirty[d][p]
                     ELSE IF wal[d].readLock > 0 /\ Last(wal[d].hdr.mx, p) >= wal[d].minFrame
                     THEN log[Last(wal[d].hdr.mx, p)].val
                     ELSE db[p]
    BY SeenValue
  <2>2. Last(wal[d].hdr.mx, p)' = Latest(aPgno', wal[d].hdr.mx, p)
    BY DEF Last, Latest, SameView
  <2>3. Seen(d)'[p] = IF dirty[d][p] # NoPage THEN dirty[d][p]
                      ELSE IF wal[d].readLock > 0
                                /\ Latest(aPgno', wal[d].hdr.mx, p) >= wal[d].minFrame
                      THEN log'[Latest(aPgno', wal[d].hdr.mx, p)].val
                      ELSE db'[p]
    BY <2>2, SeenValueNext DEF SameView
  <2>4. CASE wal[d].readLock > 0
    <3>1. /\ Latest(aPgno', wal[d].hdr.mx, p) = Last(wal[d].hdr.mx, p)
          /\ Last(wal[d].hdr.mx, p) \in 0 .. wal[d].hdr.mx
          /\ Last(wal[d].hdr.mx, p) # 0 =>
               log'[Last(wal[d].hdr.mx, p)].val = log[Last(wal[d].hdr.mx, p)].val
      BY <1>1, <2>4, LastStays
    <3>2. Last(wal[d].hdr.mx, p) >= wal[d].minFrame => Last(wal[d].hdr.mx, p) # 0
      BY <1>1, <2>4, <3>1
    <3> QED
      BY <2>1, <2>3, <2>4, <3>1, <3>2
  <2>5. CASE ~(wal[d].readLock > 0)
    BY <2>1, <2>3, <2>5
  <2> QED
    BY <2>4, <2>5
<1> QED
  BY <1>2, Images, ImagesNext

LEMMA UnderStays ==
  ASSUME TypesOK, TypesOK', aHdr'[0] = aHdr[0], FramesStay(aHdr[0].mx),
         \A p \in Page : db'[p] = db[p] \/ Last(aHdr[0].mx, p) # 0
  PROVE  Under(aHdr[0])' = Under(aHdr[0])
<1>1. aHdr[0].mx \in 0 .. MaxFrame
  BY Types
<1>2. ASSUME NEW p \in Page
      PROVE  Under(aHdr[0])'[p] = Under(aHdr[0])[p]
  <2>1. Under(aHdr[0])[p] = IF Last(aHdr[0].mx, p) = 0 THEN db[p]
                            ELSE log[Last(aHdr[0].mx, p)].val
    BY UnderValue
  <2>2. Last(aHdr[0].mx, p)' = Latest(aPgno', aHdr[0].mx, p)
    BY DEF Last, Latest
  <2>3. /\ Latest(aPgno', aHdr[0].mx, p) = Last(aHdr[0].mx, p)
        /\ Last(aHdr[0].mx, p) # 0 =>
             log'[Last(aHdr[0].mx, p)].val = log[Last(aHdr[0].mx, p)].val
    BY <1>1, LastStays
  <2>4. Under(aHdr[0])'[p] = IF Last(aHdr[0].mx, p) = 0 THEN db'[p]
                             ELSE log'[Last(aHdr[0].mx, p)].val
    BY <2>2, <2>3, UnderValueNext
  <2> QED
    BY <2>1, <2>3, <2>4
<1> QED
  BY <1>2, Images, ImagesNext

\* A connection in a transaction.
InTx(c) == pc[c] = "reader" \/ Writing(c)

\* What a reader with the header of the wal-index sees, if it changed nothing.
LEMMA ReaderCurrent ==
  MarkInv /\ DbOK =>
    \A c \in Conn :
      wal[c].hdr = aHdr[0] /\ wal[c].readLock >= 0 /\ pc[c] # "restarted" /\ dirty[c] = Clean
        => Seen(c) = Under(aHdr[0])
<1> SUFFICES ASSUME MarkInv, DbOK, NEW c \in Conn, wal[c].hdr = aHdr[0],
                    wal[c].readLock >= 0, pc[c] # "restarted", dirty[c] = Clean
             PROVE  Seen(c) = Under(aHdr[0])
  OBVIOUS
<1>1. Around(c) /\ TypesOK /\ Numbers(c) /\ nBackfill \in 0 .. MaxFrame
      /\ aHdr[0].mx \in 0 .. MaxFrame /\ wal[c].minFrame \in 0 .. MaxFrame + 1
  BY AroundOK DEF Around, Before
<1>2. wal[c].readLock > 0 => wal[c].minFrame \in 1 .. nBackfill + 1
  BY <1>1 DEF Around, MarkOK
<1>3. wal[c].readLock = 0 => nBackfill = aHdr[0].mx
  BY <1>1 DEF Around, BackOf
<1>4. ASSUME NEW p \in Page
      PROVE  Seen(c)[p] = Under(aHdr[0])[p]
  <2> DEFINE k == Last(aHdr[0].mx, p)
  <2>1. Seen(c)[p] = IF wal[c].readLock > 0 /\ k >= wal[c].minFrame THEN log[k].val ELSE db[p]
    <3>1. wal[c].readLock > 0 => wal[c].minFrame >= 1
      BY <1>1, <1>2, Sizes
    <3> QED
      BY <1>1, <3>1, SeenValue DEF Clean
  <2>2. Under(aHdr[0])[p] = IF k = 0 THEN db[p] ELSE log[k].val
    BY <1>1, UnderValue
  <2>3. k \in 0 .. aHdr[0].mx
    BY <1>1, LastIn
  <2>4. k \in 1 .. nBackfill => db[p] = log[k].val
    BY DEF DbOK
  <2>5. CASE wal[c].readLock > 0 /\ k >= wal[c].minFrame
    BY <1>1, <1>2, <2>1, <2>2, <2>3, <2>5, Sizes
  <2>6. CASE ~(wal[c].readLock > 0 /\ k >= wal[c].minFrame)
    <3>1. k = 0 \/ k \in 1 .. nBackfill
      BY <1>1, <1>2, <1>3, <2>3, <2>6, Sizes DEF Numbers
    <3> QED
      BY <2>1, <2>2, <2>4, <2>6, <3>1
  <2> QED
    BY <2>5, <2>6
<1> QED
  BY <1>4, Images

LEMMA ReaderCurrentNext ==
  (MarkInv /\ DbOK)' =>
    \A c \in Conn :
      wal'[c].hdr = aHdr'[0] /\ wal'[c].readLock >= 0 /\ pc'[c] # "restarted"
        /\ dirty'[c] = Clean
        => Seen(c)' = Under(aHdr[0])'
<1>1. (MarkInv /\ DbOK =>
    \A c \in Conn :
      wal[c].hdr = aHdr[0] /\ wal[c].readLock >= 0 /\ pc[c] # "restarted" /\ dirty[c] = Clean
        => Seen(c) = Under(aHdr[0]))'
  BY ReaderCurrent, PTL
<1> QED
  BY <1>1 DEF Clean

-----------------------------------------------------------------------------
(* A step that leaves the published frames and the database as they are. *)

LEMMA FramesStayLess ==
  ASSUME NEW m \in Nat, NEW n \in Nat, n <= m, FramesStay(m)
  PROVE  FramesStay(n)
  BY DEF FramesStay

LEMMA SeenOthers ==
  ASSUME MarkInv, BaseOK', NEW c \in Conn, OthersStay(c), FramesStay(aHdr[0].mx),
         (log' = log /\ aPgno' = aPgno) \/ Writing(c), NEW d \in Conn \ {c}, InTx(d),
         \A p \in Page : \/ db'[p] = db[p]
                         \/ wal[d].readLock > 0 /\ Last(wal[d].hdr.mx, p) >= wal[d].minFrame
  PROVE  Seen(d)' = Seen(d)
<1>1. /\ Around(d) /\ Stays(d) /\ TypesOK /\ TypesOK' /\ Numbers(d)
      /\ aHdr[0].mx \in 0 .. MaxFrame
  BY AroundOK, AfterOK DEF OthersStay, Around, Before
<1>2. SameView(d)
  BY <1>1 DEF Stays, SameView
<1>3. wal[d].readLock > 0 => wal[d].minFrame >= 1
  BY <1>1, Sizes DEF Around, MarkOK
<1>4. wal[d].readLock > 0 => FramesStay(wal[d].hdr.mx)
  <2>1. CASE log' = log /\ aPgno' = aPgno
    BY <2>1 DEF FramesStay
  <2>2. CASE Writing(c)
    <3>1. pc[d] = "reader"
      BY <2>2, Rivals DEF MarkInv, InTx
    <3>2. wal[d].readLock > 0 => wal[d].hdr.mx <= aHdr[0].mx
      BY <1>1, <3>1 DEF Around, MarkOK
    <3> QED
      BY <1>1, <3>2, FramesStayLess, Sizes DEF Numbers
  <2> QED
    BY <2>1, <2>2
<1> QED
  BY <1>1, <1>2, <1>3, <1>4, SeenStays

\* The checkpoint of d, and the transaction of d, where nothing of theirs changes.
LEMMA IterStays ==
  ASSUME MarkInv, NEW d \in Conn, IterOK(d), pc'[d] = pc[d],
         job'[d].iter = job[d].iter, job'[d].mark = job[d].mark, wal'[d].hdr.mx = wal[d].hdr.mx,
         nBackfill' = nBackfill, db' = db, FramesStay(aHdr[0].mx)
  PROVE  IterOK(d)'
<1> SUFFICES ASSUME pc[d] \in {"ckslot", "ckzero", "ckcopy"}
             PROVE  IterOK(d)'
  BY DEF IterOK
<1>1. /\ TypesOK /\ wal[d].hdr.mx \in 0 .. MaxFrame /\ wal[d].hdr.mx <= aHdr[0].mx
      /\ aHdr[0].mx \in 0 .. MaxFrame /\ nBackfill \in 0 .. MaxFrame
      /\ job[d].mark \in 0 .. MaxFrame
  BY AroundOK DEF Around, CkptOK, Before, Numbers
<1>2. wal[d].hdr.mx \in 0 .. aHdr[0].mx
  BY <1>1, Sizes
<1>3. ASSUME NEW p \in Page
      PROVE  /\ Latest(aPgno', wal[d].hdr.mx, p) = Last(wal[d].hdr.mx, p)
             /\ Last(wal[d].hdr.mx, p) # 0 =>
                  log'[Last(wal[d].hdr.mx, p)].val = log[Last(wal[d].hdr.mx, p)].val
  BY <1>1, <1>2, LastStays
<1>4. \A p \in Page : Last(wal[d].hdr.mx, p)' = Last(wal[d].hdr.mx, p)
  BY <1>3 DEF Last, Latest
<1>5. ASSUME pc[d] = "ckcopy", NEW p \in Page
      PROVE  IF Last(wal[d].hdr.mx, p) \in nBackfill + 1 .. job[d].mark
             THEN \/ job[d].iter[p] = Last(wal[d].hdr.mx, p)
                  \/ job[d].iter[p] = 0 /\ db[p] = log'[Last(wal[d].hdr.mx, p)].val
             ELSE job[d].iter[p] = 0
  <2>1. Last(wal[d].hdr.mx, p) \in nBackfill + 1 .. job[d].mark => Last(wal[d].hdr.mx, p) # 0
    BY <1>1, Sizes
  <2> QED
    BY <1>3, <1>5, <2>1 DEF IterOK
<1>6. pc[d] = "ckcopy" => IterOK(d)'
  BY <1>4, <1>5 DEF IterOK
<1>7. pc[d] # "ckcopy" => IterOK(d)'
  BY <1>4 DEF IterOK
<1> QED
  BY <1>6, <1>7

LEMMA NewStays ==
  ASSUME NEW d \in Conn, NewOK(d), pc'[d] = pc[d], log' = log, Seen(d)' = Seen(d),
         job'[d] = job[d], wal'[d].hdr.mx = wal[d].hdr.mx
  PROVE  NewOK(d)'
  BY DEF NewOK, New

\* The steps of c that leave the published frames as they are.
Steady(c) ==
  /\ aHdr'[0] = aHdr[0] /\ nBackfill' = nBackfill /\ db' = db
  /\ FramesStay(aHdr[0].mx)
  /\ (log' = log /\ aPgno' = aPgno) \/ Writing(c)

LEMMA OthersContents ==
  ASSUME ContInv, BaseOK', NEW c \in Conn, OthersStay(c), Steady(c), NEW d \in Conn \ {c}
  PROVE  ContentOf(d)'
<1>1. /\ MarkInv /\ TypesOK /\ TypesOK' /\ Stays(d) /\ FrameOf(d) /\ IterOK(d) /\ BatchOK(d)
      /\ NewOK(d) /\ KeptOK(d) /\ Around(d)
  BY AroundOK, AfterOK DEF ContInv, ContentsOK, ContentOf, OthersStay
<1>2. InTx(d) => Seen(d)' = Seen(d)
  BY <1>1, SeenOthers DEF Steady
<1>3. Under(aHdr[0])' = Under(aHdr[0])
  BY <1>1, UnderStays DEF Steady
<1>4. (Writing(d)' <=> Writing(d)) /\ (useWal(d)' <=> useWal(d)) /\ (Dirty(d)' = Dirty(d))
  BY <1>1 DEF Stays, Writing, useWal, Dirty
<1>5. Writing(d) => log' = log /\ aPgno' = aPgno
  BY <1>1, Rivals DEF Steady, MarkInv
<1>6. FrameOf(d)'
  BY <1>1, <1>4, <1>5 DEF FrameOf, Stays
<1>7. IterOK(d)'
  BY <1>1, IterStays DEF Stays, Steady
<1>8. BatchOK(d)'
  BY <1>1, <1>4 DEF BatchOK, Stays
<1>9. NewOK(d)'
  <2>1. pc[d] \in {"append", "rewrite", "publish"} => Writing(d)
    BY DEF Writing, WritePoints
  <2>2. CASE pc[d] \in {"append", "rewrite", "publish"}
    BY <1>1, <1>2, <1>5, <2>1, <2>2, NewStays DEF Stays, InTx
  <2>3. CASE pc[d] \notin {"append", "rewrite", "publish"}
    BY <1>1, <2>3 DEF NewOK, Stays
  <2> QED
    BY <2>2, <2>3
<1>10. KeptOK(d)'
  BY <1>1, <1>2, <1>3, <1>4 DEF KeptOK, Stays, InTx, Steady
<1> QED
  BY <1>6, <1>7, <1>8, <1>9, <1>10 DEF ContentOf

LEMMA SharedContents ==
  ASSUME ContInv, BaseOK', NEW c \in Conn, Steady(c)
  PROVE  IndexOK' /\ DbOK'
<1>1. TypesOK /\ IndexOK /\ DbOK /\ aHdr[0].mx \in 0 .. MaxFrame /\ nBackfill \in 0 .. MaxFrame
  BY AroundOK DEF ContInv, ContentsOK, Around
<1>2. IndexOK'
  BY <1>1 DEF IndexOK, Steady, FramesStay
<1>3. DbOK'
  <2> SUFFICES ASSUME NEW p \in Page, Last(aHdr[0].mx, p)' \in 1 .. nBackfill
               PROVE  db[p] = log'[Last(aHdr[0].mx, p)'].val
    BY DEF DbOK, Steady
  <2>1. Last(aHdr[0].mx, p)' = Latest(aPgno', aHdr[0].mx, p)
    BY DEF Last, Latest, Steady
  <2>2. /\ Last(aHdr[0].mx, p)' = Last(aHdr[0].mx, p)
        /\ Last(aHdr[0].mx, p) # 0 =>
             log'[Last(aHdr[0].mx, p)].val = log[Last(aHdr[0].mx, p)].val
    BY <1>1, <2>1, LastStays DEF Steady
  <2> QED
    BY <1>1, <2>2 DEF DbOK
<1> QED
  BY <1>2, <1>3

LEMMA ContentsPut ==
  ASSUME ContInv, BaseOK', NEW c \in Conn, OthersStay(c), Steady(c), ContentOf(c)'
  PROVE  ContentsOK'
<1>1. \A d \in Conn \ {c} : ContentOf(d)'
  BY OthersContents
<1> QED
  BY <1>1, SharedContents DEF ContentsOK

\* Most steps leave the log, its index and the database alone.
Quiet == /\ aHdr'[0] = aHdr[0] /\ nBackfill' = nBackfill
         /\ db' = db /\ log' = log /\ aPgno' = aPgno

LEMMA QuietSteady ==
  ASSUME MarkInv, BaseOK', NEW c \in Conn, Quiet
  PROVE  /\ Steady(c) /\ Under(aHdr[0])' = Under(aHdr[0])
         /\ SameView(c) => Seen(c)' = Seen(c)
<1>1. TypesOK /\ TypesOK' /\ Around(c)
  BY AroundOK, AfterOK
<1>2. \A n : FramesStay(n)
  BY DEF Quiet, FramesStay
<1>3. Under(aHdr[0])' = Under(aHdr[0])
  BY <1>1, <1>2, UnderStays DEF Quiet
<1>4. wal[c].readLock > 0 => wal[c].minFrame >= 1
  BY <1>1, Sizes DEF Around, MarkOK
<1>5. SameView(c) => Seen(c)' = Seen(c)
  BY <1>1, <1>2, <1>4, SeenStays DEF Quiet
<1> QED
  BY <1>2, <1>3, <1>5 DEF Steady, Quiet

\* Before its first frame a transaction has logged no page.
LEMMA NewEmpty ==
  ASSUME NEW c \in Conn, Numbers(c)', job'[c].iFrame = wal'[c].hdr.mx,
         job'[c].todo = job'[c].batch
  PROVE  NewOK(c)'
<1>1. New(c)' = {}
  BY Sizes DEF New, Numbers
<1> QED
  BY <1>1 DEF NewOK

\* What is cached is current for a connection that becomes a reader.
LEMMA KeptReader ==
  ASSUME ContInv, BaseOK', MarkInv', NEW c \in Conn, Quiet, ~Writing(c), ~useWal(c)',
         pc'[c] = "reader", call[c] # "ckpt", wal[c].hdr = aHdr[0], wal'[c].hdr = wal[c].hdr,
         wal'[c].readLock >= 0, dirty'[c] = dirty[c], kept'[c] = kept[c]
  PROVE  KeptOK(c)'
<1>1. MarkInv /\ KeptOK(c) /\ BatchOK(c)
  BY DEF ContInv, ContentsOK, ContentOf
<1>2. Steady(c) /\ Under(aHdr[0])' = Under(aHdr[0])
  BY <1>1, QuietSteady
<1>3. DbOK' /\ dirty'[c] = Clean
  BY <1>1, <1>2, SharedContents DEF BatchOK
<1>4. Seen(c)' = Under(aHdr[0])'
  BY <1>3, ReaderCurrentNext DEF Quiet
<1>5. kept[c] # NoImage => kept[c] = Under(aHdr[0])
  BY <1>1 DEF KeptOK
<1>6. ~Writing(c)'
  BY DEF Writing, WritePoints
<1> QED
  BY <1>2, <1>4, <1>5, <1>6 DEF KeptOK, Quiet

-----------------------------------------------------------------------------
(* The steps that leave all three alone. *)

LEMMA ReadHdrContents ==
  ASSUME ContInv, BaseOK', MarkInv', NEW c \in Conn, ReadHdr(c)
  PROVE  ContentsOK'
<1>1. /\ ReadHdrDoes(c) /\ OthersStay(c) /\ Around(c) /\ Before(c)' /\ TypesOK
      /\ MarkInv /\ FrameOf(c) /\ IterOK(c) /\ BatchOK(c) /\ NewOK(c) /\ KeptOK(c)
  BY AroundOK, AfterOK, ReadHdrEffect DEF OwnOK, ContInv, ContentsOK, ContentOf
<1>2. Quiet
  BY <1>1 DEF Quiet, ReadHdrDoes, Around, dbVars, logVars, shmVars, TypesOK, HdrGood
<1>3. /\ Steady(c) /\ Under(aHdr[0])' = Under(aHdr[0])
      /\ SameView(c) => Seen(c)' = Seen(c)
  BY <1>1, <1>2, QuietSteady
<1>4. FrameOf(c)'
  BY <1>1, <1>2, <1>3, Sizes
  DEF ReadHdrDoes, FrameOf, Quiet, Around, Before, PointOK, useWal, Writing, WritePoints,
      Marking, Alone, Moves, SameCall, SameCache, SameWal, SameJob, WalIs, JobIs, HdrGood
<1>5. IterOK(c)'
  BY <1>1, <1>2, <1>3, Sizes
  DEF ReadHdrDoes, IterOK, Quiet, Around, Before, PointOK, Last, Moves, SameCall, SameCache,
      SameWal, SameJob, WalIs, JobIs, HdrGood
<1>6. BatchOK(c)'
  BY <1>1, <1>2, <1>3, Sizes
  DEF ReadHdrDoes, BatchOK, Around, Before, PointOK, useWal, Writing, WritePoints, Marking,
      Alone, Dirty, TaskOK, Moves, SameCall, SameCache, SameWal, SameJob, WalIs, JobIs, HdrGood
<1>7. NewOK(c)'
  BY <1>1, <1>2, <1>3, Sizes
  DEF ReadHdrDoes, NewOK, New, Quiet, SameView, Around, Before, PointOK, useWal, Moves,
      SameCall, SameCache, SameWal, SameJob, WalIs, JobIs, HdrGood
<1>8. KeptOK(c)'
  BY <1>1, <1>2, <1>3, Sizes
  DEF ReadHdrDoes, KeptOK, Quiet, SameView, Around, Before, PointOK, useWal, Writing,
      WritePoints, Marking, Alone, TaskOK, CkPoints, Moves, SameCall, SameCache, SameWal,
      SameJob, WalIs, JobIs, HdrGood
<1> QED
  BY <1>1, <1>3, <1>4, <1>5, <1>6, <1>7, <1>8, ContentsPut DEF ContentOf

LEMMA HdrLockedContents ==
  ASSUME ContInv, BaseOK', MarkInv', NEW c \in Conn, HdrLocked(c)
  PROVE  ContentsOK'
<1>1. /\ HdrLockedDoes(c) /\ OthersStay(c) /\ Around(c) /\ Before(c)' /\ TypesOK
      /\ MarkInv /\ FrameOf(c) /\ IterOK(c) /\ BatchOK(c) /\ NewOK(c) /\ KeptOK(c)
  BY AroundOK, AfterOK, HdrLockedEffect DEF OwnOK, ContInv, ContentsOK, ContentOf
<1>2. Quiet
  BY <1>1 DEF Quiet, HdrLockedDoes, Around, dbVars, logVars, shmVars, TypesOK
<1>3. /\ Steady(c) /\ Under(aHdr[0])' = Under(aHdr[0])
      /\ SameView(c) => Seen(c)' = Seen(c)
  BY <1>1, <1>2, QuietSteady
<1>4. FrameOf(c)'
  BY <1>1, <1>2, <1>3, Sizes
  DEF HdrLockedDoes, FrameOf, Quiet, Around, Before, PointOK, useWal, Writing, WritePoints,
      Marking, Alone, Moves, SameCall, SameCache, SameWal, SameJob, WalIs, JobIs
<1>5. IterOK(c)'
  BY <1>1, <1>2, <1>3, Sizes
  DEF HdrLockedDoes, IterOK, Quiet, Around, Before, PointOK, Last, Moves, SameCall, SameCache,
      SameWal, SameJob, WalIs, JobIs
<1>6. BatchOK(c)'
  BY <1>1, <1>2, <1>3, Sizes
  DEF HdrLockedDoes, BatchOK, Around, Before, PointOK, useWal, Writing, WritePoints, Marking,
      Alone, Dirty, TaskOK, Moves, SameCall, SameCache, SameWal, SameJob, WalIs, JobIs
<1>7. NewOK(c)'
  BY <1>1, <1>2, <1>3, Sizes
  DEF HdrLockedDoes, NewOK, New, Quiet, SameView, Around, Before, PointOK, useWal, Moves,
      SameCall, SameCache, SameWal, SameJob, WalIs, JobIs
<1>8. KeptOK(c)'
  BY <1>1, <1>2, <1>3, Sizes
  DEF HdrLockedDoes, KeptOK, Quiet, SameView, Around, Before, PointOK, useWal, Writing,
      WritePoints, Marking, Alone, TaskOK, CkPoints, Moves, SameCall, SameCache, SameWal,
      SameJob, WalIs, JobIs
<1> QED
  BY <1>1, <1>3, <1>4, <1>5, <1>6, <1>7, <1>8, ContentsPut DEF ContentOf

LEMMA ChooseZeroContents ==
  ASSUME ContInv, BaseOK', MarkInv', NEW c \in Conn, ChooseZero(c)
  PROVE  ContentsOK'
<1>1. /\ ChooseZeroDoes(c) /\ OthersStay(c) /\ Around(c) /\ Before(c)' /\ TypesOK
      /\ MarkInv /\ FrameOf(c) /\ IterOK(c) /\ BatchOK(c) /\ NewOK(c) /\ KeptOK(c)
  BY AroundOK, AfterOK, ChooseZeroEffect DEF OwnOK, ContInv, ContentsOK, ContentOf
<1>2. Quiet
  BY <1>1 DEF Quiet, ChooseZeroDoes, Around, dbVars, logVars, shmVars, TypesOK
<1>3. /\ Steady(c) /\ Under(aHdr[0])' = Under(aHdr[0])
      /\ SameView(c) => Seen(c)' = Seen(c)
  BY <1>1, <1>2, QuietSteady
<1>4. FrameOf(c)'
  BY <1>1, <1>2, <1>3, Sizes
  DEF ChooseZeroDoes, FrameOf, Quiet, Around, Before, PointOK, useWal, Writing, WritePoints,
      Marking, Alone, Moves, SameCall, SameCache, SameWal, SameJob, WalIs, JobIs
<1>5. IterOK(c)'
  BY <1>1, <1>2, <1>3, Sizes
  DEF ChooseZeroDoes, IterOK, Quiet, Around, Before, PointOK, Last, Moves, SameCall, SameCache,
      SameWal, SameJob, WalIs, JobIs
<1>6. BatchOK(c)'
  BY <1>1, <1>2, <1>3, Sizes
  DEF ChooseZeroDoes, BatchOK, Around, Before, PointOK, useWal, Writing, WritePoints, Marking,
      Alone, Dirty, TaskOK, Moves, SameCall, SameCache, SameWal, SameJob, WalIs, JobIs
<1>7. NewOK(c)'
  BY <1>1, <1>2, <1>3, Sizes
  DEF ChooseZeroDoes, NewOK, New, Quiet, SameView, Around, Before, PointOK, useWal, Moves,
      SameCall, SameCache, SameWal, SameJob, WalIs, JobIs
<1>8. KeptOK(c)'
  BY <1>1, <1>2, <1>3, Sizes
  DEF ChooseZeroDoes, KeptOK, Quiet, SameView, Around, Before, PointOK, useWal, Writing,
      WritePoints, Marking, Alone, TaskOK, CkPoints, Moves, SameCall, SameCache, SameWal,
      SameJob, WalIs, JobIs
<1> QED
  BY <1>1, <1>3, <1>4, <1>5, <1>6, <1>7, <1>8, ContentsPut DEF ContentOf

LEMMA LockMarkZeroContents ==
  ASSUME ContInv, BaseOK', MarkInv', NEW c \in Conn, LockMarkZero(c)
  PROVE  ContentsOK'
<1>1. /\ LockMarkZeroDoes(c) /\ OthersStay(c) /\ Around(c) /\ Before(c)' /\ TypesOK
      /\ MarkInv /\ FrameOf(c) /\ IterOK(c) /\ BatchOK(c) /\ NewOK(c) /\ KeptOK(c)
  BY AroundOK, AfterOK, LockMarkZeroEffect DEF OwnOK, ContInv, ContentsOK, ContentOf
<1>2. Quiet
  BY <1>1 DEF Quiet, LockMarkZeroDoes, Around, dbVars, logVars, shmVars, TypesOK, StillWhole
<1>3. /\ Steady(c) /\ Under(aHdr[0])' = Under(aHdr[0])
      /\ SameView(c) => Seen(c)' = Seen(c)
  BY <1>1, <1>2, QuietSteady
<1>4. FrameOf(c)'
  BY <1>1, <1>2, <1>3, Sizes
  DEF LockMarkZeroDoes, FrameOf, Quiet, Around, Before, PointOK, useWal, Writing, WritePoints,
      Marking, Alone, Moves, SameCall, SameCache, SameWal, SameJob, WalIs, JobIs, StillWhole
<1>5. IterOK(c)'
  BY <1>1, <1>2, <1>3, Sizes
  DEF LockMarkZeroDoes, IterOK, Quiet, Around, Before, PointOK, Last, Moves, SameCall,
      SameCache, SameWal, SameJob, WalIs, JobIs, StillWhole
<1>6. BatchOK(c)'
  BY <1>1, <1>2, <1>3, Sizes
  DEF LockMarkZeroDoes, BatchOK, Around, Before, PointOK, useWal, Writing, WritePoints,
      Marking, Alone, Dirty, TaskOK, Moves, SameCall, SameCache, SameWal, SameJob, WalIs,
      JobIs, StillWhole
<1>7. NewOK(c)'
  BY <1>1, <1>2, <1>3, Sizes
  DEF LockMarkZeroDoes, NewOK, New, Quiet, SameView, Around, Before, PointOK, useWal, Moves,
      SameCall, SameCache, SameWal, SameJob, WalIs, JobIs, StillWhole
<1>8. KeptOK(c)'
  <2>1. ~Writing(c) /\ call[c] # "ckpt" /\ ~useWal(c)' /\ call'[c] = call[c]
    BY <1>1
    DEF LockMarkZeroDoes, Around, Before, PointOK, Writing, WritePoints, useWal, Marking,
        Alone, CkPoints, Moves, SameCall
  <2>2. CASE pc'[c] = "reader"
    <3>1. /\ wal[c].hdr = aHdr[0] /\ wal'[c].hdr = wal[c].hdr /\ wal'[c].readLock >= 0
          /\ dirty'[c] = dirty[c] /\ kept'[c] = kept[c]
      BY <1>1, <2>2 DEF LockMarkZeroDoes, Moves, StillWhole, WalIs, SameCache
    <3> QED
      BY <1>2, <2>1, <2>2, <3>1, KeptReader
  <2>3. CASE pc'[c] # "reader"
    <3>1. pc'[c] \in {"idle", "marks"} /\ wal'[c] = wal[c] /\ kept'[c] = kept[c]
      BY <1>1, <2>3 DEF LockMarkZeroDoes, Moves, SameWal, SameCache
    <3> QED
      BY <1>1, <1>2, <1>3, <2>1, <2>3, <3>1 DEF KeptOK, Quiet, Writing, WritePoints
  <2> QED
    BY <2>2, <2>3
<1> QED
  BY <1>1, <1>3, <1>4, <1>5, <1>6, <1>7, <1>8, ContentsPut DEF ContentOf

LEMMA ChooseMarkContents ==
  ASSUME ContInv, BaseOK', MarkInv', NEW c \in Conn, ChooseMark(c)
  PROVE  ContentsOK'
<1>1. /\ ChooseMarkDoes(c) /\ OthersStay(c) /\ Around(c) /\ Before(c)' /\ TypesOK
      /\ MarkInv /\ FrameOf(c) /\ IterOK(c) /\ BatchOK(c) /\ NewOK(c) /\ KeptOK(c)
  BY AroundOK, AfterOK, ChooseMarkEffect DEF OwnOK, ContInv, ContentsOK, ContentOf
<1>2. Quiet
  BY <1>1 DEF Quiet, ChooseMarkDoes, Around, dbVars, logVars, shmVars, TypesOK, Retry
<1>3. /\ Steady(c) /\ Under(aHdr[0])' = Under(aHdr[0])
      /\ SameView(c) => Seen(c)' = Seen(c)
  BY <1>1, <1>2, QuietSteady
<1>4. FrameOf(c)'
  BY <1>1, <1>2, <1>3, Sizes
  DEF ChooseMarkDoes, FrameOf, Quiet, Around, Before, PointOK, useWal, Writing, WritePoints,
      Marking, Alone, Moves, SameCall, SameCache, SameWal, SameJob, WalIs, JobIs, Retry
<1>5. IterOK(c)'
  BY <1>1, <1>2, <1>3, Sizes
  DEF ChooseMarkDoes, IterOK, Quiet, Around, Before, PointOK, Last, Moves, SameCall, SameCache,
      SameWal, SameJob, WalIs, JobIs, Retry
<1>6. BatchOK(c)'
  BY <1>1, <1>2, <1>3, Sizes
  DEF ChooseMarkDoes, BatchOK, Around, Before, PointOK, useWal, Writing, WritePoints, Marking,
      Alone, Dirty, TaskOK, Moves, SameCall, SameCache, SameWal, SameJob, WalIs, JobIs, Retry
<1>7. NewOK(c)'
  BY <1>1, <1>2, <1>3, Sizes
  DEF ChooseMarkDoes, NewOK, New, Quiet, SameView, Around, Before, PointOK, useWal, Moves,
      SameCall, SameCache, SameWal, SameJob, WalIs, JobIs, Retry
<1>8. KeptOK(c)'
  BY <1>1, <1>2, <1>3, Sizes
  DEF ChooseMarkDoes, KeptOK, Quiet, SameView, Around, Before, PointOK, useWal, Writing,
      WritePoints, Marking, Alone, TaskOK, CkPoints, Moves, SameCall, SameCache, SameWal,
      SameJob, WalIs, JobIs, Retry
<1> QED
  BY <1>1, <1>3, <1>4, <1>5, <1>6, <1>7, <1>8, ContentsPut DEF ContentOf

LEMMA LockMarkContents ==
  ASSUME ContInv, BaseOK', MarkInv', NEW c \in Conn, LockMark(c)
  PROVE  ContentsOK'
<1>1. /\ LockMarkDoes(c) /\ OthersStay(c) /\ Around(c) /\ Before(c)' /\ TypesOK
      /\ MarkInv /\ FrameOf(c) /\ IterOK(c) /\ BatchOK(c) /\ NewOK(c) /\ KeptOK(c)
  BY AroundOK, AfterOK, LockMarkEffect DEF OwnOK, ContInv, ContentsOK, ContentOf
<1>2. Quiet
  BY <1>1 DEF Quiet, LockMarkDoes, Around, dbVars, logVars, shmVars, TypesOK, Retry
<1>3. /\ Steady(c) /\ Under(aHdr[0])' = Under(aHdr[0])
      /\ SameView(c) => Seen(c)' = Seen(c)
  BY <1>1, <1>2, QuietSteady
<1>4. FrameOf(c)'
  BY <1>1, <1>2, <1>3, Sizes
  DEF LockMarkDoes, FrameOf, Quiet, Around, Before, PointOK, useWal, Writing, WritePoints,
      Marking, Alone, Moves, SameCall, SameCache, SameWal, SameJob, WalIs, JobIs, Retry
<1>5. IterOK(c)'
  BY <1>1, <1>2, <1>3, Sizes
  DEF LockMarkDoes, IterOK, Quiet, Around, Before, PointOK, Last, Moves, SameCall, SameCache,
      SameWal, SameJob, WalIs, JobIs, Retry
<1>6. BatchOK(c)'
  BY <1>1, <1>2, <1>3, Sizes
  DEF LockMarkDoes, BatchOK, Around, Before, PointOK, useWal, Writing, WritePoints, Marking,
      Alone, Dirty, TaskOK, Moves, SameCall, SameCache, SameWal, SameJob, WalIs, JobIs, Retry
<1>7. NewOK(c)'
  BY <1>1, <1>2, <1>3, Sizes
  DEF LockMarkDoes, NewOK, New, Quiet, SameView, Around, Before, PointOK, useWal, Moves,
      SameCall, SameCache, SameWal, SameJob, WalIs, JobIs, Retry
<1>8. KeptOK(c)'
  BY <1>1, <1>2, <1>3, Sizes
  DEF LockMarkDoes, KeptOK, Quiet, SameView, Around, Before, PointOK, useWal, Writing,
      WritePoints, Marking, Alone, TaskOK, CkPoints, Moves, SameCall, SameCache, SameWal,
      SameJob, WalIs, JobIs, Retry
<1> QED
  BY <1>1, <1>3, <1>4, <1>5, <1>6, <1>7, <1>8, ContentsPut DEF ContentOf

LEMMA CheckMarkContents ==
  ASSUME ContInv, BaseOK', MarkInv', NEW c \in Conn, CheckMark(c)
  PROVE  ContentsOK'
<1>1. /\ CheckMarkDoes(c) /\ OthersStay(c) /\ Around(c) /\ Before(c)' /\ TypesOK
      /\ MarkInv /\ FrameOf(c) /\ IterOK(c) /\ BatchOK(c) /\ NewOK(c) /\ KeptOK(c)
  BY AroundOK, AfterOK, CheckMarkEffect DEF OwnOK, ContInv, ContentsOK, ContentOf
<1>2. Quiet
  BY <1>1
  DEF Quiet, CheckMarkDoes, Around, dbVars, logVars, shmVars, TypesOK, Retry, ToLog, Unchanged
<1>3. /\ Steady(c) /\ Under(aHdr[0])' = Under(aHdr[0])
      /\ SameView(c) => Seen(c)' = Seen(c)
  BY <1>1, <1>2, QuietSteady
<1>4. FrameOf(c)'
  BY <1>1, <1>2, <1>3, Sizes
  DEF CheckMarkDoes, FrameOf, Quiet, Around, Before, PointOK, useWal, Writing, WritePoints,
      Marking, Alone, Moves, SameCall, SameCache, SameWal, SameJob, WalIs, JobIs, Retry, ToLog,
      Unchanged
<1>5. IterOK(c)'
  BY <1>1, <1>2, <1>3, Sizes
  DEF CheckMarkDoes, IterOK, Quiet, Around, Before, PointOK, Last, Moves, SameCall, SameCache,
      SameWal, SameJob, WalIs, JobIs, Retry, ToLog, Unchanged
<1>6. BatchOK(c)'
  BY <1>1, <1>2, <1>3, Sizes
  DEF CheckMarkDoes, BatchOK, Around, Before, PointOK, useWal, Writing, WritePoints, Marking,
      Alone, Dirty, TaskOK, Moves, SameCall, SameCache, SameWal, SameJob, WalIs, JobIs, Retry,
      ToLog, Unchanged
<1>7. NewOK(c)'
  <2>1. pc'[c] \in {"append", "rewrite", "publish"} =>
          job'[c].iFrame = wal'[c].hdr.mx /\ job'[c].todo = job'[c].batch
    BY <1>1
    DEF CheckMarkDoes, BatchOK, Around, Before, PointOK, Alone, Moves, SameCall, SameCache,
        SameWal, SameJob, WalIs, JobIs, ToLog, Retry, useWal
  <2> QED
    BY <1>1, <2>1, NewEmpty DEF NewOK, Before
<1>8. KeptOK(c)'
  <2>1. call'[c] = call[c] /\ kept'[c] = kept[c] /\ dirty'[c] = dirty[c] /\ pc[c] = "check"
        /\ wal'[c].hdr = wal[c].hdr
    BY <1>1 DEF CheckMarkDoes, SameCall, SameCache, Moves, WalIs
  <2>2. (useWal(c)' <=> useWal(c)) /\ call[c] # "ckpt"
    BY <1>1, <2>1 DEF useWal, Around, Before, PointOK, CkPoints
  <2>3. CASE useWal(c)
    BY <1>1, <2>1, <2>3 DEF KeptOK, Writing
  <2>4. CASE ~useWal(c) /\ pc'[c] = "reader"
    <3>1. wal[c].hdr = aHdr[0] /\ wal'[c].readLock >= 0
      BY <1>1, <2>1, <2>4, Sizes
      DEF CheckMarkDoes, Moves, Unchanged, Retry, WalIs, Around, Before, PointOK, Mark
    <3>2. ~Writing(c)
      BY <2>1, <2>4 DEF Writing, WritePoints
    <3> QED
      BY <1>2, <2>1, <2>2, <2>4, <3>1, <3>2, KeptReader
  <2>5. CASE ~useWal(c) /\ pc'[c] # "reader"
    <3>1. pc'[c] = "idle"
      BY <1>1, <2>5 DEF CheckMarkDoes, Moves, Retry
    <3> QED
      BY <1>1, <1>2, <1>3, <2>1, <2>2, <2>5, <3>1 DEF KeptOK, Quiet, Writing, WritePoints
  <2> QED
    BY <2>3, <2>4, <2>5
<1> QED
  BY <1>1, <1>3, <1>4, <1>5, <1>6, <1>7, <1>8, ContentsPut DEF ContentOf

LEMMA EndReadContents ==
  ASSUME ContInv, BaseOK', MarkInv', NEW c \in Conn, EndRead(c)
  PROVE  ContentsOK'
<1>1. /\ EndReadDoes(c) /\ OthersStay(c) /\ Around(c) /\ Before(c)' /\ TypesOK
      /\ MarkInv /\ FrameOf(c) /\ IterOK(c) /\ BatchOK(c) /\ NewOK(c) /\ KeptOK(c)
  BY AroundOK, AfterOK, EndReadEffect DEF OwnOK, ContInv, ContentsOK, ContentOf
<1>2. Quiet
  BY <1>1 DEF Quiet, EndReadDoes, Around, dbVars, logVars, shmVars, TypesOK
<1>3. /\ Steady(c) /\ Under(aHdr[0])' = Under(aHdr[0])
      /\ SameView(c) => Seen(c)' = Seen(c)
  BY <1>1, <1>2, QuietSteady
<1>4. FrameOf(c)'
  BY <1>1, <1>2, <1>3, Sizes
  DEF EndReadDoes, FrameOf, Quiet, Around, Before, PointOK, useWal, Writing, WritePoints,
      Marking, Alone, Moves, SameCall, SameCache, SameWal, SameJob, WalIs, JobIs
<1>5. IterOK(c)'
  BY <1>1, <1>2, <1>3, Sizes
  DEF EndReadDoes, IterOK, Quiet, Around, Before, PointOK, Last, Moves, SameCall, SameCache,
      SameWal, SameJob, WalIs, JobIs
<1>6. BatchOK(c)'
  BY <1>1, <1>2, <1>3, Sizes
  DEF EndReadDoes, BatchOK, Around, Before, PointOK, useWal, Writing, WritePoints, Marking,
      Alone, Dirty, TaskOK, Moves, SameCall, SameCache, SameWal, SameJob, WalIs, JobIs
<1>7. NewOK(c)'
  BY <1>1, <1>2, <1>3, Sizes
  DEF EndReadDoes, NewOK, New, Quiet, SameView, Around, Before, PointOK, useWal, Moves,
      SameCall, SameCache, SameWal, SameJob, WalIs, JobIs
<1>8. KeptOK(c)'
  <2>1. /\ pc[c] = "reader" /\ pc'[c] = "idle" /\ kept'[c] = Seen(c) /\ call'[c] = call[c]
        /\ wal'[c].hdr = wal[c].hdr
    BY <1>1 DEF EndReadDoes, Moves, SameCall, WalIs
  <2>2. ~useWal(c) /\ wal[c].readLock >= 0
    BY <1>1, <2>1 DEF Around, Before, PointOK, Alone, Marking
  <2>3. dirty[c] = Clean /\ ~Writing(c)'
    BY <1>1, <2>1, <2>2 DEF BatchOK, Writing, WritePoints, useWal
  <2>4. wal[c].hdr = aHdr[0] => Seen(c) = Under(aHdr[0])
    BY <1>1, <2>1, <2>2, <2>3, ReaderCurrent DEF ContInv, ContentsOK
  <2> QED
    BY <1>2, <1>3, <2>1, <2>3, <2>4 DEF KeptOK, Quiet
<1> QED
  BY <1>1, <1>3, <1>4, <1>5, <1>6, <1>7, <1>8, ContentsPut DEF ContentOf

LEMMA BeginWriteContents ==
  ASSUME ContInv, BaseOK', MarkInv', NEW c \in Conn, BeginWrite(c)
  PROVE  ContentsOK'
<1>1. /\ BeginWriteDoes(c) /\ OthersStay(c) /\ Around(c) /\ Before(c)' /\ TypesOK
      /\ MarkInv /\ FrameOf(c) /\ IterOK(c) /\ BatchOK(c) /\ NewOK(c) /\ KeptOK(c)
  BY AroundOK, AfterOK, BeginWriteEffect DEF OwnOK, ContInv, ContentsOK, ContentOf
<1>2. Quiet
  BY <1>1 DEF Quiet, BeginWriteDoes, Around, dbVars, logVars, shmVars, TypesOK
<1>3. /\ Steady(c) /\ Under(aHdr[0])' = Under(aHdr[0])
      /\ SameView(c) => Seen(c)' = Seen(c)
  BY <1>1, <1>2, QuietSteady
<1>4. FrameOf(c)'
  <2>1. wal'[c] = wal[c] /\ wal[c].hdr = aHdr[0] /\ IndexOK
    BY <1>1 DEF BeginWriteDoes, SameWal, ContInv, ContentsOK
  <2> QED
    BY <1>2, <2>1 DEF FrameOf, IndexOK, Quiet
<1>5. IterOK(c)'
  BY <1>1, <1>2, <1>3, Sizes
  DEF BeginWriteDoes, IterOK, Quiet, Around, Before, PointOK, Last, Moves, SameCall, SameCache,
      SameWal, SameJob, WalIs, JobIs
<1>6. BatchOK(c)'
  BY <1>1, <1>2, <1>3, Sizes
  DEF BeginWriteDoes, BatchOK, Around, Before, PointOK, useWal, Writing, WritePoints, Marking,
      Alone, Dirty, TaskOK, Moves, SameCall, SameCache, SameWal, SameJob, WalIs, JobIs
<1>7. NewOK(c)'
  BY <1>1, <1>2, <1>3, Sizes
  DEF BeginWriteDoes, NewOK, New, Quiet, SameView, Around, Before, PointOK, useWal, Moves,
      SameCall, SameCache, SameWal, SameJob, WalIs, JobIs
<1>8. KeptOK(c)'
  BY <1>1, <1>2, <1>3, Sizes
  DEF BeginWriteDoes, KeptOK, Quiet, SameView, Around, Before, PointOK, useWal, Writing,
      WritePoints, Marking, Alone, TaskOK, CkPoints, Moves, SameCall, SameCache, SameWal,
      SameJob, WalIs, JobIs
<1> QED
  BY <1>1, <1>3, <1>4, <1>5, <1>6, <1>7, <1>8, ContentsPut DEF ContentOf

LEMMA WriteContents ==
  ASSUME ContInv, BaseOK', MarkInv', NEW c \in Conn, NEW p \in Page, Write(c, p)
  PROVE  ContentsOK'
<1>1. /\ WriteDoes(c, p) /\ OthersStay(c) /\ Around(c) /\ Before(c)' /\ TypesOK
      /\ MarkInv /\ FrameOf(c) /\ IterOK(c) /\ BatchOK(c) /\ NewOK(c) /\ KeptOK(c)
  BY AroundOK, AfterOK, WriteEffect DEF OwnOK, ContInv, ContentsOK, ContentOf
<1>2. Quiet
  BY <1>1 DEF Quiet, WriteDoes, Around, dbVars, logVars, shmVars, TypesOK
<1>3. /\ Steady(c) /\ Under(aHdr[0])' = Under(aHdr[0])
      /\ SameView(c) => Seen(c)' = Seen(c)
  BY <1>1, <1>2, QuietSteady
<1>4. FrameOf(c)'
  BY <1>1, <1>2, <1>3, Sizes
  DEF WriteDoes, FrameOf, Quiet, Around, Before, PointOK, useWal, Writing, WritePoints,
      Marking, Alone, Moves, SameCall, SameCache, SameWal, SameJob, WalIs, JobIs
<1>5. IterOK(c)'
  BY <1>1, <1>2, <1>3, Sizes
  DEF WriteDoes, IterOK, Quiet, Around, Before, PointOK, Last, Moves, SameCall, SameCache,
      SameWal, SameJob, WalIs, JobIs
<1>6. BatchOK(c)'
  BY <1>1, <1>2, <1>3, Sizes
  DEF WriteDoes, BatchOK, Around, Before, PointOK, useWal, Writing, WritePoints, Marking,
      Alone, Dirty, TaskOK, Moves, SameCall, SameCache, SameWal, SameJob, WalIs, JobIs
<1>7. NewOK(c)'
  BY <1>1, <1>2, <1>3, Sizes
  DEF WriteDoes, NewOK, New, Quiet, SameView, Around, Before, PointOK, useWal, Moves, SameCall,
      SameCache, SameWal, SameJob, WalIs, JobIs
<1>8. KeptOK(c)'
  BY <1>1, <1>2, <1>3, Sizes
  DEF WriteDoes, KeptOK, Quiet, SameView, Around, Before, PointOK, useWal, Writing,
      WritePoints, Marking, Alone, TaskOK, CkPoints, Moves, SameCall, SameCache, SameWal,
      SameJob, WalIs, JobIs
<1> QED
  BY <1>1, <1>3, <1>4, <1>5, <1>6, <1>7, <1>8, ContentsPut DEF ContentOf

LEMMA FramesContents ==
  ASSUME ContInv, BaseOK', MarkInv', NEW c \in Conn,
         NEW what \in {"spill", "commit"}, NEW pages \in SUBSET Page,
         what = "commit" => Dirty(c) \subseteq pages, Frames(c, what, pages)
  PROVE  ContentsOK'
<1>1. /\ FramesDoes(c, what, pages) /\ OthersStay(c) /\ Around(c) /\ Before(c)' /\ TypesOK
      /\ MarkInv /\ FrameOf(c) /\ IterOK(c) /\ BatchOK(c) /\ NewOK(c) /\ KeptOK(c)
  BY AroundOK, AfterOK, FramesEffect DEF OwnOK, ContInv, ContentsOK, ContentOf
<1>2. Quiet
  BY <1>1 DEF Quiet, FramesDoes, Around, dbVars, logVars, shmVars, TypesOK
<1>3. /\ Steady(c) /\ Under(aHdr[0])' = Under(aHdr[0])
      /\ SameView(c) => Seen(c)' = Seen(c)
  BY <1>1, <1>2, QuietSteady
<1>4. FrameOf(c)'
  BY <1>1, <1>2, <1>3, Sizes
  DEF FramesDoes, FrameOf, Quiet, Around, Before, PointOK, useWal, Writing, WritePoints,
      Marking, Alone, Moves, SameCall, SameCache, SameWal, SameJob, WalIs, JobIs
<1>5. IterOK(c)'
  BY <1>1, <1>2, <1>3, Sizes
  DEF FramesDoes, IterOK, Quiet, Around, Before, PointOK, Last, Moves, SameCall, SameCache,
      SameWal, SameJob, WalIs, JobIs
<1>6. BatchOK(c)'
  BY <1>1, <1>2, <1>3, Sizes
  DEF FramesDoes, BatchOK, Around, Before, PointOK, useWal, Writing, WritePoints, Marking,
      Alone, Dirty, TaskOK, Moves, SameCall, SameCache, SameWal, SameJob, WalIs, JobIs
<1>7. NewOK(c)'
  BY <1>1, <1>2, <1>3, Sizes
  DEF FramesDoes, NewOK, New, Quiet, SameView, Around, Before, PointOK, useWal, Moves,
      SameCall, SameCache, SameWal, SameJob, WalIs, JobIs
<1>8. KeptOK(c)'
  BY <1>1, <1>2, <1>3, Sizes
  DEF FramesDoes, KeptOK, Quiet, SameView, Around, Before, PointOK, useWal, Writing,
      WritePoints, Marking, Alone, TaskOK, CkPoints, Moves, SameCall, SameCache, SameWal,
      SameJob, WalIs, JobIs
<1> QED
  BY <1>1, <1>3, <1>4, <1>5, <1>6, <1>7, <1>8, ContentsPut DEF ContentOf

LEMMA RestartHdrContents ==
  ASSUME ContInv, BaseOK', MarkInv', NEW c \in Conn, RestartHdr(c)
  PROVE  ContentsOK'
<1>1. /\ RestartHdrDoes(c) /\ OthersStay(c) /\ Around(c) /\ Before(c)' /\ TypesOK
      /\ MarkInv /\ FrameOf(c) /\ IterOK(c) /\ BatchOK(c) /\ NewOK(c) /\ KeptOK(c)
  BY AroundOK, AfterOK, RestartHdrEffect DEF OwnOK, ContInv, ContentsOK, ContentOf
<1>2. Quiet
  BY <1>1
  DEF Quiet, RestartHdrDoes, Around, dbVars, logVars, shmVars, TypesOK, ReadLocks, MayRestart
<1>3. /\ Steady(c) /\ Under(aHdr[0])' = Under(aHdr[0])
      /\ SameView(c) => Seen(c)' = Seen(c)
  BY <1>1, <1>2, QuietSteady
<1>4. FrameOf(c)'
  BY <1>1, <1>2, <1>3, Sizes
  DEF RestartHdrDoes, FrameOf, Quiet, Around, Before, PointOK, useWal, Writing, WritePoints,
      Marking, Alone, Moves, SameCall, SameCache, SameWal, SameJob, WalIs, JobIs, ReadLocks,
      MayRestart
<1>5. IterOK(c)'
  BY <1>1, <1>2, <1>3, Sizes
  DEF RestartHdrDoes, IterOK, Quiet, Around, Before, PointOK, Last, Moves, SameCall, SameCache,
      SameWal, SameJob, WalIs, JobIs, ReadLocks, MayRestart
<1>6. BatchOK(c)'
  BY <1>1, <1>2, <1>3, Sizes
  DEF RestartHdrDoes, BatchOK, Around, Before, PointOK, useWal, Writing, WritePoints, Marking,
      Alone, Dirty, TaskOK, Moves, SameCall, SameCache, SameWal, SameJob, WalIs, JobIs,
      ReadLocks, MayRestart
<1>7. NewOK(c)'
  BY <1>1, <1>2, <1>3, Sizes
  DEF RestartHdrDoes, NewOK, New, Quiet, SameView, Around, Before, PointOK, useWal, Moves,
      SameCall, SameCache, SameWal, SameJob, WalIs, JobIs, ReadLocks, MayRestart
<1>8. KeptOK(c)'
  BY <1>1, <1>2, <1>3, Sizes
  DEF RestartHdrDoes, KeptOK, Quiet, SameView, Around, Before, PointOK, useWal, Writing,
      WritePoints, Marking, Alone, TaskOK, CkPoints, Moves, SameCall, SameCache, SameWal,
      SameJob, WalIs, JobIs, ReadLocks, MayRestart
<1> QED
  BY <1>1, <1>3, <1>4, <1>5, <1>6, <1>7, <1>8, ContentsPut DEF ContentOf

LEMMA KeepLogContents ==
  ASSUME ContInv, BaseOK', MarkInv', NEW c \in Conn, KeepLog(c)
  PROVE  ContentsOK'
<1>1. /\ KeepLogDoes(c) /\ OthersStay(c) /\ Around(c) /\ Before(c)' /\ TypesOK
      /\ MarkInv /\ FrameOf(c) /\ IterOK(c) /\ BatchOK(c) /\ NewOK(c) /\ KeptOK(c)
  BY AroundOK, AfterOK, KeepLogEffect DEF OwnOK, ContInv, ContentsOK, ContentOf
<1>2. Quiet
  BY <1>1 DEF Quiet, KeepLogDoes, Around, dbVars, logVars, shmVars, TypesOK, ToLog
<1>3. /\ Steady(c) /\ Under(aHdr[0])' = Under(aHdr[0])
      /\ SameView(c) => Seen(c)' = Seen(c)
  BY <1>1, <1>2, QuietSteady
<1>4. FrameOf(c)'
  BY <1>1, <1>2, <1>3, Sizes
  DEF KeepLogDoes, FrameOf, Quiet, Around, Before, PointOK, useWal, Writing, WritePoints,
      Marking, Alone, Moves, SameCall, SameCache, SameWal, SameJob, WalIs, JobIs, ToLog
<1>5. IterOK(c)'
  BY <1>1, <1>2, <1>3, Sizes
  DEF KeepLogDoes, IterOK, Quiet, Around, Before, PointOK, Last, Moves, SameCall, SameCache,
      SameWal, SameJob, WalIs, JobIs, ToLog
<1>6. BatchOK(c)'
  BY <1>1, <1>2, <1>3, Sizes
  DEF KeepLogDoes, BatchOK, Around, Before, PointOK, useWal, Writing, WritePoints, Marking,
      Alone, Dirty, TaskOK, Moves, SameCall, SameCache, SameWal, SameJob, WalIs, JobIs, ToLog
<1>7. NewOK(c)'
  <2>1. pc'[c] \in {"append", "rewrite", "publish"} =>
          job'[c].iFrame = wal'[c].hdr.mx /\ job'[c].todo = job'[c].batch
    BY <1>1
    DEF KeepLogDoes, BatchOK, Around, Before, PointOK, Alone, Moves, SameCall, SameCache,
        SameWal, SameJob, WalIs, JobIs, ToLog
  <2> QED
    BY <1>1, <2>1, NewEmpty DEF NewOK, Before
<1>8. KeptOK(c)'
  BY <1>1, <1>2, <1>3, Sizes
  DEF KeepLogDoes, KeptOK, Quiet, SameView, Around, Before, PointOK, useWal, Writing,
      WritePoints, Marking, Alone, TaskOK, CkPoints, Moves, SameCall, SameCache, SameWal,
      SameJob, WalIs, JobIs, ToLog
<1> QED
  BY <1>1, <1>3, <1>4, <1>5, <1>6, <1>7, <1>8, ContentsPut DEF ContentOf

LEMMA WriteHeaderContents ==
  ASSUME ContInv, BaseOK', MarkInv', NEW c \in Conn, WriteHeader(c)
  PROVE  ContentsOK'
<1>1. /\ WriteHeaderDoes(c) /\ OthersStay(c) /\ Around(c) /\ Before(c)' /\ TypesOK
      /\ MarkInv /\ FrameOf(c) /\ IterOK(c) /\ BatchOK(c) /\ NewOK(c) /\ KeptOK(c)
  BY AroundOK, AfterOK, WriteHeaderEffect DEF OwnOK, ContInv, ContentsOK, ContentOf
<1>2. Quiet
  BY <1>1 DEF Quiet, WriteHeaderDoes, Around, dbVars, logVars, shmVars, TypesOK
<1>3. /\ Steady(c) /\ Under(aHdr[0])' = Under(aHdr[0])
      /\ SameView(c) => Seen(c)' = Seen(c)
  BY <1>1, <1>2, QuietSteady
<1>4. FrameOf(c)'
  BY <1>1, <1>2, <1>3, Sizes
  DEF WriteHeaderDoes, FrameOf, Quiet, Around, Before, PointOK, useWal, Writing, WritePoints,
      Marking, Alone, Moves, SameCall, SameCache, SameWal, SameJob, WalIs, JobIs
<1>5. IterOK(c)'
  BY <1>1, <1>2, <1>3, Sizes
  DEF WriteHeaderDoes, IterOK, Quiet, Around, Before, PointOK, Last, Moves, SameCall,
      SameCache, SameWal, SameJob, WalIs, JobIs
<1>6. BatchOK(c)'
  BY <1>1, <1>2, <1>3, Sizes
  DEF WriteHeaderDoes, BatchOK, Around, Before, PointOK, useWal, Writing, WritePoints, Marking,
      Alone, Dirty, TaskOK, Moves, SameCall, SameCache, SameWal, SameJob, WalIs, JobIs
<1>7. NewOK(c)'
  BY <1>1, <1>2, <1>3, Sizes
  DEF WriteHeaderDoes, NewOK, New, Quiet, SameView, Around, Before, PointOK, useWal, Moves,
      SameCall, SameCache, SameWal, SameJob, WalIs, JobIs
<1>8. KeptOK(c)'
  BY <1>1, <1>2, <1>3, Sizes
  DEF WriteHeaderDoes, KeptOK, Quiet, SameView, Around, Before, PointOK, useWal, Writing,
      WritePoints, Marking, Alone, TaskOK, CkPoints, Moves, SameCall, SameCache, SameWal,
      SameJob, WalIs, JobIs
<1> QED
  BY <1>1, <1>3, <1>4, <1>5, <1>6, <1>7, <1>8, ContentsPut DEF ContentOf

LEMMA SyncHeaderContents ==
  ASSUME ContInv, BaseOK', MarkInv', NEW c \in Conn, SyncHeader(c)
  PROVE  ContentsOK'
<1>1. /\ SyncHeaderDoes(c) /\ OthersStay(c) /\ Around(c) /\ Before(c)' /\ TypesOK
      /\ MarkInv /\ FrameOf(c) /\ IterOK(c) /\ BatchOK(c) /\ NewOK(c) /\ KeptOK(c)
  BY AroundOK, AfterOK, SyncHeaderEffect DEF OwnOK, ContInv, ContentsOK, ContentOf
<1>2. Quiet
  BY <1>1 DEF Quiet, SyncHeaderDoes, Around, dbVars, logVars, shmVars, TypesOK
<1>3. /\ Steady(c) /\ Under(aHdr[0])' = Under(aHdr[0])
      /\ SameView(c) => Seen(c)' = Seen(c)
  BY <1>1, <1>2, QuietSteady
<1>4. FrameOf(c)'
  BY <1>1, <1>2, <1>3, Sizes
  DEF SyncHeaderDoes, FrameOf, Quiet, Around, Before, PointOK, useWal, Writing, WritePoints,
      Marking, Alone, Moves, SameCall, SameCache, SameWal, SameJob, WalIs, JobIs
<1>5. IterOK(c)'
  BY <1>1, <1>2, <1>3, Sizes
  DEF SyncHeaderDoes, IterOK, Quiet, Around, Before, PointOK, Last, Moves, SameCall, SameCache,
      SameWal, SameJob, WalIs, JobIs
<1>6. BatchOK(c)'
  BY <1>1, <1>2, <1>3, Sizes
  DEF SyncHeaderDoes, BatchOK, Around, Before, PointOK, useWal, Writing, WritePoints, Marking,
      Alone, Dirty, TaskOK, Moves, SameCall, SameCache, SameWal, SameJob, WalIs, JobIs
<1>7. NewOK(c)'
  <2>1. pc'[c] \in {"append", "rewrite", "publish"} =>
          job'[c].iFrame = wal'[c].hdr.mx /\ job'[c].todo = job'[c].batch
    BY <1>1
    DEF SyncHeaderDoes, BatchOK, Around, Before, PointOK, Alone, Moves, SameCall, SameCache,
        SameWal, SameJob, WalIs, JobIs
  <2> QED
    BY <1>1, <2>1, NewEmpty DEF NewOK, Before
<1>8. KeptOK(c)'
  BY <1>1, <1>2, <1>3, Sizes
  DEF SyncHeaderDoes, KeptOK, Quiet, SameView, Around, Before, PointOK, useWal, Writing,
      WritePoints, Marking, Alone, TaskOK, CkPoints, Moves, SameCall, SameCache, SameWal,
      SameJob, WalIs, JobIs
<1> QED
  BY <1>1, <1>3, <1>4, <1>5, <1>6, <1>7, <1>8, ContentsPut DEF ContentOf

LEMMA StartCheckpointContents ==
  ASSUME ContInv, BaseOK', MarkInv', NEW c \in Conn, StartCheckpoint(c)
  PROVE  ContentsOK'
<1>1. /\ StartCheckpointDoes(c) /\ OthersStay(c) /\ Around(c) /\ Before(c)' /\ TypesOK
      /\ MarkInv /\ FrameOf(c) /\ IterOK(c) /\ BatchOK(c) /\ NewOK(c) /\ KeptOK(c)
  BY AroundOK, AfterOK, StartCheckpointEffect DEF OwnOK, ContInv, ContentsOK, ContentOf
<1>2. Quiet
  BY <1>1 DEF Quiet, StartCheckpointDoes, Around, dbVars, logVars, shmVars, TypesOK
<1>3. /\ Steady(c) /\ Under(aHdr[0])' = Under(aHdr[0])
      /\ SameView(c) => Seen(c)' = Seen(c)
  BY <1>1, <1>2, QuietSteady
<1>4. FrameOf(c)'
  BY <1>1, <1>2, <1>3, Sizes
  DEF StartCheckpointDoes, FrameOf, Quiet, Around, Before, PointOK, useWal, Writing,
      WritePoints, Marking, Alone, Moves, SameCall, SameCache, SameWal, SameJob, WalIs, JobIs
<1>5. IterOK(c)'
  BY <1>1, <1>2, <1>3, Sizes
  DEF StartCheckpointDoes, IterOK, Quiet, Around, Before, PointOK, Last, Moves, SameCall,
      SameCache, SameWal, SameJob, WalIs, JobIs
<1>6. BatchOK(c)'
  BY <1>1, <1>2, <1>3, Sizes
  DEF StartCheckpointDoes, BatchOK, Around, Before, PointOK, useWal, Writing, WritePoints,
      Marking, Alone, Dirty, TaskOK, Moves, SameCall, SameCache, SameWal, SameJob, WalIs, JobIs
<1>7. NewOK(c)'
  BY <1>1, <1>2, <1>3, Sizes
  DEF StartCheckpointDoes, NewOK, New, Quiet, SameView, Around, Before, PointOK, useWal, Moves,
      SameCall, SameCache, SameWal, SameJob, WalIs, JobIs
<1>8. KeptOK(c)'
  BY <1>1, <1>2, <1>3, Sizes
  DEF StartCheckpointDoes, KeptOK, Quiet, SameView, Around, Before, PointOK, useWal, Writing,
      WritePoints, Marking, Alone, TaskOK, CkPoints, Moves, SameCall, SameCache, SameWal,
      SameJob, WalIs, JobIs
<1> QED
  BY <1>1, <1>3, <1>4, <1>5, <1>6, <1>7, <1>8, ContentsPut DEF ContentOf

LEMMA InitIteratorContents ==
  ASSUME ContInv, BaseOK', MarkInv', NEW c \in Conn, InitIterator(c)
  PROVE  ContentsOK'
<1>1. /\ InitIteratorDoes(c) /\ OthersStay(c) /\ Around(c) /\ Before(c)' /\ TypesOK
      /\ MarkInv /\ FrameOf(c) /\ IterOK(c) /\ BatchOK(c) /\ NewOK(c) /\ KeptOK(c)
  BY AroundOK, AfterOK, InitIteratorEffect DEF OwnOK, ContInv, ContentsOK, ContentOf
<1>2. Quiet
  BY <1>1 DEF Quiet, InitIteratorDoes, Around, dbVars, logVars, shmVars, TypesOK
<1>3. /\ Steady(c) /\ Under(aHdr[0])' = Under(aHdr[0])
      /\ SameView(c) => Seen(c)' = Seen(c)
  BY <1>1, <1>2, QuietSteady
<1>4. FrameOf(c)'
  BY <1>1, <1>2, <1>3, Sizes
  DEF InitIteratorDoes, FrameOf, Quiet, Around, Before, PointOK, useWal, Writing, WritePoints,
      Marking, Alone, Moves, SameCall, SameCache, SameWal, SameJob, WalIs, JobIs
<1>5. IterOK(c)'
  BY <1>1, <1>2, <1>3, Sizes
  DEF InitIteratorDoes, IterOK, Quiet, Around, Before, PointOK, Last, Moves, SameCall,
      SameCache, SameWal, SameJob, WalIs, JobIs
<1>6. BatchOK(c)'
  BY <1>1, <1>2, <1>3, Sizes
  DEF InitIteratorDoes, BatchOK, Around, Before, PointOK, useWal, Writing, WritePoints,
      Marking, Alone, Dirty, TaskOK, Moves, SameCall, SameCache, SameWal, SameJob, WalIs, JobIs
<1>7. NewOK(c)'
  BY <1>1, <1>2, <1>3, Sizes
  DEF InitIteratorDoes, NewOK, New, Quiet, SameView, Around, Before, PointOK, useWal, Moves,
      SameCall, SameCache, SameWal, SameJob, WalIs, JobIs
<1>8. KeptOK(c)'
  BY <1>1, <1>2, <1>3, Sizes
  DEF InitIteratorDoes, KeptOK, Quiet, SameView, Around, Before, PointOK, useWal, Writing,
      WritePoints, Marking, Alone, TaskOK, CkPoints, Moves, SameCall, SameCache, SameWal,
      SameJob, WalIs, JobIs
<1> QED
  BY <1>1, <1>3, <1>4, <1>5, <1>6, <1>7, <1>8, ContentsPut DEF ContentOf

LEMMA VisitMarkContents ==
  ASSUME ContInv, BaseOK', MarkInv', NEW c \in Conn, VisitMark(c)
  PROVE  ContentsOK'
<1>1. /\ VisitMarkDoes(c) /\ OthersStay(c) /\ Around(c) /\ Before(c)' /\ TypesOK
      /\ MarkInv /\ FrameOf(c) /\ IterOK(c) /\ BatchOK(c) /\ NewOK(c) /\ KeptOK(c)
  BY AroundOK, AfterOK, VisitMarkEffect DEF OwnOK, ContInv, ContentsOK, ContentOf
<1>2. Quiet
  BY <1>1 DEF Quiet, VisitMarkDoes, Around, dbVars, logVars, shmVars, TypesOK
<1>3. /\ Steady(c) /\ Under(aHdr[0])' = Under(aHdr[0])
      /\ SameView(c) => Seen(c)' = Seen(c)
  BY <1>1, <1>2, QuietSteady
<1>4. FrameOf(c)'
  BY <1>1, <1>2, <1>3, Sizes
  DEF VisitMarkDoes, FrameOf, Quiet, Around, Before, PointOK, useWal, Writing, WritePoints,
      Marking, Alone, Moves, SameCall, SameCache, SameWal, SameJob, WalIs, JobIs
<1>5. IterOK(c)'
  BY <1>1, <1>2, <1>3, Sizes
  DEF VisitMarkDoes, IterOK, Quiet, Around, Before, PointOK, Last, Moves, SameCall, SameCache,
      SameWal, SameJob, WalIs, JobIs
<1>6. BatchOK(c)'
  BY <1>1, <1>2, <1>3, Sizes
  DEF VisitMarkDoes, BatchOK, Around, Before, PointOK, useWal, Writing, WritePoints, Marking,
      Alone, Dirty, TaskOK, Moves, SameCall, SameCache, SameWal, SameJob, WalIs, JobIs
<1>7. NewOK(c)'
  BY <1>1, <1>2, <1>3, Sizes
  DEF VisitMarkDoes, NewOK, New, Quiet, SameView, Around, Before, PointOK, useWal, Moves,
      SameCall, SameCache, SameWal, SameJob, WalIs, JobIs
<1>8. KeptOK(c)'
  BY <1>1, <1>2, <1>3, Sizes
  DEF VisitMarkDoes, KeptOK, Quiet, SameView, Around, Before, PointOK, useWal, Writing,
      WritePoints, Marking, Alone, TaskOK, CkPoints, Moves, SameCall, SameCache, SameWal,
      SameJob, WalIs, JobIs
<1> QED
  BY <1>1, <1>3, <1>4, <1>5, <1>6, <1>7, <1>8, ContentsPut DEF ContentOf

LEMMA LockZeroContents ==
  ASSUME ContInv, BaseOK', MarkInv', NEW c \in Conn, LockZero(c)
  PROVE  ContentsOK'
<1>1. /\ LockZeroDoes(c) /\ OthersStay(c) /\ Around(c) /\ Before(c)' /\ TypesOK
      /\ MarkInv /\ FrameOf(c) /\ IterOK(c) /\ BatchOK(c) /\ NewOK(c) /\ KeptOK(c)
  BY AroundOK, AfterOK, LockZeroEffect DEF OwnOK, ContInv, ContentsOK, ContentOf
<1>2. Quiet
  BY <1>1 DEF Quiet, LockZeroDoes, Around, dbVars, logVars, shmVars, TypesOK
<1>3. /\ Steady(c) /\ Under(aHdr[0])' = Under(aHdr[0])
      /\ SameView(c) => Seen(c)' = Seen(c)
  BY <1>1, <1>2, QuietSteady
<1>4. FrameOf(c)'
  BY <1>1, <1>2, <1>3, Sizes
  DEF LockZeroDoes, FrameOf, Quiet, Around, Before, PointOK, useWal, Writing, WritePoints,
      Marking, Alone, Moves, SameCall, SameCache, SameWal, SameJob, WalIs, JobIs
<1>5. IterOK(c)'
  BY <1>1, <1>2, <1>3, Sizes
  DEF LockZeroDoes, IterOK, Quiet, Around, Before, PointOK, Last, Moves, SameCall, SameCache,
      SameWal, SameJob, WalIs, JobIs
<1>6. BatchOK(c)'
  BY <1>1, <1>2, <1>3, Sizes
  DEF LockZeroDoes, BatchOK, Around, Before, PointOK, useWal, Writing, WritePoints, Marking,
      Alone, Dirty, TaskOK, Moves, SameCall, SameCache, SameWal, SameJob, WalIs, JobIs
<1>7. NewOK(c)'
  BY <1>1, <1>2, <1>3, Sizes
  DEF LockZeroDoes, NewOK, New, Quiet, SameView, Around, Before, PointOK, useWal, Moves,
      SameCall, SameCache, SameWal, SameJob, WalIs, JobIs
<1>8. KeptOK(c)'
  BY <1>1, <1>2, <1>3, Sizes
  DEF LockZeroDoes, KeptOK, Quiet, SameView, Around, Before, PointOK, useWal, Writing,
      WritePoints, Marking, Alone, TaskOK, CkPoints, Moves, SameCall, SameCache, SameWal,
      SameJob, WalIs, JobIs
<1> QED
  BY <1>1, <1>3, <1>4, <1>5, <1>6, <1>7, <1>8, ContentsPut DEF ContentOf

LEMMA GiveUpContents ==
  ASSUME ContInv, BaseOK', MarkInv', NEW c \in Conn, GiveUp(c)
  PROVE  ContentsOK'
<1>1. /\ GiveUpDoes(c) /\ OthersStay(c) /\ Around(c) /\ Before(c)' /\ TypesOK
      /\ MarkInv /\ FrameOf(c) /\ IterOK(c) /\ BatchOK(c) /\ NewOK(c) /\ KeptOK(c)
  BY AroundOK, AfterOK, GiveUpEffect DEF OwnOK, ContInv, ContentsOK, ContentOf
<1>2. Quiet
  BY <1>1 DEF Quiet, GiveUpDoes, Around, dbVars, logVars, shmVars, TypesOK
<1>3. /\ Steady(c) /\ Under(aHdr[0])' = Under(aHdr[0])
      /\ SameView(c) => Seen(c)' = Seen(c)
  BY <1>1, <1>2, QuietSteady
<1>4. FrameOf(c)'
  BY <1>1, <1>2, <1>3, Sizes
  DEF GiveUpDoes, FrameOf, Quiet, Around, Before, PointOK, useWal, Writing, WritePoints,
      Marking, Alone, Moves, SameCall, SameCache, SameWal, SameJob, WalIs, JobIs
<1>5. IterOK(c)'
  BY <1>1, <1>2, <1>3, Sizes
  DEF GiveUpDoes, IterOK, Quiet, Around, Before, PointOK, Last, Moves, SameCall, SameCache,
      SameWal, SameJob, WalIs, JobIs
<1>6. BatchOK(c)'
  BY <1>1, <1>2, <1>3, Sizes
  DEF GiveUpDoes, BatchOK, Around, Before, PointOK, useWal, Writing, WritePoints, Marking,
      Alone, Dirty, TaskOK, Moves, SameCall, SameCache, SameWal, SameJob, WalIs, JobIs
<1>7. NewOK(c)'
  BY <1>1, <1>2, <1>3, Sizes
  DEF GiveUpDoes, NewOK, New, Quiet, SameView, Around, Before, PointOK, useWal, Moves,
      SameCall, SameCache, SameWal, SameJob, WalIs, JobIs
<1>8. KeptOK(c)'
  BY <1>1, <1>2, <1>3, Sizes
  DEF GiveUpDoes, KeptOK, Quiet, SameView, Around, Before, PointOK, useWal, Writing,
      WritePoints, Marking, Alone, TaskOK, CkPoints, Moves, SameCall, SameCache, SameWal,
      SameJob, WalIs, JobIs
<1> QED
  BY <1>1, <1>3, <1>4, <1>5, <1>6, <1>7, <1>8, ContentsPut DEF ContentOf

LEMMA CheckpointFailsContents ==
  ASSUME ContInv, BaseOK', MarkInv', NEW c \in Conn, CheckpointFails(c)
  PROVE  ContentsOK'
<1>1. /\ CheckpointFailsDoes(c) /\ OthersStay(c) /\ Around(c) /\ Before(c)' /\ TypesOK
      /\ MarkInv /\ FrameOf(c) /\ IterOK(c) /\ BatchOK(c) /\ NewOK(c) /\ KeptOK(c)
  BY AroundOK, AfterOK, CheckpointFailsEffect DEF OwnOK, ContInv, ContentsOK, ContentOf
<1>2. Quiet
  BY <1>1 DEF Quiet, CheckpointFailsDoes, Around, dbVars, logVars, shmVars, TypesOK
<1>3. /\ Steady(c) /\ Under(aHdr[0])' = Under(aHdr[0])
      /\ SameView(c) => Seen(c)' = Seen(c)
  BY <1>1, <1>2, QuietSteady
<1>4. FrameOf(c)'
  BY <1>1, <1>2, <1>3, Sizes
  DEF CheckpointFailsDoes, FrameOf, Quiet, Around, Before, PointOK, useWal, Writing,
      WritePoints, Marking, Alone, Moves, SameCall, SameCache, SameWal, SameJob, WalIs, JobIs
<1>5. IterOK(c)'
  BY <1>1, <1>2, <1>3, Sizes
  DEF CheckpointFailsDoes, IterOK, Quiet, Around, Before, PointOK, Last, Moves, SameCall,
      SameCache, SameWal, SameJob, WalIs, JobIs
<1>6. BatchOK(c)'
  BY <1>1, <1>2, <1>3, Sizes
  DEF CheckpointFailsDoes, BatchOK, Around, Before, PointOK, useWal, Writing, WritePoints,
      Marking, Alone, Dirty, TaskOK, Moves, SameCall, SameCache, SameWal, SameJob, WalIs, JobIs
<1>7. NewOK(c)'
  BY <1>1, <1>2, <1>3, Sizes
  DEF CheckpointFailsDoes, NewOK, New, Quiet, SameView, Around, Before, PointOK, useWal, Moves,
      SameCall, SameCache, SameWal, SameJob, WalIs, JobIs
<1>8. KeptOK(c)'
  BY <1>1, <1>2, <1>3, Sizes
  DEF CheckpointFailsDoes, KeptOK, Quiet, SameView, Around, Before, PointOK, useWal, Writing,
      WritePoints, Marking, Alone, TaskOK, CkPoints, Moves, SameCall, SameCache, SameWal,
      SameJob, WalIs, JobIs
<1> QED
  BY <1>1, <1>3, <1>4, <1>5, <1>6, <1>7, <1>8, ContentsPut DEF ContentOf

LEMMA EndCheckpointContents ==
  ASSUME ContInv, BaseOK', MarkInv', NEW c \in Conn, EndCheckpoint(c)
  PROVE  ContentsOK'
<1>1. /\ EndCheckpointDoes(c) /\ OthersStay(c) /\ Around(c) /\ Before(c)' /\ TypesOK
      /\ MarkInv /\ FrameOf(c) /\ IterOK(c) /\ BatchOK(c) /\ NewOK(c) /\ KeptOK(c)
  BY AroundOK, AfterOK, EndCheckpointEffect DEF OwnOK, ContInv, ContentsOK, ContentOf
<1>2. Quiet
  BY <1>1
  DEF Quiet, EndCheckpointDoes, Around, dbVars, logVars, shmVars, TypesOK, HdrAfter, NoJob,
      NoHdr
<1>3. /\ Steady(c) /\ Under(aHdr[0])' = Under(aHdr[0])
      /\ SameView(c) => Seen(c)' = Seen(c)
  BY <1>1, <1>2, QuietSteady
<1>4. FrameOf(c)'
  BY <1>1, <1>2, <1>3, Sizes
  DEF EndCheckpointDoes, FrameOf, Quiet, Around, Before, PointOK, useWal, Writing, WritePoints,
      Marking, Alone, Moves, SameCall, SameCache, SameWal, SameJob, WalIs, JobIs, HdrAfter,
      NoJob, NoHdr
<1>5. IterOK(c)'
  BY <1>1, <1>2, <1>3, Sizes
  DEF EndCheckpointDoes, IterOK, Quiet, Around, Before, PointOK, Last, Moves, SameCall,
      SameCache, SameWal, SameJob, WalIs, JobIs, HdrAfter, NoJob, NoHdr
<1>6. BatchOK(c)'
  BY <1>1, <1>2, <1>3, Sizes
  DEF EndCheckpointDoes, BatchOK, Around, Before, PointOK, useWal, Writing, WritePoints,
      Marking, Alone, Dirty, TaskOK, Moves, SameCall, SameCache, SameWal, SameJob, WalIs,
      JobIs, HdrAfter, NoJob, NoHdr
<1>7. NewOK(c)'
  BY <1>1, <1>2, <1>3, Sizes
  DEF EndCheckpointDoes, NewOK, New, Quiet, SameView, Around, Before, PointOK, useWal, Moves,
      SameCall, SameCache, SameWal, SameJob, WalIs, JobIs, HdrAfter, NoJob, NoHdr
<1>8. KeptOK(c)'
  <2>1. /\ pc'[c] = "idle" /\ call'[c] = "none" /\ kept'[c] = kept[c] /\ call[c] = "ckpt"
        /\ wal'[c].hdr = IF job[c].changed THEN NoHdr ELSE wal[c].hdr
    BY <1>1
    DEF EndCheckpointDoes, Moves, SameCache, WalIs, HdrAfter, Around, Before, PointOK, CkPoints
  <2>2. ~Writing(c)'
    BY <2>1 DEF Writing, WritePoints, useWal
  <2>3. kept[c] # NoImage => aHdr[0] # NoHdr
    BY <1>1 DEF Around, Before, HdrOK, Unused, NoHdr
  <2> QED
    BY <1>1, <1>2, <1>3, <2>1, <2>2, <2>3 DEF KeptOK, Quiet
<1> QED
  BY <1>1, <1>3, <1>4, <1>5, <1>6, <1>7, <1>8, ContentsPut DEF ContentOf

-----------------------------------------------------------------------------
(* The steps of a writer that change the log or its index. *)

LEMMA RollbackContents ==
  ASSUME ContInv, BaseOK', NEW c \in Conn, Rollback(c)
  PROVE  ContentsOK'
<1>1. /\ RollbackDoes(c) /\ OthersStay(c) /\ Around(c) /\ KeptOK(c)
      /\ aHdr[0].mx \in 0 .. MaxFrame
  BY AroundOK, RollbackEffect DEF Around, Before, ContInv, ContentsOK, ContentOf
<1>2. Writing(c) /\ ~Writing(c)' /\ ~useWal(c)'
  BY <1>1 DEF RollbackDoes, Writing, WritePoints, useWal
<1>3. Steady(c)
  <2>1. aHdr'[0] = aHdr[0] /\ nBackfill' = nBackfill /\ db' = db /\ log' = log
    BY <1>1 DEF RollbackDoes, dbVars, logVars
  <2>2. \A i \in 1 .. aHdr[0].mx : aPgno'[i] = aPgno[i]
    BY <1>1, Sizes DEF RollbackDoes, Slot
  <2> QED
    BY <1>2, <2>1, <2>2 DEF Steady, FramesStay
<1>4. FrameOf(c)' /\ IterOK(c)' /\ BatchOK(c)' /\ NewOK(c)' /\ KeptOK(c)'
  BY <1>1, <1>2 DEF RollbackDoes, FrameOf, IterOK, BatchOK, NewOK, KeptOK
<1> QED
  BY <1>1, <1>3, <1>4, ContentsPut DEF ContentOf

\* What is known of a writer.
LEMMA WriterKnows ==
  ASSUME ContInv, NEW c \in Conn, useWal(c), wal[c].readLock > 0
  PROVE  /\ Writing(c) /\ Around(c) /\ TypesOK /\ MarkInv
         /\ FrameOf(c) /\ BatchOK(c) /\ NewOK(c) /\ kept[c] = NoImage
         /\ wal[c].hdr.mx \in 0 .. MaxFrame /\ aHdr[0].mx \in 0 .. MaxFrame
         /\ nBackfill \in 0 .. MaxFrame /\ job[c].iFrame \in 0 .. MaxFrame
         /\ aHdr[0].mx <= wal[c].hdr.mx
         /\ wal[c].minFrame \in 1 .. nBackfill + 1 /\ nBackfill <= aHdr[0].mx
         /\ job[c].first # 0 => job[c].first = aHdr[0].mx + 1
         /\ pc[c] # "publish0" => job[c].iFrame >= wal[c].hdr.mx
<1>1. /\ Writing(c) /\ Around(c) /\ TypesOK /\ MarkInv
      /\ FrameOf(c) /\ BatchOK(c) /\ NewOK(c) /\ kept[c] = NoImage
      /\ wal[c].hdr.mx \in 0 .. MaxFrame /\ aHdr[0].mx \in 0 .. MaxFrame
      /\ nBackfill \in 0 .. MaxFrame /\ job[c].iFrame \in 0 .. MaxFrame
  BY AroundOK DEF Around, Before, Numbers, ContInv, ContentsOK, ContentOf, KeptOK, Writing
<1>2. pc[c] # "restart"
  BY <1>1 DEF Around, Before, PointOK
<1>3. /\ aHdr[0].mx <= wal[c].hdr.mx
      /\ job[c].first # 0 => job[c].first = aHdr[0].mx + 1
      /\ pc[c] # "publish0" => job[c].iFrame >= wal[c].hdr.mx
  BY <1>1, <1>2 DEF Around, Before, WriterHdrOK, TaskOK
<1>4. wal[c].minFrame \in 1 .. nBackfill + 1
  BY <1>1 DEF Around, MarkOK
<1>5. nBackfill <= aHdr[0].mx
  <2>1. pc[c] # "restarted"
    BY <1>1 DEF Around, Before, PointOK
  <2>2. \A d \in Conn : pc[d] # "restarted"
    BY <1>1, <2>1, Rivals DEF MarkInv, Writing, WritePoints
  <2> QED
    BY <1>1, <2>2 DEF MarkInv, MarksOK, BackOK
<1> QED
  BY <1>1, <1>3, <1>4, <1>5

\* Writing to the log does not change what the writer sees.
LEMMA LogPageSteady ==
  ASSUME ContInv, BaseOK', NEW c \in Conn, LogPage(c)
  PROVE  Steady(c) /\ Seen(c)' = Seen(c) /\ FrameOf(c)'
<1> DEFINE p == Next1(c)
           k == FindFrame(c, p)
           n == wal[c].hdr.mx
<1>1. LogPageDoes(c) /\ OthersStay(c) /\ Around(c) /\ TypesOK /\ TypesOK'
  BY AroundOK, AfterOK, LogPageEffect DEF Around, Before, ContInv
<1>2. pc[c] = "append" /\ useWal(c) /\ wal[c].readLock > 0
  BY <1>1 DEF LogPageDoes, Moves, Around, Before, PointOK, Alone, Logging
<1>3. /\ Writing(c) /\ FrameOf(c) /\ n \in 0 .. MaxFrame /\ aHdr[0].mx \in 0 .. MaxFrame
      /\ aHdr[0].mx <= n /\ wal[c].minFrame >= 1
      /\ (job[c].first # 0 => job[c].first = aHdr[0].mx + 1)
      /\ job[c].iFrame \in 0 .. MaxFrame /\ job[c].iFrame >= n
  BY <1>2, WriterKnows
<1>4. /\ aHdr'[0] = aHdr[0] /\ nBackfill' = nBackfill /\ db' = db /\ aPgno' = aPgno
      /\ wal'[c].readLock = wal[c].readLock /\ wal'[c].minFrame = wal[c].minFrame
      /\ wal'[c].hdr.mx = n /\ call'[c] = call[c]
      /\ pc'[c] \in {"append", "rewrite", "publish"}
  BY <1>1
  DEF LogPageDoes, OverwriteOne, AppendOne, WalIs, Moves, AfterPage, SameCall, dbVars, shmVars
<1>5. p \in Page
  BY <1>1, <1>2, NextPage DEF Around, Before
<1>6. CASE AppendOne(c, p)
  <2> DEFINE i == job[c].iFrame + 1
  <2>1. OneFrame(i) /\ dirty'[c] = dirty[c]
    BY <1>6 DEF AppendOne
  <2>2. FramesStay(n)
    BY <1>3, <1>4, <2>1, Sizes DEF OneFrame, FramesStay, Slot
  <2>3. FramesStay(aHdr[0].mx)
    BY <1>3, <2>2, FramesStayLess, Sizes
  <2>4. Seen(c)' = Seen(c)
    BY <1>1, <1>3, <1>4, <2>1, <2>2, SeenStays DEF SameView
  <2>5. FrameOf(c)'
    BY <1>3, <1>4, <2>2 DEF FrameOf, FramesStay
  <2> QED
    BY <1>3, <1>4, <2>3, <2>4, <2>5 DEF Steady
<1>7. CASE OverwriteOne(c, p)
  <2>1. /\ k \in Slot /\ OneFrame(k) /\ log'[k].page = log[k].page /\ log'[k].val = Seen(c)[p]
        /\ dirty'[c] = [dirty[c] EXCEPT ![p] = NoPage]
        /\ job[c].first # 0 /\ k >= job[c].first
    BY <1>7 DEF OverwriteOne, Rewritable
  <2>2. k \in 1 .. n /\ k > aHdr[0].mx /\ aPgno[k] = p
    <3>1. k \in 0 .. n /\ k # 0 /\ (k # 0 => aPgno[k] = p)
      BY <1>1, <1>5, <2>1, FindFrameIn, Sizes DEF Slot
    <3> QED
      BY <1>3, <2>1, <3>1, Sizes
  <2>3. \A i \in Slot : log'[i].page = log[i].page /\ (i # k => log'[i] = log[i])
    BY <2>1 DEF OneFrame
  <2>4. FramesStay(aHdr[0].mx)
    BY <1>3, <1>4, <2>2, <2>3, Sizes DEF FramesStay, Slot
  <2>5. FrameOf(c)'
    BY <1>3, <1>4, <2>3, Sizes DEF FrameOf, Slot
  <2>6. ASSUME NEW q \in Page
        PROVE  Seen(c)'[q] = Seen(c)[q]
    <3> DEFINE j == Last(n, q)
    <3>1. Seen(c)[q] = IF dirty[c][q] # NoPage THEN dirty[c][q]
                       ELSE IF j >= wal[c].minFrame THEN log[j].val ELSE db[q]
      BY <1>1, <1>2, <1>3, SeenValue
    <3>2. Last(wal[c].hdr.mx, q)' = j
      BY <1>4 DEF Last
    <3>3. Seen(c)'[q] = IF dirty'[c][q] # NoPage THEN dirty'[c][q]
                        ELSE IF j >= wal[c].minFrame THEN log'[j].val ELSE db[q]
      BY <1>1, <1>2, <1>3, <1>4, <3>2, SeenValueNext
    <3>4. dirty[c] \in [Page -> Content \cup {NoPage}] /\ j \in 0 .. n
          /\ (j # 0 => aPgno[j] = q) /\ wal[c].minFrame \in Nat
      <4>1. j \in 0 .. n /\ (j # 0 => aPgno[j] = q)
        BY <1>1, <1>3, LastIn
      <4>2. dirty[c] \in [Page -> Content \cup {NoPage}] /\ wal[c].minFrame \in 0 .. MaxFrame + 1
        BY <1>1, Types
      <4> QED
        BY <4>1, <4>2, Sizes
    <3>5. CASE q = p
      <4>1. k = IF j >= wal[c].minFrame THEN j ELSE 0
        BY <1>1, <1>2, <1>3, <1>5, <3>5, FindFrameValue
      <4>2. k = j /\ j >= wal[c].minFrame
        BY <2>2, <4>1
      <4>3. dirty'[c][q] = NoPage
        BY <2>1, <3>4, <3>5
      <4> QED
        BY <2>1, <3>3, <3>5, <4>2, <4>3
    <3>6. CASE q # p
      <4>1. dirty'[c][q] = dirty[c][q]
        BY <2>1, <3>4, <3>6
      <4>2. j >= wal[c].minFrame => log'[j] = log[j]
        BY <1>3, <2>2, <2>3, <3>4, <3>6, Sizes DEF Slot
      <4> QED
        BY <3>1, <3>3, <4>1, <4>2
    <3> QED
      BY <3>5, <3>6
  <2>7. Seen(c)' = Seen(c)
    BY <2>6, Images, ImagesNext
  <2> QED
    BY <1>3, <1>4, <2>4, <2>5, <2>7 DEF Steady
<1> QED
  BY <1>1, <1>6, <1>7 DEF LogPageDoes

LEMMA LogPageContents ==
  ASSUME ContInv, BaseOK', NEW c \in Conn, LogPage(c)
  PROVE  ContentsOK'
<1> DEFINE p == Next1(c)
           n == wal[c].hdr.mx
<1>1. LogPageDoes(c) /\ OthersStay(c) /\ Around(c) /\ TypesOK
  BY AroundOK, LogPageEffect DEF Around, Before, ContInv
<1>2. pc[c] = "append" /\ useWal(c) /\ wal[c].readLock > 0
  BY <1>1 DEF LogPageDoes, Moves, Around, Before, PointOK, Alone, Logging
<1>3. /\ Writing(c) /\ BatchOK(c) /\ NewOK(c) /\ kept[c] = NoImage /\ n \in 0 .. MaxFrame
      /\ job[c].iFrame \in 0 .. MaxFrame /\ job[c].iFrame >= n
  BY <1>2, WriterKnows
<1>4. /\ wal'[c].hdr.mx = n /\ call'[c] = call[c] /\ kept'[c] = NoImage
      /\ pc'[c] \in {"append", "rewrite", "publish"}
  BY <1>1, <1>3 DEF LogPageDoes, OverwriteOne, AppendOne, WalIs, Moves, AfterPage, SameCall
<1>5. Steady(c) /\ Seen(c)' = Seen(c) /\ FrameOf(c)'
  BY LogPageSteady
<1>6. p \in Page /\ p \in job[c].todo /\ job[c].todo \subseteq job[c].batch
      /\ job[c].batch \subseteq Page /\ dirty[c] \in [Page -> Content \cup {NoPage}]
  BY <1>1, <1>2, <1>3, NextPage, Types DEF Around, Before, BatchOK
<1>7. BatchOK(c)' /\ NewOK(c)'
  <2>1. CASE AppendOne(c, p)
    <3> DEFINE i == job[c].iFrame + 1
    <3>1. /\ OneFrame(i) /\ i \in Slot /\ log'[i].page = p /\ log'[i].val = Seen(c)[p]
          /\ dirty'[c] = dirty[c] /\ job'[c].todo = job[c].todo \ {p}
          /\ job'[c].batch = job[c].batch /\ job'[c].iFrame = i
      BY <2>1 DEF AppendOne, JobIs
    <3>2. BatchOK(c)'
      BY <1>2, <1>3, <1>4, <1>6, <3>1 DEF BatchOK, useWal, Writing, Dirty
    <3>3. /\ New(c)' = New(c) \cup {i} /\ i \notin New(c)
          /\ \A j \in New(c) : log'[j] = log[j]
      <4>1. /\ New(c) = n + 1 .. job[c].iFrame /\ New(c)' = n + 1 .. i
            /\ n \in Nat /\ job[c].iFrame \in Nat /\ job[c].iFrame <= MaxFrame
        BY <1>3, <1>4, <3>1, Sizes DEF New
      <4>2. \A a, b \in Nat : a <= b =>
              /\ a + 1 .. b + 1 = (a + 1 .. b) \cup {b + 1} /\ b + 1 \notin a + 1 .. b
              /\ a + 1 .. b \subseteq 1 .. b
        OBVIOUS
      <4>3. New(c)' = New(c) \cup {i} /\ i \notin New(c) /\ New(c) \subseteq 1 .. job[c].iFrame
        BY <1>3, <4>1, <4>2
      <4>4. New(c) \subseteq Slot
        BY <1>3, <4>3, Sizes DEF Slot
      <4> QED
        BY <3>1, <4>3, <4>4 DEF OneFrame
    <3>4. /\ \A j \in New(c) : /\ log[j].page \in job[c].batch \ job[c].todo
                               /\ log[j].val = Seen(c)[log[j].page]
          /\ \A j, l \in New(c) : log[j].page = log[l].page => j = l
          /\ \A q \in job[c].batch \ job[c].todo : \E j \in New(c) : log[j].page = q
      BY <1>2, <1>3 DEF NewOK
    <3>5. /\ \A j \in New(c)' : /\ log'[j].page \in job'[c].batch \ job'[c].todo
                                /\ log'[j].val = Seen(c)[log'[j].page]
          /\ \A j, l \in New(c)' : log'[j].page = log'[l].page => j = l
          /\ \A q \in job'[c].batch \ job'[c].todo : \E j \in New(c)' : log'[j].page = q
      BY <1>6, <3>1, <3>3, <3>4
    <3> QED
      BY <1>5, <3>2, <3>5 DEF NewOK
  <2>2. CASE OverwriteOne(c, p)
    <3> DEFINE k == FindFrame(c, p)
    <3>1. /\ OneFrame(k) /\ dirty'[c] = [dirty[c] EXCEPT ![p] = NoPage]
          /\ job'[c].todo = job[c].todo \ {p} /\ job'[c].batch = job[c].batch \ {p}
          /\ job'[c].iFrame = job[c].iFrame
      BY <2>2 DEF OverwriteOne, JobIs
    <3>2. k \in 0 .. n
      BY <1>1, <1>6, FindFrameIn
    <3>3. BatchOK(c)'
      <4>1. Dirty(c)' \subseteq Dirty(c) \ {p}
        BY <1>6, <3>1 DEF Dirty
      <4> QED
        BY <1>2, <1>3, <1>4, <1>6, <3>1, <4>1 DEF BatchOK, useWal, Writing
    <3>4. New(c)' = New(c) /\ \A j \in New(c) : log'[j] = log[j]
      BY <1>3, <1>4, <3>1, <3>2, Sizes DEF New, OneFrame, Slot
    <3>5. job'[c].batch \ job'[c].todo = job[c].batch \ job[c].todo
      BY <1>6, <3>1
    <3> QED
      BY <1>2, <1>3, <1>5, <3>3, <3>4, <3>5 DEF NewOK
  <2> QED
    BY <1>1, <2>1, <2>2 DEF LogPageDoes
<1>8. IterOK(c)' /\ KeptOK(c)'
  BY <1>4 DEF IterOK, KeptOK
<1> QED
  BY <1>1, <1>5, <1>7, <1>8, ContentsPut DEF ContentOf, ContInv

LEMMA RewriteChecksumContents ==
  ASSUME ContInv, BaseOK', NEW c \in Conn, RewriteChecksum(c)
  PROVE  ContentsOK' /\ Seen(c)' = Seen(c)
<1> DEFINE k == wal[c].iReCksum
           n == wal[c].hdr.mx
<1>1. RewriteChecksumDoes(c) /\ OthersStay(c) /\ Around(c) /\ TypesOK /\ TypesOK'
  BY AroundOK, AfterOK, RewriteChecksumEffect DEF Around, Before, ContInv
<1>2. pc[c] = "rewrite" /\ useWal(c) /\ wal[c].readLock > 0
  BY <1>1 DEF RewriteChecksumDoes, Moves, Around, Before, PointOK, Alone, Logging
<1>3. /\ Writing(c) /\ BatchOK(c) /\ NewOK(c) /\ FrameOf(c) /\ kept[c] = NoImage
      /\ n \in 0 .. MaxFrame /\ job[c].iFrame \in 0 .. MaxFrame /\ wal[c].minFrame >= 1
      /\ aHdr[0].mx \in 0 .. MaxFrame
  BY <1>2, WriterKnows
<1>4. /\ wal'[c].hdr.mx = n /\ call'[c] = call[c] /\ kept'[c] = NoImage /\ job'[c] = job[c]
      /\ wal'[c].readLock = wal[c].readLock /\ wal'[c].minFrame = wal[c].minFrame
      /\ pc'[c] \in {"rewrite", "publish"} /\ dirty'[c] = dirty[c]
      /\ aHdr'[0] = aHdr[0] /\ nBackfill' = nBackfill /\ db' = db /\ aPgno' = aPgno
      /\ OneFrame(k) /\ log'[k].page = log[k].page /\ log'[k].val = log[k].val
  BY <1>1, <1>3
  DEF RewriteChecksumDoes, WalIs, Moves, SameCall, SameCache, SameJob, dbVars, shmVars
<1>5. \A i \in Slot : log'[i].page = log[i].page /\ log'[i].val = log[i].val
  BY <1>4 DEF OneFrame
<1>6. \A m \in 0 .. MaxFrame : FramesStay(m)
  BY <1>4, <1>5, Sizes DEF FramesStay, Slot
<1>7. Seen(c)' = Seen(c)
  BY <1>1, <1>3, <1>4, <1>6, SeenStays DEF SameView
<1>8. Steady(c)
  BY <1>3, <1>4, <1>6 DEF Steady
<1>9. FrameOf(c)' /\ IterOK(c)' /\ BatchOK(c)' /\ KeptOK(c)'
  <2>1. FrameOf(c)'
    BY <1>3, <1>4, <1>5, Sizes DEF FrameOf, Slot
  <2>2. BatchOK(c)'
    BY <1>2, <1>3, <1>4 DEF BatchOK, useWal, Writing, Dirty
  <2> QED
    BY <1>4, <2>1, <2>2 DEF IterOK, KeptOK
<1>10. NewOK(c)'
  <2>1. New(c)' = New(c) /\ New(c) \subseteq Slot
    BY <1>3, <1>4, Sizes DEF New, Slot
  <2> QED
    BY <1>2, <1>3, <1>4, <1>5, <1>7, <2>1 DEF NewOK
<1> QED
  BY <1>1, <1>7, <1>8, <1>9, <1>10, ContentsPut DEF ContentOf

-----------------------------------------------------------------------------
(* The frames of a transaction enter the index. *)

\* The writer sees in the index what it saw in its cache.
LEMMA PublishSteady ==
  ASSUME ContInv, BaseOK', NEW c \in Conn, Publish(c)
  PROVE  Steady(c) /\ Seen(c)' = Seen(c) /\ FrameOf(c)'
<1> DEFINE n == wal[c].hdr.mx
           e == job[c].iFrame
<1>1. PublishDoes(c) /\ OthersStay(c) /\ Around(c) /\ TypesOK /\ TypesOK'
  BY AroundOK, AfterOK, PublishEffect DEF Around, Before, ContInv
<1>2. pc[c] = "publish" /\ useWal(c) /\ wal[c].readLock > 0 /\ job[c].todo = {}
  BY <1>1 DEF PublishDoes, Around, Before, PointOK, TaskOK, Alone, Logging, Logged
<1>3. /\ Writing(c) /\ BatchOK(c) /\ NewOK(c) /\ FrameOf(c)
      /\ n \in 0 .. MaxFrame /\ e \in 0 .. MaxFrame /\ e >= n
      /\ aHdr[0].mx \in 0 .. MaxFrame /\ aHdr[0].mx <= n
      /\ nBackfill \in 0 .. MaxFrame /\ nBackfill <= aHdr[0].mx
      /\ wal[c].minFrame \in 1 .. nBackfill + 1
  BY <1>2, WriterKnows
<1>4. /\ aHdr'[0] = aHdr[0] /\ nBackfill' = nBackfill /\ db' = db /\ log' = log
      /\ wal'[c].hdr.mx = e /\ wal'[c].readLock = wal[c].readLock
      /\ wal'[c].minFrame = wal[c].minFrame
      /\ dirty'[c] = [p \in Page |-> IF p \in job[c].batch THEN NoPage ELSE dirty[c][p]]
  BY <1>1 DEF PublishDoes, WalIs, NewHdr, dbVars, logVars, TypesOK
<1>5. /\ \A i \in 1 .. n : aPgno'[i] = aPgno[i]
      /\ \A i \in n + 1 .. e : aPgno'[i] = log[i].page
  BY <1>1, <1>3, Sizes DEF PublishDoes, Slot
<1>6. /\ \A i \in n + 1 .. e : log[i].page \in job[c].batch /\ log[i].val = Seen(c)[log[i].page]
      /\ \A i, j \in n + 1 .. e : log[i].page = log[j].page => i = j
      /\ \A p \in job[c].batch : \E i \in n + 1 .. e : log[i].page = p
      /\ job[c].batch \subseteq Page
  <2>1. job[c].batch \subseteq Page
    BY <1>1, Types
  <2> QED
    BY <1>2, <1>3, <2>1 DEF NewOK, New
<1>7. FrameOf(c)'
  <2> SUFFICES ASSUME NEW i \in 1 .. e
               PROVE  aPgno'[i] = log[i].page /\ aPgno'[i] # 0
    BY <1>4 DEF FrameOf
  <2>1. CASE i <= n
    BY <1>3, <1>5, <2>1 DEF FrameOf
  <2>2. CASE ~(i <= n)
    BY <1>3, <1>5, <1>6, <2>2 DEF Page
  <2> QED
    BY <2>1, <2>2
<1>8. Steady(c)
  <2>1. \A i \in 1 .. aHdr[0].mx : i \in 1 .. n
    BY <1>3, Sizes
  <2> QED
    BY <1>3, <1>4, <1>5, <2>1 DEF Steady, FramesStay
<1>9. ASSUME NEW p \in Page
      PROVE  Seen(c)'[p] = Seen(c)[p]
  <2> DEFINE j == Latest(aPgno', e, p)
             k == Last(n, p)
  <2>1. Seen(c)[p] = IF dirty[c][p] # NoPage THEN dirty[c][p]
                     ELSE IF k >= wal[c].minFrame THEN log[k].val ELSE db[p]
    BY <1>1, <1>2, <1>3, SeenValue
  <2>2. Last(wal[c].hdr.mx, p)' = j
    BY <1>4 DEF Last, Latest
  <2>3. Seen(c)'[p] = IF dirty'[c][p] # NoPage THEN dirty'[c][p]
                      ELSE IF j >= wal[c].minFrame THEN log[j].val ELSE db[p]
    BY <1>1, <1>2, <1>3, <1>4, <2>2, SeenValueNext
  <2>4. CASE p \in job[c].batch
    <3>1. PICK i \in n + 1 .. e : log[i].page = p
      BY <1>6, <2>4
    <3>2. i \in 1 .. e /\ aPgno'[i] = p /\ e \in Nat
      BY <1>3, <1>5, <3>1, Sizes
    <3>3. \A l \in 1 .. e : aPgno'[l] = p => l <= i
      <4> SUFFICES ASSUME NEW l \in 1 .. e, aPgno'[l] = p
                   PROVE  l <= i
        OBVIOUS
      <4>1. CASE l <= n
        BY <1>3, <3>1, <4>1
      <4>2. CASE ~(l <= n)
        <5>1. l \in n + 1 .. e
          BY <1>3, <4>2, Sizes
        <5>2. l = i
          BY <1>5, <1>6, <3>1, <5>1
        <5> QED
          BY <3>2, <5>2
      <4> QED
        BY <4>1, <4>2
    <3>4. j = i
      BY <3>2, <3>3, LatestIs
    <3>5. i >= wal[c].minFrame
      BY <1>3, <3>1, Sizes
    <3>6. log[i].val = Seen(c)[p]
      BY <1>6, <3>1
    <3>7. dirty'[c][p] = NoPage
      BY <1>4, <2>4
    <3> QED
      BY <2>3, <3>4, <3>5, <3>6, <3>7
  <2>5. CASE p \notin job[c].batch
    <3>1. dirty'[c][p] = dirty[c][p]
      BY <1>4, <2>5
    <3>2. e \in Nat /\ n \in 0 .. e
      BY <1>3, Sizes
    <3>3. j \in 0 .. e /\ (j # 0 => aPgno'[j] = p)
      BY <3>2, LatestOK
    <3>4. j <= n
      <4>1. ~(j \in n + 1 .. e)
        BY <1>3, <1>5, <1>6, <2>5, <3>3
      <4> QED
        BY <3>2, <3>3, <4>1
    <3>5. Latest(aPgno', n, p) = j
      BY <3>2, <3>4, LatestShrinks
    <3>6. Latest(aPgno', n, p) = Latest(aPgno, n, p)
      BY <1>5, <3>2, LatestSame
    <3>7. j = k
      BY <3>5, <3>6, LastIs
    <3> QED
      BY <2>1, <2>3, <3>1, <3>7
  <2> QED
    BY <2>4, <2>5
<1> QED
  BY <1>7, <1>8, <1>9, Images, ImagesNext

LEMMA PublishContents ==
  ASSUME ContInv, BaseOK', NEW c \in Conn, Publish(c)
  PROVE  ContentsOK'
<1>1. PublishDoes(c) /\ OthersStay(c) /\ Around(c) /\ TypesOK
  BY AroundOK, PublishEffect DEF Around, Before, ContInv
<1>2. pc[c] = "publish" /\ useWal(c) /\ wal[c].readLock > 0
  BY <1>1 DEF PublishDoes, Around, Before, PointOK, Alone, Logging
<1>3. Writing(c) /\ BatchOK(c) /\ kept[c] = NoImage
  BY <1>2, WriterKnows
<1>4. /\ kept'[c] = NoImage /\ pc'[c] \in {"writer", "publish0"}
      /\ dirty'[c] = [p \in Page |-> IF p \in job[c].batch THEN NoPage ELSE dirty[c][p]]
      /\ pc'[c] = "writer" => call'[c] = "none"
      /\ pc'[c] = "publish0" => call[c] = "commit"
  BY <1>1, <1>3 DEF PublishDoes
<1>5. BatchOK(c)'
  <2>1. pc'[c] = "publish0" => dirty'[c] = Clean
    BY <1>2, <1>3, <1>4 DEF BatchOK, Dirty, Clean
  <2> QED
    BY <1>4, <2>1 DEF BatchOK, Writing, WritePoints, useWal
<1>6. IterOK(c)' /\ NewOK(c)' /\ KeptOK(c)'
  BY <1>4 DEF IterOK, NewOK, KeptOK
<1> QED
  BY <1>1, <1>5, <1>6, PublishSteady, ContentsPut DEF ContentOf

-----------------------------------------------------------------------------
(* The steps that change the header, the database or the count of frames copied. *)

\* A connection that takes no part in such a step.
LEMMA OthersKeep ==
  ASSUME NEW d \in Conn, ContentOf(d), Stays(d), log' = log, aPgno' = aPgno,
         InTx(d) => Seen(d)' = Seen(d),
         wal[d].hdr = aHdr'[0] => wal[d].hdr = aHdr[0] /\ Under(aHdr[0])' = Under(aHdr[0]),
         IterOK(d)'
  PROVE  ContentOf(d)'
<1>1. (Writing(d)' <=> Writing(d)) /\ (useWal(d)' <=> useWal(d)) /\ (Dirty(d)' = Dirty(d))
  BY DEF Stays, Writing, useWal, Dirty
<1>2. FrameOf(d) /\ BatchOK(d) /\ NewOK(d) /\ KeptOK(d)
  BY DEF ContentOf
<1>3. FrameOf(d)'
  BY <1>1, <1>2 DEF FrameOf, Stays
<1>4. BatchOK(d)'
  BY <1>1, <1>2 DEF BatchOK, Stays
<1>5. NewOK(d)'
  <2>1. CASE pc[d] \in {"append", "rewrite", "publish"}
    <3>1. InTx(d)
      BY <2>1 DEF InTx, Writing, WritePoints
    <3> QED
      BY <1>2, <3>1, NewStays DEF Stays
  <2>2. CASE pc[d] \notin {"append", "rewrite", "publish"}
    BY <2>2 DEF NewOK, Stays
  <2> QED
    BY <2>1, <2>2
<1>6. KeptOK(d)'
  BY <1>1, <1>2 DEF KeptOK, Stays, InTx
<1> QED
  BY <1>3, <1>4, <1>5, <1>6 DEF ContentOf

\* What a step sees that leaves the log and the database as they are.
LEMMA StillSeen ==
  ASSUME ContInv, BaseOK', NEW c \in Conn, OthersStay(c), db' = db, log' = log,
         aPgno' = aPgno, NEW d \in Conn \ {c}
  PROVE  InTx(d) => Seen(d)' = Seen(d)
<1>1. FramesStay(aHdr[0].mx)
  BY DEF FramesStay
<1> QED
  BY <1>1, SeenOthers DEF ContInv

LEMMA SameIter ==
  ASSUME NEW d \in Conn, Stays(d), IterOK(d), log' = log, aPgno' = aPgno, db' = db,
         pc[d] = "ckcopy" => nBackfill' = nBackfill
  PROVE  IterOK(d)'
  BY DEF IterOK, Stays, Last

LEMMA RestartHdr0Contents ==
  ASSUME ContInv, BaseOK', NEW c \in Conn, RestartHdr0(c)
  PROVE  ContentsOK'
<1>1. RestartHdr0Does(c) /\ OthersStay(c) /\ Around(c) /\ TypesOK
  BY AroundOK, RestartHdr0Effect DEF Around, Before, ContInv
<1>2. /\ aHdr'[0] = wal[c].hdr /\ nBackfill' = nBackfill /\ db' = db /\ log' = log
      /\ aPgno' = aPgno
      /\ pc[c] = "restart" /\ pc'[c] = "restarted" /\ wal'[c] = wal[c] /\ call'[c] = call[c]
      /\ dirty'[c] = dirty[c] /\ kept'[c] = kept[c] /\ job'[c] = job[c]
      /\ wal[c].hdr.init /\ wal[c].hdr.mx = 0 /\ Fresher(c) /\ Writing(c)
  BY <1>1
  DEF RestartHdr0Does, Around, Before, PointOK, WriterHdrOK, Moves, SameCall, SameWal, SameJob,
      SameCache, TypesOK, Waiting, Writing, WritePoints, dbVars, logVars
<1>3. IndexOK' /\ DbOK'
  <2>1. aHdr'[0].mx = 0
    BY <1>2
  <2>2. \A p : Latest(aPgno', 0, p) \in 0 .. 0
    BY LatestOK
  <2>3. \A p : Last(aHdr[0].mx, p)' = Latest(aPgno', 0, p)
    BY <2>1 DEF Last, Latest
  <2> QED
    BY <2>1, <2>2, <2>3 DEF IndexOK, DbOK
<1>4. ASSUME NEW d \in Conn \ {c}
      PROVE  ContentOf(d)'
  <2>1. ContentOf(d) /\ Stays(d)
    BY <1>1 DEF ContInv, ContentsOK, OthersStay
  <2>2. wal[d].hdr # aHdr'[0]
    BY <1>2 DEF Fresher
  <2>3. IterOK(d)'
    BY <1>2, <2>1, SameIter DEF ContentOf
  <2>4. InTx(d) => Seen(d)' = Seen(d)
    BY <1>1, <1>2, StillSeen
  <2> QED
    BY <1>2, <2>1, <2>2, <2>3, <2>4, OthersKeep
<1>5. ContentOf(c)'
  <2>1. FrameOf(c) /\ BatchOK(c) /\ KeptOK(c)
    BY DEF ContInv, ContentsOK, ContentOf
  <2>2. FrameOf(c)'
    BY <1>2 DEF FrameOf
  <2>3. BatchOK(c)'
    BY <1>2, <2>1 DEF BatchOK, Writing, WritePoints, useWal, Dirty
  <2> QED
    BY <1>2, <2>1, <2>2, <2>3 DEF ContentOf, IterOK, NewOK, KeptOK
<1> QED
  BY <1>3, <1>4, <1>5 DEF ContentsOK

LEMMA RestartInfoContents ==
  ASSUME ContInv, BaseOK', NEW c \in Conn, RestartInfo(c)
  PROVE  ContentsOK'
<1>1. RestartInfoDoes(c) /\ OthersStay(c) /\ Around(c) /\ TypesOK
  BY AroundOK, RestartInfoEffect DEF Around, Before, ContInv
<1>2. /\ aHdr' = aHdr /\ nBackfill' = 0 /\ db' = db /\ log' = log /\ aPgno' = aPgno
      /\ pc[c] = "restarted" /\ pc'[c] = "choose" /\ wal'[c].hdr = wal[c].hdr
      /\ call'[c] = call[c] /\ dirty'[c] = dirty[c] /\ kept'[c] = kept[c] /\ job'[c] = job[c]
      /\ aHdr[0].mx = 0 /\ Writing(c)
  BY <1>1
  DEF RestartInfoDoes, Around, Before, WriterHdrOK, Moves, SameCall, SameJob, SameCache, WalIs,
      Writing, WritePoints, dbVars, logVars
<1>3. IndexOK' /\ DbOK'
  BY <1>2 DEF IndexOK, DbOK
<1>4. Under(aHdr[0])' = Under(aHdr[0])
  BY <1>2 DEF Under, Held
<1>5. ASSUME NEW d \in Conn \ {c}
      PROVE  ContentOf(d)'
  <2>1. ContentOf(d) /\ Stays(d) /\ Around(d)
    BY <1>1, AroundOK DEF ContInv, ContentsOK, OthersStay
  <2>2. pc[d] # "ckcopy"
    BY <1>2, <2>1, Sizes DEF Around, CkptOK, Before, TaskOK, Numbers
  <2>3. IterOK(d)'
    BY <1>2, <2>1, <2>2, SameIter DEF ContentOf
  <2>4. InTx(d) => Seen(d)' = Seen(d)
    BY <1>1, <1>2, StillSeen
  <2> QED
    BY <1>2, <1>4, <2>1, <2>3, <2>4, OthersKeep
<1>6. ContentOf(c)'
  <2>1. FrameOf(c) /\ BatchOK(c) /\ KeptOK(c) /\ useWal(c)
    BY <1>1, <1>2 DEF ContInv, ContentsOK, ContentOf, Around, Before, PointOK, Alone
  <2>2. FrameOf(c)'
    BY <1>2, <2>1 DEF FrameOf
  <2>3. BatchOK(c)'
    BY <1>2, <2>1 DEF BatchOK, Writing, WritePoints, useWal, Dirty
  <2> QED
    BY <1>2, <2>1, <2>2, <2>3 DEF ContentOf, IterOK, NewOK, KeptOK
<1> QED
  BY <1>3, <1>5, <1>6 DEF ContentsOK

LEMMA PublishHdr0Contents ==
  ASSUME ContInv, BaseOK', NEW c \in Conn, PublishHdr0(c)
  PROVE  ContentsOK'
<1>1. PublishHdr0Does(c) /\ OthersStay(c) /\ Around(c) /\ TypesOK
  BY AroundOK, PublishHdr0Effect DEF Around, Before, ContInv
<1>2. /\ aHdr'[0] = wal[c].hdr /\ nBackfill' = nBackfill /\ db' = db /\ log' = log
      /\ aPgno' = aPgno
      /\ pc[c] = "publish0" /\ pc'[c] = "reader" /\ wal'[c] = wal[c] /\ call'[c] = "none"
      /\ dirty'[c] = dirty[c] /\ kept'[c] = kept[c] /\ job'[c] = job[c]
      /\ wal[c].hdr.init /\ wal[c].hdr.mx > aHdr[0].mx /\ Writing(c)
      /\ (wal[c].hdr.salt # aHdr[0].salt => Fresher(c))
  BY <1>1
  DEF PublishHdr0Does, Around, Before, PointOK, WriterHdrOK, Moves, SameWal, SameJob,
      SameCache, TypesOK, Waiting, Writing, WritePoints, dbVars, logVars
<1>3. /\ useWal(c) /\ wal[c].readLock > 0 /\ FrameOf(c) /\ BatchOK(c) /\ kept[c] = NoImage
      /\ wal[c].hdr.mx \in 0 .. MaxFrame /\ aHdr[0].mx \in 0 .. MaxFrame
      /\ nBackfill \in 0 .. MaxFrame /\ nBackfill <= aHdr[0].mx
  <2>1. useWal(c) /\ wal[c].readLock > 0
    BY <1>1, <1>2 DEF Around, Before, PointOK, Alone, Logging
  <2> QED
    BY <2>1, WriterKnows
<1>4. IndexOK'
  BY <1>2, <1>3 DEF IndexOK, FrameOf
<1>5. DbOK'
  <2> SUFFICES ASSUME NEW p \in Page, Last(aHdr[0].mx, p)' \in 1 .. nBackfill
               PROVE  db[p] = log[Last(aHdr[0].mx, p)'].val
    BY <1>2 DEF DbOK
  <2> DEFINE H == aHdr[0].mx
             k == Latest(aPgno, wal[c].hdr.mx, p)
  <2>1. Last(aHdr[0].mx, p)' = k
    BY <1>2 DEF Last, Latest
  <2>2. wal[c].hdr.mx \in Nat /\ H \in 0 .. wal[c].hdr.mx /\ k <= H
    BY <1>2, <1>3, <2>1, Sizes
  <2>3. Last(H, p) = k
    BY <2>2, LatestShrinks, LastIs
  <2> QED
    BY <2>1, <2>3 DEF ContInv, ContentsOK, DbOK
<1>6. ASSUME NEW d \in Conn \ {c}
      PROVE  ContentOf(d)'
  <2>1. ContentOf(d) /\ Stays(d) /\ Around(d)
    BY <1>1, AroundOK DEF ContInv, ContentsOK, OthersStay
  <2>2. ~Writing(d)
    BY <1>2, Rivals DEF MarkInv, ContInv
  <2>3. wal[d].hdr # aHdr'[0]
    BY <1>2, <1>3, <2>1, <2>2, Sizes DEF Fresher, Around, Before, OtherHdrOK
  <2>4. IterOK(d)'
    BY <1>2, <2>1, SameIter DEF ContentOf
  <2>5. InTx(d) => Seen(d)' = Seen(d)
    BY <1>1, <1>2, StillSeen
  <2> QED
    BY <1>2, <2>1, <2>3, <2>4, <2>5, OthersKeep
<1>7. ContentOf(c)'
  BY <1>2, <1>3
  DEF ContentOf, FrameOf, IterOK, BatchOK, NewOK, KeptOK, Writing, WritePoints, useWal
<1> QED
  BY <1>4, <1>5, <1>6, <1>7 DEF ContentsOK

\* What a checkpoint copies is the page of the current image that it belongs to,
\* and whoever reads that page finds it in the log.
LEMMA CopyPageContents ==
  ASSUME ContInv, BaseOK', NEW c \in Conn, CopyPage(c)
  PROVE  /\ ContentsOK' /\ Under(aHdr[0])' = Under(aHdr[0])
         /\ \A d \in Conn \ {c} : InTx(d) => Seen(d)' = Seen(d)
<1> DEFINE p == Min(ToCopy(c))
           n == wal[c].hdr.mx
           i == Last(n, p)
           H == aHdr[0].mx
<1>1. /\ CopyPageDoes(c) /\ OthersStay(c) /\ Around(c) /\ TypesOK /\ TypesOK' /\ MarkInv
      /\ DbOK /\ IndexOK /\ ContentOf(c)
  BY AroundOK, AfterOK, CopyPageEffect DEF Around, Before, ContInv, ContentsOK
<1>2. /\ pc[c] = "ckcopy" /\ pc'[c] = "ckcopy" /\ p \in Page /\ job[c].iter[p] # 0
      /\ aHdr' = aHdr /\ nBackfill' = nBackfill /\ log' = log /\ aPgno' = aPgno
      /\ wal'[c] = wal[c] /\ call'[c] = call[c]
      /\ dirty'[c] = dirty[c] /\ kept'[c] = kept[c]
      /\ job'[c].mark = job[c].mark /\ job'[c].changed = job[c].changed
      /\ job'[c].iter = [job[c].iter EXCEPT ![p] = 0]
      /\ db' = [db EXCEPT ![p] = log[job[c].iter[p]].val]
  BY <1>1
  DEF CopyPageDoes, Moves, ToCopy, SameWal, SameCall, SameCache, JobIs, logVars, shmVars
<1>3. /\ n \in 0 .. MaxFrame /\ H \in 0 .. MaxFrame /\ nBackfill \in 0 .. MaxFrame
      /\ job[c].mark \in 0 .. MaxFrame
      /\ job[c].mark <= n /\ n <= H /\ nBackfill < job[c].mark
  BY <1>1, <1>2 DEF Around, Before, TaskOK, CkptOK, Numbers
<1>4. job[c].iter[p] = i /\ i \in nBackfill + 1 .. job[c].mark
  BY <1>1, <1>2 DEF ContentOf, IterOK
<1>5. i \in 1 .. n /\ i \in 1 .. job[c].mark /\ i > nBackfill /\ aPgno[i] = p
  BY <1>1, <1>2, <1>3, <1>4, LastIn, Sizes
<1>6. Last(H, p) >= i /\ Last(H, p) \in 0 .. H
  <2>1. i \in 1 .. H
    BY <1>3, <1>5
  <2> QED
    BY <1>1, <1>2, <1>3, <1>5, <2>1, LastIn
<1>7. db \in [Page -> Content] /\ \A q \in Page : q # p => db'[q] = db[q]
  <2>1. db \in [Page -> Content]
    BY <1>1 DEF TypesOK, TypeOK, Content
  <2> QED
    BY <1>2, <2>1
<1>8. db'[p] = log[i].val
  BY <1>2, <1>4, <1>7
<1>9. IndexOK' /\ DbOK'
  <2>1. IndexOK'
    BY <1>1, <1>2 DEF IndexOK
  <2>2. ASSUME NEW q \in Page, Last(H, q) \in 1 .. nBackfill
        PROVE  db'[q] = log[Last(H, q)].val
    <3>1. q # p
      BY <1>3, <1>5, <1>6, <2>2, Sizes
    <3> QED
      BY <1>1, <1>7, <2>2, <3>1 DEF DbOK
  <2>3. \A q \in Page : Last(aHdr[0].mx, q)' = Last(H, q)
    BY <1>2 DEF Last
  <2> QED
    BY <1>2, <2>1, <2>2, <2>3 DEF DbOK
<1>10. Under(aHdr[0])' = Under(aHdr[0])
  <2>1. FramesStay(H)
    BY <1>2 DEF FramesStay
  <2>2. Last(H, p) # 0
    BY <1>5, <1>6
  <2> QED
    BY <1>1, <1>2, <1>7, <2>1, <2>2, UnderStays
<1>11. ASSUME NEW d \in Conn \ {c}
       PROVE  ContentOf(d)' /\ (InTx(d) => Seen(d)' = Seen(d))
  <2>1. ContentOf(d) /\ Stays(d) /\ Around(d) /\ Numbers(d) /\ wal[d].minFrame \in 0 .. MaxFrame + 1
    BY <1>1, AroundOK DEF ContInv, ContentsOK, OthersStay, Around, Before
  <2>2. pc[d] \notin CkPoints /\ wal[d].readLock # 0
    BY <1>1, <1>2, Holders DEF MarkInv, CkPoints
  <2>3. IterOK(d)'
    BY <2>1, <2>2 DEF IterOK, Stays, CkPoints
  <2>4. ASSUME InTx(d)
        PROVE  Seen(d)' = Seen(d)
    <3>1. wal[d].readLock > 0
      <4> SUFFICES ASSUME wal[d].readLock = -1
                   PROVE  FALSE
        BY <2>1, <2>2, Sizes DEF Numbers
      <4>1. useWal(d) /\ pc[d] \in Marking
        BY <2>1, <2>4 DEF InTx, Writing, WritePoints, Around, Before, PointOK, Alone, Logging
      <4>2. nBackfill = H
        BY <2>1, <4>1 DEF Around, BackOf
      <4> QED
        BY <1>3, <4>2
    <3>2. job[c].mark <= wal[d].hdr.mx
      BY <1>1, <1>2, <3>1 DEF MarkInv, MarksOK, SafeOK, Passed
    <3>3. i \in 1 .. wal[d].hdr.mx
      BY <1>3, <1>5, <2>1, <3>2, Sizes DEF Numbers
    <3>4. Last(wal[d].hdr.mx, p) >= i /\ Last(wal[d].hdr.mx, p) \in 0 .. wal[d].hdr.mx
      BY <1>1, <1>2, <1>5, <2>1, <3>3, LastIn DEF Numbers
    <3>5. wal[d].minFrame \in 1 .. nBackfill + 1
      BY <2>1, <3>1 DEF Around, MarkOK
    <3>6. Last(wal[d].hdr.mx, p) >= wal[d].minFrame
      BY <1>3, <1>5, <2>1, <3>4, <3>5, Sizes DEF Numbers
    <3>7. FramesStay(H)
      BY <1>2 DEF FramesStay
    <3> QED
      BY <1>1, <1>2, <1>7, <2>4, <3>1, <3>6, <3>7, SeenOthers
  <2> QED
    BY <1>2, <1>10, <2>1, <2>3, <2>4, OthersKeep
<1>12. ContentOf(c)'
  <2>1. ~Writing(c) /\ ~Writing(c)' /\ ~useWal(c)'
    BY <1>1, <1>2 DEF Around, Before, PointOK, CkPoints, Writing, WritePoints, useWal
  <2>2. ASSUME NEW q \in Page
        PROVE  LET l == Last(n, q)
               IN IF l \in nBackfill + 1 .. job[c].mark
                  THEN job'[c].iter[q] = l \/ (job'[c].iter[q] = 0 /\ db'[q] = log[l].val)
                  ELSE job'[c].iter[q] = 0
    <3>1. job[c].iter \in [Page -> 0 .. MaxFrame]
      BY <1>1, Types
    <3>2. CASE q = p
      <4>1. job'[c].iter[q] = 0
        BY <1>2, <3>1, <3>2
      <4> QED
        BY <1>4, <1>8, <3>2, <4>1
    <3>3. CASE q # p
      <4>1. job'[c].iter[q] = job[c].iter[q] /\ db'[q] = db[q]
        BY <1>2, <1>7, <3>1, <3>3
      <4> QED
        BY <1>1, <1>2, <4>1 DEF ContentOf, IterOK
    <3> QED
      BY <3>2, <3>3
  <2>3. \A q \in Page : Last(wal[c].hdr.mx, q)' = Last(n, q)
    BY <1>2 DEF Last
  <2>4. IterOK(c)'
    BY <1>2, <2>2, <2>3 DEF IterOK
  <2>5. KeptOK(c)'
    BY <1>1, <1>2, <1>10, <2>1 DEF ContentOf, KeptOK
  <2> QED
    BY <1>1, <1>2, <2>1, <2>4, <2>5 DEF ContentOf, FrameOf, BatchOK, NewOK
<1>13. ContentsOK'
  BY <1>9, <1>11, <1>12 DEF ContentsOK
<1> QED
  BY <1>10, <1>11, <1>13

LEMMA BackfilledContents ==
  ASSUME ContInv, BaseOK', NEW c \in Conn, Backfilled(c)
  PROVE  ContentsOK'
<1> DEFINE n == wal[c].hdr.mx
           H == aHdr[0].mx
           m == job[c].mark
<1>1. /\ BackfilledDoes(c) /\ OthersStay(c) /\ Around(c) /\ TypesOK /\ MarkInv
      /\ DbOK /\ IndexOK /\ ContentOf(c)
  BY AroundOK, BackfilledEffect DEF Around, Before, ContInv, ContentsOK
<1>2. /\ pc[c] = "ckcopy" /\ pc'[c] = "ckend" /\ ToCopy(c) = {}
      /\ aHdr' = aHdr /\ nBackfill' = m /\ db' = db /\ log' = log /\ aPgno' = aPgno
      /\ wal'[c] = wal[c] /\ call'[c] = call[c] /\ job'[c] = job[c]
      /\ dirty'[c] = dirty[c] /\ kept'[c] = kept[c]
  BY <1>1 DEF BackfilledDoes, Moves, SameWal, SameCall, SameCache, SameJob, logVars
<1>3. /\ n \in 0 .. MaxFrame /\ H \in 0 .. MaxFrame /\ nBackfill \in 0 .. MaxFrame
      /\ m \in 0 .. MaxFrame /\ m <= n /\ n <= H
  BY <1>1, <1>2 DEF Around, Before, TaskOK, CkptOK, Numbers
<1>4. IndexOK' /\ Under(aHdr[0])' = Under(aHdr[0])
  BY <1>1, <1>2 DEF IndexOK, Under, Held
<1>5. DbOK'
  <2> SUFFICES ASSUME NEW p \in Page, Last(H, p) \in 1 .. m
               PROVE  db[p] = log[Last(H, p)].val
    BY <1>2 DEF DbOK, Last
  <2> DEFINE i == Last(H, p)
  <2>1. H \in Nat /\ n \in 0 .. H /\ i <= n
    BY <1>3, Sizes
  <2>2. Last(n, p) = i
    BY <2>1, LatestShrinks, LastIs
  <2>3. CASE i \in 1 .. nBackfill
    BY <1>1, <2>3 DEF DbOK
  <2>4. CASE i \notin 1 .. nBackfill
    <3>1. i \in nBackfill + 1 .. m /\ i # 0
      BY <1>3, <2>4, Sizes
    <3>2. job[c].iter[p] = 0
      BY <1>2 DEF ToCopy
    <3> QED
      BY <1>1, <1>2, <2>2, <3>1, <3>2 DEF ContentOf, IterOK
  <2> QED
    BY <2>3, <2>4
<1>6. ASSUME NEW d \in Conn \ {c}
      PROVE  ContentOf(d)'
  <2>1. ContentOf(d) /\ Stays(d)
    BY <1>1 DEF ContInv, ContentsOK, OthersStay
  <2>2. pc[d] \notin CkPoints
    BY <1>1, <1>2, Holders DEF MarkInv, CkPoints
  <2>3. IterOK(d)'
    BY <2>1, <2>2 DEF IterOK, Stays, CkPoints
  <2>4. InTx(d) => Seen(d)' = Seen(d)
    BY <1>1, <1>2, StillSeen
  <2> QED
    BY <1>2, <1>4, <2>1, <2>3, <2>4, OthersKeep
<1>7. ContentOf(c)'
  <2>1. ~Writing(c) /\ ~Writing(c)' /\ ~useWal(c)'
    BY <1>1, <1>2 DEF Around, Before, PointOK, CkPoints, Writing, WritePoints, useWal
  <2> QED
    BY <1>1, <1>2, <1>4, <2>1 DEF ContentOf, FrameOf, IterOK, BatchOK, NewOK, KeptOK
<1> QED
  BY <1>4, <1>5, <1>6, <1>7 DEF ContentsOK

\* The index that is recovered is that of the log.
LEMMA RecoverContents ==
  ASSUME ContInv, BaseOK', NEW c \in Conn, Recover(c)
  PROVE  ContentsOK'
<1>1. RecoverDoes(c) /\ OthersStay(c) /\ Around(c) /\ TypesOK /\ MarkInv
  BY AroundOK, RecoverEffect DEF Around, Before, ContInv
<1>2. Unused
  <2>1. pc[c] \in {"idle", "ckhdr"} /\ ~HdrGood /\ CanExclude(c, RecoveryLocks(c))
    BY DEF Recover
  <2> QED
    BY <1>1, <2>1, Recoverable DEF MarkInv
<1>3. /\ aHdr'[0] = RecoveredHdr(log, salt) /\ nBackfill' = 0 /\ log' = log
      /\ aPgno' = [i \in Slot |-> IF i <= Readable(log, salt) THEN log[i].page ELSE 0]
      /\ pc'[c] \in {"choose", "ckstart"} /\ call'[c] = call[c]
      /\ dirty'[c] = dirty[c] /\ kept'[c] \in {NoImage, kept[c]}
  BY <1>1 DEF RecoverDoes, Moves, SameCall, SameCache, logVars
<1>4. ASSUME NEW d \in Conn
      PROVE  /\ pc[d] \in Waiting /\ kept[d] = NoImage /\ dirty[d] = Clean
             /\ ~useWal(d)
  <2>1. pc[d] \in Waiting /\ kept[d] = NoImage /\ Around(d) /\ BatchOK(d)
    BY <1>2, AroundOK DEF Unused, ContInv, ContentsOK, ContentOf
  <2>2. ~useWal(d)
    BY <2>1 DEF Around, Before, PointOK, Alone, Marking, Waiting
  <2>3. ~Writing(d)
    BY <2>1, <2>2 DEF Writing, WritePoints, Waiting
  <2> QED
    BY <2>1, <2>2, <2>3 DEF BatchOK
<1>5. IndexOK'
  <2>1. /\ RecoveredHdr(log, salt).mx \in 0 .. MaxFrame
        /\ RecoveredHdr(log, salt).mx <= Readable(log, salt)
        /\ Readable(log, salt) \in 0 .. MaxFrame
        /\ \A i \in 1 .. Readable(log, salt) : log[i].page # 0
    BY <1>1, LogRead DEF HdrT
  <2> SUFFICES ASSUME NEW i \in 1 .. RecoveredHdr(log, salt).mx
               PROVE  aPgno'[i] = log[i].page /\ aPgno'[i] # 0
    BY <1>3 DEF IndexOK
  <2>2. i \in Slot /\ i \in 1 .. Readable(log, salt)
    BY <2>1, Sizes DEF Slot
  <2>3. i <= Readable(log, salt)
    BY <2>2
  <2> QED
    BY <1>3, <2>1, <2>2, <2>3
<1>6. DbOK'
  BY <1>3 DEF DbOK
<1>7. ASSUME NEW d \in Conn
      PROVE  ContentOf(d)'
  <2>1. /\ pc'[d] \in Waiting \cup {"choose", "ckstart"} /\ kept'[d] = NoImage
        /\ dirty'[d] = Clean /\ ~useWal(d)'
    <3>1. CASE d = c
      BY <1>3, <1>4, <3>1 DEF useWal
    <3>2. CASE d # c
      BY <1>1, <1>4, <3>2 DEF OthersStay, Stays, useWal
    <3> QED
      BY <3>1, <3>2
  <2>2. ~Writing(d)'
    BY <2>1 DEF Writing, WritePoints, Waiting
  <2> QED
    BY <2>1, <2>2 DEF ContentOf, FrameOf, IterOK, BatchOK, NewOK, KeptOK, Waiting
<1> QED
  BY <1>5, <1>6, <1>7 DEF ContentsOK

-----------------------------------------------------------------------------
(* All steps. *)

LEMMA ContentsStep ==
  ASSUME ContInv, BaseOK', MarkInv', NEW c \in Conn, StepOf(c)
  PROVE  ContentsOK'
<1>1. ASSUME NEW p \in Page, Spill(c, p)
      PROVE  ContentsOK'
  <2>1. {p} \in SUBSET Page /\ Frames(c, "spill", {p})
    BY <1>1, Batches DEF ContInv, MarkInv, BaseOK
  <2> QED
    BY <2>1, FramesContents
<1>2. ASSUME Commit(c)
      PROVE  ContentsOK'
  <2>1. PICK pages \in SUBSET Page : Dirty(c) \subseteq pages /\ Frames(c, "commit", pages)
    BY <1>2, Batches DEF ContInv, MarkInv, BaseOK
  <2> QED
    BY <2>1, FramesContents
<1>3. Read(c) => ContentsOK'
  BY ReadHdrContents, HdrLockedContents, ChooseZeroContents, LockMarkZeroContents,
     ChooseMarkContents, LockMarkContents, CheckMarkContents, EndReadContents
  DEF Read
<1>4. Change(c) => ContentsOK'
  BY <1>1, <1>2, BeginWriteContents, RollbackContents, WriteContents, RestartHdrContents,
     RestartHdr0Contents, RestartInfoContents, KeepLogContents, WriteHeaderContents,
     LogPageContents, RewriteChecksumContents, PublishContents
  DEF Change
<1>5. Checkpoint(c) => ContentsOK'
  BY StartCheckpointContents, InitIteratorContents, VisitMarkContents, GiveUpContents,
     CopyPageContents, BackfilledContents, CheckpointFailsContents, EndCheckpointContents
  DEF Checkpoint
<1> QED
  BY <1>3, <1>4, <1>5, RecoverContents, PublishHdr0Contents, SyncHeaderContents,
     LockZeroContents
  DEF StepOf

\* Nothing is cached, changed or copied.
LEMMA ClosedContents ==
  ASSUME aHdr[0].mx = 0, nBackfill = 0,
         \A c \in Conn : /\ pc[c] = "idle" /\ ~useWal(c)
                         /\ kept[c] = NoImage /\ dirty[c] = Clean
  PROVE  ContentsOK
<1>1. \A c \in Conn : ~Writing(c)
  BY DEF Writing, WritePoints
<1>2. \A c \in Conn : ContentOf(c)
  BY <1>1 DEF ContentOf, FrameOf, IterOK, BatchOK, NewOK, KeptOK
<1>3. IndexOK /\ DbOK
  BY DEF IndexOK, DbOK
<1> QED
  BY <1>2, <1>3 DEF ContentsOK

LEMMA PowerLossContents ==
  ASSUME ContInv, PowerLoss
  PROVE  ContentsOK'
<1>1. /\ UNCHANGED <<shmVars, dirty, kept, pc, call>> /\ ~aHdr[1].init
      /\ \A c \in Conn : pc[c] = "idle"
  BY DEF PowerLoss, NoProcess
<1>2. Unused
  BY <1>1 DEF ContInv, MarkInv, BaseOK, HdrsOK, HdrOK
<1>3. ASSUME NEW c \in Conn
      PROVE  ~useWal(c) /\ kept[c] = NoImage /\ dirty[c] = Clean
  <2>1. kept[c] = NoImage /\ Around(c) /\ BatchOK(c)
    BY <1>2, AroundOK DEF Unused, ContInv, ContentsOK, ContentOf
  <2>2. ~useWal(c)
    BY <1>1, <2>1 DEF Around, Before, PointOK, Alone, Marking
  <2>3. ~Writing(c)
    BY <1>1, <2>2 DEF Writing, WritePoints
  <2> QED
    BY <2>1, <2>2, <2>3 DEF BatchOK
<1>4. (/\ aHdr[0].mx = 0 /\ nBackfill = 0
       /\ \A c \in Conn : /\ pc[c] = "idle" /\ ~useWal(c)
                          /\ kept[c] = NoImage /\ dirty[c] = Clean)'
  BY <1>1, <1>2, <1>3 DEF Unused, NoHdr, shmVars, useWal
<1>5. (/\ aHdr[0].mx = 0 /\ nBackfill = 0
       /\ \A c \in Conn : /\ pc[c] = "idle" /\ ~useWal(c)
                          /\ kept[c] = NoImage /\ dirty[c] = Clean
       => ContentsOK)'
  BY ClosedContents, PTL
<1> QED
  BY <1>4, <1>5

LEMMA ContentsUnchanged ==
  ASSUME ContentsOK, UNCHANGED vars
  PROVE  ContentsOK'
<1>1. /\ aHdr' = aHdr /\ nBackfill' = nBackfill /\ db' = db /\ log' = log /\ aPgno' = aPgno
      /\ wal' = wal /\ dirty' = dirty /\ kept' = kept /\ pc' = pc /\ call' = call /\ job' = job
  BY DEF vars, dbVars, logVars, shmVars
<1>2. IndexOK' /\ DbOK'
  BY <1>1 DEF ContentsOK, IndexOK, DbOK, Last
<1>3. ASSUME NEW c \in Conn
      PROVE  ContentOf(c)'
  <2>1. FrameOf(c) /\ IterOK(c) /\ BatchOK(c) /\ NewOK(c) /\ KeptOK(c)
    BY DEF ContentsOK, ContentOf
  <2>2. (Writing(c)' <=> Writing(c)) /\ (useWal(c)' <=> useWal(c)) /\ Dirty(c)' = Dirty(c)
    BY <1>1 DEF Writing, useWal, Dirty
  <2>3. Seen(c)' = Seen(c) /\ Under(aHdr[0])' = Under(aHdr[0])
    BY <1>1 DEF Seen, Under, Held, FindFrame
  <2>4. FrameOf(c)' /\ IterOK(c)'
    BY <1>1, <2>1, <2>2 DEF FrameOf, IterOK, Last
  <2>5. BatchOK(c)' /\ NewOK(c)' /\ KeptOK(c)'
    BY <1>1, <2>1, <2>2, <2>3 DEF BatchOK, NewOK, New, KeptOK
  <2> QED
    BY <2>4, <2>5 DEF ContentOf
<1> QED
  BY <1>2, <1>3 DEF ContentsOK

LEMMA ClosedIsEmpty == Closed => ContentsOK
  BY ClosedContents DEF Closed, NoHdr, useWal

LEMMA ContInvStep ==
  ASSUME ContInv, NoneOvertaken', [Next]_vars
  PROVE  ContInv'
<1>1. MarkInv'
  BY MarkInvStep DEF ContInv
<1>2. CASE UNCHANGED vars
  BY <1>1, <1>2, ContentsUnchanged DEF ContInv
<1>3. ASSUME NEW c \in Conn, StepOf(c)
      PROVE  ContentsOK'
  BY <1>1, <1>3, ContentsStep DEF MarkInv
<1>4. CASE Crash
  <2>1. Closed'
    BY <1>4, CrashClosed DEF ContInv, MarkInv, BaseOK
  <2>2. (Closed => ContentsOK)'
    BY ClosedIsEmpty, PTL
  <2> QED
    BY <1>1, <2>1, <2>2 DEF ContInv
<1>5. CASE PowerLoss
  BY <1>1, <1>5, PowerLossContents DEF ContInv
<1> QED
  BY <1>1, <1>2, <1>3, <1>4, <1>5, Steps DEF ContInv

\* As long as no checkpoint is overtaken by a new log: the frames, the database and the pages
\* kept in a cache have the contents that a reader at their mark is to see.
THEOREM ContentsInvariant == Spec /\ []NoneOvertaken => []ContInv
<1>1. Init => ContInv
  BY InitClosed, ClosedBase, ClosedMarks, ClosedIsEmpty DEF MarkInv, ContInv
<1>2. ContInv /\ NoneOvertaken' /\ [Next]_vars => ContInv'
  BY ContInvStep
<1> QED
  BY <1>1, <1>2, PTL DEF Spec

\* A connection that finds its header unchanged when it begins to read may use the
\* pages it kept from its last transaction: they are as the log and the database
\* have them (walTryBeginRead's *pChanged, pagerBeginReadTransaction).
THEOREM KeptCurrent == Spec /\ []NoneOvertaken => []KeptCacheIsCurrent
<1>1. ContInv => KeptCacheIsCurrent
  BY DEF ContInv, ContentsOK, ContentOf, KeptOK, KeptCacheIsCurrent
<1> QED
  BY <1>1, ContentsInvariant, PTL

-----------------------------------------------------------------------------
(* The chain of checksums: what a new process makes of the log file. *)

\* Contents there have been so far.
Upto == (0 .. change) \cup {Torn}
OldFrame(f) == f.val \in Upto /\ \A j \in DOMAIN f.sum : f.sum[j][2] \in Upto

OldOK ==
  /\ \A p \in Page : db[p] \in Upto /\ platter[p] \subseteq Upto
  /\ \A i \in Slot : OldFrame(log[i]) /\ \A f \in logDisk[i] : OldFrame(f)
  /\ \A c \in Conn, p \in Page : dirty[c][p] # NoPage => dirty[c][p] \in 0 .. change

\* The checksum up to frame n of the log.
SumTo(n) == IF n = 0 THEN <<>> ELSE log[n].sum

\* No commit can be read from the log after the first m frames.
NoneBeyond(s, m) == \A n \in Slot : n > m => ~(log[n].last /\ Valid(log, s, n))

\* A commit that is in the log and not yet in the wal-index.
Publishing(c) == pc[c] \in {"publish", "publish0"} /\ call[c] = "commit"

\* The published frames are those that can be read.
FileOK ==
  aHdr[0].init =>
    /\ aHdr[0].sum = SumTo(aHdr[0].mx)
    /\ aHdr[0].mx > 0 =>
         /\ salt = aHdr[0].salt /\ salt # 0
         /\ Valid(log, salt, aHdr[0].mx) /\ log[aHdr[0].mx].last
    /\ (\A c \in Conn : ~Publishing(c)) =>
         /\ aHdr[0].salt # 0 => NoneBeyond(aHdr[0].salt, aHdr[0].mx)
         /\ aHdr[0].mx = 0 => Found(db, log, salt) = db

\* The frames of the writer.
Written(c) == IF pc[c] \in {"append", "rewrite", "publish"} THEN job[c].iFrame ELSE wal[c].hdr.mx

\* Their checksums are right, up to the first one overwritten.
SealedOK(c) ==
  /\ wal[c].hdr.mx > 0 \/ pc[c] \in Logging \ {"header"} => salt = wal[c].hdr.salt /\ salt # 0
  /\ wal[c].iReCksum = 0 =>
       /\ Valid(log, wal[c].hdr.salt, Written(c))
       /\ wal[c].hdr.sum = SumTo(Written(c))
  /\ wal[c].iReCksum # 0 => Valid(log, wal[c].hdr.salt, wal[c].iReCksum - 1)
  /\ pc[c] = "restart" => \A i \in Slot : log[i].salt # wal[c].hdr.salt

\* Only the last frame of a commit has the mark.
LastOK(c) ==
  /\ \A n \in aHdr[0].mx + 1 .. Written(c) :
       log[n].last => n = Written(c) /\ call[c] = "commit" /\ pc[c] \in Logged
  /\ pc[c] = "rewrite" => log[Written(c)].sum = <<>> /\ log[Written(c)].last
  /\ Publishing(c) => log[Written(c)].last

\* What the transaction has changed since is in no checksum of another one, and no
\* frame after its own was sealed on its first frame.
StaleOK(c) ==
  \A n \in Slot : \A j \in DOMAIN log[n].sum :
    /\ n <= aHdr[0].mx \/ n > Written(c) =>
         \A p \in Page : dirty[c][p] # NoPage => log[n].sum[j][2] # dirty[c][p]
    /\ n > Written(c) /\ Written(c) > aHdr[0].mx =>
         log[n].sum[j][2] # log[aHdr[0].mx + 1].val

\* Its first frame has a page it changed.
FirstOK(c) ==
  useWal(c) /\ pc[c] # "publish0" /\ job[c].iFrame <= aHdr[0].mx => job[c].todo \subseteq Dirty(c)

WrittenOK(c) == Writing(c) => SealedOK(c) /\ LastOK(c) /\ StaleOK(c) /\ FirstOK(c)

ChainOK == OldOK /\ FileOK /\ \A c \in Conn : WrittenOK(c)

ChainInv == ContInv /\ ChainOK

-----------------------------------------------------------------------------
(* The frames that are valid. *)

\* Fewer frames are valid if more are, and a frame longer they are if it is.
LEMMA ValidLess ==
  ASSUME NEW l, NEW s, NEW n \in Nat, Valid(l, s, n), NEW m \in Nat, m <= n
  PROVE  Valid(l, s, m)
  BY DEF Valid

LEMMA ValidMore ==
  ASSUME NEW l, NEW s, NEW n \in Nat \ {0}, Valid(l, s, n - 1),
         l[n].salt = s, l[n].page # 0,
         l[n].sum = Append(IF n = 1 THEN <<>> ELSE l[n - 1].sum, Payload(l[n]))
  PROVE  Valid(l, s, n)
<1>1. \A i \in 1 .. n : i \in 1 .. n - 1 \/ i = n
  OBVIOUS
<1> QED
  BY <1>1 DEF Valid

\* The frames that count stay.
LEMMA ValidStays ==
  ASSUME NEW l, NEW k, NEW s, NEW n \in Nat, \A i \in 1 .. n : k[i] = l[i]
  PROVE  Valid(k, s, n) <=> Valid(l, s, n)
<1>1. \A i \in 1 .. n : i # 1 => i - 1 \in 1 .. n
  OBVIOUS
<1> QED
  BY <1>1 DEF Valid, Payload

\* A sequence and one element more.
LEMMA OneMore ==
  ASSUME NEW P, NEW k \in Nat \ {0}
  PROVE  Append([i \in 1 .. k - 1 |-> P[i]], P[k]) = [i \in 1 .. k |-> P[i]]
  OBVIOUS

\* A valid frame has the checksum of all frames up to it.
LEMMA SumIsPayloads ==
  ASSUME NEW l, NEW s, NEW n \in Nat \ {0}, Valid(l, s, n)
  PROVE  l[n].sum = [i \in 1 .. n |-> Payload(l[i])]
<1> DEFINE P == [i \in 1 .. n |-> Payload(l[i])]
           T == {k \in 1 .. n : l[k].sum # [i \in 1 .. k |-> P[i]]}
<1>1. n \in 1 .. n /\ T \subseteq Nat /\ P = [i \in 1 .. n |-> P[i]]
  OBVIOUS
<1>2. \A x \in 1 .. n :
        l[x].sum = Append(IF x = 1 THEN <<>> ELSE l[x - 1].sum, P[x])
  BY DEF Valid
<1> HIDE DEF P
<1>3. ASSUME NEW x \in T, \A y \in T : x <= y
      PROVE  FALSE
  <2>1. x \in 1 .. n /\ x \in Nat \ {0} /\ l[x].sum # [i \in 1 .. x |-> P[i]]
    OBVIOUS
  <2>2. (IF x = 1 THEN <<>> ELSE l[x - 1].sum) = [i \in 1 .. x - 1 |-> P[i]]
    <3>1. CASE x = 1
      BY <3>1
    <3>2. CASE x # 1
      <4>1. x - 1 \in 1 .. n
        BY <2>1, <3>2
      <4>2. x - 1 \notin T
        <5> HIDE DEF T
        <5> QED
          BY <1>3, <2>1
      <4> QED
        BY <3>2, <4>1, <4>2
    <3> QED
      BY <3>1, <3>2
  <2>3. Append([i \in 1 .. x - 1 |-> P[i]], P[x]) = [i \in 1 .. x |-> P[i]]
    BY <2>1, OneMore
  <2> QED
    BY <1>2, <2>1, <2>2, <2>3
<1>4. T = {}
  <2> HIDE DEF T
  <2> QED
    BY <1>1, <1>3, SmallestExists
<1>5. l[n].sum = [i \in 1 .. n |-> P[i]]
  BY <1>1, <1>4
<1> QED
  BY <1>1, <1>5 DEF P

LEMMA SumAt ==
  ASSUME NEW l, NEW s, NEW n \in Nat \ {0}, Valid(l, s, n)
  PROVE  /\ DOMAIN l[n].sum = 1 .. n
         /\ \A i \in 1 .. n : l[n].sum[i] = <<l[i].page, l[i].val, l[i].last>>
<1>1. l[n].sum = [i \in 1 .. n |-> <<l[i].page, l[i].val, l[i].last>>]
  BY SumIsPayloads DEF Payload
<1> QED
  BY <1>1

\* The last valid commit.
LEMMA CompleteOK ==
  ASSUME NEW l, NEW s
  PROVE  /\ Complete(l, s) \in 0 .. MaxFrame
         /\ Complete(l, s) # 0 =>
              s # 0 /\ Valid(l, s, Complete(l, s)) /\ l[Complete(l, s)].last
         /\ s # 0 => \A n \in Slot : n > Complete(l, s) => ~(l[n].last /\ Valid(l, s, n))
<1>1. CASE s = 0
  BY <1>1, Sizes DEF Complete
<1>2. CASE s # 0
  <2> DEFINE S == {n \in Slot : l[n].last /\ Valid(l, s, n)}
  <2>1. Complete(l, s) = Largest(S)
    BY <1>2 DEF Complete
  <2>2. S \subseteq 0 .. MaxFrame /\ MaxFrame \in Nat
    BY Sizes DEF Slot
  <2>3. /\ Largest(S) \in 0 .. MaxFrame
        /\ S = {} => Largest(S) = 0
        /\ S # {} => Largest(S) \in S
        /\ \A y \in S : y <= Largest(S)
    <3> HIDE DEF S
    <3> QED
      BY <2>2, LargestOK
  <2>4. \A n \in Slot : n > Largest(S) => n \notin S
    BY <2>3, Sizes DEF Slot
  <2> QED
    BY <1>2, <2>1, <2>3, <2>4
<1> QED
  BY <1>1, <1>2

LEMMA CompleteIs ==
  ASSUME NEW l, NEW s, NEW n \in 0 .. MaxFrame,
         n > 0 => s # 0 /\ Valid(l, s, n) /\ l[n].last,
         \A m \in Slot : m > n => ~(l[m].last /\ Valid(l, s, m))
  PROVE  Complete(l, s) = n
<1>1. /\ Complete(l, s) \in 0 .. MaxFrame
      /\ Complete(l, s) # 0 =>
           s # 0 /\ Valid(l, s, Complete(l, s)) /\ l[Complete(l, s)].last
      /\ s # 0 => \A m \in Slot : m > Complete(l, s) => ~(l[m].last /\ Valid(l, s, m))
  BY CompleteOK
<1>2. Complete(l, s) <= n
  BY <1>1, Sizes DEF Slot
<1>3. n <= Complete(l, s)
  BY <1>1, Sizes DEF Slot
<1> QED
  BY <1>1, <1>2, <1>3

\* A page in what a new process finds.
LEMMA FoundAt ==
  ASSUME NEW d, NEW l, NEW s
  PROVE  /\ Found(d, l, s) = [p \in Page |-> Found(d, l, s)[p]]
         /\ \A p \in Page :
              Found(d, l, s)[p] =
                IF Largest({i \in 1 .. Complete(l, s) : l[i].page = p}) = 0 THEN d[p]
                ELSE l[Largest({i \in 1 .. Complete(l, s) : l[i].page = p})].val
<1> DEFINE held(p) == [i \in 0 .. MaxFrame |-> IF i = 0 THEN d[p] ELSE l[i].val]
           L(n, p) == Largest({i \in 1 .. n : l[i].page = p})
           image == [n \in 0 .. MaxFrame |-> [p \in Page |-> held(p)[L(n, p)]]]
           n == Complete(l, s)
<1>1. n \in 0 .. MaxFrame
  BY CompleteOK
<1>2. Found(d, l, s) = [p \in Page |-> held(p)[L(n, p)]]
  BY <1>1 DEF Found
<1>3. ASSUME NEW p \in Page
      PROVE  L(n, p) \in 0 .. MaxFrame
  <2>1. {i \in 1 .. n : l[i].page = p} \subseteq 0 .. n
    BY <1>1
  <2> HIDE DEF n
  <2>2. L(n, p) \in 0 .. n
    BY <1>1, <2>1, LargestOK
  <2> QED
    BY <1>1, <2>2, Sizes
<1> HIDE DEF L, n
<1>4. ASSUME NEW p \in Page
      PROVE  Found(d, l, s)[p] = IF L(n, p) = 0 THEN d[p] ELSE l[L(n, p)].val
  BY <1>2, <1>3
<1> QED
  BY <1>2, <1>4 DEF L, n

-----------------------------------------------------------------------------
(* What a new process finds in the files. *)

\* The pages of the frames.
Pages == [i \in Slot |-> log[i].page]

LEMMA StoredAt ==
  /\ Stored = [p \in Page |-> Stored[p]]
  /\ \A n \in 0 .. MaxFrame, p \in Page :
       Complete(log, salt) = n =>
         Stored[p] = IF Latest(Pages, n, p) = 0 THEN db[p] ELSE log[Latest(Pages, n, p)].val
<1>1. ASSUME NEW n \in 0 .. MaxFrame, NEW p \in Page
      PROVE  Latest(Pages, n, p) = Largest({i \in 1 .. n : log[i].page = p})
  <2>1. \A i \in 1 .. n : i \in Slot
    BY Sizes DEF Slot
  <2>2. {i \in 1 .. n : Pages[i] = p} = {i \in 1 .. n : log[i].page = p}
    BY <2>1 DEF Pages
  <2> QED
    BY <2>2 DEF Latest
<1>2. Stored = [p \in Page |-> Stored[p]]
  BY FoundAt DEF Stored
<1>3. \A p \in Page :
        Stored[p] = IF Largest({i \in 1 .. Complete(log, salt) : log[i].page = p}) = 0 THEN db[p]
                    ELSE log[Largest({i \in 1 .. Complete(log, salt) : log[i].page = p})].val
  BY FoundAt DEF Stored
<1>4. ASSUME NEW n \in 0 .. MaxFrame, NEW p \in Page, Complete(log, salt) = n
      PROVE  Stored[p] = IF Latest(Pages, n, p) = 0 THEN db[p] ELSE log[Latest(Pages, n, p)].val
  <2>1. Largest({i \in 1 .. Complete(log, salt) : log[i].page = p}) = Latest(Pages, n, p)
    BY <1>1, <1>4
  <2> QED
    BY <1>3, <2>1
<1> QED
  BY <1>2, <1>4

\* Before the first commit it is the database.
LEMMA StoredIsDb ==
  ASSUME TypesOK, NoneBeyond(salt, 0)
  PROVE  Stored = db
<1>1. Complete(log, salt) = 0
  BY CompleteIs, Sizes DEF NoneBeyond
<1>2. \A p \in Page : Latest(Pages, 0, p) = 0
  BY LatestOK
<1>3. \A p \in Page : Stored[p] = db[p]
  BY <1>1, <1>2, StoredAt, Sizes
<1>4. db = [p \in Page |-> db[p]]
  BY DEF TypesOK, TypeOK
<1> QED
  BY <1>3, <1>4, StoredAt

\* While no commit is about to be published it is the image of the header.
LEMMA StoredIsUnder ==
  ASSUME ContInv, FileOK, aHdr[0].init, \A c \in Conn : ~Publishing(c)
  PROVE  Stored = Under(aHdr[0])
<1> DEFINE m == aHdr[0].mx
<1>1. TypesOK /\ IndexOK /\ m \in 0 .. MaxFrame
  BY Types DEF ContInv, MarkInv, BaseOK, ContentsOK
<1>2. CASE m = 0
  <2>1. \A p \in Page : Last(0, p) = 0
    BY LatestOK, LastIs
  <2>2. \A p \in Page : Under(aHdr[0])[p] = db[p]
    BY <1>1, <1>2, <2>1, UnderValue
  <2>3. Stored = db
    BY <1>2 DEF FileOK, Stored
  <2> QED
    BY <2>2, <2>3, StoredAt, Images
<1>3. CASE m # 0
  <2>1. /\ salt # 0 /\ Valid(log, salt, m) /\ log[m].last /\ NoneBeyond(salt, m)
    BY <1>1, <1>3 DEF FileOK
  <2>2. Complete(log, salt) = m
    BY <1>1, <2>1, CompleteIs DEF NoneBeyond
  <2>3. ASSUME NEW p \in Page
        PROVE  Latest(Pages, m, p) = Last(m, p)
    <3>1. m \in Nat /\ \A i \in 1 .. m : i \in Slot
      BY <1>1, Sizes DEF Slot
    <3>2. \A i \in 1 .. m : Pages[i] = aPgno[i]
      BY <1>1, <3>1 DEF Pages, IndexOK
    <3> QED
      BY <3>1, <3>2, LatestSame, LastIs
  <2>4. \A p \in Page : Stored[p] = Under(aHdr[0])[p]
    BY <1>1, <2>2, <2>3, StoredAt, UnderValue
  <2> QED
    BY <2>4, StoredAt, Images
<1> QED
  BY <1>2, <1>3

\* What a writer sees of a page it has neither changed nor logged since.
LEMMA WriterSees ==
  ASSUME ContInv, NEW c \in Conn, useWal(c), wal[c].readLock > 0, NEW p \in Page,
         dirty[c][p] = NoPage
  PROVE  Seen(c)[p] = IF Last(wal[c].hdr.mx, p) = 0 THEN db[p]
                      ELSE log[Last(wal[c].hdr.mx, p)].val
<1> DEFINE n == wal[c].hdr.mx
           k == Last(n, p)
<1>1. /\ TypesOK /\ n \in 0 .. MaxFrame /\ aHdr[0].mx \in 0 .. MaxFrame
      /\ nBackfill \in 0 .. MaxFrame
      /\ aHdr[0].mx <= n /\ nBackfill <= aHdr[0].mx
      /\ wal[c].minFrame \in 1 .. nBackfill + 1
  BY WriterKnows
<1>2. Seen(c)[p] = IF k >= wal[c].minFrame THEN log[k].val ELSE db[p]
  BY <1>1, SeenValue
<1>3. k \in 0 .. n
  BY <1>1, LastIn
<1>4. CASE k >= wal[c].minFrame
  BY <1>1, <1>2, <1>3, <1>4
<1>5. CASE ~(k >= wal[c].minFrame) /\ k # 0
  <2>1. k <= nBackfill /\ k <= aHdr[0].mx
    BY <1>1, <1>3, <1>5
  <2>2. Last(aHdr[0].mx, p) = k
    <3>1. n \in Nat /\ aHdr[0].mx \in 0 .. n
      BY <1>1, Sizes
    <3> QED
      BY <2>1, <3>1, LatestShrinks, LastIs
  <2>3. k \in 1 .. nBackfill
    BY <1>1, <1>3, <1>5, <2>1
  <2>4. db[p] = log[k].val
    BY <2>2, <2>3 DEF ContInv, ContentsOK, DbOK
  <2> QED
    BY <1>2, <1>5, <2>4
<1>6. CASE ~(k >= wal[c].minFrame) /\ k = 0
  BY <1>2, <1>6
<1> QED
  BY <1>4, <1>5, <1>6

-----------------------------------------------------------------------------
(* What the frames of a transaction are worth to a new process. *)

\* No checksum of another log or of an earlier transaction fits them.
LEMMA StaleInvalid ==
  TypesOK =>
    \A c \in Conn :
      StaleOK(c) /\ Written(c) > aHdr[0].mx =>
        \A s, n : n \in Slot /\ n > Written(c) => ~Valid(log, s, n)
<1> SUFFICES ASSUME TypesOK, NEW c \in Conn, StaleOK(c), Written(c) > aHdr[0].mx,
                    NEW s, NEW n \in Slot, n > Written(c), Valid(log, s, n)
             PROVE  FALSE
  OBVIOUS
<1>1. aHdr[0].mx \in 0 .. MaxFrame /\ wal[c].hdr.mx \in 0 .. MaxFrame
      /\ job[c].iFrame \in 0 .. MaxFrame
  BY Types
<1>2. Written(c) \in 0 .. MaxFrame
  BY <1>1 DEF Written
<1>3. n \in Nat \ {0} /\ aHdr[0].mx + 1 \in 1 .. n
  BY <1>1, <1>2, Sizes DEF Slot
<1>4. /\ DOMAIN log[n].sum = 1 .. n
      /\ \A i \in 1 .. n : log[n].sum[i] = <<log[i].page, log[i].val, log[i].last>>
  BY <1>3, SumAt
<1>5. log[n].sum[aHdr[0].mx + 1][2] = log[aHdr[0].mx + 1].val
  BY <1>3, <1>4
<1>6. log[n].sum[aHdr[0].mx + 1][2] # log[aHdr[0].mx + 1].val
  BY <1>3, <1>4 DEF StaleOK
<1> QED
  BY <1>5, <1>6

\* Before its commit is complete nothing of it is read.
LEMMA NothingBeyond ==
  TypesOK =>
    \A c \in Conn :
      /\ LastOK(c) /\ StaleOK(c) /\ Written(c) > aHdr[0].mx /\ ~Publishing(c)
      => \A s : NoneBeyond(s, aHdr[0].mx)
<1> SUFFICES ASSUME TypesOK, NEW c \in Conn, LastOK(c), StaleOK(c),
                    Written(c) > aHdr[0].mx, ~Publishing(c),
                    NEW s, NEW n \in Slot, n > aHdr[0].mx, log[n].last, Valid(log, s, n)
             PROVE  FALSE
  BY DEF NoneBeyond
<1>1. aHdr[0].mx \in 0 .. MaxFrame /\ wal[c].hdr.mx \in 0 .. MaxFrame
      /\ job[c].iFrame \in 0 .. MaxFrame
  BY Types
<1>2. Written(c) \in 0 .. MaxFrame
  BY <1>1 DEF Written
<1>3. ~(n > Written(c))
  BY StaleInvalid
<1>4. n \in aHdr[0].mx + 1 .. Written(c) /\ n \in Nat \ {0}
  BY <1>1, <1>2, <1>3, Sizes DEF Slot
<1>5. n = Written(c) /\ pc[c] = "rewrite"
  BY <1>4 DEF LastOK, Logged, Publishing
<1>6. log[n].sum = <<>>
  BY <1>5 DEF LastOK
<1>7. DOMAIN log[n].sum = 1 .. n
  BY <1>4, SumAt
<1> QED
  BY <1>4, <1>6, <1>7

\* A complete commit is the end of what is read.
LEMMA CommitIsLast ==
  TypesOK =>
    \A c \in Conn :
      StaleOK(c) /\ Written(c) > aHdr[0].mx => \A s : NoneBeyond(s, Written(c))
  BY StaleInvalid DEF NoneBeyond

\* What is known of a writer about to publish a commit.
LEMMA PublisherKnows ==
  ASSUME ChainInv, NEW c \in Conn, Publishing(c)
  PROVE  /\ useWal(c) /\ Writing(c) /\ wal[c].readLock > 0 /\ wal[c].iReCksum = 0
         /\ job[c].todo = {}
         /\ TypesOK /\ Around(c) /\ FrameOf(c) /\ BatchOK(c) /\ NewOK(c)
         /\ SealedOK(c) /\ LastOK(c) /\ StaleOK(c)
         /\ Written(c) \in 1 .. MaxFrame /\ Written(c) > aHdr[0].mx
         /\ Written(c) >= wal[c].hdr.mx
         /\ wal[c].hdr.mx \in 0 .. MaxFrame /\ aHdr[0].mx \in 0 .. MaxFrame
         /\ Complete(log, salt) = Written(c)
<1>1. ContInv /\ TypesOK /\ Around(c) /\ Numbers(c) /\ aHdr[0].mx \in 0 .. MaxFrame
  BY AroundOK DEF ChainInv, ContInv, Around, Before
<1>2. /\ useWal(c) /\ Writing(c) /\ wal[c].readLock > 0 /\ wal[c].iReCksum = 0
      /\ job[c].todo = {}
  BY <1>1
  DEF Around, Before, PointOK, TaskOK, Publishing, Alone, Logging, Logged, useWal, Writing
<1>3. FrameOf(c) /\ BatchOK(c) /\ NewOK(c)
  BY <1>1, <1>2, WriterKnows
<1>4. SealedOK(c) /\ LastOK(c) /\ StaleOK(c)
  BY <1>2 DEF ChainInv, ChainOK, WrittenOK
<1>5. /\ Written(c) \in 1 .. MaxFrame /\ Written(c) > aHdr[0].mx
      /\ Written(c) >= wal[c].hdr.mx
  BY <1>1, <1>2, Sizes DEF Around, Before, WriterHdrOK, TaskOK, Publishing, Written, Numbers
<1>6. /\ salt = wal[c].hdr.salt /\ salt # 0
      /\ Valid(log, salt, Written(c)) /\ log[Written(c)].last
  BY <1>2, <1>4 DEF SealedOK, LastOK, Publishing, Logging
<1>7. NoneBeyond(salt, Written(c))
  BY <1>1, <1>4, <1>5, CommitIsLast
<1>8. Complete(log, salt) = Written(c)
  BY <1>5, <1>6, <1>7, CompleteIs, Sizes DEF NoneBeyond
<1> QED
  BY <1>1, <1>2, <1>3, <1>4, <1>5, <1>8 DEF Numbers

\* And then it is the image that the writer sees.
LEMMA StoredIsSeen ==
  ASSUME ChainInv, NEW c \in Conn, Publishing(c)
  PROVE  Stored = Seen(c)
<1> DEFINE w == Written(c)
           n == wal[c].hdr.mx
<1>1. /\ useWal(c) /\ Writing(c) /\ wal[c].readLock > 0 /\ job[c].todo = {}
      /\ TypesOK /\ FrameOf(c) /\ BatchOK(c) /\ NewOK(c)
      /\ w \in 1 .. MaxFrame /\ w >= n /\ n \in 0 .. MaxFrame
      /\ Complete(log, salt) = w
  BY PublisherKnows
<1>2. w \in Nat /\ n \in 0 .. w /\ \A i \in 1 .. w : i \in Slot /\ (i <= n => i \in 1 .. n)
  BY <1>1, Sizes DEF Slot
<1>3. \A i \in 1 .. n : Pages[i] = aPgno[i]
  BY <1>1, <1>2 DEF FrameOf, Pages
<1>4. /\ \A i \in n + 1 .. w : /\ log[i].page \in job[c].batch
                               /\ log[i].val = Seen(c)[log[i].page]
      /\ \A i, j \in n + 1 .. w : log[i].page = log[j].page => i = j
      /\ \A p \in Page : dirty[c][p] # NoPage => \E i \in n + 1 .. w : log[i].page = p
  <2>1. CASE pc[c] = "publish"
    <3>1. w = job[c].iFrame /\ call[c] = "commit"
      BY <2>1 DEF Written, Publishing
    <3>2. \A p \in Page : dirty[c][p] # NoPage => p \in job[c].batch
      BY <1>1, <2>1, <3>1 DEF BatchOK, Dirty
    <3> QED
      BY <1>1, <2>1, <3>1, <3>2 DEF NewOK, New
  <2>2. CASE pc[c] = "publish0"
    <3>1. w = n /\ dirty[c] = Clean
      BY <1>1, <2>2 DEF Written, BatchOK
    <3>2. n + 1 .. w = {}
      BY <1>1, <3>1
    <3> QED
      BY <3>1, <3>2 DEF Clean
  <2> QED
    BY <2>1, <2>2 DEF Publishing
<1> HIDE DEF w
<1>5. ASSUME NEW p \in Page
      PROVE  Stored[p] = Seen(c)[p]
  <2> DEFINE k == Latest(Pages, w, p)
  <2>1. Stored[p] = IF k = 0 THEN db[p] ELSE log[k].val
    BY <1>1, StoredAt, Sizes
  <2>2. k \in 0 .. w /\ (k # 0 => Pages[k] = p) /\ \A i \in 1 .. w : Pages[i] = p => i <= k
    BY <1>2, LatestOK
  <2>3. \A i \in 1 .. w : Pages[i] = log[i].page
    BY <1>2 DEF Pages
  <2> HIDE DEF k
  <2>4. CASE \E i \in n + 1 .. w : log[i].page = p
    <3>1. PICK i \in n + 1 .. w : log[i].page = p
      BY <2>4
    <3>2. i \in 1 .. w
      BY <1>2, <3>1
    <3>3. k >= i /\ k \in 1 .. w /\ log[k].page = p
      BY <1>2, <2>2, <2>3, <3>1, <3>2
    <3>4. k \in n + 1 .. w
      BY <1>2, <3>1, <3>3
    <3> QED
      BY <1>4, <2>1, <3>3, <3>4
  <2>5. CASE ~\E i \in n + 1 .. w : log[i].page = p
    <3>1. dirty[c][p] = NoPage
      BY <1>4, <2>5
    <3>2. k <= n
      BY <1>2, <2>2, <2>3, <2>5
    <3>3. Latest(Pages, n, p) = k
      BY <1>2, <3>2, LatestShrinks DEF k
    <3>4. Last(n, p) = k
      BY <1>2, <1>3, <3>3, LatestSame, LastIs
    <3>5. Seen(c)[p] = IF Last(n, p) = 0 THEN db[p] ELSE log[Last(n, p)].val
      BY <1>1, <3>1, WriterSees DEF ChainInv
    <3> QED
      BY <2>1, <3>4, <3>5
  <2> QED
    BY <2>4, <2>5
<1> QED
  BY <1>5, StoredAt, Images

\* LogHoldsTheCommits of run wal, from the checksums.
LEMMA ChainHolds ==
  ASSUME ChainInv
  PROVE  LogHoldsTheCommits
<1>1. CASE \E c \in Conn : Publishing(c)
  BY <1>1, StoredIsSeen DEF LogHoldsTheCommits, Publishing
<1>2. CASE aHdr[0].init /\ \A c \in Conn : ~Publishing(c)
  BY <1>2, StoredIsUnder DEF LogHoldsTheCommits, Current, ChainInv, ChainOK
<1>3. CASE ~aHdr[0].init
  BY <1>3 DEF LogHoldsTheCommits, Current
<1> QED
  BY <1>1, <1>2, <1>3

-----------------------------------------------------------------------------
(* What the files hold has been written before. *)

\* A checksum that goes on from an old one over an old frame is old.
LEMMA OldAppend ==
  ASSUME NEW s \in Seq(PayloadT), \A j \in DOMAIN s : s[j][2] \in Upto,
         NEW x \in PayloadT, x[2] \in Upto
  PROVE  \A j \in DOMAIN Append(s, x) : Append(s, x)[j][2] \in Upto
<1>1. /\ Len(s) \in Nat /\ DOMAIN s = 1 .. Len(s)
      /\ DOMAIN Append(s, x) = 1 .. Len(s) + 1
      /\ \A j \in 1 .. Len(s) + 1 : Append(s, x)[j] = IF j = Len(s) + 1 THEN x ELSE s[j]
  OBVIOUS
<1>2. \A j \in 1 .. Len(s) + 1 : j = Len(s) + 1 \/ j \in 1 .. Len(s)
  BY <1>1
<1> QED
  BY <1>1, <1>2

LEMMA OldSum ==
  ASSUME TypesOK, OldOK, NEW n \in 0 .. MaxFrame
  PROVE  SumTo(n) \in Seq(PayloadT) /\ \A j \in DOMAIN SumTo(n) : SumTo(n)[j][2] \in Upto
<1>1. CASE n = 0
  BY <1>1 DEF SumTo
<1>2. CASE n # 0
  <2>1. n \in Slot
    BY <1>2, Sizes DEF Slot
  <2> QED
    BY <1>2, <2>1, Types DEF SumTo, OldOK, OldFrame
<1> QED
  BY <1>1, <1>2

LEMMA OldNoFrame ==
  ASSUME TypesOK
  PROVE  OldFrame(NoFrame) /\ change \in Nat /\ 0 \in Upto /\ Torn \in Upto
  BY Types, Sizes DEF OldFrame, NoFrame, Upto

\* What a writer sees.
LEMMA OldSeen ==
  ASSUME TypesOK, OldOK, NEW c \in Conn, NEW p \in Page
  PROVE  Seen(c)[p] \in Upto
<1>1. FindFrame(c, p) = 0 \/ FindFrame(c, p) \in Slot
  <2>1. FindFrame(c, p) \in 0 .. wal[c].hdr.mx /\ wal[c].hdr.mx \in 0 .. MaxFrame
    BY FindFrameIn, Types
  <2> QED
    BY <2>1, Sizes DEF Slot
<1>2. Seen(c)[p] = IF dirty[c][p] # NoPage THEN dirty[c][p]
                   ELSE IF FindFrame(c, p) = 0 THEN db[p]
                   ELSE log[FindFrame(c, p)].val
  BY SeenAt
<1> QED
  BY <1>1, <1>2 DEF OldOK, OldFrame, Upto

\* Steps that write nothing, or only what is in the files.
LEMMA OldStays ==
  ASSUME OldOK, change' = change, db' = db, log' = log,
         \A p \in Page : platter'[p] \subseteq platter[p] \cup {db[p]},
         \A i \in Slot : logDisk'[i] \subseteq logDisk[i] \cup {log[i]},
         \A c \in Conn, p \in Page : dirty'[c][p] \in {dirty[c][p], NoPage}
  PROVE  OldOK'
<1>1. Upto' = Upto
  BY DEF Upto
<1>2. \A f : OldFrame(f) => OldFrame(f)'
  BY <1>1 DEF OldFrame
<1>3. \A p \in Page : db'[p] \in Upto' /\ platter'[p] \subseteq Upto'
  BY <1>1 DEF OldOK
<1>4. \A i \in Slot : OldFrame(log[i])' /\ \A f \in logDisk'[i] : OldFrame(f)'
  BY <1>2 DEF OldOK
<1>5. \A c \in Conn, p \in Page : dirty'[c][p] # NoPage => dirty'[c][p] \in 0 .. change'
  BY DEF OldOK
<1> QED
  BY <1>3, <1>4, <1>5 DEF OldOK

-----------------------------------------------------------------------------
(* What a step leaves that does not write to the log. *)

LEMMA FileStays ==
  ASSUME FileOK, log' = log, salt' = salt, aHdr'[0] = aHdr[0],
         db' = db \/ aHdr[0].mx # 0, \A c \in Conn : Publishing(c) => Publishing(c)'
  PROVE  FileOK'
<1> SUFFICES ASSUME aHdr'[0].init
             PROVE  FileOK'
  BY DEF FileOK
<1>1. /\ aHdr'[0].sum = SumTo(aHdr[0].mx)'
      /\ aHdr'[0].mx > 0 =>
           /\ salt' = aHdr'[0].salt /\ salt' # 0
           /\ Valid(log, salt, aHdr[0].mx)' /\ log'[aHdr'[0].mx].last
  BY DEF FileOK, SumTo
<1>2. ASSUME \A c \in Conn : ~Publishing(c)'
      PROVE  /\ aHdr'[0].salt # 0 => NoneBeyond(aHdr[0].salt, aHdr[0].mx)'
             /\ aHdr'[0].mx = 0 => Found(db, log, salt)' = db'
  BY <1>2 DEF FileOK, NoneBeyond
<1> QED
  BY <1>1, <1>2 DEF FileOK

LEMMA WrittenStays ==
  ASSUME NEW d \in Conn, WrittenOK(d), Stays(d), log' = log, salt' = salt, aHdr'[0] = aHdr[0]
  PROVE  WrittenOK(d)'
<1>1. (Writing(d)' <=> Writing(d)) /\ Written(d)' = Written(d)
  BY DEF Stays, Writing, useWal, Written
<1> SUFFICES ASSUME Writing(d)
             PROVE  (SealedOK(d) /\ LastOK(d) /\ StaleOK(d) /\ FirstOK(d))'
  BY <1>1 DEF WrittenOK
<1>2. SealedOK(d)'
  BY <1>1 DEF Stays, WrittenOK, SealedOK, SumTo
<1>3. LastOK(d)'
  BY <1>1 DEF Stays, WrittenOK, LastOK, Publishing
<1>4. StaleOK(d)'
  BY <1>1 DEF Stays, WrittenOK, StaleOK
<1>5. FirstOK(d)'
  BY <1>1 DEF Stays, WrittenOK, FirstOK, useWal, Dirty
<1> QED
  BY <1>2, <1>3, <1>4, <1>5

\* Only the writer has frames of its own.
LEMMA ChainPut ==
  ASSUME ChainInv, NEW c \in Conn, OthersStay(c), OldOK', FileOK', WrittenOK(c)',
         (log' = log /\ salt' = salt /\ aHdr'[0] = aHdr[0]) \/ Writing(c)
  PROVE  ChainOK'
<1>1. ASSUME NEW d \in Conn \ {c}
      PROVE  WrittenOK(d)'
  <2>1. Stays(d) /\ WrittenOK(d)
    BY DEF OthersStay, ChainInv, ChainOK
  <2>2. CASE Writing(c)
    <3>1. ~Writing(d)
      BY <2>2, Rivals DEF ChainInv, ContInv, MarkInv
    <3>2. ~Writing(d)'
      BY <2>1, <3>1 DEF Stays, Writing, useWal
    <3> QED
      BY <3>2 DEF WrittenOK
  <2>3. CASE ~Writing(c)
    BY <2>1, <2>3, WrittenStays
  <2> QED
    BY <2>2, <2>3
<1> QED
  BY <1>1 DEF ChainOK

\* The files and the contents, where neither the log nor the database changes.
FilesStay ==
  /\ UNCHANGED <<change, db, log, salt, platter>>
  /\ \A i \in Slot : logDisk'[i] \subseteq logDisk[i] \cup {log[i]}
  /\ aHdr'[0] = aHdr[0]

LEMMA ChainCalm ==
  ASSUME ChainInv, NEW c \in Conn, OthersStay(c), FilesStay, WrittenOK(c)',
         \A p \in Page : dirty'[c][p] \in {dirty[c][p], NoPage},
         Publishing(c) => Publishing(c)'
  PROVE  ChainOK'
<1>1. OldOK'
  <2>1. \A d \in Conn, p \in Page : dirty'[d][p] \in {dirty[d][p], NoPage}
    BY DEF OthersStay, Stays
  <2> QED
    BY <2>1, OldStays DEF FilesStay, ChainInv, ChainOK
<1>2. FileOK'
  <2>1. \A d \in Conn : Publishing(d) => Publishing(d)'
    BY DEF OthersStay, Stays, Publishing
  <2> QED
    BY <2>1, FileStays DEF FilesStay, ChainInv, ChainOK
<1> QED
  BY <1>1, <1>2, ChainPut DEF FilesStay

\* Steps of a connection that does not write.
LEMMA ChainIdle ==
  ASSUME ChainInv, NEW c \in Conn, OthersStay(c), FilesStay, dirty'[c] = dirty[c],
         ~Writing(c), ~Writing(c)'
  PROVE  ChainOK'
<1>1. ~Publishing(c)
  BY DEF Publishing, Writing, WritePoints
<1>2. WrittenOK(c)'
  BY DEF WrittenOK
<1> QED
  BY <1>1, <1>2, ChainCalm

-----------------------------------------------------------------------------
(* The steps of a connection that does not write. *)

LEMMA ReadHdrChain ==
  ASSUME ChainInv, NEW c \in Conn, ReadHdr(c)
  PROVE  ChainOK'
<1>1. ReadHdrDoes(c) /\ OthersStay(c) /\ Around(c)
  BY AroundOK, ReadHdrEffect DEF ChainInv, ContInv, Around, Before
<1>2. ~Writing(c) /\ ~Writing(c)' /\ dirty'[c] = dirty[c]
  BY <1>1
  DEF ReadHdrDoes, Moves, SameCall, SameCache, Around, Before, PointOK, Alone, Marking,
      Writing, WritePoints, useWal, CkPoints
<1>3. FilesStay
  BY <1>1 DEF ReadHdrDoes, FilesStay, dbVars, logVars, shmVars
<1> QED
  BY <1>1, <1>2, <1>3, ChainIdle

LEMMA HdrLockedChain ==
  ASSUME ChainInv, NEW c \in Conn, HdrLocked(c)
  PROVE  ChainOK'
<1>1. HdrLockedDoes(c) /\ OthersStay(c) /\ Around(c)
  BY AroundOK, HdrLockedEffect DEF ChainInv, ContInv, Around, Before
<1>2. ~Writing(c) /\ ~Writing(c)' /\ dirty'[c] = dirty[c]
  BY <1>1
  DEF HdrLockedDoes, Moves, SameCall, SameCache, Around, Before, PointOK, Alone, Marking,
      Writing, WritePoints, useWal, CkPoints
<1>3. FilesStay
  BY <1>1 DEF HdrLockedDoes, FilesStay, dbVars, logVars, shmVars
<1> QED
  BY <1>1, <1>2, <1>3, ChainIdle

LEMMA ChooseZeroChain ==
  ASSUME ChainInv, NEW c \in Conn, ChooseZero(c)
  PROVE  ChainOK'
<1>1. ChooseZeroDoes(c) /\ OthersStay(c) /\ Around(c)
  BY AroundOK, ChooseZeroEffect DEF ChainInv, ContInv, Around, Before
<1>2. ~Writing(c) /\ ~Writing(c)' /\ dirty'[c] = dirty[c]
  BY <1>1
  DEF ChooseZeroDoes, Moves, SameCall, SameCache, Around, Before, PointOK, Alone, Marking,
      Writing, WritePoints, useWal, CkPoints
<1>3. FilesStay
  BY <1>1 DEF ChooseZeroDoes, FilesStay, dbVars, logVars, shmVars
<1> QED
  BY <1>1, <1>2, <1>3, ChainIdle

LEMMA LockMarkZeroChain ==
  ASSUME ChainInv, NEW c \in Conn, LockMarkZero(c)
  PROVE  ChainOK'
<1>1. LockMarkZeroDoes(c) /\ OthersStay(c) /\ Around(c)
  BY AroundOK, LockMarkZeroEffect DEF ChainInv, ContInv, Around, Before
<1>2. ~Writing(c) /\ ~Writing(c)' /\ dirty'[c] = dirty[c]
  BY <1>1
  DEF LockMarkZeroDoes, Moves, SameCall, SameCache, Around, Before, PointOK, Alone, Marking,
      Writing, WritePoints, useWal, CkPoints
<1>3. FilesStay
  BY <1>1 DEF LockMarkZeroDoes, FilesStay, dbVars, logVars, shmVars
<1> QED
  BY <1>1, <1>2, <1>3, ChainIdle

LEMMA EndReadChain ==
  ASSUME ChainInv, NEW c \in Conn, EndRead(c)
  PROVE  ChainOK'
<1>1. EndReadDoes(c) /\ OthersStay(c) /\ Around(c)
  BY AroundOK, EndReadEffect DEF ChainInv, ContInv, Around, Before
<1>2. ~Writing(c) /\ ~Writing(c)' /\ dirty'[c] = dirty[c]
  BY <1>1
  DEF EndReadDoes, Moves, SameCall, SameCache, Around, Before, PointOK, Alone, Marking,
      Writing, WritePoints, useWal, CkPoints
<1>3. FilesStay
  BY <1>1 DEF EndReadDoes, FilesStay, dbVars, logVars, shmVars
<1> QED
  BY <1>1, <1>2, <1>3, ChainIdle

LEMMA StartCheckpointChain ==
  ASSUME ChainInv, NEW c \in Conn, StartCheckpoint(c)
  PROVE  ChainOK'
<1>1. StartCheckpointDoes(c) /\ OthersStay(c) /\ Around(c)
  BY AroundOK, StartCheckpointEffect DEF ChainInv, ContInv, Around, Before
<1>2. ~Writing(c) /\ ~Writing(c)' /\ dirty'[c] = dirty[c]
  BY <1>1
  DEF StartCheckpointDoes, Moves, SameCall, SameCache, Around, Before, PointOK, Alone, Marking,
      Writing, WritePoints, useWal, CkPoints
<1>3. FilesStay
  BY <1>1 DEF StartCheckpointDoes, FilesStay, dbVars, logVars, shmVars
<1> QED
  BY <1>1, <1>2, <1>3, ChainIdle

LEMMA InitIteratorChain ==
  ASSUME ChainInv, NEW c \in Conn, InitIterator(c)
  PROVE  ChainOK'
<1>1. InitIteratorDoes(c) /\ OthersStay(c) /\ Around(c)
  BY AroundOK, InitIteratorEffect DEF ChainInv, ContInv, Around, Before
<1>2. ~Writing(c) /\ ~Writing(c)' /\ dirty'[c] = dirty[c]
  BY <1>1
  DEF InitIteratorDoes, Moves, SameCall, SameCache, Around, Before, PointOK, Alone, Marking,
      Writing, WritePoints, useWal, CkPoints
<1>3. FilesStay
  BY <1>1 DEF InitIteratorDoes, FilesStay, dbVars, logVars, shmVars
<1> QED
  BY <1>1, <1>2, <1>3, ChainIdle

LEMMA VisitMarkChain ==
  ASSUME ChainInv, NEW c \in Conn, VisitMark(c)
  PROVE  ChainOK'
<1>1. VisitMarkDoes(c) /\ OthersStay(c) /\ Around(c)
  BY AroundOK, VisitMarkEffect DEF ChainInv, ContInv, Around, Before
<1>2. ~Writing(c) /\ ~Writing(c)' /\ dirty'[c] = dirty[c]
  BY <1>1
  DEF VisitMarkDoes, Moves, SameCall, SameCache, Around, Before, PointOK, Alone, Marking,
      Writing, WritePoints, useWal, CkPoints
<1>3. FilesStay
  BY <1>1 DEF VisitMarkDoes, FilesStay, dbVars, logVars, shmVars
<1> QED
  BY <1>1, <1>2, <1>3, ChainIdle

LEMMA GiveUpChain ==
  ASSUME ChainInv, NEW c \in Conn, GiveUp(c)
  PROVE  ChainOK'
<1>1. GiveUpDoes(c) /\ OthersStay(c) /\ Around(c)
  BY AroundOK, GiveUpEffect DEF ChainInv, ContInv, Around, Before
<1>2. ~Writing(c) /\ ~Writing(c)' /\ dirty'[c] = dirty[c]
  BY <1>1
  DEF GiveUpDoes, Moves, SameCall, SameCache, Around, Before, PointOK, Alone, Marking, Writing,
      WritePoints, useWal, CkPoints
<1>3. FilesStay
  BY <1>1 DEF GiveUpDoes, FilesStay, dbVars, logVars, shmVars
<1> QED
  BY <1>1, <1>2, <1>3, ChainIdle

LEMMA CheckpointFailsChain ==
  ASSUME ChainInv, NEW c \in Conn, CheckpointFails(c)
  PROVE  ChainOK'
<1>1. CheckpointFailsDoes(c) /\ OthersStay(c) /\ Around(c)
  BY AroundOK, CheckpointFailsEffect DEF ChainInv, ContInv, Around, Before
<1>2. ~Writing(c) /\ ~Writing(c)' /\ dirty'[c] = dirty[c]
  BY <1>1
  DEF CheckpointFailsDoes, Moves, SameCall, SameCache, Around, Before, PointOK, Alone, Marking,
      Writing, WritePoints, useWal, CkPoints
<1>3. FilesStay
  BY <1>1 DEF CheckpointFailsDoes, FilesStay, dbVars, logVars, shmVars
<1> QED
  BY <1>1, <1>2, <1>3, ChainIdle

LEMMA EndCheckpointChain ==
  ASSUME ChainInv, NEW c \in Conn, EndCheckpoint(c)
  PROVE  ChainOK'
<1>1. EndCheckpointDoes(c) /\ OthersStay(c) /\ Around(c)
  BY AroundOK, EndCheckpointEffect DEF ChainInv, ContInv, Around, Before
<1>2. ~Writing(c) /\ ~Writing(c)' /\ dirty'[c] = dirty[c]
  BY <1>1
  DEF EndCheckpointDoes, Moves, SameCall, SameCache, Around, Before, PointOK, Alone, Marking,
      Writing, WritePoints, useWal, CkPoints
<1>3. FilesStay
  BY <1>1 DEF EndCheckpointDoes, FilesStay, dbVars, logVars, shmVars
<1> QED
  BY <1>1, <1>2, <1>3, ChainIdle

LEMMA LockZeroChain ==
  ASSUME ChainInv, NEW c \in Conn, LockZero(c)
  PROVE  ChainOK'
<1>1. LockZeroDoes(c) /\ OthersStay(c) /\ Around(c)
  BY AroundOK, LockZeroEffect DEF ChainInv, ContInv, Around, Before
<1>2. ~Writing(c) /\ ~Writing(c)' /\ dirty'[c] = dirty[c]
  BY <1>1
  DEF LockZeroDoes, Moves, SameCall, SameCache, Around, Before, PointOK, Alone, Marking,
      Writing, WritePoints, useWal, CkPoints
<1>3. FilesStay
  BY <1>1 DEF LockZeroDoes, FilesStay, dbVars, logVars, shmVars, LogSynced, SyncLog
<1> QED
  BY <1>1, <1>2, <1>3, ChainIdle

-----------------------------------------------------------------------------
(* The steps of a writer before it logs its pages. *)

LEMMA WriterCalm ==
  ASSUME NEW c \in Conn, WrittenOK(c), Writing(c), log' = log, salt' = salt, aHdr'[0] = aHdr[0],
         wal'[c].hdr = wal[c].hdr, wal'[c].iReCksum = wal[c].iReCksum,
         dirty'[c] = dirty[c], call'[c] = call[c],
         job'[c].todo = job[c].todo, job'[c].iFrame = job[c].iFrame,
         Written(c)' = Written(c),
         pc[c] \notin Logged, pc'[c] \notin Logged \cup {"restart"},
         pc'[c] \in Logging \ {"header"} => wal[c].hdr.mx > 0 \/ pc[c] \in Logging \ {"header"}
  PROVE  WrittenOK(c)'
<1>1. SealedOK(c) /\ LastOK(c) /\ StaleOK(c) /\ FirstOK(c)
  BY DEF WrittenOK
<1>2. SealedOK(c)'
  BY <1>1 DEF SealedOK, SumTo
<1>3. LastOK(c)'
  BY <1>1 DEF LastOK, Publishing, Logged
<1>4. StaleOK(c)'
  BY <1>1 DEF StaleOK
<1>5. FirstOK(c)'
  BY <1>1 DEF FirstOK, useWal, Dirty, Logged
<1> QED
  BY <1>2, <1>3, <1>4, <1>5 DEF WrittenOK

\* What is known of a writer before it has logged a page.
LEMMA EarlyKnows ==
  ASSUME ChainInv, NEW c \in Conn, useWal(c), pc[c] \notin Logged \cup {"append"}
  PROVE  /\ Writing(c) /\ WrittenOK(c) /\ job[c].iFrame = wal[c].hdr.mx
         /\ Written(c) = wal[c].hdr.mx /\ wal[c].hdr.mx \in 0 .. MaxFrame
         /\ aHdr[0].mx \in 0 .. MaxFrame
         /\ ~Publishing(c)
<1>1. Around(c) /\ BatchOK(c) /\ aHdr[0].mx \in 0 .. MaxFrame
  BY AroundOK DEF Around, ChainInv, ContInv, ContentsOK, ContentOf
<1>2. Writing(c) /\ WrittenOK(c)
  BY DEF Writing, ChainInv, ChainOK
<1>3. job[c].iFrame = wal[c].hdr.mx /\ wal[c].hdr.mx \in 0 .. MaxFrame
  BY <1>1 DEF Around, Before, Numbers, BatchOK, Logged
<1> QED
  BY <1>1, <1>2, <1>3 DEF Written, Logged, Publishing

LEMMA ChooseMarkChain ==
  ASSUME ChainInv, NEW c \in Conn, ChooseMark(c)
  PROVE  ChainOK'
<1>1. ChooseMarkDoes(c) /\ OthersStay(c) /\ Around(c)
  BY AroundOK, ChooseMarkEffect DEF ChainInv, ContInv, Around, Before
<1>2. FilesStay /\ dirty'[c] = dirty[c] /\ call'[c] = call[c]
  BY <1>1 DEF ChooseMarkDoes, FilesStay, SameCache, SameCall, dbVars, logVars, shmVars
<1>3. CASE ~useWal(c)
  <2>1. ~Writing(c) /\ ~Writing(c)'
    BY <1>1, <1>2, <1>3 DEF ChooseMarkDoes, Moves, Writing, WritePoints, useWal, Retry
  <2> QED
    BY <1>1, <1>2, <2>1, ChainIdle
<1>4. CASE useWal(c)
  <2>1. pc[c] \in Marking \cup {"marks"}
    BY <1>1 DEF ChooseMarkDoes, Moves, Marking
  <2>2. /\ Writing(c) /\ WrittenOK(c) /\ job[c].iFrame = wal[c].hdr.mx
        /\ Written(c) = wal[c].hdr.mx /\ wal[c].hdr.mx \in 0 .. MaxFrame /\ ~Publishing(c)
    BY <1>4, <2>1, EarlyKnows DEF Marking, Logged
  <2>3. /\ wal'[c].hdr = wal[c].hdr /\ wal'[c].iReCksum = wal[c].iReCksum
        /\ job'[c].todo = job[c].todo /\ job'[c].iFrame = job[c].iFrame
    BY <1>1 DEF ChooseMarkDoes, SameWal, SameJob, WalIs, JobIs
  <2>4. /\ pc'[c] \in Marking \cup {"header", "append"}
        /\ pc'[c] = "append" => wal[c].hdr.mx > 0
    BY <1>1, <1>4, <2>2, Sizes DEF ChooseMarkDoes, Moves, Retry, ToLog, Marking
  <2>5. Written(c)' = Written(c)
    BY <2>2, <2>3, <2>4 DEF Written, Marking
  <2>6. WrittenOK(c)'
    BY <1>2, <2>1, <2>2, <2>3, <2>4, <2>5, WriterCalm DEF FilesStay, Marking, Logged, Logging
  <2> QED
    BY <1>1, <1>2, <2>2, <2>6, ChainCalm
<1> QED
  BY <1>3, <1>4

LEMMA LockMarkChain ==
  ASSUME ChainInv, NEW c \in Conn, LockMark(c)
  PROVE  ChainOK'
<1>1. LockMarkDoes(c) /\ OthersStay(c) /\ Around(c)
  BY AroundOK, LockMarkEffect DEF ChainInv, ContInv, Around, Before
<1>2. FilesStay /\ dirty'[c] = dirty[c] /\ call'[c] = call[c]
  BY <1>1 DEF LockMarkDoes, FilesStay, SameCache, SameCall, dbVars, logVars, shmVars
<1>3. CASE ~useWal(c)
  <2>1. ~Writing(c) /\ ~Writing(c)'
    BY <1>1, <1>2, <1>3 DEF LockMarkDoes, Moves, Writing, WritePoints, useWal, Retry
  <2> QED
    BY <1>1, <1>2, <2>1, ChainIdle
<1>4. CASE useWal(c)
  <2>1. pc[c] \in Marking \cup {"marks"}
    BY <1>1 DEF LockMarkDoes, Moves, Marking
  <2>2. /\ Writing(c) /\ WrittenOK(c) /\ job[c].iFrame = wal[c].hdr.mx
        /\ Written(c) = wal[c].hdr.mx /\ wal[c].hdr.mx \in 0 .. MaxFrame /\ ~Publishing(c)
    BY <1>4, <2>1, EarlyKnows DEF Marking, Logged
  <2>3. /\ wal'[c].hdr = wal[c].hdr /\ wal'[c].iReCksum = wal[c].iReCksum
        /\ job'[c].todo = job[c].todo /\ job'[c].iFrame = job[c].iFrame
    BY <1>1 DEF LockMarkDoes, SameWal, SameJob, WalIs, JobIs
  <2>4. /\ pc'[c] \in Marking \cup {"header", "append"}
        /\ pc'[c] = "append" => wal[c].hdr.mx > 0
    BY <1>1, <1>4, <2>2, Sizes DEF LockMarkDoes, Moves, Retry, ToLog, Marking
  <2>5. Written(c)' = Written(c)
    BY <2>2, <2>3, <2>4 DEF Written, Marking
  <2>6. WrittenOK(c)'
    BY <1>2, <2>1, <2>2, <2>3, <2>4, <2>5, WriterCalm DEF FilesStay, Marking, Logged, Logging
  <2> QED
    BY <1>1, <1>2, <2>2, <2>6, ChainCalm
<1> QED
  BY <1>3, <1>4

LEMMA CheckMarkChain ==
  ASSUME ChainInv, NEW c \in Conn, CheckMark(c)
  PROVE  ChainOK'
<1>1. CheckMarkDoes(c) /\ OthersStay(c) /\ Around(c)
  BY AroundOK, CheckMarkEffect DEF ChainInv, ContInv, Around, Before
<1>2. FilesStay /\ dirty'[c] = dirty[c] /\ call'[c] = call[c]
  BY <1>1 DEF CheckMarkDoes, FilesStay, SameCache, SameCall, dbVars, logVars, shmVars
<1>3. CASE ~useWal(c)
  <2>1. ~Writing(c) /\ ~Writing(c)'
    BY <1>1, <1>2, <1>3 DEF CheckMarkDoes, Moves, Writing, WritePoints, useWal, Retry
  <2> QED
    BY <1>1, <1>2, <2>1, ChainIdle
<1>4. CASE useWal(c)
  <2>1. pc[c] \in Marking \cup {"marks"}
    BY <1>1 DEF CheckMarkDoes, Moves, Marking
  <2>2. /\ Writing(c) /\ WrittenOK(c) /\ job[c].iFrame = wal[c].hdr.mx
        /\ Written(c) = wal[c].hdr.mx /\ wal[c].hdr.mx \in 0 .. MaxFrame /\ ~Publishing(c)
    BY <1>4, <2>1, EarlyKnows DEF Marking, Logged
  <2>3. /\ wal'[c].hdr = wal[c].hdr /\ wal'[c].iReCksum = wal[c].iReCksum
        /\ job'[c].todo = job[c].todo /\ job'[c].iFrame = job[c].iFrame
    BY <1>1 DEF CheckMarkDoes, SameWal, SameJob, WalIs, JobIs
  <2>4. /\ pc'[c] \in Marking \cup {"header", "append"}
        /\ pc'[c] = "append" => wal[c].hdr.mx > 0
    BY <1>1, <1>4, <2>2, Sizes DEF CheckMarkDoes, Moves, Retry, ToLog, Marking
  <2>5. Written(c)' = Written(c)
    BY <2>2, <2>3, <2>4 DEF Written, Marking
  <2>6. WrittenOK(c)'
    BY <1>2, <2>1, <2>2, <2>3, <2>4, <2>5, WriterCalm DEF FilesStay, Marking, Logged, Logging
  <2> QED
    BY <1>1, <1>2, <2>2, <2>6, ChainCalm
<1> QED
  BY <1>3, <1>4

LEMMA RestartInfoChain ==
  ASSUME ChainInv, NEW c \in Conn, RestartInfo(c)
  PROVE  ChainOK'
<1>1. RestartInfoDoes(c) /\ OthersStay(c) /\ Around(c)
  BY AroundOK, RestartInfoEffect DEF ChainInv, ContInv, Around, Before
<1>2. /\ FilesStay /\ dirty'[c] = dirty[c] /\ call'[c] = call[c]
      /\ pc[c] = "restarted"
  BY <1>1 DEF RestartInfoDoes, FilesStay, SameCache, SameCall, Moves, dbVars, logVars, shmVars
<1>3. useWal(c)
  BY <1>1, <1>2 DEF Around, Before, PointOK, Alone
<1>4. /\ Writing(c) /\ WrittenOK(c) /\ job[c].iFrame = wal[c].hdr.mx
      /\ Written(c) = wal[c].hdr.mx /\ wal[c].hdr.mx \in 0 .. MaxFrame /\ ~Publishing(c)
  BY <1>2, <1>3, EarlyKnows DEF Logged
<1>5. /\ wal'[c].hdr = wal[c].hdr /\ wal'[c].iReCksum = wal[c].iReCksum
      /\ job'[c].todo = job[c].todo /\ job'[c].iFrame = job[c].iFrame
  BY <1>1 DEF RestartInfoDoes, SameWal, SameJob, WalIs, JobIs
<1>6. /\ pc'[c] \in {"choose", "header", "append"}
      /\ pc'[c] = "append" => wal[c].hdr.mx > 0 \/ pc[c] = "headersync"
  BY <1>1, <1>4, Sizes DEF RestartInfoDoes, Moves, ToLog
<1>7. Written(c)' = Written(c)
  BY <1>4, <1>5, <1>6 DEF Written
<1>8. WrittenOK(c)'
  BY <1>2, <1>4, <1>5, <1>6, <1>7, WriterCalm DEF FilesStay, Logged, Logging
<1> QED
  BY <1>1, <1>2, <1>4, <1>8, ChainCalm

LEMMA KeepLogChain ==
  ASSUME ChainInv, NEW c \in Conn, KeepLog(c)
  PROVE  ChainOK'
<1>1. KeepLogDoes(c) /\ OthersStay(c) /\ Around(c)
  BY AroundOK, KeepLogEffect DEF ChainInv, ContInv, Around, Before
<1>2. /\ FilesStay /\ dirty'[c] = dirty[c] /\ call'[c] = call[c]
      /\ pc[c] = "frames"
  BY <1>1 DEF KeepLogDoes, FilesStay, SameCache, SameCall, Moves, dbVars, logVars, shmVars
<1>3. useWal(c)
  BY <1>1, <1>2 DEF Around, Before, PointOK, Alone
<1>4. /\ Writing(c) /\ WrittenOK(c) /\ job[c].iFrame = wal[c].hdr.mx
      /\ Written(c) = wal[c].hdr.mx /\ wal[c].hdr.mx \in 0 .. MaxFrame /\ ~Publishing(c)
  BY <1>2, <1>3, EarlyKnows DEF Logged
<1>5. /\ wal'[c].hdr = wal[c].hdr /\ wal'[c].iReCksum = wal[c].iReCksum
      /\ job'[c].todo = job[c].todo /\ job'[c].iFrame = job[c].iFrame
  BY <1>1 DEF KeepLogDoes, SameWal, SameJob, WalIs, JobIs
<1>6. /\ pc'[c] \in {"choose", "header", "append"}
      /\ pc'[c] = "append" => wal[c].hdr.mx > 0 \/ pc[c] = "headersync"
  BY <1>1, <1>4, Sizes DEF KeepLogDoes, Moves, ToLog
<1>7. Written(c)' = Written(c)
  BY <1>4, <1>5, <1>6 DEF Written
<1>8. WrittenOK(c)'
  BY <1>2, <1>4, <1>5, <1>6, <1>7, WriterCalm DEF FilesStay, Logged, Logging
<1> QED
  BY <1>1, <1>2, <1>4, <1>8, ChainCalm

LEMMA SyncHeaderChain ==
  ASSUME ChainInv, NEW c \in Conn, SyncHeader(c)
  PROVE  ChainOK'
<1>1. SyncHeaderDoes(c) /\ OthersStay(c) /\ Around(c)
  BY AroundOK, SyncHeaderEffect DEF ChainInv, ContInv, Around, Before
<1>2. /\ FilesStay /\ dirty'[c] = dirty[c] /\ call'[c] = call[c]
      /\ pc[c] = "headersync"
  BY <1>1
  DEF SyncHeaderDoes, FilesStay, SameCache, SameCall, Moves, dbVars, logVars, shmVars, SyncLog
<1>3. useWal(c)
  BY <1>1, <1>2 DEF Around, Before, PointOK, Alone
<1>4. /\ Writing(c) /\ WrittenOK(c) /\ job[c].iFrame = wal[c].hdr.mx
      /\ Written(c) = wal[c].hdr.mx /\ wal[c].hdr.mx \in 0 .. MaxFrame /\ ~Publishing(c)
  BY <1>2, <1>3, EarlyKnows DEF Logged
<1>5. /\ wal'[c].hdr = wal[c].hdr /\ wal'[c].iReCksum = wal[c].iReCksum
      /\ job'[c].todo = job[c].todo /\ job'[c].iFrame = job[c].iFrame
  BY <1>1 DEF SyncHeaderDoes, SameWal, SameJob, WalIs, JobIs
<1>6. /\ pc'[c] \in {"choose", "header", "append"}
      /\ pc'[c] = "append" => wal[c].hdr.mx > 0 \/ pc[c] = "headersync"
  BY <1>1, <1>4, Sizes DEF SyncHeaderDoes, Moves, ToLog
<1>7. Written(c)' = Written(c)
  BY <1>4, <1>5, <1>6 DEF Written
<1>8. WrittenOK(c)'
  BY <1>2, <1>4, <1>5, <1>6, <1>7, WriterCalm DEF FilesStay, Logged, Logging
<1> QED
  BY <1>1, <1>2, <1>4, <1>8, ChainCalm

-----------------------------------------------------------------------------
(* A transaction begins, changes pages, and is about to be logged. *)

LEMMA BeginWriteChain ==
  ASSUME ChainInv, NEW c \in Conn, BeginWrite(c)
  PROVE  ChainOK'
<1>1. BeginWriteDoes(c) /\ OthersStay(c) /\ Around(c) /\ TypesOK /\ aHdr[0].init
      /\ aHdr[0].mx \in 0 .. MaxFrame
  <2>1. pc[c] \notin Waiting
    BY DEF BeginWrite, Step, Waiting
  <2> QED
    BY <2>1, AroundOK, BeginWriteEffect DEF ChainInv, ContInv, Around, Before
<1>2. /\ FilesStay /\ dirty'[c] = dirty[c] /\ call'[c] = call[c] /\ pc[c] = "reader"
      /\ pc'[c] = "writer" /\ wal'[c] = wal[c] /\ job'[c] = job[c] /\ wal[c].hdr = aHdr[0]
  BY <1>1
  DEF BeginWriteDoes, FilesStay, SameCache, SameCall, SameWal, SameJob, Moves, dbVars, logVars,
      shmVars
<1>3. ~Writing(c) /\ wal[c].iReCksum = 0 /\ ~useWal(c) /\ dirty[c] = Clean
  <2>1. ~Writing(c)
    BY <1>1, <1>2 DEF Around, Before, PointOK, Alone, Marking, Writing, WritePoints, useWal
  <2>2. BatchOK(c)
    BY DEF ChainInv, ContInv, ContentsOK, ContentOf
  <2> QED
    BY <1>1, <2>1, <2>2, NotWriting DEF Around, Before, BatchOK
<1>4. FileOK
  BY DEF ChainInv, ChainOK
<1>5. Written(c)' = aHdr[0].mx
  BY <1>2 DEF Written
<1>6. SealedOK(c)'
  <2>1. Valid(log, aHdr[0].salt, aHdr[0].mx)
    <3>1. CASE aHdr[0].mx = 0
      BY <3>1 DEF Valid
    <3>2. CASE aHdr[0].mx # 0
      BY <1>1, <1>4, <3>2 DEF FileOK
    <3> QED
      BY <3>1, <3>2
  <2>2. aHdr[0].sum = SumTo(aHdr[0].mx)
    BY <1>1, <1>4 DEF FileOK
  <2>3. aHdr[0].mx > 0 => salt = aHdr[0].salt /\ salt # 0
    BY <1>1, <1>4 DEF FileOK
  <2>4. wal'[c].hdr = aHdr[0] /\ wal'[c].iReCksum = 0 /\ log' = log /\ salt' = salt
        /\ pc'[c] = "writer"
    BY <1>2, <1>3 DEF FilesStay
  <2>5. SumTo(aHdr[0].mx)' = SumTo(aHdr[0].mx)
    BY <1>2, <2>4 DEF SumTo, FilesStay
  <2>6. Written(c)' = aHdr[0].mx /\ SumTo(Written(c))' = SumTo(aHdr[0].mx)
    BY <1>5, <2>4 DEF SumTo
  <2> QED
    BY <2>1, <2>2, <2>3, <2>4, <2>6 DEF SealedOK, Logging
<1>7. LastOK(c)'
  BY <1>1, <1>2, <1>5, Sizes DEF LastOK, FilesStay, Publishing
<1>8. StaleOK(c)'
  <2>1. aHdr'[0] = aHdr[0] /\ dirty'[c] = Clean /\ Written(c)' = aHdr[0].mx
    BY <1>2, <1>3, <1>5 DEF FilesStay
  <2>2. ~(aHdr[0].mx > aHdr[0].mx)
    BY <1>1, Sizes
  <2> QED
    BY <2>1, <2>2 DEF StaleOK, Clean
<1>9. FirstOK(c)'
  BY <1>2, <1>3 DEF FirstOK, useWal
<1>10. WrittenOK(c)'
  BY <1>6, <1>7, <1>8, <1>9 DEF WrittenOK
<1>11. ~Publishing(c)
  BY <1>2 DEF Publishing
<1> QED
  BY <1>1, <1>2, <1>10, <1>11, ChainCalm

LEMMA WriteChain ==
  ASSUME ChainInv, NEW c \in Conn, NEW p \in Page, Write(c, p)
  PROVE  ChainOK'
<1>1. WriteDoes(c, p) /\ OthersStay(c) /\ Around(c) /\ TypesOK
  BY AroundOK, WriteEffect DEF ChainInv, ContInv, Around, Before
<1>2. /\ UNCHANGED <<db, platter, log, logDisk, salt>> /\ aHdr'[0] = aHdr[0]
      /\ change' = change + 1 /\ change \in Nat
      /\ pc[c] = "writer" /\ pc'[c] = "writer" /\ call'[c] = call[c]
      /\ wal'[c] = wal[c] /\ job'[c] = job[c]
      /\ dirty'[c] = [dirty[c] EXCEPT ![p] = change + 1]
      /\ dirty[c] \in [Page -> Content \cup {NoPage}]
  BY <1>1, Types, Sizes DEF WriteDoes, SameCall, SameWal, SameJob, Moves, logVars, shmVars
<1>3. Writing(c) /\ WrittenOK(c) /\ OldOK /\ FileOK
  BY <1>2 DEF Writing, WritePoints, ChainInv, ChainOK
<1>4. OldOK'
  <2>1. \A x : x \in Upto => x \in Upto'
    BY <1>2 DEF Upto
  <2>2. \A f : OldFrame(f) => OldFrame(f)'
    BY <2>1 DEF OldFrame
  <2>3. ASSUME NEW d \in Conn, NEW q \in Page, dirty'[d][q] # NoPage
        PROVE  dirty'[d][q] \in 0 .. change'
    <3>1. CASE d = c /\ q = p
      BY <1>2, <3>1
    <3>2. CASE ~(d = c /\ q = p)
      <4>1. dirty'[d][q] = dirty[d][q]
        BY <1>1, <1>2, <3>2 DEF OthersStay, Stays
      <4> QED
        BY <1>2, <1>3, <2>3, <4>1 DEF OldOK
    <3> QED
      BY <3>1, <3>2
  <2>4. \A q \in Page : db'[q] \in Upto' /\ platter'[q] \subseteq Upto'
    BY <1>2, <1>3, <2>1 DEF OldOK
  <2>5. \A i \in Slot : OldFrame(log[i])' /\ \A f \in logDisk'[i] : OldFrame(f)'
    BY <1>2, <1>3, <2>2 DEF OldOK
  <2> QED
    BY <2>3, <2>4, <2>5 DEF OldOK
<1>5. FileOK'
  <2>1. \A d \in Conn : Publishing(d) => Publishing(d)'
    BY <1>1, <1>2 DEF OthersStay, Stays, Publishing
  <2> QED
    BY <1>2, <1>3, <2>1, FileStays
<1>6. /\ Writing(c)' /\ Written(c)' = Written(c)
  BY <1>2 DEF Writing, WritePoints, Written
<1>7. SealedOK(c)'
  BY <1>2, <1>3, <1>6 DEF WrittenOK, SealedOK, SumTo
<1>8. LastOK(c)'
  BY <1>2, <1>3, <1>6 DEF WrittenOK, LastOK, Publishing
<1>9. FirstOK(c)'
  <2>1. ~useWal(c)'
    BY <1>1, <1>2 DEF Around, Before, PointOK, Alone, Marking, useWal
  <2> QED
    BY <2>1 DEF FirstOK
<1>10. StaleOK(c)'
  <2>1. change + 1 \notin Upto
    BY <1>2, WalAssumption DEF Upto
  <2>2. \A n \in Slot : \A j \in DOMAIN log[n].sum : log[n].sum[j][2] # change + 1
    BY <1>3, <2>1 DEF OldOK, OldFrame
  <2>3. \A q \in Page : dirty'[c][q] \in {dirty[c][q], change + 1}
    BY <1>2
  <2> QED
    BY <1>2, <1>3, <1>6, <2>2, <2>3 DEF WrittenOK, StaleOK
<1>11. WrittenOK(c)'
  BY <1>7, <1>8, <1>9, <1>10 DEF WrittenOK
<1> QED
  BY <1>1, <1>3, <1>4, <1>5, <1>11, ChainPut

LEMMA FramesChain ==
  ASSUME ChainInv, NEW c \in Conn, NEW what \in {"spill", "commit"}, NEW pages \in SUBSET Page,
         Frames(c, what, pages), pages \subseteq Dirty(c) \/ wal[c].hdr # aHdr[0]
  PROVE  ChainOK'
<1>1. FramesDoes(c, what, pages) /\ OthersStay(c) /\ Around(c) /\ TypesOK
      /\ aHdr[0].mx \in 0 .. MaxFrame
  BY AroundOK, FramesEffect DEF ChainInv, ContInv, Around, Before
<1>2. /\ FilesStay /\ dirty'[c] = dirty[c] /\ pc[c] = "writer" /\ pc'[c] = "frames"
      /\ wal'[c] = wal[c] /\ job'[c].iFrame = wal[c].hdr.mx /\ job'[c].todo = pages
  BY <1>1 DEF FramesDoes, FilesStay, SameCache, SameWal, Moves, JobIs, dbVars, logVars, shmVars
<1>3. Writing(c) /\ WrittenOK(c) /\ ~Publishing(c)
  BY <1>2 DEF Writing, WritePoints, ChainInv, ChainOK, Publishing
<1>4. Written(c)' = Written(c) /\ aHdr'[0] = aHdr[0] /\ log' = log /\ salt' = salt
  BY <1>2 DEF Written, FilesStay
<1>5. SealedOK(c)'
  BY <1>2, <1>3, <1>4 DEF WrittenOK, SealedOK, SumTo, Logging
<1>6. LastOK(c)'
  BY <1>2, <1>3, <1>4 DEF WrittenOK, LastOK, Publishing, Logged
<1>7. StaleOK(c)'
  BY <1>2, <1>3, <1>4 DEF WrittenOK, StaleOK
<1>8. FirstOK(c)'
  <2>1. wal[c].hdr # aHdr[0] => ~(wal[c].hdr.mx <= aHdr[0].mx)
    BY <1>1, <1>2 DEF Around, Before, WriterHdrOK, Numbers
  <2>2. Dirty(c)' = Dirty(c)
    BY <1>2 DEF Dirty
  <2> QED
    BY <1>2, <1>4, <2>1, <2>2 DEF FirstOK
<1>9. WrittenOK(c)'
  BY <1>5, <1>6, <1>7, <1>8 DEF WrittenOK
<1> QED
  BY <1>1, <1>2, <1>3, <1>9, ChainCalm

\* The pages of a spill or a commit are those that were changed, unless the
\* transaction has logged some before.
LEMMA ChangeFrames ==
  ASSUME ChainInv, NEW c \in Conn
  PROVE  /\ Commit(c) => ChainOK'
         /\ \A p \in Page : Spill(c, p) => ChainOK'
<1>1. ASSUME NEW p \in Page, Spill(c, p)
      PROVE  ChainOK'
  <2>1. Frames(c, "spill", {p}) /\ {p} \in SUBSET Page /\ {p} \subseteq Dirty(c)
    BY <1>1 DEF Spill
  <2> QED
    BY <2>1, FramesChain
<1>2. ASSUME Commit(c)
      PROVE  ChainOK'
  <2>1. CASE Dirty(c) = {}
    <3>1. Frames(c, "commit", {1}) /\ {1} \in SUBSET Page /\ wal[c].hdr # aHdr[0]
      BY <1>2, <2>1, Constants DEF Commit
    <3> QED
      BY <3>1, FramesChain
  <2>2. CASE Dirty(c) # {}
    <3>1. Frames(c, "commit", Dirty(c)) /\ Dirty(c) \in SUBSET Page
      BY <1>2, <2>2 DEF Commit, Dirty
    <3> QED
      BY <3>1, FramesChain
  <2> QED
    BY <2>1, <2>2
<1> QED
  BY <1>1, <1>2

-----------------------------------------------------------------------------
(* A log is begun anew. *)

LEMMA RestartHdrChain ==
  ASSUME ChainInv, NEW c \in Conn, RestartHdr(c)
  PROVE  ChainOK'
<1>1. RestartHdrDoes(c) /\ OthersStay(c) /\ Around(c) /\ TypesOK /\ aHdr[0].mx \in 0 .. MaxFrame
  BY AroundOK, RestartHdrEffect DEF ChainInv, ContInv, Around, Before
<1>2. /\ FilesStay /\ dirty'[c] = dirty[c] /\ call'[c] = call[c]
      /\ pc[c] = "frames" /\ pc'[c] = "restart" /\ wal[c].readLock = 0
      /\ wal'[c].iReCksum = wal[c].iReCksum
      /\ wal'[c].hdr = [init |-> TRUE, salt |-> NewSalt, mx |-> 0, sum |-> <<>>]
      /\ job'[c].todo = job[c].todo /\ job'[c].iFrame = 0 /\ Fresh # {}
  <2>1. aHdr \in [{0, 1} -> HdrT]
    BY <1>1 DEF TypesOK
  <2>2. aHdr'[0] = aHdr[0]
    BY <1>1, <2>1 DEF RestartHdrDoes
  <2> QED
    BY <1>1, <2>2
    DEF RestartHdrDoes, FilesStay, SameCache, SameCall, Moves, dbVars, logVars, WalIs, JobIs,
        MayRestart
<1>3. useWal(c) /\ wal[c].iReCksum = 0 /\ wal[c].hdr = aHdr[0]
  BY <1>1, <1>2 DEF Around, Before, PointOK, Alone, TaskOK, WriterHdrOK
<1>4. /\ Writing(c) /\ WrittenOK(c) /\ job[c].iFrame = wal[c].hdr.mx
      /\ Written(c) = wal[c].hdr.mx /\ ~Publishing(c)
  BY <1>2, <1>3, EarlyKnows DEF Logged
<1>5. Written(c)' = 0 /\ log' = log /\ aHdr'[0] = aHdr[0]
  BY <1>2 DEF Written, FilesStay
<1>6. SealedOK(c)'
  <2>1. \A i \in Slot : log[i].salt # NewSalt
    BY <1>1, <1>2, NewSaltIn DEF Salts
  <2>2. Valid(log', NewSalt, 0) /\ SumTo(0)' = <<>>
    BY DEF Valid, SumTo
  <2>3. SumTo(Written(c))' = <<>>
    BY <1>5 DEF SumTo
  <2>4. wal'[c].hdr.mx = 0 /\ wal'[c].hdr.salt = NewSalt /\ wal'[c].hdr.sum = <<>>
    BY <1>2
  <2> QED
    BY <1>2, <1>3, <1>5, <2>1, <2>2, <2>3, <2>4 DEF SealedOK, Logging
<1>7. LastOK(c)'
  BY <1>1, <1>2, <1>5, Sizes DEF LastOK, Publishing
<1>8. StaleOK(c)'
  <2>1. \A n \in Slot : n <= aHdr[0].mx \/ n > aHdr[0].mx
    BY <1>1, Sizes DEF Slot
  <2>2. ~(0 > aHdr[0].mx)
    BY <1>1, Sizes
  <2> QED
    BY <1>2, <1>3, <1>4, <1>5, <2>1, <2>2 DEF WrittenOK, StaleOK
<1>9. FirstOK(c)'
  <2>1. job[c].iFrame <= aHdr[0].mx
    BY <1>1, <1>3, <1>4, Sizes
  <2>2. job[c].todo \subseteq Dirty(c)
    BY <1>2, <1>3, <1>4, <2>1 DEF WrittenOK, FirstOK
  <2> QED
    BY <1>2, <2>2 DEF FirstOK, Dirty
<1>10. WrittenOK(c)'
  BY <1>6, <1>7, <1>8, <1>9 DEF WrittenOK
<1> QED
  BY <1>1, <1>2, <1>4, <1>10, ChainCalm

\* The only one to publish anything is the writer.
LEMMA NobodyPublishes ==
  ASSUME ChainInv, NEW c \in Conn, Writing(c), ~Publishing(c)
  PROVE  \A d \in Conn : ~Publishing(d)
<1>1. \A d \in Conn \ {c} : ~Writing(d)
  BY Rivals DEF ChainInv, ContInv, MarkInv
<1>2. \A d \in Conn : Publishing(d) => Writing(d)
  BY DEF Publishing, Writing, WritePoints
<1> QED
  BY <1>1, <1>2

LEMMA RestartHdr0Chain ==
  ASSUME ChainInv, NEW c \in Conn, RestartHdr0(c)
  PROVE  ChainOK'
<1>1. RestartHdr0Does(c) /\ OthersStay(c) /\ Around(c) /\ TypesOK /\ aHdr[0].init
      /\ aHdr[0].mx \in 0 .. MaxFrame
  <2>1. pc[c] \notin Waiting
    BY DEF RestartHdr0, Step, Waiting
  <2> QED
    BY <2>1, AroundOK, RestartHdr0Effect DEF ChainInv, ContInv, Around, Before
<1>2. /\ UNCHANGED <<change, db, platter, log, logDisk, salt>> /\ aHdr'[0] = wal[c].hdr
      /\ dirty'[c] = dirty[c] /\ call'[c] = call[c]
      /\ wal'[c] = wal[c] /\ job'[c] = job[c]
      /\ pc[c] = "restart" /\ pc'[c] = "restarted"
  <2>1. aHdr \in [{0, 1} -> HdrT]
    BY <1>1 DEF TypesOK
  <2> QED
    BY <1>1, <2>1
    DEF RestartHdr0Does, SameCache, SameCall, SameWal, SameJob, Moves, dbVars, logVars
<1>3. useWal(c) /\ wal[c].iReCksum = 0 /\ wal[c].hdr.mx = 0
  BY <1>1, <1>2 DEF Around, Before, PointOK, Alone, TaskOK, WriterHdrOK
<1>4. /\ Writing(c) /\ WrittenOK(c) /\ job[c].iFrame = wal[c].hdr.mx
      /\ Written(c) = wal[c].hdr.mx /\ ~Publishing(c)
  BY <1>2, <1>3, EarlyKnows DEF Logged
<1>5. OldOK'
  <2>1. \A d \in Conn, p \in Page : dirty'[d][p] \in {dirty[d][p], NoPage}
    BY <1>1, <1>2 DEF OthersStay, Stays
  <2> QED
    BY <1>2, <2>1, OldStays DEF ChainInv, ChainOK
<1>6. wal[c].hdr.sum = <<>> /\ \A i \in Slot : log[i].salt # wal[c].hdr.salt
  BY <1>2, <1>3, <1>4 DEF WrittenOK, SealedOK, SumTo
<1>7. FileOK'
  <2>1. aHdr'[0].sum = SumTo(aHdr[0].mx)' /\ aHdr'[0].mx = 0
    BY <1>2, <1>3, <1>6 DEF SumTo
  <2>2. NoneBeyond(aHdr[0].salt, aHdr[0].mx)'
    <3>1. ASSUME NEW n \in Slot, Valid(log, wal[c].hdr.salt, n)
          PROVE  FALSE
      <4>1. n \in 1 .. n
        BY Sizes DEF Slot
      <4> QED
        BY <1>6, <3>1, <4>1 DEF Valid
    <3> QED
      BY <1>2, <3>1 DEF NoneBeyond
  <2>3. Found(db, log, salt)' = db'
    <3>1. \A d \in Conn : ~Publishing(d)
      BY <1>4, NobodyPublishes
    <3>2. Found(db, log, salt) = Under(aHdr[0])
      BY <1>1, <3>1, StoredIsUnder DEF ChainInv, ChainOK, Stored
    <3>3. nBackfill = aHdr[0].mx
      BY <1>1, <1>2, <1>3 DEF Around, BackOf
    <3>4. \A p \in Page : Under(aHdr[0])[p] = db[p]
      <4>1. \A p \in Page : Last(aHdr[0].mx, p) \in 0 .. aHdr[0].mx
        BY <1>1, LastIn
      <4>2. \A p \in Page : Last(aHdr[0].mx, p) # 0 =>
                              db[p] = log[Last(aHdr[0].mx, p)].val
        BY <1>1, <3>3, <4>1 DEF ChainInv, ContInv, ContentsOK, DbOK
      <4> QED
        BY <1>1, <4>2, UnderValue
    <3>5. db = [p \in Page |-> db[p]]
      BY <1>1 DEF TypesOK, TypeOK
    <3> QED
      BY <1>2, <3>2, <3>4, <3>5, Images
  <2>4. ~(aHdr'[0].mx > 0)
    BY <2>1
  <2> QED
    BY <2>1, <2>2, <2>3, <2>4 DEF FileOK
<1>8. Written(c)' = 0 /\ aHdr'[0].mx = 0
  BY <1>2, <1>3 DEF Written
<1>9. SealedOK(c)'
  <2>1. Valid(log', wal[c].hdr.salt, 0) /\ SumTo(Written(c))' = <<>>
    BY <1>8 DEF Valid, SumTo
  <2> QED
    BY <1>2, <1>3, <1>6, <1>8, <2>1 DEF SealedOK, Logging
<1>10. LastOK(c)'
  BY <1>2, <1>8 DEF LastOK, Publishing
<1>11. StaleOK(c)'
  <2>1. \A n \in Slot : n > 0
    BY Sizes DEF Slot
  <2> QED
    BY <1>2, <1>3, <1>4, <1>8, <2>1 DEF WrittenOK, StaleOK
<1>12. FirstOK(c)'
  <2>1. job[c].iFrame <= aHdr[0].mx
    BY <1>1, <1>3, <1>4, Sizes
  <2>2. job[c].todo \subseteq Dirty(c)
    BY <1>2, <1>3, <1>4, <2>1 DEF WrittenOK, FirstOK
  <2> QED
    BY <1>2, <2>2 DEF FirstOK, Dirty
<1>13. WrittenOK(c)'
  BY <1>9, <1>10, <1>11, <1>12 DEF WrittenOK
<1> QED
  BY <1>1, <1>4, <1>5, <1>7, <1>13, ChainPut

\* What is found before the first commit, after a step.
LEMMA StoredIsDbNext == (TypesOK /\ NoneBeyond(salt, 0) => Stored = db)'
<1>1. TypesOK /\ NoneBeyond(salt, 0) => Stored = db
  BY StoredIsDb
<1> QED
  BY <1>1, PTL

LEMMA WriteHeaderChain ==
  ASSUME ChainInv, NEW c \in Conn, WriteHeader(c)
  PROVE  ChainOK'
<1>1. WriteHeaderDoes(c) /\ OthersStay(c) /\ Around(c) /\ TypesOK /\ TypesOK' /\ aHdr[0].init
      /\ aHdr[0].mx \in 0 .. MaxFrame
  <2>1. pc[c] \notin Waiting
    BY DEF WriteHeader, Step, Waiting
  <2> QED
    BY <2>1, AroundOK, WriteHeaderEffect DEF ChainInv, ContInv, Around, Before
<1>2. PICK s \in 1 .. MaxSalt :
        /\ s = wal[c].hdr.salt \/ s \notin Salts
        /\ salt' = s
        /\ wal'[c].hdr = [init |-> wal[c].hdr.init, salt |-> s, mx |-> wal[c].hdr.mx,
                          sum |-> <<>>]
        /\ wal'[c].iReCksum = wal[c].iReCksum
  BY <1>1 DEF WriteHeaderDoes, WalIs
<1>3. /\ UNCHANGED <<change, db, platter, log, logDisk>> /\ aHdr'[0] = aHdr[0]
      /\ dirty'[c] = dirty[c] /\ call'[c] = call[c] /\ job'[c] = job[c]
      /\ pc[c] = "header" /\ pc'[c] = "headersync"
  BY <1>1 DEF WriteHeaderDoes, SameCache, SameCall, SameJob, Moves, dbVars, shmVars
<1>4. useWal(c) /\ wal[c].iReCksum = 0 /\ wal[c].hdr.mx = 0 /\ wal[c].hdr = aHdr[0]
  BY <1>1, <1>3, Sizes DEF Around, Before, PointOK, Alone, TaskOK, WriterHdrOK, Numbers
<1>5. /\ Writing(c) /\ WrittenOK(c) /\ job[c].iFrame = wal[c].hdr.mx
      /\ Written(c) = wal[c].hdr.mx /\ ~Publishing(c) /\ FileOK
  BY <1>3, <1>4, EarlyKnows DEF Logged, ChainInv, ChainOK
<1>6. OldOK'
  <2>1. \A d \in Conn, p \in Page : dirty'[d][p] \in {dirty[d][p], NoPage}
    BY <1>1, <1>3 DEF OthersStay, Stays
  <2> QED
    BY <1>3, <2>1, OldStays DEF ChainInv, ChainOK
<1>7. FileOK'
  <2>1. aHdr'[0].sum = SumTo(aHdr[0].mx)' /\ aHdr'[0].mx = 0
    BY <1>1, <1>3, <1>4, <1>5 DEF SumTo, FileOK
  <2>2. \A d \in Conn : ~Publishing(d)
    BY <1>5, NobodyPublishes
  <2>3. aHdr[0].salt # 0 => NoneBeyond(aHdr[0].salt, 0)
    BY <1>1, <1>4, <1>5, <2>2 DEF FileOK
  <2>4. NoneBeyond(s, 0)
    <3>1. CASE s = wal[c].hdr.salt
      BY <1>4, <2>3, <3>1, Sizes
    <3>2. CASE s \notin Salts
      <4>1. ASSUME NEW n \in Slot, Valid(log, s, n)
            PROVE  FALSE
        <5>1. n \in 1 .. n
          BY Sizes DEF Slot
        <5> QED
          BY <3>2, <4>1, <5>1 DEF Valid, Salts
      <4> QED
        BY <4>1 DEF NoneBeyond
    <3> QED
      BY <1>2, <3>1, <3>2
  <2>5. NoneBeyond(salt, 0)'
    BY <1>2, <1>3, <2>4 DEF NoneBeyond
  <2>6. Found(db, log, salt)' = db'
    BY <1>1, <2>5, StoredIsDbNext DEF Stored
  <2>7. ~(aHdr'[0].mx > 0)
    BY <2>1
  <2>8. aHdr'[0].salt # 0 => NoneBeyond(aHdr[0].salt, aHdr[0].mx)'
    BY <1>3, <2>1, <2>3 DEF NoneBeyond
  <2> QED
    BY <2>1, <2>6, <2>7, <2>8 DEF FileOK
<1>8. Written(c)' = 0 /\ aHdr'[0].mx = 0
  BY <1>2, <1>3, <1>4 DEF Written
<1>9. SealedOK(c)'
  <2>1. Valid(log', s, 0) /\ SumTo(Written(c))' = <<>>
    BY <1>8 DEF Valid, SumTo
  <2>2. wal'[c].hdr.salt = s /\ wal'[c].hdr.sum = <<>> /\ s # 0
    BY <1>2, Sizes
  <2> QED
    BY <1>2, <1>3, <1>4, <1>8, <2>1, <2>2 DEF SealedOK
<1>10. LastOK(c)'
  BY <1>3, <1>8 DEF LastOK, Publishing
<1>11. StaleOK(c)'
  BY <1>3, <1>4, <1>5, <1>8 DEF WrittenOK, StaleOK
<1>12. FirstOK(c)'
  BY <1>3, <1>5 DEF WrittenOK, FirstOK, Dirty, useWal
<1>13. WrittenOK(c)'
  BY <1>9, <1>10, <1>11, <1>12 DEF WrittenOK
<1> QED
  BY <1>1, <1>5, <1>6, <1>7, <1>13, ChainPut

-----------------------------------------------------------------------------
(* The end of a transaction. *)

LEMMA PublishHdr0Chain ==
  ASSUME ChainInv, NEW c \in Conn, PublishHdr0(c)
  PROVE  ChainOK'
<1>1. PublishHdr0Does(c) /\ OthersStay(c) /\ Around(c) /\ TypesOK
  BY AroundOK, PublishHdr0Effect DEF ChainInv, ContInv, Around, Before
<1>2. /\ UNCHANGED <<change, db, platter, log, logDisk, salt>> /\ aHdr'[0] = wal[c].hdr
      /\ dirty'[c] = dirty[c] /\ call'[c] = "none"
      /\ pc[c] = "publish0" /\ pc'[c] = "reader"
  <2>1. aHdr \in [{0, 1} -> HdrT]
    BY <1>1 DEF TypesOK
  <2> QED
    BY <1>1, <2>1 DEF PublishHdr0Does, SameCache, Moves, dbVars, logVars
<1>3. Publishing(c)
  BY <1>1, <1>2 DEF Around, Before, PointOK, Publishing
<1>4. /\ Writing(c) /\ wal[c].iReCksum = 0 /\ SealedOK(c) /\ LastOK(c) /\ StaleOK(c)
      /\ Written(c) = wal[c].hdr.mx /\ Written(c) \in 1 .. MaxFrame
      /\ Written(c) > aHdr[0].mx
  BY <1>2, <1>3, PublisherKnows DEF Written
<1>5. OldOK'
  <2>1. \A d \in Conn, p \in Page : dirty'[d][p] \in {dirty[d][p], NoPage}
    BY <1>1, <1>2 DEF OthersStay, Stays
  <2> QED
    BY <1>2, <2>1, OldStays DEF ChainInv, ChainOK
<1>6. FileOK'
  <2>1. aHdr'[0].sum = SumTo(aHdr[0].mx)'
    <3>1. wal[c].hdr.sum = SumTo(wal[c].hdr.mx)
      BY <1>4 DEF SealedOK
    <3> QED
      BY <1>2, <3>1 DEF SumTo
  <2>2. /\ salt' = aHdr'[0].salt /\ salt' # 0
        /\ Valid(log, salt, aHdr[0].mx)' /\ log'[aHdr'[0].mx].last
    <3>1. salt = wal[c].hdr.salt /\ salt # 0 /\ Valid(log, salt, wal[c].hdr.mx)
      BY <1>2, <1>4, Sizes DEF SealedOK, Logging
    <3>2. log[wal[c].hdr.mx].last
      BY <1>3, <1>4 DEF LastOK
    <3> QED
      BY <1>2, <3>1, <3>2
  <2>3. NoneBeyond(aHdr[0].salt, aHdr[0].mx)'
    <3>1. NoneBeyond(wal[c].hdr.salt, Written(c))
      BY <1>1, <1>4, CommitIsLast
    <3> QED
      BY <1>2, <1>4, <3>1 DEF NoneBeyond
  <2>4. aHdr'[0].mx # 0
    BY <1>2, <1>4, Sizes
  <2> QED
    BY <2>1, <2>2, <2>3, <2>4 DEF FileOK
<1>7. WrittenOK(c)'
  BY <1>2 DEF WrittenOK, Writing, WritePoints, useWal
<1> QED
  BY <1>1, <1>4, <1>5, <1>6, <1>7, ChainPut

LEMMA PublishChain ==
  ASSUME ChainInv, NEW c \in Conn, Publish(c)
  PROVE  ChainOK'
<1>1. PublishDoes(c) /\ OthersStay(c) /\ Around(c) /\ TypesOK
  BY AroundOK, PublishEffect DEF ChainInv, ContInv, Around, Before
<1>2. /\ UNCHANGED <<change, db, platter, log, logDisk, salt>> /\ aHdr'[0] = aHdr[0]
      /\ \A p \in Page : dirty'[c][p] \in {dirty[c][p], NoPage}
      /\ wal'[c].hdr = NewHdr(c) /\ wal'[c].iReCksum = wal[c].iReCksum /\ pc[c] = "publish"
  <2>1. aHdr \in [{0, 1} -> HdrT]
    BY <1>1 DEF TypesOK
  <2> QED
    BY <1>1, <2>1 DEF PublishDoes, dbVars, logVars, WalIs
<1>3. \/ call[c] = "spill" /\ call'[c] = "none" /\ pc'[c] = "writer"
      \/ call[c] = "commit" /\ call'[c] = "commit" /\ pc'[c] = "publish0"
  BY <1>1 DEF PublishDoes
<1>4. SealedOK(c) /\ LastOK(c) /\ StaleOK(c) /\ Written(c) = job[c].iFrame
  BY <1>2 DEF Writing, WritePoints, ChainInv, ChainOK, WrittenOK, Written
<1>5. /\ Written(c)' = Written(c)
      /\ wal'[c].hdr.salt = wal[c].hdr.salt /\ wal'[c].hdr.sum = wal[c].hdr.sum
  BY <1>2, <1>3, <1>4 DEF Written, NewHdr
<1>6. SealedOK(c)'
  BY <1>2, <1>3, <1>4, <1>5 DEF SealedOK, SumTo, Logging
<1>7. LastOK(c)'
  BY <1>2, <1>3, <1>4, <1>5 DEF LastOK, Publishing, Logged
<1>8. StaleOK(c)'
  BY <1>2, <1>4, <1>5 DEF StaleOK
<1>9. FirstOK(c)'
  BY <1>3 DEF FirstOK, useWal
<1>10. WrittenOK(c)'
  BY <1>6, <1>7, <1>8, <1>9 DEF WrittenOK
<1>11. FilesStay /\ (Publishing(c) => Publishing(c)')
  BY <1>2, <1>3 DEF FilesStay, Publishing
<1> QED
  BY <1>1, <1>2, <1>10, <1>11, ChainCalm

LEMMA RollbackChain ==
  ASSUME ChainInv, NEW c \in Conn, Rollback(c)
  PROVE  ChainOK'
<1>1. RollbackDoes(c) /\ OthersStay(c)
  BY AroundOK, RollbackEffect DEF ChainInv, ContInv, Around, Before
<1>2. FilesStay /\ dirty'[c] = Clean /\ ~Publishing(c) /\ ~Writing(c)'
  BY <1>1
  DEF RollbackDoes, FilesStay, dbVars, logVars, Publishing, Writing, WritePoints, useWal
<1>3. \A p \in Page : dirty'[c][p] = NoPage
  BY <1>2 DEF Clean
<1>4. WrittenOK(c)'
  BY <1>2 DEF WrittenOK
<1> QED
  BY <1>1, <1>2, <1>3, <1>4, ChainCalm

-----------------------------------------------------------------------------
(* A checkpoint writes to the database. *)

LEMMA CopyPageChain ==
  ASSUME ChainInv, NEW c \in Conn, CopyPage(c)
  PROVE  ChainOK'
<1>1. CopyPageDoes(c) /\ OthersStay(c) /\ Around(c) /\ TypesOK /\ OldOK /\ FileOK
  BY AroundOK, CopyPageEffect DEF ChainInv, ContInv, ChainOK, Around, Before
<1> DEFINE q == Min(ToCopy(c))
           x == log[job[c].iter[q]].val
<1>2. /\ UNCHANGED <<change, log, logDisk, salt, aHdr>>
      /\ dirty'[c] = dirty[c] /\ call'[c] = call[c] /\ pc[c] = "ckcopy" /\ pc'[c] = pc[c]
      /\ q \in ToCopy(c)
      /\ db' = [db EXCEPT ![q] = x] /\ platter' = [platter EXCEPT ![q] = @ \cup {x, Torn}]
  BY <1>1 DEF CopyPageDoes, SameCache, SameCall, Moves, logVars, shmVars
<1>3. q \in Page /\ job[c].iter[q] \in Slot
  <2>1. q \in Page /\ job[c].iter[q] # 0
    BY <1>2 DEF ToCopy
  <2>2. job[c].iter \in [Page -> 0 .. MaxFrame]
    BY <1>1, Types
  <2> QED
    BY <2>1, <2>2, Sizes DEF Slot
<1> HIDE DEF q
<1>4. ~Writing(c) /\ ~Writing(c)' /\ aHdr[0].mx # 0
  BY <1>1, <1>2, Sizes
  DEF Around, Before, PointOK, Writing, WritePoints, useWal, CkPoints, CkptOK, TaskOK, Numbers
<1>5. OldOK'
  <2>1. Upto' = Upto
    BY <1>2 DEF Upto
  <2>2. \A f : OldFrame(f) => OldFrame(f)'
    BY <2>1 DEF OldFrame
  <2>3. x \in Upto /\ Torn \in Upto
    BY <1>1, <1>3 DEF OldOK, OldFrame, Upto
  <2>4. \A p \in Page : db'[p] \in Upto' /\ platter'[p] \subseteq Upto'
    <3>1. db \in [Page -> Content] /\ DOMAIN platter = Page
      BY <1>1 DEF TypesOK, TypeOK, Content
    <3> QED
      BY <1>1, <1>2, <1>3, <2>1, <2>3, <3>1 DEF OldOK
  <2>5. \A i \in Slot : OldFrame(log[i])' /\ \A f \in logDisk'[i] : OldFrame(f)'
    BY <1>1, <1>2, <2>2 DEF OldOK
  <2>6. \A d \in Conn : dirty'[d] = dirty[d]
    BY <1>1, <1>2 DEF OthersStay, Stays
  <2> QED
    BY <1>1, <1>2, <2>4, <2>5, <2>6 DEF OldOK
<1>6. FileOK'
  <2>1. \A d \in Conn : Publishing(d) => Publishing(d)'
    BY <1>1, <1>2 DEF OthersStay, Stays, Publishing
  <2> QED
    BY <1>1, <1>2, <1>4, <2>1, FileStays
<1>7. WrittenOK(c)'
  BY <1>4 DEF WrittenOK
<1> QED
  BY <1>1, <1>2, <1>5, <1>6, <1>7, ChainPut

LEMMA BackfilledChain ==
  ASSUME ChainInv, NEW c \in Conn, Backfilled(c)
  PROVE  ChainOK'
<1>1. BackfilledDoes(c) /\ OthersStay(c) /\ Around(c) /\ OldOK /\ FileOK
  BY AroundOK, BackfilledEffect DEF ChainInv, ContInv, ChainOK, Around, Before
<1>2. /\ UNCHANGED <<change, db, log, logDisk, salt, aHdr>>
      /\ dirty'[c] = dirty[c] /\ call'[c] = call[c] /\ pc[c] = "ckcopy" /\ pc'[c] = "ckend"
      /\ platter' = platter \/ platter' = [p \in Page |-> {db[p]}]
  BY <1>1 DEF BackfilledDoes, SameCache, SameCall, Moves, logVars
<1>3. ~Writing(c) /\ ~Writing(c)'
  BY <1>1, <1>2 DEF Around, Before, PointOK, Writing, WritePoints, useWal, CkPoints
<1>4. OldOK'
  <2>1. \A d \in Conn, p \in Page : dirty'[d][p] \in {dirty[d][p], NoPage}
    BY <1>1, <1>2 DEF OthersStay, Stays
  <2>2. \A p \in Page : platter'[p] \subseteq platter[p] \cup {db[p]}
    BY <1>2
  <2> QED
    BY <1>1, <1>2, <2>1, <2>2, OldStays
<1>5. FileOK'
  <2>1. \A d \in Conn : Publishing(d) => Publishing(d)'
    BY <1>1, <1>2 DEF OthersStay, Stays, Publishing
  <2> QED
    BY <1>1, <1>2, <2>1, FileStays
<1>6. WrittenOK(c)'
  BY <1>3 DEF WrittenOK
<1> QED
  BY <1>1, <1>2, <1>4, <1>5, <1>6, ChainPut

-----------------------------------------------------------------------------
(* Recovery, and the end of the process. *)

\* Nobody writes where nobody has begun.
LEMMA WaitingIsIdle ==
  ASSUME NEW c \in Conn, PointOK(c), pc[c] \in Waiting
  PROVE  ~Writing(c) /\ ~Publishing(c) /\ ~useWal(c)
  BY DEF PointOK, Waiting, Writing, WritePoints, Publishing, useWal, Alone, Marking

LEMMA RecoverChain ==
  ASSUME ChainInv, NEW c \in Conn, Recover(c)
  PROVE  ChainOK'
<1>1. RecoverDoes(c) /\ OthersStay(c) /\ Around(c) /\ TypesOK /\ OldOK /\ FileOK
  BY AroundOK, RecoverEffect DEF ChainInv, ContInv, ChainOK, Around, Before
<1> DEFINE h == RecoveredHdr(log, salt)
           n == Complete(log, salt)
<1>2. /\ UNCHANGED <<change, db, platter, log, logDisk, salt>> /\ aHdr'[0] = h
      /\ dirty'[c] = dirty[c] /\ call'[c] = call[c] /\ pc'[c] \in {"ckstart", "choose"}
  BY <1>1 DEF RecoverDoes, SameCache, SameCall, Moves, dbVars, logVars
<1>3. \A d \in Conn : ~Writing(d) /\ ~useWal(d)
  <2>1. Unused
    BY Recoverable DEF Recover, ChainInv, ContInv, MarkInv
  <2>2. \A d \in Conn : PointOK(d)
    BY AroundOK DEF ChainInv, ContInv, Around, Before
  <2> QED
    BY <2>1, <2>2, WaitingIsIdle DEF Unused
<1>4. \A d \in Conn : ~Writing(d)'
  <2>1. ~Writing(c)'
    BY <1>2, <1>3 DEF Writing, WritePoints, useWal
  <2>2. \A d \in Conn \ {c} : Writing(d)' <=> Writing(d)
    BY <1>1 DEF OthersStay, Stays, Writing, useWal
  <2> QED
    BY <1>3, <2>1, <2>2
<1>5. OldOK'
  <2>1. \A d \in Conn, p \in Page : dirty'[d][p] \in {dirty[d][p], NoPage}
    BY <1>1, <1>2 DEF OthersStay, Stays
  <2> QED
    BY <1>1, <1>2, <2>1, OldStays
<1>6. /\ n \in 0 .. MaxFrame
      /\ n # 0 => salt # 0 /\ Valid(log, salt, n) /\ log[n].last
      /\ salt # 0 => \A m \in Slot : m > n => ~(log[m].last /\ Valid(log, salt, m))
  BY CompleteOK
<1>7. h.mx = n /\ h.salt = salt /\ h.sum = [i \in 1 .. n |-> Payload(log[i])]
  BY DEF RecoveredHdr
<1> HIDE DEF h
<1>8. h.sum = SumTo(n)
  <2>1. CASE n = 0
    BY <1>7, <2>1 DEF SumTo
  <2>2. CASE n # 0
    <3>1. log[n].sum = [i \in 1 .. n |-> Payload(log[i])]
      BY <1>6, <2>2, SumIsPayloads, Sizes
    <3> QED
      BY <1>7, <2>2, <3>1 DEF SumTo
  <2> QED
    BY <2>1, <2>2
<1>9. n = 0 => Found(db, log, salt) = db
  <2> SUFFICES ASSUME n = 0
               PROVE  Stored = db
    BY DEF Stored
  <2>1. \A p \in Page : Latest(Pages, 0, p) = 0
    BY LatestOK
  <2>2. \A p \in Page : Stored[p] = db[p]
    BY <2>1, StoredAt, Sizes
  <2>3. db = [p \in Page |-> db[p]]
    BY <1>1 DEF TypesOK, TypeOK
  <2> QED
    BY <2>2, <2>3, StoredAt
<1> HIDE DEF n
<1>10. FileOK'
  <2>1. aHdr'[0].sum = SumTo(aHdr[0].mx)'
    BY <1>2, <1>7, <1>8 DEF SumTo
  <2>2. aHdr'[0].mx > 0 =>
          /\ salt' = aHdr'[0].salt /\ salt' # 0
          /\ Valid(log, salt, aHdr[0].mx)' /\ log'[aHdr'[0].mx].last
    BY <1>2, <1>6, <1>7, Sizes
  <2>3. aHdr'[0].salt # 0 => NoneBeyond(aHdr[0].salt, aHdr[0].mx)'
    BY <1>2, <1>6, <1>7 DEF NoneBeyond
  <2>4. aHdr'[0].mx = 0 => Found(db, log, salt)' = db'
    BY <1>2, <1>7, <1>9
  <2> QED
    BY <2>1, <2>2, <2>3, <2>4 DEF FileOK
<1> QED
  BY <1>4, <1>5, <1>10 DEF ChainOK, WrittenOK

LEMMA CrashChain ==
  ASSUME ChainInv, Crash
  PROVE  ChainOK'
<1>1. OldOK'
  <2>1. /\ UNCHANGED <<change, db, platter, log, logDisk>>
        /\ \A d \in Conn, p \in Page : dirty'[d][p] = NoPage
    BY DEF Crash, Forget, Clean, dbVars, logVars
  <2> QED
    BY <2>1, OldStays DEF ChainInv, ChainOK
<1>2. ~aHdr'[0].init
  BY DEF Crash, Forget, NoHdr
<1>3. \A d \in Conn : ~Writing(d)'
  BY DEF Crash, Forget, Writing, WritePoints, useWal
<1> QED
  BY <1>1, <1>2, <1>3 DEF ChainOK, FileOK, WrittenOK

LEMMA PowerLossChain ==
  ASSUME ChainInv, PowerLoss
  PROVE  ChainOK'
<1>1. TypesOK /\ OldOK /\ HdrOK /\ \A c \in Conn : PointOK(c)
  BY DEF ChainInv, ChainOK, ContInv, MarkInv, BaseOK, HdrsOK, OwnOK
<1>2. /\ UNCHANGED <<change, aHdr, wal, dirty, pc, call, job>>
      /\ \A c \in Conn : pc[c] = "idle"
      /\ ~aHdr[1].init
  BY DEF PowerLoss, NoProcess, shmVars
<1>3. ~aHdr'[0].init
  BY <1>1, <1>2 DEF HdrOK
<1>4. \A c \in Conn : ~Writing(c)'
  <2>1. \A c \in Conn : ~Writing(c)
    BY <1>1, <1>2, WaitingIsIdle DEF Waiting
  <2> QED
    BY <1>2, <2>1 DEF Writing, useWal
<1>5. \A p \in Page : db'[p] \in platter[p] /\ platter'[p] = {db'[p]}
  <2>1. DOMAIN platter = Page
    BY <1>1 DEF TypesOK, TypeOK
  <2> QED
    BY <2>1 DEF PowerLoss, DbLeft, Outcomes
<1>6. \A i \in Slot : log'[i] \in logDisk[i] /\ logDisk'[i] = {log'[i]}
  <2>1. DOMAIN logDisk = Slot
    BY <1>1 DEF TypesOK
  <2> QED
    BY <2>1 DEF PowerLoss, LogLeft, Outcomes
<1>7. OldOK'
  <2>1. Upto' = Upto
    BY <1>2 DEF Upto
  <2>2. \A f : OldFrame(f) => OldFrame(f)'
    BY <2>1 DEF OldFrame
  <2>3. \A p \in Page : db'[p] \in Upto' /\ platter'[p] \subseteq Upto'
    BY <1>1, <1>5, <2>1 DEF OldOK
  <2>4. \A i \in Slot : OldFrame(log'[i])
    BY <1>1, <1>6 DEF OldOK
  <2>5. \A i \in Slot : OldFrame(log[i])' /\ \A f \in logDisk'[i] : OldFrame(f)'
    BY <1>6, <2>1, <2>4 DEF OldFrame
  <2>6. \A c \in Conn, p \in Page : dirty'[c][p] # NoPage => dirty'[c][p] \in 0 .. change'
    BY <1>1, <1>2 DEF OldOK
  <2> QED
    BY <2>3, <2>5, <2>6 DEF OldOK
<1> QED
  BY <1>3, <1>4, <1>7 DEF ChainOK, FileOK, WrittenOK

LEMMA InitChain ==
  ASSUME Init
  PROVE  ChainOK
<1>1. 0 \in Upto
  BY DEF Init, Upto
<1>2. OldFrame(NoFrame)
  BY <1>1 DEF OldFrame, NoFrame
<1>3. OldOK
  BY <1>1, <1>2 DEF OldOK, Init, Clean
<1>4. ~aHdr[0].init
  BY DEF Init, NoHdr
<1>5. \A c \in Conn : ~Writing(c)
  BY DEF Init, Writing, WritePoints, useWal
<1> QED
  BY <1>3, <1>4, <1>5 DEF ChainOK, FileOK, WrittenOK

LEMMA ChainUnchanged ==
  ASSUME ChainInv, UNCHANGED vars
  PROVE  ChainOK'
<1>1. UNCHANGED <<change, db, platter, log, logDisk, salt, aHdr, wal, dirty, pc, call, job>>
  BY DEF vars, dbVars, logVars, shmVars
<1>2. OldOK'
  BY <1>1, OldStays DEF ChainInv, ChainOK
<1>3. FileOK'
  <2>1. \A c \in Conn : Publishing(c) => Publishing(c)'
    BY <1>1 DEF Publishing
  <2> QED
    BY <1>1, <2>1, FileStays DEF ChainInv, ChainOK
<1>4. \A c \in Conn : WrittenOK(c)'
  <2>1. \A c \in Conn : Stays(c)
    BY DEF vars, lockVars, Stays
  <2> QED
    BY <1>1, <2>1, WrittenStays DEF ChainInv, ChainOK
<1> QED
  BY <1>2, <1>3, <1>4 DEF ChainOK

-----------------------------------------------------------------------------
(* A frame is written. *)

\* What the disk may hold then.
DiskHas(i) ==
  /\ i \in Slot
  /\ \A j \in Slot \ {i} : log'[j] = log[j] /\ logDisk'[j] = logDisk[j]
  /\ logDisk'[i] = logDisk[i] \cup {log'[i], NoFrame}

LEMMA DiskWritten ==
  ASSUME TypesOK, NEW i \in Slot, NEW f, WriteFrame(i, f)
  PROVE  DiskHas(i)
<1>1. DOMAIN log = Slot /\ DOMAIN logDisk = Slot
  BY DEF TypesOK
<1>2. log'[i] = f /\ \A j \in Slot \ {i} : log'[j] = log[j]
  BY <1>1 DEF WriteFrame
<1>3. logDisk'[i] = logDisk[i] \cup {f, NoFrame}
      /\ \A j \in Slot \ {i} : logDisk'[j] = logDisk[j]
  BY <1>1 DEF WriteFrame
<1> QED
  BY <1>2, <1>3 DEF DiskHas

LEMMA OldWritten ==
  ASSUME TypesOK, OldOK, NEW i, DiskHas(i), OldFrame(log'[i]),
         UNCHANGED <<change, db, platter>>,
         \A c \in Conn, p \in Page : dirty'[c][p] \in {dirty[c][p], NoPage}
  PROVE  OldOK'
<1>1. Upto' = Upto
  BY DEF Upto
<1>2. \A f : OldFrame(f) => OldFrame(f)'
  BY <1>1 DEF OldFrame
<1>3. \A p \in Page : db'[p] \in Upto' /\ platter'[p] \subseteq Upto'
  BY <1>1 DEF OldOK
<1>4. \A j \in Slot : OldFrame(log'[j]) /\ \A f \in logDisk'[j] : OldFrame(f)
  <2>1. \A j \in Slot : OldFrame(log[j]) /\ \A f \in logDisk[j] : OldFrame(f)
    BY DEF OldOK
  <2> QED
    BY <2>1, OldNoFrame DEF DiskHas
<1>5. \A j \in Slot : OldFrame(log[j])' /\ \A f \in logDisk'[j] : OldFrame(f)'
  BY <1>1, <1>2, <1>4 DEF OldFrame
<1>6. \A c \in Conn, p \in Page : dirty'[c][p] # NoPage => dirty'[c][p] \in 0 .. change'
  BY DEF OldOK
<1> QED
  BY <1>3, <1>5, <1>6 DEF OldOK

LEMMA NothingBeyondNext ==
  (TypesOK =>
    \A c \in Conn :
      /\ LastOK(c) /\ StaleOK(c) /\ Written(c) > aHdr[0].mx /\ ~Publishing(c)
      => \A s : NoneBeyond(s, aHdr[0].mx))'
<1>1. TypesOK =>
        \A c \in Conn :
          /\ LastOK(c) /\ StaleOK(c) /\ Written(c) > aHdr[0].mx /\ ~Publishing(c)
          => \A s : NoneBeyond(s, aHdr[0].mx)
  BY NothingBeyond
<1> QED
  BY <1>1, PTL

\* It is no frame that is published.
LEMMA FileGrows ==
  ASSUME TypesOK, FileOK, TypesOK', NEW c \in Conn, LastOK(c)', StaleOK(c)',
         Written(c)' > aHdr'[0].mx, aHdr'[0] = aHdr[0], salt' = salt, db' = db,
         NEW i \in Slot, i > aHdr[0].mx, \A j \in Slot \ {i} : log'[j] = log[j]
  PROVE  FileOK'
<1> DEFINE m == aHdr[0].mx
<1>1. m \in 0 .. MaxFrame /\ \A j \in 1 .. m : j \in Slot /\ log'[j] = log[j]
  BY Types, Sizes DEF Slot
<1>2. SumTo(m)' = SumTo(m) /\ (m # 0 => log'[m] = log[m])
  BY <1>1, Sizes DEF SumTo
<1>3. Valid(log', salt, m) <=> Valid(log, salt, m)
  BY <1>1, ValidStays, Sizes
<1>4. ASSUME \A d \in Conn : ~Publishing(d)'
      PROVE  /\ NoneBeyond(aHdr[0].salt, aHdr[0].mx)'
             /\ aHdr'[0].mx = 0 => Found(db, log, salt)' = db'
  <2>1. (\A s : NoneBeyond(s, aHdr[0].mx))'
    BY <1>4, NothingBeyondNext
  <2>2. aHdr'[0].mx = 0 => NoneBeyond(salt, 0)'
    BY <2>1 DEF NoneBeyond
  <2>3. NoneBeyond(aHdr[0].salt, aHdr[0].mx)'
    BY <2>1 DEF NoneBeyond
  <2> QED
    BY <2>2, <2>3, StoredIsDbNext DEF Stored
<1>5. aHdr'[0].init =>
        /\ aHdr'[0].sum = SumTo(aHdr[0].mx)'
        /\ aHdr'[0].mx > 0 =>
             /\ salt' = aHdr'[0].salt /\ salt' # 0
             /\ Valid(log, salt, aHdr[0].mx)' /\ log'[aHdr'[0].mx].last
  BY <1>1, <1>2, <1>3, Sizes DEF FileOK
<1> QED
  BY <1>4, <1>5 DEF FileOK

-----------------------------------------------------------------------------
(* The writer logs a page. *)

\* The frame it writes.
FrameNow(c) ==
  IF Rewritable(c, Next1(c)) THEN FindFrame(c, Next1(c)) ELSE job[c].iFrame + 1

LEMMA LogPageDisk ==
  ASSUME TypesOK, NEW c \in Conn, PointOK(c), TaskOK(c), LogPage(c)
  PROVE  DiskHas(FrameNow(c))
<1> DEFINE p == Next1(c)
<1>1. LogPageDoes(c)
  BY LogPageEffect
<1>2. CASE Rewritable(c, p)
  <2>1. Overwrite(c, p) /\ FindFrame(c, p) \in Slot
    BY <1>1, <1>2 DEF LogPage, Next1, AppendFrame, LogPageDoes, OverwriteOne, AppendOne
  <2>2. \E f : WriteFrame(FindFrame(c, p), f)
    BY <2>1 DEF Overwrite
  <2> QED
    BY <1>2, <2>1, <2>2, DiskWritten DEF FrameNow
<1>3. CASE ~Rewritable(c, p)
  <2>1. AppendFrame(c, p) /\ job[c].iFrame + 1 \in Slot
    BY <1>1, <1>3 DEF LogPage, Next1, Overwrite, LogPageDoes, OverwriteOne, AppendOne
  <2>2. \E f : WriteFrame(job[c].iFrame + 1, f)
    BY <2>1 DEF AppendFrame
  <2> QED
    BY <1>3, <2>1, <2>2, DiskWritten DEF FrameNow
<1> QED
  BY <1>2, <1>3

\* What is known of a writer that logs a page.
LEMMA LoggerKnows ==
  ASSUME ChainInv, NEW c \in Conn, pc[c] = "append"
  PROVE  /\ useWal(c) /\ Writing(c) /\ wal[c].readLock > 0 /\ TypesOK /\ Around(c)
         /\ SealedOK(c) /\ LastOK(c) /\ StaleOK(c) /\ FirstOK(c) /\ OldOK /\ FileOK
         /\ BatchOK(c) /\ NewOK(c) /\ FrameOf(c)
         /\ Written(c) = job[c].iFrame /\ job[c].iFrame \in 0 .. MaxFrame
         /\ wal[c].hdr.mx \in 0 .. MaxFrame /\ aHdr[0].mx \in 0 .. MaxFrame
         /\ aHdr[0].mx <= wal[c].hdr.mx /\ wal[c].hdr.mx <= job[c].iFrame
         /\ wal[c].iReCksum \in 0 .. MaxFrame
         /\ wal[c].iReCksum <= job[c].iFrame
         /\ job[c].first # 0 => job[c].first = aHdr[0].mx + 1
         /\ Next1(c) \in Page /\ Next1(c) \in job[c].todo
         /\ salt = wal[c].hdr.salt /\ salt # 0
<1>1. ContInv /\ Around(c)
  BY AroundOK DEF ChainInv, ContInv, Around, Before
<1>2. useWal(c) /\ wal[c].readLock > 0
  BY <1>1 DEF Around, Before, PointOK, Alone, Logging
<1>3. /\ Writing(c) /\ TypesOK /\ FrameOf(c) /\ BatchOK(c) /\ NewOK(c)
      /\ wal[c].hdr.mx \in 0 .. MaxFrame /\ aHdr[0].mx \in 0 .. MaxFrame
      /\ job[c].iFrame \in 0 .. MaxFrame /\ aHdr[0].mx <= wal[c].hdr.mx
      /\ job[c].first # 0 => job[c].first = aHdr[0].mx + 1
      /\ job[c].iFrame >= wal[c].hdr.mx
  BY <1>1, <1>2, WriterKnows
<1>4. SealedOK(c) /\ LastOK(c) /\ StaleOK(c) /\ FirstOK(c) /\ OldOK /\ FileOK
  BY <1>3 DEF ChainInv, ChainOK, WrittenOK
<1>5. wal[c].iReCksum \in 0 .. MaxFrame /\ wal[c].iReCksum <= job[c].iFrame
  BY <1>1, <1>3, Sizes DEF Around, Before, TaskOK, Numbers
<1>6. Next1(c) \in Page /\ Next1(c) \in job[c].todo
  BY <1>1, <1>3, NextPage DEF Around, Before
<1>7. salt = wal[c].hdr.salt /\ salt # 0
  BY <1>4 DEF SealedOK, Logging
<1> QED
  BY <1>1, <1>2, <1>3, <1>4, <1>5, <1>6, <1>7 DEF Written

\* It appends a frame,
LEMMA AppendChain ==
  ASSUME ChainInv, NEW c \in Conn, LogPage(c), ~Rewritable(c, Next1(c))
  PROVE  ChainOK'
<1> DEFINE p == Next1(c)
           w == job[c].iFrame
           i == job[c].iFrame + 1
           m == aHdr[0].mx
           x == Seen(c)[p]
           sums == Append(wal[c].hdr.sum, <<p, x, Marked(c, p)>>)
<1>1. pc[c] = "append"
  BY DEF LogPage
<1>2. /\ useWal(c) /\ Writing(c) /\ TypesOK /\ Around(c)
      /\ SealedOK(c) /\ LastOK(c) /\ StaleOK(c) /\ FirstOK(c) /\ OldOK /\ FileOK
      /\ Written(c) = w /\ w \in 0 .. MaxFrame
      /\ m \in 0 .. MaxFrame /\ m <= w
      /\ wal[c].iReCksum \in 0 .. MaxFrame /\ wal[c].iReCksum <= w
      /\ p \in Page /\ p \in job[c].todo /\ salt = wal[c].hdr.salt /\ salt # 0
  BY <1>1, LoggerKnows, Sizes
<1>3. LogPageDoes(c) /\ OthersStay(c) /\ TypesOK' /\ DiskHas(i)
  <2>1. PointOK(c) /\ TaskOK(c)
    BY <1>2 DEF Around, Before
  <2> QED
    BY <1>2, <2>1, LogPageEffect, LogPageDisk DEF FrameNow
<1>4. AppendOne(c, p)
  BY <1>3 DEF LogPageDoes, OverwriteOne
<1>5. /\ UNCHANGED <<change, db, platter, salt>> /\ aHdr'[0] = aHdr[0]
      /\ dirty'[c] = dirty[c] /\ call'[c] = call[c]
      /\ pc'[c] = AfterPage(c, p) /\ wal'[c].hdr.salt = wal[c].hdr.salt
      /\ wal'[c].iReCksum = wal[c].iReCksum /\ wal'[c].hdr.mx = wal[c].hdr.mx
      /\ job'[c].iFrame = i /\ job'[c].todo = job[c].todo \ {p}
      /\ i \in Slot /\ \A j \in Slot \ {i} : log'[j] = log[j]
  BY <1>3, <1>4
  DEF LogPageDoes, AppendOne, Moves, SameCall, dbVars, shmVars, WalIs, JobIs, OneFrame
<1>6. /\ log'[i].page = p /\ log'[i].val = x /\ log'[i].last = Marked(c, p)
      /\ wal[c].iReCksum = 0 => /\ log'[i].salt = wal[c].hdr.salt /\ log'[i].sum = sums
                                /\ wal'[c].hdr.sum = sums
      /\ wal[c].iReCksum # 0 => log'[i].sum = <<>>
  BY <1>4 DEF AppendOne, WalIs
<1>7. wal[c].iReCksum = 0 => Valid(log, salt, w) /\ wal[c].hdr.sum = SumTo(w)
  BY <1>2 DEF SealedOK
<1>8. /\ pc'[c] \in {"append", "rewrite", "publish"} /\ Written(c)' = i
      /\ pc'[c] # "append" => job[c].todo = {p}
      /\ pc'[c] = "rewrite" => call[c] = "commit" /\ wal[c].iReCksum # 0
  BY <1>5 DEF AfterPage, Written
<1>9. Marked(c, p) \in BOOLEAN /\ (Marked(c, p) <=> call[c] = "commit" /\ job[c].todo = {p})
  BY DEF Marked
<1>10. OldOK'
  <2>1. x \in Upto
    BY <1>2, OldSeen
  <2>2. OldFrame(log'[i])
    <3>1. CASE wal[c].iReCksum = 0
      <4>1. /\ wal[c].hdr.sum \in Seq(PayloadT)
            /\ \A j \in DOMAIN wal[c].hdr.sum : wal[c].hdr.sum[j][2] \in Upto
        BY <1>2, <1>7, <3>1, OldSum
      <4>2. <<p, x, Marked(c, p)>> \in PayloadT
        BY <1>2, <1>9, SeenAt, Sizes DEF PayloadT, Page
      <4>3. \A j \in DOMAIN sums : sums[j][2] \in Upto
        BY <2>1, <4>1, <4>2, OldAppend
      <4> QED
        BY <1>6, <2>1, <3>1, <4>3 DEF OldFrame
    <3>2. CASE wal[c].iReCksum # 0
      BY <1>6, <2>1, <3>2 DEF OldFrame
    <3> QED
      BY <3>1, <3>2
  <2>3. \A d \in Conn, q \in Page : dirty'[d][q] \in {dirty[d][q], NoPage}
    BY <1>3, <1>5 DEF OthersStay, Stays
  <2> QED
    BY <1>2, <1>3, <1>5, <2>2, <2>3, OldWritten
<1> HIDE DEF p, x, sums
<1>11. SealedOK(c)'
  <2>1. CASE wal[c].iReCksum = 0
    <3>1. \A j \in 1 .. w : log'[j] = log[j]
      BY <1>2, <1>5, Sizes DEF Slot
    <3>2. Valid(log', salt, w)
      BY <1>2, <1>7, <2>1, <3>1, ValidStays, Sizes
    <3>3. SumTo(w) = IF i = 1 THEN <<>> ELSE log'[i - 1].sum
      BY <1>2, <3>1, Sizes DEF SumTo
    <3>4. log'[i].sum = Append(IF i = 1 THEN <<>> ELSE log'[i - 1].sum, Payload(log'[i]))
      BY <1>6, <1>7, <2>1, <3>3 DEF sums, Payload
    <3>5. i \in Nat \ {0} /\ i - 1 = w /\ p # 0
      BY <1>2, Sizes DEF Page
    <3>6. log'[i].salt = salt /\ log'[i].page # 0
      BY <1>2, <1>6, <2>1, <3>5
    <3>7. Valid(log', salt, i)
      BY <3>2, <3>4, <3>5, <3>6, ValidMore
    <3>8. SumTo(Written(c))' = log'[i].sum
      BY <1>8, <3>5 DEF SumTo
    <3> QED
      BY <1>2, <1>5, <1>6, <1>8, <2>1, <3>7, <3>8 DEF SealedOK
  <2>2. CASE wal[c].iReCksum # 0
    <3>1. \A j \in 1 .. wal[c].iReCksum - 1 : log'[j] = log[j]
      BY <1>2, <1>5, Sizes DEF Slot
    <3>2. Valid(log, salt, wal[c].iReCksum - 1) /\ wal[c].iReCksum - 1 \in Nat
      BY <1>2, <2>2, Sizes DEF SealedOK
    <3>3. Valid(log', salt, wal[c].iReCksum - 1)
      BY <3>1, <3>2, ValidStays
    <3> QED
      BY <1>2, <1>5, <1>8, <2>2, <3>3 DEF SealedOK
  <2> QED
    BY <2>1, <2>2
<1>12. LastOK(c)'
  <2>1. ASSUME NEW n \in m + 1 .. i, log'[n].last
        PROVE  n = i /\ call[c] = "commit" /\ job[c].todo = {p}
    <3>1. CASE n = i
      BY <1>6, <1>9, <2>1, <3>1
    <3>2. CASE n # i
      <4>1. n \in m + 1 .. w /\ n \in Slot
        BY <1>2, <3>2, Sizes DEF Slot
      <4>2. log[n].last
        BY <1>5, <2>1, <3>2, <4>1
      <4> QED
        BY <1>1, <1>2, <4>1, <4>2 DEF LastOK, Logged
    <3> QED
      BY <3>1, <3>2
  <2>2. job[c].todo = {p} => pc'[c] \in Logged
    BY <1>5 DEF AfterPage, Logged
  <2>3. pc'[c] = "rewrite" => log'[i].sum = <<>> /\ log'[i].last
    BY <1>6, <1>8, <1>9
  <2>4. Publishing(c)' => log'[i].last
    BY <1>5, <1>6, <1>8, <1>9 DEF Publishing
  <2> QED
    BY <1>5, <1>8, <2>1, <2>2, <2>3, <2>4 DEF LastOK
<1>13. StaleOK(c)'
  <2> SUFFICES ASSUME NEW n \in Slot, NEW j \in DOMAIN log'[n].sum
               PROVE  /\ n <= m \/ n > i =>
                           \A q \in Page : dirty[c][q] # NoPage => log'[n].sum[j][2] # dirty[c][q]
                      /\ n > i /\ i > m => log'[n].sum[j][2] # log'[m + 1].val
    BY <1>5, <1>8 DEF StaleOK
  <2>1. ASSUME n <= m \/ n > i
        PROVE  log'[n] = log[n] /\ (n <= m \/ n > w) /\ j \in DOMAIN log[n].sum
    BY <1>2, <1>5, <2>1, Sizes DEF Slot
  <2>2. n <= m \/ n > i =>
          \A q \in Page : dirty[c][q] # NoPage => log'[n].sum[j][2] # dirty[c][q]
    BY <1>2, <2>1 DEF StaleOK
  <2>3. ASSUME n > i
        PROVE  log'[n].sum[j][2] # log'[m + 1].val
    <3>1. CASE w > m
      <4>1. log'[m + 1] = log[m + 1]
        BY <1>2, <1>5, <3>1, Sizes DEF Slot
      <4>2. n > w
        BY <1>2, <2>3, Sizes DEF Slot
      <4> QED
        BY <1>2, <2>1, <2>3, <3>1, <4>1, <4>2 DEF StaleOK
    <3>2. CASE ~(w > m)
      <4>1. w <= m /\ m + 1 = i
        BY <1>2, <3>2, Sizes
      <4>2. dirty[c][p] # NoPage
        BY <1>1, <1>2, <4>1 DEF FirstOK, Dirty
      <4>3. x = dirty[c][p]
        BY <1>2, <4>2, SeenAt DEF x
      <4> QED
        BY <1>2, <1>6, <2>2, <2>3, <4>1, <4>2, <4>3
    <3> QED
      BY <3>1, <3>2
  <2> QED
    BY <2>2, <2>3
<1>14. FirstOK(c)'
  BY <1>2, <1>5, Sizes DEF FirstOK
<1>15. FileOK'
  <2>1. Written(c)' > aHdr'[0].mx /\ i > aHdr[0].mx
    BY <1>2, <1>5, <1>8, Sizes
  <2> QED
    BY <1>2, <1>3, <1>5, <1>12, <1>13, <2>1, FileGrows
<1>16. WrittenOK(c)'
  BY <1>11, <1>12, <1>13, <1>14 DEF WrittenOK
<1> QED
  BY <1>2, <1>3, <1>10, <1>15, <1>16, ChainPut

\* or overwrites one that it has written before,
LEMMA OverwriteChain ==
  ASSUME ChainInv, NEW c \in Conn, LogPage(c), Rewritable(c, Next1(c))
  PROVE  ChainOK'
<1> DEFINE p == Next1(c)
           w == job[c].iFrame
           i == FindFrame(c, p)
           m == aHdr[0].mx
           x == Seen(c)[p]
<1>1. pc[c] = "append"
  BY DEF LogPage
<1>2. /\ useWal(c) /\ Writing(c) /\ TypesOK /\ Around(c)
      /\ SealedOK(c) /\ LastOK(c) /\ StaleOK(c) /\ FirstOK(c) /\ OldOK /\ FileOK
      /\ Written(c) = w /\ w \in 0 .. MaxFrame
      /\ m \in 0 .. MaxFrame /\ wal[c].hdr.mx \in 0 .. MaxFrame /\ wal[c].hdr.mx <= w
      /\ wal[c].iReCksum \in 0 .. MaxFrame /\ wal[c].iReCksum <= w
      /\ job[c].first # 0 => job[c].first = m + 1
      /\ p \in Page /\ p \in job[c].todo /\ salt = wal[c].hdr.salt /\ salt # 0
  BY <1>1, LoggerKnows
<1>3. LogPageDoes(c) /\ OthersStay(c) /\ TypesOK' /\ DiskHas(i)
  <2>1. PointOK(c) /\ TaskOK(c)
    BY <1>2 DEF Around, Before
  <2> QED
    BY <1>2, <2>1, LogPageEffect, LogPageDisk DEF FrameNow
<1>4. OverwriteOne(c, p)
  BY <1>3 DEF LogPageDoes, AppendOne
<1>5. i \in Slot /\ i > m /\ i <= w
  <2>1. i \in 0 .. wal[c].hdr.mx /\ i >= job[c].first /\ job[c].first # 0
    BY <1>2, FindFrameIn DEF Rewritable
  <2> QED
    BY <1>2, <2>1, Sizes DEF Slot
<1> HIDE DEF i
<1>6. PICK k \in Slot :
        /\ k = i \/ k = wal[c].iReCksum
        /\ k <= i
        /\ wal[c].iReCksum # 0 => k <= wal[c].iReCksum
        /\ wal'[c].hdr = wal[c].hdr /\ wal'[c].iReCksum = k
  BY <1>4 DEF OverwriteOne, WalIs, i
<1>7. /\ UNCHANGED <<change, db, platter, salt>> /\ aHdr'[0] = aHdr[0]
      /\ call'[c] = call[c] /\ pc'[c] = AfterPage(c, p)
      /\ job'[c].iFrame = w /\ \A j \in Slot \ {i} : log'[j] = log[j]
      /\ \A q \in Page : dirty'[c][q] \in {dirty[c][q], NoPage}
      /\ log'[i].val = x /\ log'[i].last = log[i].last /\ log'[i].sum = log[i].sum
  <2>1. DOMAIN dirty[c] = Page
    BY <1>2, Types
  <2> QED
    BY <1>3, <1>4, <2>1
    DEF LogPageDoes, OverwriteOne, Moves, SameCall, dbVars, shmVars, JobIs, OneFrame, i
<1>8. /\ pc'[c] \in {"append", "publish"} /\ Written(c)' = w
      /\ pc'[c] = "publish" => call[c] # "commit"
  <2>1. ~(call[c] = "commit" /\ job[c].todo = {p})
    BY DEF Rewritable, Marked
  <2> QED
    BY <1>7, <2>1 DEF AfterPage, Written
<1>9. OldOK'
  <2>1. x \in Upto
    BY <1>2, OldSeen
  <2>2. OldFrame(log[i])
    BY <1>2, <1>5 DEF OldOK
  <2>3. OldFrame(log'[i])
    BY <1>7, <2>1, <2>2 DEF OldFrame
  <2>4. \A d \in Conn, q \in Page : dirty'[d][q] \in {dirty[d][q], NoPage}
    BY <1>3, <1>7 DEF OthersStay, Stays
  <2> QED
    BY <1>2, <1>3, <1>7, <2>3, <2>4, OldWritten
<1>10. (x = dirty[c][p] /\ dirty[c][p] # NoPage) \/ x = log[i].val
  <2>1. x = IF dirty[c][p] # NoPage THEN dirty[c][p]
            ELSE IF i = 0 THEN db[p] ELSE log[i].val
    BY <1>2, SeenAt DEF i
  <2> QED
    BY <1>5, <2>1, Sizes DEF Slot
<1> HIDE DEF p, x
<1>11. SealedOK(c)'
  <2>1. k \in Nat \ {0} /\ k - 1 \in Nat /\ k <= w
    BY <1>2, <1>5, <1>6, Sizes DEF Slot
  <2>2. Valid(log, salt, k - 1)
    <3>1. CASE wal[c].iReCksum = 0
      <4>1. Valid(log, salt, w) /\ w \in Nat /\ k - 1 <= w
        BY <1>2, <2>1, <3>1, Sizes DEF SealedOK
      <4> QED
        BY <2>1, <4>1, ValidLess
    <3>2. CASE wal[c].iReCksum # 0
      <4>1. Valid(log, salt, wal[c].iReCksum - 1) /\ wal[c].iReCksum - 1 \in Nat
            /\ k - 1 <= wal[c].iReCksum - 1
        BY <1>2, <1>6, <2>1, <3>2, Sizes DEF SealedOK
      <4> QED
        BY <2>1, <4>1, ValidLess
    <3> QED
      BY <3>1, <3>2
  <2>3. \A j \in 1 .. k - 1 : log'[j] = log[j]
    BY <1>2, <1>5, <1>6, <1>7, <2>1, Sizes DEF Slot
  <2>4. Valid(log', salt, k - 1)
    BY <2>1, <2>2, <2>3, ValidStays
  <2> QED
    BY <1>2, <1>6, <1>7, <1>8, <2>1, <2>4 DEF SealedOK
<1>12. LastOK(c)'
  <2>1. ASSUME NEW n \in m + 1 .. w
        PROVE  ~log'[n].last
    <3>1. n \in Slot
      BY <1>2, Sizes DEF Slot
    <3>2. ~log[n].last
      BY <1>1, <1>2 DEF LastOK, Logged
    <3> QED
      BY <1>7, <3>1, <3>2
  <2> QED
    BY <1>7, <1>8, <2>1 DEF LastOK, Publishing
<1>13. StaleOK(c)'
  <2> SUFFICES ASSUME NEW n \in Slot, NEW j \in DOMAIN log'[n].sum
               PROVE  /\ n <= m \/ n > w =>
                           \A q \in Page : dirty'[c][q] # NoPage =>
                                             log'[n].sum[j][2] # dirty'[c][q]
                      /\ n > w /\ w > m => log'[n].sum[j][2] # log'[m + 1].val
    BY <1>7, <1>8 DEF StaleOK
  <2>1. log'[n].sum = log[n].sum
    BY <1>7
  <2>2. n <= m \/ n > w =>
          \A q \in Page : dirty[c][q] # NoPage => log[n].sum[j][2] # dirty[c][q]
    BY <1>2, <2>1 DEF StaleOK
  <2>3. ASSUME n > w, w > m
        PROVE  log[n].sum[j][2] # log'[m + 1].val
    <3>1. log[n].sum[j][2] # log[m + 1].val
      BY <1>2, <2>1, <2>3 DEF StaleOK
    <3>2. CASE i = m + 1
      <4>1. log'[m + 1].val = x
        BY <1>7, <3>2
      <4>2. CASE x = log[i].val
        BY <3>1, <3>2, <4>1, <4>2
      <4>3. CASE x = dirty[c][p] /\ dirty[c][p] # NoPage
        BY <1>2, <2>2, <2>3, <4>1, <4>3
      <4> QED
        BY <1>10, <4>2, <4>3
    <3>3. CASE i # m + 1
      <4>1. m + 1 \in Slot
        BY <1>2, <2>3, Sizes DEF Slot
      <4> QED
        BY <1>7, <3>1, <3>3, <4>1
    <3> QED
      BY <3>2, <3>3
  <2> QED
    BY <1>7, <2>1, <2>2, <2>3
<1>14. FirstOK(c)'
  BY <1>2, <1>5, <1>7, Sizes DEF FirstOK, Slot
<1>15. FileOK'
  <2>1. Written(c)' > aHdr'[0].mx
    BY <1>2, <1>5, <1>7, <1>8, Sizes DEF Slot
  <2> QED
    BY <1>2, <1>3, <1>5, <1>7, <1>12, <1>13, <2>1, FileGrows
<1>16. WrittenOK(c)'
  BY <1>11, <1>12, <1>13, <1>14 DEF WrittenOK
<1> QED
  BY <1>2, <1>3, <1>9, <1>15, <1>16, ChainPut

\* and in the end puts the checksums right.
LEMMA RewriteChecksumChain ==
  ASSUME ChainInv, NEW c \in Conn, RewriteChecksum(c)
  PROVE  ChainOK'
<1> DEFINE w == job[c].iFrame
           i == wal[c].iReCksum
           m == aHdr[0].mx
           sums == Append(IF i = 1 THEN <<>> ELSE log[i - 1].sum, Payload(log[i]))
<1>1. RewriteChecksumDoes(c) /\ OthersStay(c) /\ Around(c) /\ TypesOK /\ TypesOK'
  BY AroundOK, RewriteChecksumEffect DEF ChainInv, ContInv, Around, Before
<1>2. /\ UNCHANGED <<change, db, platter, salt>> /\ aHdr'[0] = aHdr[0]
      /\ dirty'[c] = dirty[c] /\ call'[c] = call[c] /\ job'[c] = job[c]
      /\ pc[c] = "rewrite" /\ pc'[c] = IF i = w THEN "publish" ELSE "rewrite"
      /\ i \in Slot /\ i <= w /\ \A j \in Slot \ {i} : log'[j] = log[j]
  BY <1>1
  DEF RewriteChecksumDoes, SameCache, SameCall, SameJob, Moves, dbVars, shmVars, OneFrame
<1>3. /\ log'[i].page = log[i].page /\ log'[i].val = log[i].val /\ log'[i].last = log[i].last
      /\ log'[i].salt = wal[c].hdr.salt
      /\ wal'[c].hdr.salt = wal[c].hdr.salt /\ wal'[c].hdr.mx = wal[c].hdr.mx
      /\ wal'[c].iReCksum = IF i = w THEN 0 ELSE i + 1
  BY <1>1 DEF RewriteChecksumDoes, WalIs
<1>4. log'[i].sum = sums /\ wal'[c].hdr.sum = sums
  <2>1. /\ log'[i] = [page |-> log[i].page, val |-> log[i].val, last |-> log[i].last,
                     salt |-> wal[c].hdr.salt, sum |-> sums]
        /\ wal'[c].hdr = [init |-> wal[c].hdr.init, salt |-> wal[c].hdr.salt,
                         mx |-> wal[c].hdr.mx, sum |-> sums]
    BY <1>1, Zenon DEF RewriteChecksumDoes, WalIs
  <2> HIDE DEF sums
  <2> QED
    BY <2>1
<1> HIDE DEF sums
<1>5. useWal(c) /\ call[c] = "commit" /\ wal[c].readLock > 0
  BY <1>1, <1>2 DEF Around, Before, PointOK, Alone, Logging
<1>6. /\ Writing(c) /\ FrameOf(c) /\ BatchOK(c) /\ NewOK(c)
      /\ wal[c].hdr.mx \in 0 .. MaxFrame /\ m \in 0 .. MaxFrame
      /\ w \in 0 .. MaxFrame /\ w >= wal[c].hdr.mx
  BY <1>2, <1>5, WriterKnows DEF ChainInv
<1>7. /\ SealedOK(c) /\ LastOK(c) /\ StaleOK(c) /\ OldOK /\ FileOK /\ Written(c) = w
      /\ salt = wal[c].hdr.salt /\ salt # 0
  <2>1. SealedOK(c) /\ LastOK(c) /\ StaleOK(c) /\ OldOK /\ FileOK
    BY <1>6 DEF ChainInv, ChainOK, WrittenOK
  <2> QED
    BY <1>2, <2>1 DEF SealedOK, Logging, Written
<1>8. i > m /\ w > m
  BY <1>1, <1>2, <1>6, Sizes DEF Around, Before, WriterHdrOK, Slot
<1>9. Written(c)' = w
  BY <1>2 DEF Written
<1>10. i \in Nat \ {0} /\ i - 1 \in 0 .. MaxFrame /\ i - 1 \in Nat
  BY <1>2, Sizes DEF Slot
<1>11. SumTo(i - 1) = IF i = 1 THEN <<>> ELSE log[i - 1].sum
  BY <1>10 DEF SumTo
<1>12. OldOK'
  <2>1. SumTo(i - 1) \in Seq(PayloadT) /\ \A j \in DOMAIN SumTo(i - 1) :
                                            SumTo(i - 1)[j][2] \in Upto
    BY <1>1, <1>7, <1>10, OldSum
  <2>2. Payload(log[i]) \in PayloadT /\ Payload(log[i])[2] \in Upto
    BY <1>1, <1>2, <1>7, Types DEF Payload, PayloadT, OldOK, OldFrame
  <2>3. \A j \in DOMAIN sums : sums[j][2] \in Upto
    BY <1>11, <2>1, <2>2, OldAppend DEF sums
  <2>4. OldFrame(log'[i])
    BY <1>2, <1>3, <1>4, <1>7, <2>3 DEF OldFrame, OldOK
  <2>5. \A d \in Conn, q \in Page : dirty'[d][q] \in {dirty[d][q], NoPage}
    BY <1>1, <1>2 DEF OthersStay, Stays
  <2>6. DiskHas(i)
    <3>1. \E f : WriteFrame(i, f)
      BY DEF RewriteChecksum
    <3> QED
      BY <1>1, <1>2, <3>1, DiskWritten
  <2> QED
    BY <1>1, <1>2, <1>7, <2>4, <2>5, <2>6, OldWritten
<1>13. Valid(log', salt, i)
  <2>1. Valid(log, salt, i - 1)
    BY <1>2, <1>7, <1>10 DEF SealedOK
  <2>2. \A j \in 1 .. i - 1 : log'[j] = log[j]
    BY <1>2, Sizes DEF Slot
  <2>3. Valid(log', salt, i - 1)
    BY <1>10, <2>1, <2>2, ValidStays
  <2>4. log[i].page # 0
    <3>1. CASE i <= wal[c].hdr.mx
      BY <1>6, <1>10, <3>1 DEF FrameOf
    <3>2. CASE ~(i <= wal[c].hdr.mx)
      <4>1. i \in New(c)
        BY <1>2, <1>6, <1>10, <3>2, Sizes DEF New
      <4>2. log[i].page \in job[c].batch /\ job[c].batch \subseteq Page
        BY <1>1, <1>2, <1>6, <4>1, Types DEF NewOK
      <4> QED
        BY <4>2, Sizes DEF Page
    <3> QED
      BY <3>1, <3>2
  <2>5. log'[i].sum = Append(IF i = 1 THEN <<>> ELSE log'[i - 1].sum, Payload(log'[i]))
    <3>1. i # 1 => log'[i - 1] = log[i - 1]
      BY <1>10, <2>2
    <3>2. Payload(log'[i]) = Payload(log[i])
      BY <1>3 DEF Payload
    <3> QED
      BY <1>4, <3>1, <3>2 DEF sums
  <2> QED
    BY <1>3, <1>7, <1>10, <2>3, <2>4, <2>5, ValidMore
<1>14. SealedOK(c)'
  <2>1. CASE i = w
    <3>1. SumTo(Written(c))' = sums
      BY <1>4, <1>9, <1>10, <2>1 DEF SumTo
    <3> QED
      BY <1>2, <1>3, <1>4, <1>7, <1>9, <1>10, <1>13, <2>1, <3>1 DEF SealedOK
  <2>2. CASE i # w
    <3>1. i + 1 # 0 /\ (i + 1) - 1 = i
      BY <1>10
    <3> QED
      BY <1>2, <1>3, <1>7, <1>9, <1>13, <2>2, <3>1 DEF SealedOK
  <2> QED
    BY <2>1, <2>2
<1>15. LastOK(c)'
  <2>1. \A n \in m + 1 .. w : log'[n].last => n = w
    BY <1>2, <1>3, <1>6, <1>7, Sizes DEF LastOK, Slot
  <2>2. w \in Slot /\ log[w].last /\ log[w].sum = <<>>
    BY <1>2, <1>6, <1>7, <1>8, Sizes DEF LastOK, Slot
  <2>3. log'[w].last /\ (i # w => log'[w].sum = <<>>)
    BY <1>2, <1>3, <2>2
  <2>4. pc'[c] \in Logged /\ (pc'[c] = "rewrite" => i # w)
    BY <1>2 DEF Logged
  <2> QED
    BY <1>2, <1>5, <1>9, <2>1, <2>3, <2>4 DEF LastOK
<1>16. StaleOK(c)'
  <2> SUFFICES ASSUME NEW n \in Slot, NEW j \in DOMAIN log'[n].sum
               PROVE  /\ n <= m \/ n > w =>
                           \A q \in Page : dirty[c][q] # NoPage =>
                                             log'[n].sum[j][2] # dirty[c][q]
                      /\ n > w /\ w > m => log'[n].sum[j][2] # log'[m + 1].val
    BY <1>2, <1>9 DEF StaleOK
  <2>1. n <= m \/ n > w => log'[n] = log[n]
    BY <1>2, <1>6, <1>8, Sizes DEF Slot
  <2>2. log'[m + 1].val = log[m + 1].val
    <3>1. m + 1 \in Slot
      BY <1>6, <1>8, Sizes DEF Slot
    <3> QED
      BY <1>2, <1>3, <3>1
  <2> QED
    BY <1>7, <2>1, <2>2 DEF StaleOK
<1>17. FirstOK(c)'
  BY <1>2, <1>6, <1>8, Sizes DEF FirstOK
<1>18. FileOK'
  <2>1. Written(c)' > aHdr'[0].mx
    BY <1>2, <1>8, <1>9
  <2> QED
    BY <1>1, <1>2, <1>7, <1>8, <1>15, <1>16, <2>1, FileGrows
<1>19. WrittenOK(c)'
  BY <1>14, <1>15, <1>16, <1>17 DEF WrittenOK
<1> QED
  BY <1>1, <1>6, <1>12, <1>18, <1>19, ChainPut

LEMMA LogPageChain ==
  ASSUME ChainInv, NEW c \in Conn, LogPage(c)
  PROVE  ChainOK'
  BY AppendChain, OverwriteChain

LEMMA ChainStep ==
  ASSUME ChainInv, NEW c \in Conn, StepOf(c)
  PROVE  ChainOK'
<1>1. Read(c) => ChainOK'
  BY ReadHdrChain, HdrLockedChain, ChooseZeroChain, LockMarkZeroChain, ChooseMarkChain,
     LockMarkChain, CheckMarkChain, EndReadChain
  DEF Read
<1>2. Change(c) => ChainOK'
  BY ChangeFrames, BeginWriteChain, RollbackChain, WriteChain, RestartHdrChain,
     RestartHdr0Chain, RestartInfoChain, KeepLogChain, WriteHeaderChain, LogPageChain,
     RewriteChecksumChain, PublishChain
  DEF Change
<1>3. Checkpoint(c) => ChainOK'
  BY StartCheckpointChain, InitIteratorChain, VisitMarkChain, GiveUpChain, CopyPageChain,
     BackfilledChain, CheckpointFailsChain, EndCheckpointChain
  DEF Checkpoint
<1> QED
  BY <1>1, <1>2, <1>3, RecoverChain, PublishHdr0Chain, SyncHeaderChain, LockZeroChain
  DEF StepOf

LEMMA ChainInvStep ==
  ASSUME ChainInv, NoneOvertaken', [Next]_vars
  PROVE  ChainInv'
<1>1. ContInv'
  BY ContInvStep DEF ChainInv
<1>2. CASE UNCHANGED vars
  BY <1>1, <1>2, ChainUnchanged DEF ChainInv
<1>3. ASSUME NEW c \in Conn, StepOf(c)
      PROVE  ChainOK'
  BY <1>3, ChainStep
<1> QED
  BY <1>1, <1>2, <1>3, Steps, CrashChain, PowerLossChain DEF ChainInv

\* As long as no checkpoint is overtaken by a new log: the checksums of the frames are those of
\* the published header and of the writer's, and no frame after the last commit can
\* be read as one (walEncodeFrame, walDecodeFrame, walRewriteChecksums).
THEOREM ChainInvariant == Spec /\ []NoneOvertaken => []ChainInv
<1>1. Init => ChainInv
  BY InitChain, InitClosed, ClosedBase, ClosedMarks, ClosedIsEmpty
  DEF MarkInv, ContInv, ChainInv
<1>2. ChainInv /\ NoneOvertaken' /\ [Next]_vars => ChainInv'
  BY ChainInvStep
<1> QED
  BY <1>1, <1>2, PTL DEF Spec

\* What a new process would find in the database and the log is what the connections
\* see, or the commit about to be published: a process that ends takes no commit with
\* it and leaves no half of one (walIndexRecover, sqlite3WalFrames).
THEOREM CommitsHeld == Spec /\ []NoneOvertaken => []LogHoldsTheCommits
<1>1. ChainInv => LogHoldsTheCommits
  BY ChainHolds
<1> QED
  BY <1>1, ChainInvariant, PTL

-----------------------------------------------------------------------------
(* The log implements VersionStore. *)

\* At most one connection writes.
LEMMA WriterIs ==
  BaseOK => /\ \A c \in Conn : Writing(c) <=> TheWriter = c
            /\ (\A c \in Conn : ~Writing(c)) => TheWriter = NoConn
<1> SUFFICES ASSUME BaseOK
             PROVE  /\ \A c \in Conn : Writing(c) <=> TheWriter = c
                    /\ (\A c \in Conn : ~Writing(c)) => TheWriter = NoConn
  OBVIOUS
<1>1. CASE \A c \in Conn : ~Writing(c)
  BY <1>1, WalAssumption DEF TheWriter, WalAssumption
<1>2. CASE \E c \in Conn : Writing(c)
  <2>1. TheWriter \in Conn /\ Writing(TheWriter)
    BY <1>2 DEF TheWriter
  <2> QED
    BY <1>2, <2>1, Rivals
<1> QED
  BY <1>1, <1>2

LEMMA WriterIsNext ==
  BaseOK' => /\ \A c \in Conn : Writing(c)' <=> TheWriter' = c
             /\ (\A c \in Conn : ~Writing(c)') => TheWriter' = NoConn
<1>1. (BaseOK => /\ \A c \in Conn : Writing(c) <=> TheWriter = c
                 /\ (\A c \in Conn : ~Writing(c)) => TheWriter = NoConn)'
  BY WriterIs, PTL
<1> QED
  BY <1>1

\* What the mapping makes of a connection.
LEMMA ViewIs ==
  /\ Views = [c \in Conn |-> IF InTx(c) THEN Seen(c) ELSE NoView]
  /\ Views' = [c \in Conn |-> IF InTx(c)' THEN Seen(c)' ELSE NoView]
  BY DEF Views, InTx

LEMMA OthersTx ==
  ASSUME NEW c \in Conn, OthersStay(c), NEW d \in Conn \ {c}
  PROVE  (InTx(d)' <=> InTx(d)) /\ (Writing(d)' <=> Writing(d))
<1>1. pc'[d] = pc[d] /\ call'[d] = call[d]
  BY DEF OthersStay, Stays
<1> QED
  BY <1>1 DEF InTx, Writing, useWal

LEMMA WriterStays ==
  ASSUME BaseOK, BaseOK', NEW c \in Conn, OthersStay(c), Writing(c)' <=> Writing(c)
  PROVE  TheWriter' = TheWriter
<1>1. \A d \in Conn : Writing(d)' <=> Writing(d)
  BY OthersTx
<1> QED
  BY <1>1, WriterIs, WriterIsNext

\* What a connection sees is an image.
LEMMA SeenIn ==
  TypesOK => \A d \in Conn : Seen(d) \in [Page -> Content]
  BY SeenAt

LEMMA SeenInNext ==
  TypesOK' => \A d \in Conn : Seen(d)' \in [Page -> Content]
<1>1. (TypesOK => \A d \in Conn : Seen(d) \in [Page -> Content])'
  BY SeenIn, PTL
<1>2. Content' = Content
  BY DEF Content
<1> QED
  BY <1>1, <1>2

\* The views of the others stay.
OthersSee(c) == \A d \in Conn \ {c} : InTx(d) => Seen(d)' = Seen(d)

LEMMA ViewsPut ==
  ASSUME NEW c \in Conn, OthersStay(c), OthersSee(c)
  PROVE  /\ Views' = [Views EXCEPT ![c] = Views'[c]]
         /\ Views'[c] = IF InTx(c)' THEN Seen(c)' ELSE NoView
         /\ Views[c] = IF InTx(c) THEN Seen(c) ELSE NoView
<1>1. /\ Views'[c] = IF InTx(c)' THEN Seen(c)' ELSE NoView
      /\ Views[c] = IF InTx(c) THEN Seen(c) ELSE NoView
  BY ViewIs
<1>2. \A d \in Conn \ {c} : Views'[d] = Views[d]
  BY ViewIs, OthersTx DEF OthersSee
<1>3. /\ Views = [d \in Conn |-> Views[d]]
      /\ Views' = [d \in Conn |-> Views'[d]]
  BY ViewIs
<1>4. [Views EXCEPT ![c] = Views'[c]] = [d \in Conn |-> IF d = c THEN Views'[c] ELSE Views[d]]
  BY <1>3
<1>5. \A d \in Conn : Views'[d] = IF d = c THEN Views'[c] ELSE Views[d]
  BY <1>2
<1> QED
  BY <1>1, <1>3, <1>4, <1>5

\* A step that nobody can see.
LEMMA Stutters ==
  ASSUME BaseOK, BaseOK', NEW c \in Conn, OthersStay(c), OthersSee(c),
         InTx(c)' <=> InTx(c), Writing(c)' <=> Writing(c), InTx(c) => Seen(c)' = Seen(c),
         Current' = Current
  PROVE  Store!Next
<1>1. TheWriter' = TheWriter
  BY WriterStays
<1>2. Views' = [Views EXCEPT ![c] = Views'[c]] /\ Views'[c] = Views[c]
  BY ViewsPut
<1>3. Views' = Views
  BY <1>2, ViewIs
<1> QED
  BY <1>1, <1>3 DEF Store!Next, Store!Look, Store!vars

LEMMA CurrentStays ==
  ASSUME ContInv, BaseOK', NEW c \in Conn, Quiet, aHdr[0].init \/ salt' = salt
  PROVE  Current' = Current
<1>1. Under(aHdr[0])' = Under(aHdr[0])
  BY QuietSteady DEF ContInv
<1>2. aHdr'[0] = aHdr[0] /\ db' = db /\ log' = log
  BY DEF Quiet
<1>3. salt' = salt => Stored' = Stored
  BY <1>2 DEF Stored
<1> QED
  BY <1>1, <1>2, <1>3 DEF Current

LEMMA QuietStutters ==
  ASSUME ContInv, BaseOK', NEW c \in Conn, OthersStay(c), Quiet, aHdr[0].init \/ salt' = salt,
         InTx(c)' <=> InTx(c), Writing(c)' <=> Writing(c),
         InTx(c) => SameView(c) \/ Seen(c)' = Seen(c)
  PROVE  Store!Next
<1>1. OthersSee(c)
  BY StillSeen DEF OthersSee, Quiet
<1>2. SameView(c) => Seen(c)' = Seen(c)
  BY QuietSteady DEF ContInv
<1>3. Current' = Current
  BY CurrentStays
<1> QED
  BY <1>1, <1>2, <1>3, Stutters DEF ContInv, MarkInv

\* A connection that ignores the log.
LEMMA SeenInDb ==
  ASSUME NEW c \in Conn, db' = db, log' = log, dirty'[c] = dirty[c],
         wal[c].readLock <= 0, wal'[c].readLock <= 0
  PROVE  Seen(c)' = Seen(c)
<1>1. \A p \in Page : FindFrame(c, p) = 0 /\ FindFrame(c, p)' = 0
  BY DEF FindFrame
<1>2. \A p \in Page : Held(p)' = Held(p)
  BY DEF Held
<1> QED
  BY <1>1, <1>2 DEF Seen

-----------------------------------------------------------------------------
(* The steps that change nothing that is seen. *)

LEMMA ReadHdrLooks ==
  ASSUME ContInv, BaseOK', NEW c \in Conn, ReadHdr(c)
  PROVE  Store!Next
<1>1. /\ ReadHdrDoes(c) /\ OthersStay(c) /\ Around(c) /\ Before(c)' /\ TypesOK
      /\ (pc[c] \notin Waiting => aHdr[0].init)
  BY AroundOK, AfterOK, ReadHdrEffect DEF ContInv, OwnOK
<1>2. Quiet /\ (aHdr[0].init \/ salt' = salt)
  BY <1>1
  DEF Quiet, ReadHdrDoes, Moves, Waiting, dbVars, logVars, shmVars
<1>3. ~InTx(c) /\ ~InTx(c)'
  BY <1>1
  DEF ReadHdrDoes, InTx, Writing, WritePoints, useWal, Around, Before, PointOK, Alone, Marking,
      CkPoints, Moves, SameCall
<1> QED
  BY <1>1, <1>2, <1>3, QuietStutters DEF InTx

LEMMA HdrLockedLooks ==
  ASSUME ContInv, BaseOK', NEW c \in Conn, HdrLocked(c)
  PROVE  Store!Next
<1>1. /\ HdrLockedDoes(c) /\ OthersStay(c) /\ Around(c) /\ Before(c)' /\ TypesOK
      /\ (pc[c] \notin Waiting => aHdr[0].init)
  BY AroundOK, AfterOK, HdrLockedEffect DEF ContInv, OwnOK
<1>2. Quiet /\ (aHdr[0].init \/ salt' = salt)
  BY <1>1
  DEF Quiet, HdrLockedDoes, Moves, Waiting, dbVars, logVars, shmVars
<1>3. ~InTx(c) /\ ~InTx(c)'
  BY <1>1
  DEF HdrLockedDoes, InTx, Writing, WritePoints, useWal, Around, Before, PointOK, Alone,
      Marking, CkPoints, Moves, SameCall
<1> QED
  BY <1>1, <1>2, <1>3, QuietStutters DEF InTx

LEMMA ChooseZeroLooks ==
  ASSUME ContInv, BaseOK', NEW c \in Conn, ChooseZero(c)
  PROVE  Store!Next
<1>1. /\ ChooseZeroDoes(c) /\ OthersStay(c) /\ Around(c) /\ Before(c)' /\ TypesOK
      /\ (pc[c] \notin Waiting => aHdr[0].init)
  BY AroundOK, AfterOK, ChooseZeroEffect DEF ContInv, OwnOK
<1>2. Quiet /\ (aHdr[0].init \/ salt' = salt)
  BY <1>1
  DEF Quiet, ChooseZeroDoes, Moves, Waiting, dbVars, logVars, shmVars
<1>3. ~InTx(c) /\ ~InTx(c)'
  BY <1>1
  DEF ChooseZeroDoes, InTx, Writing, WritePoints, useWal, Around, Before, PointOK, Alone,
      Marking, CkPoints, Moves, SameCall
<1> QED
  BY <1>1, <1>2, <1>3, QuietStutters DEF InTx

LEMMA StartCheckpointLooks ==
  ASSUME ContInv, BaseOK', NEW c \in Conn, StartCheckpoint(c)
  PROVE  Store!Next
<1>1. /\ StartCheckpointDoes(c) /\ OthersStay(c) /\ Around(c) /\ Before(c)' /\ TypesOK
      /\ (pc[c] \notin Waiting => aHdr[0].init)
  BY AroundOK, AfterOK, StartCheckpointEffect DEF ContInv, OwnOK
<1>2. Quiet /\ (aHdr[0].init \/ salt' = salt)
  BY <1>1
  DEF Quiet, StartCheckpointDoes, Moves, Waiting, dbVars, logVars, shmVars
<1>3. ~InTx(c) /\ ~InTx(c)'
  BY <1>1
  DEF StartCheckpointDoes, InTx, Writing, WritePoints, useWal, Around, Before, PointOK, Alone,
      Marking, CkPoints, Moves, SameCall
<1> QED
  BY <1>1, <1>2, <1>3, QuietStutters DEF InTx

LEMMA InitIteratorLooks ==
  ASSUME ContInv, BaseOK', NEW c \in Conn, InitIterator(c)
  PROVE  Store!Next
<1>1. /\ InitIteratorDoes(c) /\ OthersStay(c) /\ Around(c) /\ Before(c)' /\ TypesOK
      /\ (pc[c] \notin Waiting => aHdr[0].init)
  BY AroundOK, AfterOK, InitIteratorEffect DEF ContInv, OwnOK
<1>2. Quiet /\ (aHdr[0].init \/ salt' = salt)
  BY <1>1
  DEF Quiet, InitIteratorDoes, Moves, Waiting, dbVars, logVars, shmVars
<1>3. ~InTx(c) /\ ~InTx(c)'
  BY <1>1
  DEF InitIteratorDoes, InTx, Writing, WritePoints, useWal, Around, Before, PointOK, Alone,
      Marking, CkPoints, Moves, SameCall
<1> QED
  BY <1>1, <1>2, <1>3, QuietStutters DEF InTx

LEMMA GiveUpLooks ==
  ASSUME ContInv, BaseOK', NEW c \in Conn, GiveUp(c)
  PROVE  Store!Next
<1>1. /\ GiveUpDoes(c) /\ OthersStay(c) /\ Around(c) /\ Before(c)' /\ TypesOK
      /\ (pc[c] \notin Waiting => aHdr[0].init)
  BY AroundOK, AfterOK, GiveUpEffect DEF ContInv, OwnOK
<1>2. Quiet /\ (aHdr[0].init \/ salt' = salt)
  BY <1>1
  DEF Quiet, GiveUpDoes, Moves, Waiting, dbVars, logVars, shmVars
<1>3. ~InTx(c) /\ ~InTx(c)'
  BY <1>1
  DEF GiveUpDoes, InTx, Writing, WritePoints, useWal, Around, Before, PointOK, Alone, Marking,
      CkPoints, Moves, SameCall
<1> QED
  BY <1>1, <1>2, <1>3, QuietStutters DEF InTx

LEMMA LockZeroLooks ==
  ASSUME ContInv, BaseOK', NEW c \in Conn, LockZero(c)
  PROVE  Store!Next
<1>1. /\ LockZeroDoes(c) /\ OthersStay(c) /\ Around(c) /\ Before(c)' /\ TypesOK
      /\ (pc[c] \notin Waiting => aHdr[0].init)
  BY AroundOK, AfterOK, LockZeroEffect DEF ContInv, OwnOK
<1>2. Quiet /\ (aHdr[0].init \/ salt' = salt)
  BY <1>1
  DEF Quiet, LockZeroDoes, Moves, Waiting, dbVars, logVars, shmVars
<1>3. ~InTx(c) /\ ~InTx(c)'
  BY <1>1
  DEF LockZeroDoes, InTx, Writing, WritePoints, useWal, Around, Before, PointOK, Alone,
      Marking, CkPoints, Moves, SameCall
<1> QED
  BY <1>1, <1>2, <1>3, QuietStutters DEF InTx

LEMMA CheckpointFailsLooks ==
  ASSUME ContInv, BaseOK', NEW c \in Conn, CheckpointFails(c)
  PROVE  Store!Next
<1>1. /\ CheckpointFailsDoes(c) /\ OthersStay(c) /\ Around(c) /\ Before(c)' /\ TypesOK
      /\ (pc[c] \notin Waiting => aHdr[0].init)
  BY AroundOK, AfterOK, CheckpointFailsEffect DEF ContInv, OwnOK
<1>2. Quiet /\ (aHdr[0].init \/ salt' = salt)
  BY <1>1
  DEF Quiet, CheckpointFailsDoes, Moves, Waiting, dbVars, logVars, shmVars
<1>3. ~InTx(c) /\ ~InTx(c)'
  BY <1>1
  DEF CheckpointFailsDoes, InTx, Writing, WritePoints, useWal, Around, Before, PointOK, Alone,
      Marking, CkPoints, Moves, SameCall
<1> QED
  BY <1>1, <1>2, <1>3, QuietStutters DEF InTx

LEMMA EndCheckpointLooks ==
  ASSUME ContInv, BaseOK', NEW c \in Conn, EndCheckpoint(c)
  PROVE  Store!Next
<1>1. /\ EndCheckpointDoes(c) /\ OthersStay(c) /\ Around(c) /\ Before(c)' /\ TypesOK
      /\ (pc[c] \notin Waiting => aHdr[0].init)
  BY AroundOK, AfterOK, EndCheckpointEffect DEF ContInv, OwnOK
<1>2. Quiet /\ (aHdr[0].init \/ salt' = salt)
  BY <1>1
  DEF Quiet, EndCheckpointDoes, Moves, Waiting, dbVars, logVars, shmVars
<1>3. ~InTx(c) /\ ~InTx(c)'
  BY <1>1
  DEF EndCheckpointDoes, InTx, Writing, WritePoints, useWal, Around, Before, PointOK, Alone,
      Marking, CkPoints, Moves, SameCall
<1> QED
  BY <1>1, <1>2, <1>3, QuietStutters DEF InTx

LEMMA VisitMarkLooks ==
  ASSUME ContInv, BaseOK', NEW c \in Conn, VisitMark(c)
  PROVE  Store!Next
<1>1. /\ VisitMarkDoes(c) /\ OthersStay(c) /\ Around(c) /\ Before(c)' /\ TypesOK
      /\ (pc[c] \notin Waiting => aHdr[0].init)
  BY AroundOK, AfterOK, VisitMarkEffect DEF ContInv, OwnOK
<1>2. Quiet /\ (aHdr[0].init \/ salt' = salt)
  BY <1>1
  DEF Quiet, VisitMarkDoes, Moves, Waiting, dbVars, logVars, shmVars
<1>3. ~InTx(c) /\ ~InTx(c)'
  BY <1>1
  DEF VisitMarkDoes, InTx, Writing, WritePoints, useWal, Around, Before, PointOK, Alone,
      Marking, CkPoints, Moves, SameCall
<1> QED
  BY <1>1, <1>2, <1>3, QuietStutters DEF InTx

LEMMA SyncHeaderLooks ==
  ASSUME ContInv, BaseOK', NEW c \in Conn, SyncHeader(c)
  PROVE  Store!Next
<1>1. /\ SyncHeaderDoes(c) /\ OthersStay(c) /\ Around(c) /\ Before(c)' /\ TypesOK
      /\ (pc[c] \notin Waiting => aHdr[0].init)
  BY AroundOK, AfterOK, SyncHeaderEffect DEF ContInv, OwnOK
<1>2. Quiet /\ (aHdr[0].init \/ salt' = salt)
  BY <1>1
  DEF Quiet, SyncHeaderDoes, Moves, Waiting, dbVars, logVars, shmVars
<1>3. InTx(c) /\ InTx(c)' /\ Writing(c) /\ Writing(c)' /\ SameView(c)
  BY <1>1
  DEF SyncHeaderDoes, InTx, Writing, WritePoints, SameView, Moves, SameCall, SameCache,
      SameWal, WalIs
<1> QED
  BY <1>1, <1>2, <1>3, QuietStutters DEF InTx

LEMMA FramesLooks ==
  ASSUME ContInv, BaseOK', NEW c \in Conn,
         NEW what \in {"spill", "commit"}, NEW pages \in SUBSET Page, Frames(c, what, pages)
  PROVE  Store!Next
<1>1. /\ FramesDoes(c, what, pages) /\ OthersStay(c)
      /\ (pc[c] \notin Waiting => aHdr[0].init)
  BY AroundOK, FramesEffect DEF ContInv, OwnOK
<1>2. Quiet /\ aHdr[0].init
  BY <1>1 DEF Quiet, FramesDoes, Moves, Waiting, dbVars, logVars, shmVars
<1>3. InTx(c) /\ InTx(c)' /\ Writing(c) /\ Writing(c)' /\ SameView(c)
  BY <1>1 DEF FramesDoes, InTx, Writing, WritePoints, SameView, Moves, SameCache, SameWal
<1> QED
  BY <1>1, <1>2, <1>3, QuietStutters DEF InTx

\* A writer without a mark sees the database and its own changes.
LEMMA WriterLooks ==
  ASSUME ContInv, BaseOK', NEW c \in Conn, OthersStay(c), Quiet, aHdr[0].init \/ salt' = salt,
         pc[c] # "reader", pc'[c] # "reader", Writing(c)' <=> Writing(c), dirty'[c] = dirty[c],
         Writing(c) => wal[c].readLock <= 0 /\ wal'[c].readLock <= 0
  PROVE  Store!Next
<1>1. Writing(c) => Seen(c)' = Seen(c)
  BY SeenInDb DEF Quiet
<1> QED
  BY <1>1, QuietStutters DEF InTx

LEMMA ChooseMarkLooks ==
  ASSUME ContInv, BaseOK', NEW c \in Conn, ChooseMark(c)
  PROVE  Store!Next
<1>1. /\ ChooseMarkDoes(c) /\ OthersStay(c) /\ Around(c) /\ TypesOK
      /\ (pc[c] \notin Waiting => aHdr[0].init)
  BY AroundOK, ChooseMarkEffect DEF ContInv, OwnOK
<1>2. Quiet /\ aHdr[0].init
  BY <1>1 DEF Quiet, ChooseMarkDoes, Waiting, dbVars, logVars
<1>3. pc[c] \in {"choose", "marks"} /\ pc'[c] \in {"chosen", "choose", "idle"}
      /\ (pc'[c] = "choose" => useWal(c)) /\ call'[c] = call[c] /\ SameView(c)
  BY <1>1 DEF ChooseMarkDoes, Retry, SameCall, SameCache, SameWal, SameView
<1>4. Writing(c)' <=> Writing(c)
  BY <1>3 DEF Writing, WritePoints, useWal
<1> QED
  BY <1>1, <1>2, <1>3, <1>4, QuietStutters DEF InTx

LEMMA LockMarkLooks ==
  ASSUME ContInv, BaseOK', NEW c \in Conn, LockMark(c)
  PROVE  Store!Next
<1>1. /\ LockMarkDoes(c) /\ OthersStay(c) /\ Around(c) /\ TypesOK
      /\ (pc[c] \notin Waiting => aHdr[0].init)
  BY AroundOK, LockMarkEffect DEF ContInv, OwnOK
<1>2. Quiet /\ aHdr[0].init
  BY <1>1 DEF Quiet, LockMarkDoes, Moves, Waiting, dbVars, logVars, shmVars
<1>3. /\ pc[c] = "chosen" /\ pc'[c] \in {"check", "choose", "idle"} /\ call'[c] = call[c]
      /\ dirty'[c] = dirty[c] /\ wal'[c].readLock = wal[c].readLock
  BY <1>1 DEF LockMarkDoes, Moves, Retry, SameCall, SameCache, SameWal, WalIs
<1>4. Writing(c)' <=> Writing(c)
  BY <1>3 DEF Writing, WritePoints, useWal
<1>5. wal[c].readLock <= 0
  BY <1>1, <1>3, Sizes DEF Around, Before, PointOK, WritePoints, Numbers
<1> QED
  BY <1>1, <1>2, <1>3, <1>4, <1>5, WriterLooks

LEMMA RestartHdrLooks ==
  ASSUME ContInv, BaseOK', NEW c \in Conn, RestartHdr(c)
  PROVE  Store!Next
<1>1. /\ RestartHdrDoes(c) /\ OthersStay(c) /\ TypesOK
      /\ (pc[c] \notin Waiting => aHdr[0].init)
  BY AroundOK, RestartHdrEffect DEF ContInv, OwnOK
<1>2. Quiet /\ aHdr[0].init
  BY <1>1 DEF Quiet, RestartHdrDoes, Moves, Waiting, dbVars, logVars, TypesOK
<1>3. /\ pc[c] = "frames" /\ pc'[c] = "restart" /\ dirty'[c] = dirty[c]
      /\ wal[c].readLock = 0 /\ wal'[c].readLock = 0
  BY <1>1 DEF RestartHdrDoes, Moves, SameCache, WalIs, MayRestart
<1>4. Writing(c)' /\ Writing(c)
  BY <1>3 DEF Writing, WritePoints
<1> QED
  BY <1>1, <1>2, <1>3, <1>4, WriterLooks

LEMMA KeepLogLooks ==
  ASSUME ContInv, BaseOK', NEW c \in Conn, KeepLog(c)
  PROVE  Store!Next
<1>1. /\ KeepLogDoes(c) /\ OthersStay(c) /\ TypesOK /\ Around(c)
      /\ (pc[c] \notin Waiting => aHdr[0].init)
  BY AroundOK, KeepLogEffect DEF ContInv, OwnOK
<1>2. Quiet /\ aHdr[0].init
  BY <1>1 DEF Quiet, KeepLogDoes, Moves, Waiting, dbVars, logVars, shmVars
<1>3. /\ pc[c] = "frames" /\ dirty'[c] = dirty[c] /\ call'[c] = call[c]
      /\ \/ pc'[c] = "choose" /\ wal[c].readLock = 0 /\ wal'[c].readLock = -1
         \/ pc'[c] \in {"header", "append"} /\ wal'[c] = wal[c]
  BY <1>1 DEF KeepLogDoes, Moves, SameCall, SameCache, SameWal, WalIs, ToLog
<1>4. Writing(c)' /\ Writing(c)
  BY <1>1, <1>3 DEF Writing, WritePoints, useWal, Around, Before, PointOK, Alone
<1>5. CASE wal'[c] = wal[c]
  BY <1>1, <1>2, <1>3, <1>4, <1>5, QuietStutters DEF InTx, SameView
<1>6. CASE wal[c].readLock = 0 /\ wal'[c].readLock = -1
  BY <1>1, <1>2, <1>3, <1>4, <1>6, WriterLooks
<1> QED
  BY <1>3, <1>5, <1>6

\* A step that leaves the published frames.
LEMMA SteadyStutters ==
  ASSUME ContInv, BaseOK', NEW c \in Conn, OthersStay(c), Steady(c), aHdr[0].init,
         Writing(c), Writing(c)', Seen(c)' = Seen(c)
  PROVE  Store!Next
<1>1. OthersSee(c)
  BY SeenOthers DEF OthersSee, Steady, ContInv
<1>2. TypesOK /\ TypesOK' /\ aHdr'[0] = aHdr[0] /\ db' = db /\ FramesStay(aHdr[0].mx)
  BY DEF Steady, ContInv, MarkInv, BaseOK
<1>3. Under(aHdr[0])' = Under(aHdr[0])
  BY <1>2, UnderStays
<1>4. Current' = Current
  BY <1>2, <1>3 DEF Current
<1> QED
  BY <1>1, <1>4, Stutters DEF InTx, ContInv, MarkInv

LEMMA WriteHeaderLooks ==
  ASSUME ContInv, BaseOK', NEW c \in Conn, WriteHeader(c)
  PROVE  Store!Next
<1>1. /\ WriteHeaderDoes(c) /\ OthersStay(c) /\ (pc[c] \notin Waiting => aHdr[0].init)
  BY AroundOK, WriteHeaderEffect DEF ContInv, OwnOK, Around, Before
<1>2. Quiet /\ aHdr[0].init
  BY <1>1 DEF Quiet, WriteHeaderDoes, Moves, Waiting, dbVars, shmVars
<1>3. InTx(c) /\ InTx(c)' /\ Writing(c) /\ Writing(c)' /\ SameView(c)
  BY <1>1 DEF WriteHeaderDoes, InTx, Writing, WritePoints, SameView, Moves, SameCache, WalIs
<1> QED
  BY <1>1, <1>2, <1>3, QuietStutters DEF InTx

LEMMA LogPageLooks ==
  ASSUME ContInv, BaseOK', NEW c \in Conn, LogPage(c)
  PROVE  Store!Next
<1>1. /\ LogPageDoes(c) /\ OthersStay(c) /\ (pc[c] \notin Waiting => aHdr[0].init)
  BY AroundOK, LogPageEffect DEF ContInv, Around, Before
<1>2. pc[c] = "append" /\ pc'[c] \in {"append", "rewrite", "publish"}
  BY <1>1 DEF LogPageDoes, Moves, AfterPage
<1>3. aHdr[0].init /\ Writing(c) /\ Writing(c)'
  BY <1>1, <1>2 DEF Waiting, Writing, WritePoints
<1> QED
  BY <1>1, <1>3, LogPageSteady, SteadyStutters

LEMMA RewriteChecksumLooks ==
  ASSUME ContInv, BaseOK', NEW c \in Conn, RewriteChecksum(c)
  PROVE  Store!Next
<1>1. /\ RewriteChecksumDoes(c) /\ OthersStay(c) /\ (pc[c] \notin Waiting => aHdr[0].init)
      /\ FrameOf(c) /\ TypesOK
  BY AroundOK, RewriteChecksumEffect DEF ContInv, Around, Before, ContentsOK, ContentOf
<1>2. /\ pc[c] = "rewrite" /\ pc'[c] \in {"rewrite", "publish"}
      /\ UNCHANGED <<dbVars, shmVars>>
      /\ \A i \in Slot : log'[i].page = log[i].page /\ log'[i].val = log[i].val
  <2>1. /\ pc[c] = "rewrite" /\ pc'[c] \in {"rewrite", "publish"}
        /\ UNCHANGED <<dbVars, shmVars>>
        /\ OneFrame(wal[c].iReCksum)
        /\ log'[wal[c].iReCksum].page = log[wal[c].iReCksum].page
        /\ log'[wal[c].iReCksum].val = log[wal[c].iReCksum].val
    BY <1>1 DEF RewriteChecksumDoes, Moves
  <2> QED
    BY <2>1 DEF OneFrame
<1>3. aHdr[0].init /\ Writing(c) /\ Writing(c)' /\ aHdr[0].mx \in 0 .. MaxFrame
  BY <1>1, <1>2, Types DEF Waiting, Writing, WritePoints
<1>4. \A i \in 1 .. aHdr[0].mx : i \in Slot
  BY <1>3, Sizes DEF Slot
<1>5. Steady(c)
  BY <1>2, <1>3, <1>4 DEF Steady, FramesStay, dbVars, shmVars
<1> QED
  BY <1>1, <1>3, <1>5, RewriteChecksumContents, SteadyStutters

LEMMA PublishLooks ==
  ASSUME ContInv, BaseOK', NEW c \in Conn, Publish(c)
  PROVE  Store!Next
<1>1. /\ PublishDoes(c) /\ OthersStay(c) /\ (pc[c] \notin Waiting => aHdr[0].init)
  BY AroundOK, PublishEffect DEF ContInv, Around, Before
<1>2. pc[c] = "publish" /\ pc'[c] \in {"writer", "publish0"}
  BY <1>1 DEF PublishDoes
<1>3. aHdr[0].init /\ Writing(c) /\ Writing(c)'
  BY <1>1, <1>2 DEF Waiting, Writing, WritePoints
<1> QED
  BY <1>1, <1>3, PublishSteady, SteadyStutters

-----------------------------------------------------------------------------
(* The beginning and the end of a transaction. *)

LEMMA Begins ==
  ASSUME ContInv, ContInv', NEW c \in Conn, OthersStay(c), Quiet, aHdr[0].init,
         ~InTx(c), ~Writing(c)', pc'[c] = "reader",
         wal'[c].hdr = aHdr[0], wal'[c].readLock >= 0, dirty'[c] = dirty[c]
  PROVE  Store!Next
<1>1. BaseOK /\ BaseOK' /\ (MarkInv /\ DbOK)' /\ BatchOK(c) /\ aHdr'[0] = aHdr[0]
  BY DEF ContInv, MarkInv, ContentsOK, ContentOf, Quiet
<1>2. dirty'[c] = Clean
  BY <1>1 DEF BatchOK, InTx
<1>3. Seen(c)' = Under(aHdr[0])'
  BY <1>1, <1>2, ReaderCurrentNext
<1>4. Current' = Current /\ Current' = Under(aHdr[0])'
  <2>1. Current' = Current
    BY <1>1, CurrentStays
  <2> QED
    BY <1>1, <2>1 DEF Current
<1>5. OthersSee(c)
  BY <1>1, StillSeen DEF OthersSee, Quiet
<1>6. TheWriter' = TheWriter
  BY <1>1, WriterStays DEF InTx
<1>7. /\ Views' = [Views EXCEPT ![c] = Views'[c]]
      /\ Views'[c] = Current /\ Views[c] = NoView
  BY <1>3, <1>4, <1>5, ViewsPut DEF InTx
<1>8. Store!Begin(c)
  BY <1>4, <1>6, <1>7 DEF Store!Begin
<1> QED
  BY <1>8 DEF Store!Next

LEMMA LockMarkZeroBegins ==
  ASSUME ContInv, ContInv', NEW c \in Conn, LockMarkZero(c)
  PROVE  Store!Next
<1>1. /\ LockMarkZeroDoes(c) /\ OthersStay(c) /\ Around(c) /\ BaseOK'
      /\ (pc[c] \notin Waiting => aHdr[0].init)
  BY AroundOK, LockMarkZeroEffect DEF ContInv, MarkInv, OwnOK
<1>2. Quiet /\ aHdr[0].init
  BY <1>1 DEF Quiet, LockMarkZeroDoes, Moves, Waiting, dbVars, logVars, shmVars
<1>3. pc[c] = "zero" /\ call'[c] = call[c] /\ dirty'[c] = dirty[c]
  BY <1>1 DEF LockMarkZeroDoes, Moves, SameCall, SameCache
<1>4. ~InTx(c) /\ ~useWal(c)
  BY <1>1, <1>3
  DEF Around, Before, PointOK, InTx, Writing, WritePoints, useWal, Alone, Marking
<1>5. CASE pc'[c] = "reader"
  <2>1. wal'[c].hdr = aHdr[0] /\ wal'[c].readLock >= 0
    BY <1>1, <1>5 DEF LockMarkZeroDoes, Moves, StillWhole, WalIs
  <2>2. ~Writing(c)'
    BY <1>3, <1>4, <1>5 DEF Writing, WritePoints, useWal
  <2> QED
    BY <1>1, <1>2, <1>3, <1>4, <1>5, <2>1, <2>2, Begins
<1>6. CASE pc'[c] # "reader"
  <2>1. pc'[c] \in {"idle", "marks"}
    BY <1>1, <1>6 DEF LockMarkZeroDoes, Moves
  <2>2. ~InTx(c)'
    BY <1>3, <1>4, <2>1 DEF InTx, Writing, WritePoints, useWal
  <2> QED
    BY <1>1, <1>2, <1>4, <2>2, QuietStutters DEF InTx
<1> QED
  BY <1>5, <1>6

\* A writer that has begun a new log, or found the old one whole, takes a mark: what
\* the index has from there on is in the database.
LEMMA MarkTaken ==
  ASSUME ContInv, BaseOK', NEW c \in Conn, CheckMark(c), useWal(c), pc'[c] # "choose"
  PROVE  Seen(c)' = Seen(c)
<1>1. CheckMarkDoes(c) /\ Around(c) /\ TypesOK /\ TypesOK' /\ DbOK
  BY AroundOK, AfterOK, CheckMarkEffect DEF ContInv, OwnOK, ContentsOK
<1>2. /\ pc[c] = "check" /\ wal[c].hdr = aHdr[0] /\ wal'[c].hdr = wal[c].hdr
      /\ wal'[c].minFrame = wal[c].minFrame /\ dirty'[c] = dirty[c]
      /\ db' = db /\ log' = log /\ aPgno' = aPgno
  BY <1>1
  DEF CheckMarkDoes, Moves, Retry, Unchanged, SameCache, WalIs, dbVars, logVars, shmVars
<1>3. /\ wal[c].readLock < 0 /\ nBackfill = aHdr[0].mx /\ wal[c].minFrame \in 1 .. nBackfill + 1
      /\ nBackfill \in 0 .. MaxFrame
  BY <1>1, <1>2, Sizes
  DEF Around, Before, PointOK, WritePoints, Numbers, BackOf, MarkOK, Marking
<1>4. ASSUME NEW p \in Page
      PROVE  Seen(c)'[p] = Seen(c)[p]
  <2> DEFINE k == Last(wal[c].hdr.mx, p)
  <2>1. Last(wal[c].hdr.mx, p)' = k
    BY <1>2 DEF Last
  <2>2. k \in 0 .. nBackfill
    BY <1>1, <1>2, <1>3, LastIn
  <2> HIDE DEF k
  <2>3. wal[c].minFrame \in Nat /\ nBackfill \in Nat /\ k \in Nat /\ wal[c].minFrame >= 1
    BY <1>3, <2>2, Sizes
  <2>4. k >= wal[c].minFrame => log[k].val = db[p]
    <3>1. k >= wal[c].minFrame => k \in 1 .. nBackfill
      BY <2>2, <2>3
    <3> QED
      BY <1>1, <1>2, <3>1 DEF DbOK, k
  <2>5. Seen(c)[p] = IF dirty[c][p] # NoPage THEN dirty[c][p] ELSE db[p]
    BY <1>1, <1>3, SeenValue, Sizes DEF Around, Before, Numbers
  <2>6. Seen(c)'[p] = IF dirty[c][p] # NoPage THEN dirty[c][p]
                      ELSE IF wal'[c].readLock > 0 /\ k >= wal[c].minFrame
                      THEN log[k].val ELSE db[p]
    BY <1>1, <1>2, <2>1, <2>3, SeenValueNext
  <2> QED
    BY <2>4, <2>5, <2>6
<1> QED
  BY <1>4, Images, ImagesNext

LEMMA CheckMarkBegins ==
  ASSUME ContInv, ContInv', NEW c \in Conn, CheckMark(c)
  PROVE  Store!Next
<1>1. /\ CheckMarkDoes(c) /\ OthersStay(c) /\ Around(c) /\ BaseOK'
      /\ (pc[c] \notin Waiting => aHdr[0].init)
  BY AroundOK, CheckMarkEffect DEF ContInv, MarkInv, OwnOK
<1>2. Quiet /\ aHdr[0].init
  BY <1>1 DEF Quiet, CheckMarkDoes, Moves, Waiting, dbVars, logVars, shmVars
<1>3. /\ pc[c] = "check" /\ call'[c] = call[c] /\ dirty'[c] = dirty[c]
      /\ wal[c].readLock <= 0 /\ job[c].slot \in Mark
  BY <1>1, Sizes
  DEF CheckMarkDoes, Moves, SameCall, SameCache, Around, Before, PointOK, WritePoints, Numbers
<1>4. (useWal(c)' <=> useWal(c)) /\ (InTx(c) <=> useWal(c)) /\ (Writing(c) <=> useWal(c))
  BY <1>3 DEF InTx, Writing, WritePoints, useWal
<1>5. CASE useWal(c) /\ pc'[c] # "choose"
  <2>1. pc'[c] # "reader" /\ Writing(c)'
    BY <1>1, <1>4, <1>5 DEF CheckMarkDoes, Moves, ToLog, Retry, Writing
  <2> QED
    BY <1>1, <1>2, <1>4, <1>5, <2>1, MarkTaken, QuietStutters DEF InTx
<1>6. CASE ~useWal(c) /\ pc'[c] = "reader"
  <2>1. wal'[c].hdr = aHdr[0] /\ wal'[c].readLock >= 0
    BY <1>1, <1>3, <1>6, Sizes DEF CheckMarkDoes, Moves, Unchanged, Retry, WalIs, Mark
  <2>2. ~Writing(c)'
    BY <1>4, <1>6 DEF Writing, WritePoints
  <2> QED
    BY <1>1, <1>2, <1>3, <1>4, <1>6, <2>1, <2>2, Begins
<1>7. CASE pc'[c] = Retry(c)
  <2>1. pc'[c] \in {"choose", "idle"} /\ wal'[c].readLock = wal[c].readLock
    BY <1>1, <1>7 DEF CheckMarkDoes, Moves, ToLog, Retry, WalIs
  <2>2. Writing(c)' <=> Writing(c)
    BY <1>4, <2>1 DEF Writing, WritePoints
  <2> QED
    BY <1>1, <1>2, <1>3, <2>1, <2>2, WriterLooks
<1>8. \/ useWal(c) /\ pc'[c] # "choose"
      \/ ~useWal(c) /\ pc'[c] = "reader"
      \/ pc'[c] = Retry(c)
  <2>1. ToLog(c) # "choose"
    BY DEF ToLog
  <2> QED
    BY <1>1, <2>1 DEF CheckMarkDoes, Moves
<1> QED
  BY <1>5, <1>6, <1>7, <1>8

LEMMA EndReadEnds ==
  ASSUME ContInv, BaseOK', NEW c \in Conn, EndRead(c)
  PROVE  Store!Next
<1>1. /\ EndReadDoes(c) /\ OthersStay(c) /\ Around(c) /\ BaseOK
      /\ (pc[c] \notin Waiting => aHdr[0].init)
  BY AroundOK, EndReadEffect DEF ContInv, MarkInv, OwnOK
<1>2. Quiet /\ aHdr[0].init
  BY <1>1 DEF Quiet, EndReadDoes, Moves, Waiting, dbVars, logVars, shmVars
<1>3. pc[c] = "reader" /\ pc'[c] = "idle" /\ call'[c] = call[c]
  BY <1>1 DEF EndReadDoes, Moves, SameCall
<1>4. ~Writing(c) /\ ~Writing(c)' /\ ~InTx(c)'
  BY <1>1, <1>3
  DEF InTx, Writing, WritePoints, useWal, Around, Before, PointOK, Alone, Marking
<1>5. OthersSee(c)
  BY <1>1, <1>2, StillSeen DEF OthersSee, Quiet
<1>6. Views' = [Views EXCEPT ![c] = NoView]
  BY <1>1, <1>4, <1>5, ViewsPut
<1>7. TheWriter # c /\ TheWriter' = TheWriter /\ Current' = Current
  BY <1>1, <1>2, <1>4, WriterIs, WriterStays, CurrentStays
<1>8. Store!End(c)
  BY <1>6, <1>7 DEF Store!End
<1> QED
  BY <1>8 DEF Store!Next

-----------------------------------------------------------------------------
(* The steps of the writer. *)

LEMMA BeginWriteBegins ==
  ASSUME ContInv, BaseOK', NEW c \in Conn, BeginWrite(c)
  PROVE  Store!Next
<1>1. /\ BeginWriteDoes(c) /\ OthersStay(c) /\ Around(c) /\ BaseOK /\ BatchOK(c)
      /\ MarkInv /\ DbOK /\ (pc[c] \notin Waiting => aHdr[0].init)
  BY AroundOK, BeginWriteEffect DEF ContInv, MarkInv, OwnOK, ContentsOK, ContentOf
<1>2. Quiet /\ aHdr[0].init
  BY <1>1 DEF Quiet, BeginWriteDoes, Moves, Waiting, dbVars, logVars, shmVars
<1>3. /\ pc[c] = "reader" /\ pc'[c] = "writer" /\ SameView(c)
      /\ wal[c].hdr = aHdr[0] /\ wal[c].readLock >= 0 /\ CanExclude(c, {WAL_WRITE_LOCK})
  BY <1>1 DEF BeginWriteDoes, Moves, SameWal, SameView, Around, Before, PointOK
<1>4. ~Writing(c) /\ Writing(c)' /\ InTx(c) /\ InTx(c)'
  BY <1>1, <1>3
  DEF InTx, Writing, WritePoints, useWal, Around, Before, PointOK, Alone, Marking
<1>5. \A d \in Conn : ~Writing(d)
  <2>1. ASSUME NEW d \in Conn \ {c}
        PROVE  ~Writing(d)
    <3>1. WAL_WRITE_LOCK \notin exclMask[d]
      BY <1>3 DEF CanExclude
    <3>2. LockOK(d)
      BY <1>1 DEF BaseOK, OwnOK
    <3> QED
      BY <3>1, <3>2 DEF LockOK
  <2> QED
    BY <1>4, <2>1
<1>6. OthersSee(c)
  BY <1>1, <1>2, StillSeen DEF OthersSee, Quiet
<1>7. Seen(c)' = Seen(c) /\ Seen(c) = Current
  <2>1. Seen(c)' = Seen(c)
    BY <1>1, <1>2, <1>3, QuietSteady
  <2>2. dirty[c] = Clean
    BY <1>1, <1>4 DEF BatchOK
  <2>3. Seen(c) = Under(aHdr[0])
    BY <1>1, <1>3, <2>2, ReaderCurrent
  <2> QED
    BY <1>2, <2>1, <2>3 DEF Current
<1>8. Views' = [Views EXCEPT ![c] = Views[c]] /\ Views[c] = Current
  BY <1>1, <1>4, <1>6, <1>7, ViewsPut
<1>9. Views' = Views
  BY <1>8, ViewIs
<1>10. TheWriter = NoConn /\ TheWriter' = c /\ Current' = Current
  BY <1>1, <1>2, <1>4, <1>5, WriterIs, WriterIsNext, CurrentStays
<1>11. Store!BeginWrite(c)
  BY <1>8, <1>9, <1>10 DEF Store!BeginWrite
<1> QED
  BY <1>11 DEF Store!Next

LEMMA WriteWrites ==
  ASSUME ContInv, BaseOK', NEW c \in Conn, NEW p \in Page, Write(c, p)
  PROVE  Store!Next
<1>1. /\ WriteDoes(c, p) /\ OthersStay(c) /\ BaseOK /\ TypesOK /\ TypesOK'
      /\ (pc[c] \notin Waiting => aHdr[0].init)
  BY AroundOK, AfterOK, WriteEffect DEF ContInv, MarkInv, OwnOK
<1>2. Quiet /\ aHdr[0].init
  BY <1>1 DEF Quiet, WriteDoes, Moves, Waiting, logVars, shmVars
<1>3. /\ pc[c] = "writer" /\ pc'[c] = "writer" /\ wal'[c] = wal[c]
      /\ dirty'[c] = [dirty[c] EXCEPT ![p] = change']
  BY <1>1 DEF WriteDoes, Moves, SameWal
<1>4. Writing(c) /\ Writing(c)' /\ InTx(c) /\ InTx(c)'
  BY <1>3 DEF InTx, Writing, WritePoints
<1>5. OthersSee(c)
  BY <1>1, <1>2, StillSeen DEF OthersSee, Quiet
<1>6. \A q \in Page \ {p} : Seen(c)'[q] = Seen(c)[q]
  <2>1. dirty[c] \in [Page -> Content \cup {NoPage}]
    BY <1>1, Types
  <2>2. \A q \in Page \ {p} : dirty'[c][q] = dirty[c][q]
    BY <1>3, <2>1
  <2>3. \A q \in Page : FindFrame(c, q)' = FindFrame(c, q) /\ Held(q)' = Held(q)
    BY <1>2, <1>3 DEF FindFrame, Held, Quiet
  <2> QED
    BY <2>2, <2>3 DEF Seen
<1>7. Seen(c)' \in [Page -> Content] /\ Seen(c) \in [Page -> Content]
  BY <1>1, SeenAt, SeenInNext
<1>8. Seen(c)' = [Seen(c) EXCEPT ![p] = Seen(c)'[p]]
  BY <1>6, <1>7
<1>9. /\ Views' = [Views EXCEPT ![c] = Views'[c]]
      /\ Views'[c] = Seen(c)' /\ Views[c] = Seen(c)
  BY <1>1, <1>4, <1>5, ViewsPut
<1>10. Views' = [Views EXCEPT ![c][p] = Views'[c][p]]
  <2>1. Views'[c] = [Views[c] EXCEPT ![p] = Views'[c][p]]
    BY <1>8, <1>9
  <2> QED
    BY <1>9, <2>1, Zenon
<1>11. Views'[c] \in Store!Image
  BY <1>7, <1>9 DEF Store!Image, Content
<1>12. TheWriter = c /\ TheWriter' = c /\ Current' = Current
  BY <1>1, <1>2, <1>4, WriterIs, WriterIsNext, CurrentStays
<1>13. Store!Write(c)
  BY <1>10, <1>11, <1>12 DEF Store!Write
<1> QED
  BY <1>13 DEF Store!Next

LEMMA PublishHdr0Commits ==
  ASSUME ContInv, ContInv', NEW c \in Conn, PublishHdr0(c)
  PROVE  Store!Next
<1>1. /\ PublishHdr0Does(c) /\ OthersStay(c) /\ Around(c) /\ BaseOK /\ BaseOK' /\ BatchOK(c)
      /\ (MarkInv /\ DbOK)' /\ TypesOK /\ TypesOK' /\ FrameOf(c)
  BY AroundOK, PublishHdr0Effect
  DEF ContInv, MarkInv, BaseOK, OwnOK, ContentsOK, ContentOf, Around, Before
<1>2. /\ pc[c] = "publish0" /\ pc'[c] = "reader" /\ call'[c] = "none"
      /\ wal'[c] = wal[c] /\ dirty'[c] = dirty[c] /\ aHdr'[0] = wal[c].hdr
      /\ db' = db /\ log' = log /\ aPgno' = aPgno
      /\ wal[c].hdr.init /\ wal[c].readLock > 0 /\ dirty[c] = Clean
  BY <1>1
  DEF PublishHdr0Does, Moves, SameWal, SameCache, Around, Before, PointOK, BatchOK, TypesOK,
      Waiting, Logging, dbVars, logVars
<1>3. Writing(c) /\ ~Writing(c)' /\ InTx(c) /\ InTx(c)'
  BY <1>2 DEF InTx, Writing, WritePoints, useWal
<1>4. OthersSee(c)
  BY <1>1, <1>2, StillSeen DEF OthersSee
<1>5. Seen(c)' = Seen(c)
  <2>1. \A p \in Page : FindFrame(c, p)' = FindFrame(c, p) /\ Held(p)' = Held(p)
    BY <1>2 DEF FindFrame, Held
  <2> QED
    BY <1>2, <2>1 DEF Seen
<1>6. Seen(c)' = Current'
  <2>1. wal'[c].hdr = aHdr'[0] /\ wal'[c].readLock >= 0
    BY <1>1, <1>2, Types
  <2>2. Seen(c)' = Under(aHdr[0])'
    BY <1>1, <1>2, <2>1, ReaderCurrentNext
  <2> QED
    BY <1>2, <2>2 DEF Current
<1>7. Views' = [Views EXCEPT ![c] = Views[c]] /\ Views[c] = Current'
  BY <1>1, <1>3, <1>4, <1>5, <1>6, ViewsPut
<1>8. Views' = Views
  BY <1>7, ViewIs
<1>9. TheWriter = c /\ TheWriter' = NoConn
  <2>1. \A d \in Conn : ~Writing(d)'
    BY <1>1, <1>3, Rivals, OthersTx
  <2> QED
    BY <1>1, <1>3, <2>1, WriterIs, WriterIsNext
<1>10. Store!Commit(c)
  BY <1>7, <1>8, <1>9 DEF Store!Commit
<1> QED
  BY <1>10 DEF Store!Next

LEMMA RollbackRolls ==
  ASSUME ContInv, ContInv', NEW c \in Conn, Rollback(c)
  PROVE  Store!Next
<1>1. /\ RollbackDoes(c) /\ OthersStay(c) /\ Around(c) /\ BaseOK /\ BaseOK' /\ MarkInv
      /\ (MarkInv /\ DbOK)' /\ TypesOK /\ TypesOK' /\ (pc[c] \notin Waiting => aHdr[0].init)
      /\ aHdr[0].mx \in 0 .. MaxFrame
  BY AroundOK, RollbackEffect
  DEF ContInv, MarkInv, BaseOK, OwnOK, ContentsOK, Around, Before
<1>2. /\ pc[c] \in {"writer", "headersync", "append", "rewrite"} /\ pc'[c] = "reader"
      /\ call'[c] = "none" /\ dirty'[c] = Clean /\ wal'[c].hdr = aHdr[0]
      /\ wal'[c].readLock = wal[c].readLock /\ aHdr' = aHdr /\ db' = db /\ log' = log
      /\ wal[c].readLock >= 0
  BY <1>1, Sizes
  DEF RollbackDoes, WalIs, Around, Before, PointOK, Numbers, Logging, dbVars, logVars
<1>3. Writing(c) /\ ~Writing(c)' /\ InTx(c) /\ InTx(c)' /\ aHdr[0].init
  BY <1>1, <1>2 DEF InTx, Writing, WritePoints, useWal, Waiting
<1>4. FramesStay(aHdr[0].mx)
  <2>1. \A i \in 1 .. aHdr[0].mx : aPgno'[i] = aPgno[i]
    BY <1>1, Sizes DEF RollbackDoes, Slot
  <2> QED
    BY <1>2, <2>1 DEF FramesStay
<1>5. OthersSee(c)
  BY <1>1, <1>2, <1>3, <1>4, SeenOthers DEF OthersSee
<1>6. Current' = Current /\ Seen(c)' = Current
  <2>1. Under(aHdr[0])' = Under(aHdr[0])
    BY <1>1, <1>2, <1>4, UnderStays
  <2>2. Seen(c)' = Under(aHdr[0])'
    BY <1>1, <1>2, ReaderCurrentNext
  <2> QED
    BY <1>2, <1>3, <2>1, <2>2 DEF Current
<1>7. Views' = [Views EXCEPT ![c] = Current]
  BY <1>1, <1>3, <1>5, <1>6, ViewsPut
<1>8. TheWriter = c /\ TheWriter' = NoConn
  <2>1. \A d \in Conn : ~Writing(d)'
    BY <1>1, <1>3, Rivals, OthersTx
  <2> QED
    BY <1>1, <1>3, <2>1, WriterIs, WriterIsNext
<1>9. Store!Rollback(c)
  BY <1>6, <1>7, <1>8 DEF Store!Rollback
<1> QED
  BY <1>9 DEF Store!Next

-----------------------------------------------------------------------------
(* A new log, checkpoints and the recovery of the index. *)

\* All of the log is in the database when it is begun anew.
LEMMA RestartHdr0Looks ==
  ASSUME ContInv, ContInv', NEW c \in Conn, RestartHdr0(c)
  PROVE  Store!Next
<1>1. /\ RestartHdr0Does(c) /\ OthersStay(c) /\ Around(c) /\ BaseOK /\ BaseOK' /\ DbOK
      /\ TypesOK /\ TypesOK' /\ (pc[c] \notin Waiting => aHdr[0].init)
      /\ aHdr[0].mx \in 0 .. MaxFrame
  BY AroundOK, RestartHdr0Effect
  DEF ContInv, MarkInv, BaseOK, OwnOK, ContentsOK, Around, Before
<1>2. /\ pc[c] = "restart" /\ pc'[c] = "restarted" /\ wal'[c] = wal[c] /\ dirty'[c] = dirty[c]
      /\ wal[c].hdr.mx = 0 /\ wal[c].hdr.init /\ wal[c].readLock = 0 /\ aHdr[0].init
      /\ nBackfill = aHdr[0].mx /\ aHdr'[0] = wal[c].hdr
      /\ db' = db /\ log' = log /\ aPgno' = aPgno
  <2>1. pc[c] = "restart" /\ useWal(c)
    BY <1>1 DEF RestartHdr0Does, Moves, Around, Before, PointOK, Alone
  <2>2. nBackfill = aHdr[0].mx
    BY <1>1, <2>1 DEF Around, BackOf
  <2>3. wal[c].hdr.mx = 0 /\ wal[c].hdr.init /\ wal[c].readLock = 0 /\ aHdr[0].init
    BY <1>1, <2>1 DEF Around, Before, PointOK, WriterHdrOK, Waiting
  <2> QED
    BY <1>1, <2>2, <2>3
    DEF RestartHdr0Does, Moves, SameWal, SameCache, TypesOK, dbVars, logVars
<1>3. Writing(c) /\ Writing(c)' /\ InTx(c) /\ InTx(c)'
  BY <1>2 DEF InTx, Writing, WritePoints
<1>4. \A p \in Page : Under(aHdr[0])[p] = db[p] /\ Under(aHdr[0])'[p] = db[p]
  <2> SUFFICES ASSUME NEW p \in Page
               PROVE  Under(aHdr[0])[p] = db[p] /\ Under(aHdr[0])'[p] = db[p]
    OBVIOUS
  <2>1. Last(aHdr[0].mx, p) \in 0 .. aHdr[0].mx
    BY <1>1, LastIn
  <2>2. Last(aHdr[0].mx, p) # 0 => db[p] = log[Last(aHdr[0].mx, p)].val
    BY <1>1, <1>2, <2>1, Sizes DEF DbOK
  <2>3. Last(aHdr[0].mx, p)' = 0
    BY <1>2, LatestOK DEF Last, Latest
  <2> QED
    BY <1>1, <1>2, <2>2, <2>3, UnderValue, UnderValueNext
<1>5. Current' = Current
  <2>1. Under(aHdr[0])' = Under(aHdr[0])
    BY <1>4, Images, ImagesNext
  <2> QED
    BY <1>2, <2>1 DEF Current
<1>6. OthersSee(c)
  BY <1>1, <1>2, StillSeen DEF OthersSee
<1>7. Seen(c)' = Seen(c)
  BY <1>2, SeenInDb
<1> QED
  BY <1>1, <1>3, <1>5, <1>6, <1>7, Stutters

\* The count of the frames copied is nobody's view.
LEMMA CountLooks ==
  ASSUME ContInv, BaseOK', NEW c \in Conn, OthersStay(c), aHdr[0].init, aHdr'[0] = aHdr[0],
         db' = db, log' = log, aPgno' = aPgno, pc[c] # "reader", pc'[c] # "reader",
         Writing(c)' <=> Writing(c), Writing(c) => Seen(c)' = Seen(c)
  PROVE  Store!Next
<1>1. OthersSee(c)
  BY StillSeen DEF OthersSee
<1>2. TypesOK /\ TypesOK' /\ BaseOK
  BY DEF ContInv, MarkInv, BaseOK
<1>3. Current' = Current
  <2>1. FramesStay(aHdr[0].mx)
    BY DEF FramesStay
  <2>2. Under(aHdr[0])' = Under(aHdr[0])
    BY <1>2, <2>1, UnderStays
  <2> QED
    BY <2>2 DEF Current
<1> QED
  BY <1>1, <1>2, <1>3, Stutters DEF InTx

LEMMA RestartInfoLooks ==
  ASSUME ContInv, BaseOK', NEW c \in Conn, RestartInfo(c)
  PROVE  Store!Next
<1>1. /\ RestartInfoDoes(c) /\ OthersStay(c) /\ Around(c)
      /\ (pc[c] \notin Waiting => aHdr[0].init)
  BY AroundOK, RestartInfoEffect DEF ContInv, OwnOK
<1>2. /\ pc[c] = "restarted" /\ pc'[c] = "choose" /\ call'[c] = call[c]
      /\ dirty'[c] = dirty[c] /\ wal[c].readLock = 0 /\ wal'[c].readLock = -1
      /\ aHdr[0].init /\ aHdr' = aHdr /\ db' = db /\ log' = log /\ aPgno' = aPgno /\ useWal(c)
  BY <1>1
  DEF RestartInfoDoes, Moves, SameCall, SameCache, WalIs, Around, Before, PointOK, Alone,
      Waiting, dbVars, logVars
<1>3. Writing(c) /\ Writing(c)'
  BY <1>2 DEF Writing, useWal
<1>4. Seen(c)' = Seen(c)
  BY <1>2, SeenInDb
<1> QED
  BY <1>1, <1>2, <1>3, <1>4, CountLooks

LEMMA BackfilledLooks ==
  ASSUME ContInv, BaseOK', NEW c \in Conn, Backfilled(c)
  PROVE  Store!Next
<1>1. /\ BackfilledDoes(c) /\ OthersStay(c) /\ Around(c)
      /\ (pc[c] \notin Waiting => aHdr[0].init)
  BY AroundOK, BackfilledEffect DEF ContInv, OwnOK
<1>2. /\ pc[c] = "ckcopy" /\ pc'[c] = "ckend" /\ call'[c] = call[c] /\ call[c] = "ckpt"
      /\ aHdr[0].init /\ aHdr' = aHdr /\ db' = db /\ log' = log /\ aPgno' = aPgno
  BY <1>1
  DEF BackfilledDoes, Moves, SameCall, Around, Before, PointOK, CkPoints, Waiting, logVars
<1>3. ~Writing(c) /\ ~Writing(c)'
  BY <1>2 DEF Writing, WritePoints, useWal
<1> QED
  BY <1>1, <1>2, <1>3, CountLooks

LEMMA CopyPageLooks ==
  ASSUME ContInv, BaseOK', NEW c \in Conn, CopyPage(c)
  PROVE  Store!Next
<1>1. /\ CopyPageDoes(c) /\ OthersStay(c) /\ Around(c) /\ BaseOK
      /\ (pc[c] \notin Waiting => aHdr[0].init)
  BY AroundOK, CopyPageEffect DEF ContInv, MarkInv, OwnOK
<1>2. /\ pc[c] = "ckcopy" /\ pc'[c] = "ckcopy" /\ call'[c] = call[c] /\ call[c] = "ckpt"
      /\ aHdr[0].init /\ aHdr' = aHdr
  BY <1>1
  DEF CopyPageDoes, Moves, SameCall, Around, Before, PointOK, CkPoints, Waiting, shmVars
<1>3. ~Writing(c) /\ ~Writing(c)' /\ ~InTx(c) /\ ~InTx(c)'
  BY <1>2 DEF InTx, Writing, WritePoints, useWal
<1>4. Current' = Current /\ OthersSee(c)
  BY <1>2, CopyPageContents DEF Current, OthersSee
<1> QED
  BY <1>1, <1>3, <1>4, Stutters

\* What is stored is what is published, when nobody is publishing.
LEMMA StoredCurrent ==
  ContInv /\ FileOK /\ aHdr[0].init /\ (\A d \in Conn : ~Publishing(d))
    => Stored = Under(aHdr[0])
  BY StoredIsUnder

LEMMA StoredCurrentNext ==
  (ContInv /\ FileOK)' /\ aHdr'[0].init /\ (\A d \in Conn : ~Publishing(d)')
    => Stored' = Under(aHdr[0])'
<1>1. (ContInv /\ FileOK /\ aHdr[0].init /\ (\A d \in Conn : ~Publishing(d))
         => Stored = Under(aHdr[0]))'
  BY StoredCurrent, PTL
<1> QED
  BY <1>1

\* The index that is recovered is that of the log.
LEMMA RecoverLooks ==
  ASSUME ChainInv, ChainInv', NEW c \in Conn, Recover(c)
  PROVE  Store!Next
<1>1. /\ RecoverDoes(c) /\ OthersStay(c) /\ Around(c) /\ BaseOK /\ BaseOK' /\ TypesOK
      /\ Before(c)'
  BY AroundOK, AfterOK, RecoverEffect
  DEF ChainInv, ContInv, MarkInv, BaseOK, OwnOK, Around, Before
<1>2. Unused
  BY <1>1, Recoverable DEF RecoverDoes, Moves
<1>3. /\ pc'[c] \in {"ckstart", "choose"} /\ call'[c] = call[c]
      /\ db' = db /\ log' = log /\ salt' = salt /\ aHdr'[0].init /\ ~aHdr[0].init
  <2>1. RecoveredHdr(log, salt).init
    BY <1>1, LogRead
  <2>2. aHdr'[0] = RecoveredHdr(log, salt)
    BY <1>1 DEF RecoverDoes
  <2>3. ~aHdr[0].init
    BY <1>2 DEF Unused, NoHdr
  <2> QED
    BY <1>1, <2>1, <2>2, <2>3 DEF RecoverDoes, Moves, SameCall, dbVars, logVars
<1>4. \A d \in Conn : ~Writing(d) /\ ~InTx(d) /\ ~Publishing(d)
  <2>1. \A d \in Conn : PointOK(d) /\ pc[d] \in Waiting
    BY <1>1, <1>2 DEF BaseOK, OwnOK, Unused
  <2>2. \A d \in Conn : ~Writing(d) /\ ~Publishing(d)
    BY <2>1, WaitingIsIdle
  <2> QED
    BY <2>1, <2>2 DEF InTx, Waiting
<1>5. ~Writing(c)' /\ ~InTx(c)' /\ ~Publishing(c)'
  BY <1>3, <1>4 DEF InTx, Writing, WritePoints, useWal, Publishing
<1>6. \A d \in Conn : ~Publishing(d)'
  <2>1. \A d \in Conn \ {c} : pc'[d] = pc[d] /\ call'[d] = call[d]
    BY <1>1 DEF OthersStay, Stays
  <2> QED
    BY <1>4, <1>5, <2>1 DEF Publishing
<1>7. Current' = Current
  <2>2. Stored' = Under(aHdr[0])'
    BY <1>3, <1>6, StoredCurrentNext DEF ChainInv, ChainOK
  <2>3. Stored' = Stored
    BY <1>3 DEF Stored
  <2> QED
    BY <1>3, <2>2, <2>3 DEF Current
<1>8. OthersSee(c)
  BY <1>4 DEF OthersSee
<1> QED
  BY <1>1, <1>4, <1>5, <1>7, <1>8, Stutters

-----------------------------------------------------------------------------
(* The end of the process, and of the power. *)

\* What is stored is an image.
LEMMA StoredIn ==
  TypesOK => Stored \in [Page -> Content]
<1> SUFFICES ASSUME TypesOK
             PROVE  Stored \in [Page -> Content]
  OBVIOUS
<1>1. \A i \in Slot : log[i].val \in Content
  BY DEF TypesOK, FrameT
<1>2. \A p \in Page : db[p] \in Content
  BY DEF TypesOK, TypeOK, Content
<1>3. PICK n \in 0 .. MaxFrame : Complete(log, salt) = n
  BY CompleteOK
<1>4. ASSUME NEW p \in Page
      PROVE  Stored[p] \in Content
  <2>1. n \in Nat /\ MaxFrame \in Nat
    BY WalAssumption DEF WalAssumption
  <2>2. Latest(Pages, n, p) \in 0 .. n
    BY <2>1, LatestOK
  <2>3. Latest(Pages, n, p) # 0 => Latest(Pages, n, p) \in Slot
    BY <2>1, <2>2 DEF Slot
  <2> QED
    BY <1>1, <1>2, <1>3, <2>3, StoredAt
<1> QED
  BY <1>4, StoredAt

\* Nobody is in a transaction.
LEMMA NobodyIn ==
  (\A c \in Conn : pc[c] = "idle" /\ call[c] = "none")
    => Views = [c \in Conn |-> NoView] /\ \A c \in Conn : ~Writing(c)
<1> SUFFICES ASSUME \A c \in Conn : pc[c] = "idle" /\ call[c] = "none"
             PROVE  Views = [c \in Conn |-> NoView] /\ \A c \in Conn : ~Writing(c)
  OBVIOUS
<1>1. \A c \in Conn : ~Writing(c) /\ ~InTx(c)
  BY DEF InTx, Writing, WritePoints, useWal
<1> QED
  BY <1>1, ViewIs

LEMMA Ends ==
  ASSUME BaseOK', \A c \in Conn : pc'[c] = "idle" /\ call'[c] = "none"
  PROVE  Store!Ended
<1>1. (BaseOK => ((\A c \in Conn : ~Writing(c)) => TheWriter = NoConn))'
  BY WriterIs, PTL
<1>2. ((\A c \in Conn : pc[c] = "idle" /\ call[c] = "none")
         => Views = [c \in Conn |-> NoView] /\ \A c \in Conn : ~Writing(c))'
  BY NobodyIn, PTL
<1> QED
  BY <1>1, <1>2 DEF Store!Ended

LEMMA CrashRestarts ==
  ASSUME ChainInv, ChainInv', Crash
  PROVE  Store!Next
<1>1. BaseOK /\ BaseOK'
  BY DEF ChainInv, ContInv, MarkInv
<1>2. /\ db' = db /\ log' = log /\ salt' = salt /\ ~aHdr'[0].init
      /\ \A c \in Conn : pc'[c] = "idle" /\ call'[c] = "none"
  BY DEF Crash, Forget, NoHdr, dbVars, logVars
<1>3. Store!Ended
  BY <1>1, <1>2, Ends
<1>4. Current' = Stored
  BY <1>2 DEF Current, Stored
<1>5. CASE Stored = Current
  BY <1>3, <1>4, <1>5 DEF Store!Next, Store!Restart
<1>6. ASSUME NEW c \in Conn, pc[c] \in {"publish", "publish0"}, Stored = Seen(c)
      PROVE  Store!Next
  <2>1. Writing(c) /\ InTx(c)
    BY <1>6 DEF InTx, Writing, WritePoints
  <2>2. TheWriter = c /\ c # NoConn /\ Views[c] = Seen(c)
    BY <1>1, <2>1, WriterIs, ViewIs, WalAssumption DEF WalAssumption
  <2> QED
    BY <1>3, <1>4, <1>6, <2>2 DEF Store!Next, Store!Restart
<1> QED
  BY <1>5, <1>6, ChainHolds DEF LogHoldsTheCommits

LEMMA PowerLossLoses ==
  ASSUME BaseOK, BaseOK', PowerLoss
  PROVE  Store!Next
<1>1. /\ aHdr' = aHdr /\ pc' = pc /\ call' = call /\ ~aHdr[1].init
      /\ \A c \in Conn : pc[c] = "idle"
  BY DEF PowerLoss, NoProcess, shmVars
<1>2. \A c \in Conn : call[c] = "none"
  <2>1. \A c \in Conn : PointOK(c)
    BY DEF BaseOK, OwnOK
  <2>2. \A c \in Conn : call[c] \in {"none", "spill", "commit", "ckpt"}
    BY Types DEF BaseOK
  <2> QED
    BY <1>1, <2>1, <2>2 DEF PointOK, CkPoints, useWal, Alone, Marking
<1>3. Store!Ended
  BY <1>1, <1>2, Ends
<1>4. ~aHdr'[0].init
  BY <1>1 DEF BaseOK, HdrsOK, HdrOK, Unused, NoHdr
<1>5. Stored' \in [Page -> Content]
  <2>1. (TypesOK => Stored \in [Page -> Content])'
    BY StoredIn, PTL
  <2>2. Content' = Content /\ Page' = Page
    BY DEF Content, Page
  <2> QED
    BY <2>1, <2>2 DEF BaseOK
<1>6. Current' \in Store!Image
  BY <1>4, <1>5 DEF Current, Store!Image, Content
<1> QED
  BY <1>3, <1>6 DEF Store!Next, Store!PowerLoss

LEMMA LooksUnchanged ==
  ASSUME BaseOK, BaseOK', UNCHANGED vars
  PROVE  Store!Next
<1>1. /\ db' = db /\ log' = log /\ salt' = salt /\ aHdr' = aHdr /\ aPgno' = aPgno
      /\ wal' = wal /\ dirty' = dirty /\ pc' = pc /\ call' = call
  BY DEF vars, dbVars, logVars, shmVars
<1>2. \A c \in Conn : (Writing(c)' <=> Writing(c)) /\ (InTx(c)' <=> InTx(c))
  BY <1>1 DEF InTx, Writing, useWal
<1>3. \A c \in Conn : Seen(c)' = Seen(c)
  BY <1>1 DEF Seen, FindFrame, Held
<1>4. Views' = Views
  BY <1>2, <1>3, ViewIs
<1>5. TheWriter' = TheWriter
  BY <1>2, WriterIs, WriterIsNext
<1>6. Current' = Current
  BY <1>1 DEF Current, Stored, Under, Held
<1> QED
  BY <1>4, <1>5, <1>6 DEF Store!Next, Store!Look, Store!vars

-----------------------------------------------------------------------------
(* All steps. *)

LEMMA StoreSteps ==
  ASSUME ChainInv, ChainInv', NEW c \in Conn, StepOf(c)
  PROVE  Store!Next
<1>1. ContInv /\ ContInv' /\ BaseOK' /\ BaseOK
  BY DEF ChainInv, ContInv, MarkInv
<1>2. ASSUME NEW p \in Page, Spill(c, p)
      PROVE  Store!Next
  <2>1. {p} \in SUBSET Page /\ Frames(c, "spill", {p})
    BY <1>1, <1>2, Batches DEF BaseOK
  <2> QED
    BY <1>1, <2>1, FramesLooks
<1>3. ASSUME Commit(c)
      PROVE  Store!Next
  <2>1. PICK pages \in SUBSET Page : Frames(c, "commit", pages)
    BY <1>1, <1>3, Batches DEF BaseOK
  <2> QED
    BY <1>1, <2>1, FramesLooks
<1>4. Read(c) => Store!Next
  BY <1>1, ReadHdrLooks, HdrLockedLooks, ChooseZeroLooks, LockMarkZeroBegins, ChooseMarkLooks,
     LockMarkLooks, CheckMarkBegins, EndReadEnds
  DEF Read
<1>5. Change(c) => Store!Next
  BY <1>1, <1>2, <1>3, BeginWriteBegins, RollbackRolls, WriteWrites, RestartHdrLooks,
     RestartHdr0Looks, RestartInfoLooks, KeepLogLooks, WriteHeaderLooks, LogPageLooks,
     RewriteChecksumLooks, PublishLooks
  DEF Change
<1>6. Checkpoint(c) => Store!Next
  BY <1>1, StartCheckpointLooks, InitIteratorLooks, VisitMarkLooks, GiveUpLooks, CopyPageLooks,
     BackfilledLooks, CheckpointFailsLooks, EndCheckpointLooks
  DEF Checkpoint
<1> QED
  BY <1>1, <1>4, <1>5, <1>6, RecoverLooks, PublishHdr0Commits, SyncHeaderLooks, LockZeroLooks
  DEF StepOf

LEMMA InitStores ==
  ASSUME Init
  PROVE  Store!Init
<1>1. BaseOK /\ TypesOK /\ \A c \in Conn : pc[c] = "idle" /\ call[c] = "none"
  BY InitClosed, ClosedBase DEF Closed
<1>2. TheWriter = NoConn /\ Views = [c \in Conn |-> NoView]
  BY <1>1, NobodyIn, WriterIs
<1>3. Current \in Store!Image
  <2>1. Current = Stored
    BY DEF Init, NoHdr, Current
  <2> QED
    BY <1>1, <2>1, StoredIn DEF Store!Image, Content
<1> QED
  BY <1>2, <1>3 DEF Store!Init

\* The write-ahead log implements VersionStore, as long as no checkpoint is overtaken by a new
\* log: a reader stays with its image whatever is committed, spilled, checkpointed or
\* begun anew, a commit replaces the image in a single step, and the end of the process
\* loses none.
THEOREM StoreImplemented == Spec /\ []NoneOvertaken => StoreSpec
<1>1. Init => Store!Init
  BY InitStores
<1>2. ChainInv /\ ChainInv' /\ [Next]_vars => [Store!Next]_(Store!vars)
  <2> SUFFICES ASSUME ChainInv, ChainInv', [Next]_vars
               PROVE  Store!Next
    OBVIOUS
  <2>1. BaseOK /\ BaseOK'
    BY DEF ChainInv, ContInv, MarkInv
  <2> QED
    BY <2>1, Steps, StoreSteps, CrashRestarts, PowerLossLoses, LooksUnchanged
<1>3. Spec /\ []NoneOvertaken => []ChainInv
  BY ChainInvariant
<1> QED
  BY <1>1, <1>2, <1>3, PTL DEF Spec, StoreSpec, Store!Spec

-----------------------------------------------------------------------------
(* What a loss of power leaves of the files, and what a new process finds then. *)

LEMMA LeftIs ==
  TypesOK =>
    /\ LogLeft = {l \in [Slot -> FrameT] : \A i \in Slot : l[i] \in logDisk[i]}
    /\ DbLeft = {d \in [Page -> Content] : \A p \in Page : d[p] \in platter[p]}
<1> SUFFICES ASSUME TypesOK
             PROVE  /\ LogLeft = {l \in [Slot -> FrameT] : \A i \in Slot : l[i] \in logDisk[i]}
                    /\ DbLeft = {d \in [Page -> Content] : \A p \in Page : d[p] \in platter[p]}
  OBVIOUS
<1>1. platter \in [Page -> SUBSET Content] /\ logDisk \in [Slot -> SUBSET FrameT]
  BY DEF TypesOK, TypeOK, Content
<1>2. DOMAIN platter = Page /\ DOMAIN logDisk = Slot
  BY <1>1
<1>3. \A l \in LogLeft : l \in [Slot -> FrameT] /\ \A i \in Slot : l[i] \in logDisk[i]
  BY <1>2, Left DEF LogLeft, Outcomes
<1>4. \A l \in [Slot -> FrameT] : (\A i \in Slot : l[i] \in logDisk[i]) => l \in LogLeft
  BY <1>2 DEF LogLeft, Outcomes
<1>5. \A d \in DbLeft : d \in [Page -> Content] /\ \A p \in Page : d[p] \in platter[p]
  BY <1>2, Left DEF DbLeft, Outcomes
<1>6. \A d \in [Page -> Content] : (\A p \in Page : d[p] \in platter[p]) => d \in DbLeft
  BY <1>2 DEF DbLeft, Outcomes
<1> QED
  BY <1>3, <1>4, <1>5, <1>6

LEMMA LeftIsNext ==
  (TypesOK =>
    /\ LogLeft = {l \in [Slot -> FrameT] : \A i \in Slot : l[i] \in logDisk[i]}
    /\ DbLeft = {d \in [Page -> Content] : \A p \in Page : d[p] \in platter[p]})'
  BY LeftIs, PTL

\* Where the disk has nothing but the log file.
LEMMA LeftAlone ==
  TypesOK /\ (\A i \in Slot : logDisk[i] = {log[i]}) => LogLeft = {log}
<1> SUFFICES ASSUME TypesOK, \A i \in Slot : logDisk[i] = {log[i]}
             PROVE  LogLeft = {log}
  OBVIOUS
<1>1. log \in [Slot -> FrameT]
  BY DEF TypesOK
<1>2. \A l \in LogLeft : l \in [Slot -> FrameT] /\ \A i \in Slot : l[i] = log[i]
  BY LeftIs
<1>3. \A l \in LogLeft : l = log
  BY <1>1, <1>2
<1>4. log \in LogLeft
  BY <1>1, LeftIs
<1> QED
  BY <1>3, <1>4

LEMMA LeftAloneNext ==
  (TypesOK /\ (\A i \in Slot : logDisk[i] = {log[i]}) => LogLeft = {log})'
  BY LeftAlone, PTL

\* Logs that agree up to the last commit of the first have that commit in common.
LEMMA CommitShared ==
  ASSUME NEW l, NEW k, NEW s, \A i \in 1 .. Complete(k, s) : k[i] = l[i]
  PROVE  Complete(k, s) <= Complete(l, s)
<1> DEFINE n == Complete(k, s)
<1>1. n \in 0 .. MaxFrame /\ Complete(l, s) \in 0 .. MaxFrame
  BY CompleteOK
<1>2. CASE n = 0
  BY <1>1, <1>2
<1>3. CASE n # 0
  <2>1. s # 0 /\ Valid(k, s, n) /\ k[n].last
    BY <1>3, CompleteOK
  <2>2. n \in Nat /\ n \in Slot /\ n \in 1 .. n
    BY <1>1, <1>3, Sizes DEF Slot
  <2> HIDE DEF n
  <2>3. \A i \in 1 .. n : k[i] = l[i]
    BY DEF n
  <2>4. Valid(l, s, n)
    BY <2>1, <2>2, <2>3, ValidStays
  <2>5. l[n].last
    BY <2>1, <2>2, <2>3
  <2>6. ~(n > Complete(l, s))
    BY <2>1, <2>2, <2>4, <2>5, CompleteOK
  <2> QED
    BY <1>1, <2>6 DEF n
<1> QED
  BY <1>2, <1>3

\* Before frame i they agree, and none of them has a commit from there on.
LEMMA CommitSame ==
  ASSUME NEW l, NEW k, NEW s, NEW i \in Nat, \A j \in 1 .. i - 1 : k[j] = l[j],
         Complete(k, s) < i, Complete(l, s) < i
  PROVE  Complete(k, s) = Complete(l, s)
<1>1. Complete(k, s) \in 0 .. MaxFrame /\ Complete(l, s) \in 0 .. MaxFrame
  BY CompleteOK
<1>2. Complete(k, s) <= Complete(l, s)
  BY <1>1, CommitShared, Sizes
<1>3. Complete(l, s) <= Complete(k, s)
  BY <1>1, CommitShared, Sizes
<1> QED
  BY <1>1, <1>2, <1>3

\* The same commit over the same pages is the same image.
LEMMA FoundSame ==
  ASSUME NEW d, NEW l, NEW s, NEW e, NEW k, NEW t, Complete(l, s) = Complete(k, t),
         \A i \in 1 .. Complete(l, s) : l[i].page = k[i].page /\ l[i].val = k[i].val,
         \A p \in Page : d[p] = e[p] \/ \E i \in 1 .. Complete(l, s) : l[i].page = p
  PROVE  Found(d, l, s) = Found(e, k, t)
<1> DEFINE n == Complete(l, s)
           L(p) == Largest({i \in 1 .. n : l[i].page = p})
<1>1. n \in 0 .. MaxFrame
  BY CompleteOK
<1> HIDE DEF n
<1>2. ASSUME NEW p \in Page
      PROVE  Found(d, l, s)[p] = Found(e, k, t)[p]
  <2>1. {i \in 1 .. n : l[i].page = p} = {i \in 1 .. n : k[i].page = p}
    BY DEF n
  <2>2. {i \in 1 .. n : l[i].page = p} \subseteq 0 .. n /\ n \in Nat
    BY <1>1, Sizes
  <2>3. L(p) \in 0 .. n /\ (L(p) = 0 => {i \in 1 .. n : l[i].page = p} = {})
    <3>1. /\ L(p) \in 0 .. n
          /\ {i \in 1 .. n : l[i].page = p} # {} => L(p) \in {i \in 1 .. n : l[i].page = p}
      BY <2>2, LargestOK
    <3> HIDE DEF L
    <3> QED
      BY <3>1
  <2>4. L(p) # 0 => l[L(p)].val = k[L(p)].val
    <3> HIDE DEF L
    <3> QED
      BY <1>1, <2>3 DEF n
  <2>5. L(p) = 0 => d[p] = e[p]
    BY <2>3 DEF n
  <2>6. Found(d, l, s)[p] = IF L(p) = 0 THEN d[p] ELSE l[L(p)].val
    BY FoundAt DEF n
  <2>7. Found(e, k, t)[p] = IF L(p) = 0 THEN e[p] ELSE k[L(p)].val
    <3>1. Found(e, k, t)[p] =
            IF Largest({i \in 1 .. n : k[i].page = p}) = 0 THEN e[p]
            ELSE k[Largest({i \in 1 .. n : k[i].page = p})].val
      BY FoundAt DEF n
    <3> QED
      BY <2>1, <3>1
  <2> QED
    BY <2>4, <2>5, <2>6, <2>7
<1> QED
  BY <1>2, FoundAt

\* Without a commit a new process finds the database.
LEMMA FoundNothing ==
  ASSUME NEW d, NEW l, NEW s, d = [p \in Page |-> d[p]], Complete(l, s) = 0
  PROVE  Found(d, l, s) = d
<1>1. ASSUME NEW p \in Page
      PROVE  Found(d, l, s)[p] = d[p]
  <2>1. {i \in 1 .. 0 : l[i].page = p} = {}
    OBVIOUS
  <2>2. Largest({i \in 1 .. 0 : l[i].page = p}) = 0
    BY <2>1 DEF Largest
  <2> QED
    BY <2>2, FoundAt
<1> QED
  BY <1>1, FoundAt

-----------------------------------------------------------------------------
(* What is on the disk, or may be. *)

\* The files as the connections have them are among what the disk may hold.
HeldOK ==
  /\ \A i \in Slot : log[i] \in logDisk[i]
  /\ \A p \in Page : db[p] \in platter[p]
  /\ salt \in saltDisk

\* No log that may be left has more of it than the log file.
ShortOK ==
  \A l \in LogLeft : \A s \in {salt, aHdr[0].salt} : Complete(l, s) <= Complete(log, s)

\* Each of them makes a committed image of the database,
ImagesOK ==
  \A l \in LogLeft : \A s \in saltDisk : Found(db, l, s) \in recent \cup {Stored}

\* and has every page of which the disk may hold something else.
CoverOK ==
  \A l \in LogLeft : \A s \in saltDisk : \A p \in Page :
    platter[p] = {db[p]} \/ \E i \in 1 .. Complete(l, s) : l[i].page = p

\* A header that is not synced comes before the first commit,
PendingOK == saltDisk # {salt} => Complete(log, salt) = 0

\* and the database is synced when all of the log is in it.
RestOK ==
  aHdr[0].init /\ nBackfill >= aHdr[0].mx => \A p \in Page : platter[p] = {db[p]}

\* What the connections see was committed since the log was synced, or then.
RecentOK == aHdr[0].init => Under(aHdr[0]) \in recent

FilesOK == HeldOK /\ ShortOK /\ ImagesOK /\ CoverOK /\ PendingOK /\ RestOK /\ RecentOK

\* A writer's frames come after a header that is synced,
SyncedOK(c) ==
  /\ wal[c].hdr.mx > 0 \/ pc[c] \in {"append"} \cup Logged => saltDisk = {salt}
  /\ pc[c] \in {"headersync", "append"} /\ Written(c) = 0 => Complete(log, salt) = 0

\* the salt of a new log is nowhere on the disk,
FreshOK(c) ==
  pc[c] = "restart" => \A i \in Slot : \A f \in logDisk[i] : f.salt # wal[c].hdr.salt

\* The commit that is about to be published.
Own(c, n, g) == Publishing(c) /\ n = Written(c) /\ g = log[n]

\* and no other commit on the disk was sealed over what the writer changes or writes.
StaleDiskOK(c) ==
  \A n \in Slot : \A g \in logDisk[n] :
    g.last /\ ~Own(c, n, g) =>
      \A j \in DOMAIN g.sum :
        /\ \A p \in Page : dirty[c][p] # NoPage => g.sum[j][2] # dirty[c][p]
        /\ Written(c) > aHdr[0].mx => g.sum[j][2] # log[aHdr[0].mx + 1].val

\* What a checkpoint copies is on the disk for certain.
CopyOK(k) ==
  pc[k] = "ckcopy" =>
    /\ saltDisk = {salt}
    /\ \A l \in LogLeft : /\ Complete(l, salt) >= job[k].mark
                          /\ \A i \in 1 .. job[k].mark : l[i] = log[i]

DiskOf(c) == CopyOK(c) /\ (Writing(c) => SyncedOK(c) /\ FreshOK(c) /\ StaleDiskOK(c))

DiskOK == FilesOK /\ \A c \in Conn : DiskOf(c)

DiskInv == ChainInv /\ DiskOK

\* SyncedCommitsSurvive of run wal, from what may be on the disk.
LEMMA DiskSurvives ==
  ASSUME DiskInv
  PROVE  SyncedCommitsSurvive
<1>1. TypesOK
  BY DEF DiskInv, ChainInv, ContInv, MarkInv, BaseOK
<1>2. ASSUME NEW d \in DbLeft, NEW l \in LogLeft, NEW s \in saltDisk
      PROVE  Found(d, l, s) \in recent \cup {Stored}
  <2>1. \A p \in Page : d[p] \in platter[p]
    BY <1>1, LeftIs
  <2>2. \A p \in Page : platter[p] = {db[p]} \/ \E i \in 1 .. Complete(l, s) : l[i].page = p
    BY DEF DiskInv, DiskOK, FilesOK, CoverOK
  <2>3. \A p \in Page : d[p] = db[p] \/ \E i \in 1 .. Complete(l, s) : l[i].page = p
    BY <2>1, <2>2
  <2>4. Found(d, l, s) = Found(db, l, s)
    BY <2>3, FoundSame
  <2>5. Found(db, l, s) \in recent \cup {Stored}
    BY DEF DiskInv, DiskOK, FilesOK, ImagesOK
  <2> QED
    BY <2>4, <2>5
<1> QED
  BY <1>2 DEF SyncedCommitsSurvive, Durable

-----------------------------------------------------------------------------
(* Steps that write to no file. *)

Calm ==
  /\ UNCHANGED <<db, platter, log, logDisk, salt, saltDisk, recent>>
  /\ aHdr'[0] = aHdr[0]
  /\ nBackfill' >= aHdr[0].mx => nBackfill >= aHdr[0].mx
  /\ FramesStay(aHdr[0].mx)

LEMMA LeftStays ==
  logDisk' = logDisk => LogLeft' = LogLeft
  BY DEF LogLeft, Outcomes

LEMMA FilesCalm ==
  ASSUME TypesOK, TypesOK', FilesOK, Calm
  PROVE  FilesOK'
<1>1. LogLeft' = LogLeft
  BY LeftStays DEF Calm
<1>2. Stored' = Stored
  BY DEF Calm, Stored
<1>3. HeldOK'
  BY DEF FilesOK, HeldOK, Calm
<1>4. ShortOK'
  BY <1>1 DEF FilesOK, ShortOK, Calm
<1>5. ImagesOK'
  BY <1>1, <1>2 DEF FilesOK, ImagesOK, Calm
<1>6. CoverOK'
  BY <1>1 DEF FilesOK, CoverOK, Calm
<1>7. PendingOK' /\ RestOK'
  BY DEF FilesOK, PendingOK, RestOK, Calm
<1>8. RecentOK'
  <2>1. Under(aHdr[0])' = Under(aHdr[0])
    BY UnderStays DEF Calm
  <2> QED
    BY <2>1 DEF FilesOK, RecentOK, Calm
<1> QED
  BY <1>3, <1>4, <1>5, <1>6, <1>7, <1>8 DEF FilesOK

\* Where the log and its header stay.
LEMMA OthersDisk ==
  ASSUME NEW d \in Conn, DiskOf(d), Stays(d), UNCHANGED <<log, logDisk, salt, saltDisk>>,
         aHdr'[0] = aHdr[0]
  PROVE  DiskOf(d)'
<1>1. LogLeft' = LogLeft
  BY LeftStays
<1>2. CopyOK(d)'
  BY <1>1 DEF DiskOf, CopyOK, Stays
<1>3. /\ Writing(d)' <=> Writing(d)
      /\ Written(d)' = Written(d)
      /\ Publishing(d)' <=> Publishing(d)
  BY DEF Stays, Writing, useWal, Written, Publishing
<1>4. SyncedOK(d) => SyncedOK(d)'
  BY <1>3 DEF SyncedOK, Stays
<1>5. FreshOK(d) => FreshOK(d)'
  BY DEF FreshOK, Stays
<1>6. StaleDiskOK(d) => StaleDiskOK(d)'
  BY <1>3 DEF StaleDiskOK, Own, Stays
<1> QED
  BY <1>2, <1>3, <1>4, <1>5, <1>6 DEF DiskOf

LEMMA DiskCalm ==
  ASSUME DiskInv, ChainInv', NEW c \in Conn, OthersStay(c), Calm, DiskOf(c)'
  PROVE  DiskOK'
<1>1. TypesOK /\ TypesOK'
  BY DEF DiskInv, ChainInv, ContInv, MarkInv, BaseOK
<1>2. FilesOK'
  BY <1>1, FilesCalm DEF DiskInv, DiskOK
<1>3. ASSUME NEW d \in Conn \ {c}
      PROVE  DiskOf(d)'
  BY OthersDisk DEF DiskInv, DiskOK, OthersStay, Calm
<1> QED
  BY <1>2, <1>3 DEF DiskOK

\* A connection that neither writes nor copies has no part in it.
LEMMA DiskIdle ==
  ASSUME DiskInv, ChainInv', NEW c \in Conn, OthersStay(c), Calm, ~Writing(c)',
         pc'[c] # "ckcopy"
  PROVE  DiskOK'
  BY DiskCalm DEF DiskOf, CopyOK

\* The log, its index and the database stay as they are.
Resting == UNCHANGED <<dbVars, logVars, aHdr, aPgno, nBackfill, recent>>

LEMMA RestingCalm ==
  ASSUME Resting
  PROVE  Calm
  BY DEF Resting, Calm, FramesStay, dbVars, logVars

LEMMA ReadHdrDisk ==
  ASSUME DiskInv, ChainInv', NEW c \in Conn, ReadHdr(c), recent' = recent
  PROVE  DiskOK'
<1>1. ReadHdrDoes(c) /\ OthersStay(c)
  BY AroundOK, ReadHdrEffect DEF DiskInv, ChainInv, ContInv, Around, Before
<1>2. Resting
  BY <1>1 DEF ReadHdrDoes, Resting, shmVars
<1>3. ~Writing(c)' /\ pc'[c] # "ckcopy"
  <2>1. PointOK(c)
    BY AroundOK DEF DiskInv, ChainInv, ContInv, Around, Before
  <2> QED
    BY <1>1, <2>1
    DEF ReadHdrDoes, Moves, SameCall, Writing, WritePoints, useWal, PointOK, Alone, Marking
<1> QED
  BY <1>1, <1>2, <1>3, RestingCalm, DiskIdle

LEMMA HdrLockedDisk ==
  ASSUME DiskInv, ChainInv', NEW c \in Conn, HdrLocked(c), recent' = recent
  PROVE  DiskOK'
<1>1. HdrLockedDoes(c) /\ OthersStay(c) /\ PointOK(c)
  BY AroundOK, HdrLockedEffect DEF DiskInv, ChainInv, ContInv, Around, Before
<1>2. Resting
  BY <1>1 DEF HdrLockedDoes, Resting, shmVars
<1>3. ~Writing(c)' /\ pc'[c] # "ckcopy"
  BY <1>1
  DEF HdrLockedDoes, Moves, SameCall, Writing, WritePoints, useWal, PointOK, Alone, Marking
<1> QED
  BY <1>1, <1>2, <1>3, RestingCalm, DiskIdle

LEMMA ChooseZeroDisk ==
  ASSUME DiskInv, ChainInv', NEW c \in Conn, ChooseZero(c), recent' = recent
  PROVE  DiskOK'
<1>1. ChooseZeroDoes(c) /\ OthersStay(c) /\ PointOK(c)
  BY AroundOK, ChooseZeroEffect DEF DiskInv, ChainInv, ContInv, Around, Before
<1>2. Resting
  BY <1>1 DEF ChooseZeroDoes, Resting, shmVars
<1>3. ~Writing(c)' /\ pc'[c] # "ckcopy"
  BY <1>1
  DEF ChooseZeroDoes, Moves, SameCall, Writing, WritePoints, useWal, PointOK, Alone, Marking
<1> QED
  BY <1>1, <1>2, <1>3, RestingCalm, DiskIdle

LEMMA LockMarkZeroDisk ==
  ASSUME DiskInv, ChainInv', NEW c \in Conn, LockMarkZero(c), recent' = recent
  PROVE  DiskOK'
<1>1. LockMarkZeroDoes(c) /\ OthersStay(c) /\ PointOK(c)
  BY AroundOK, LockMarkZeroEffect DEF DiskInv, ChainInv, ContInv, Around, Before
<1>2. Resting
  BY <1>1 DEF LockMarkZeroDoes, Resting, shmVars
<1>3. ~Writing(c)' /\ pc'[c] # "ckcopy"
  BY <1>1
  DEF LockMarkZeroDoes, Moves, SameCall, Writing, WritePoints, useWal, PointOK, Alone, Marking
<1> QED
  BY <1>1, <1>2, <1>3, RestingCalm, DiskIdle

LEMMA EndReadDisk ==
  ASSUME DiskInv, ChainInv', NEW c \in Conn, EndRead(c), recent' = recent
  PROVE  DiskOK'
<1>1. EndReadDoes(c) /\ OthersStay(c) /\ PointOK(c)
  BY AroundOK, EndReadEffect DEF DiskInv, ChainInv, ContInv, Around, Before
<1>2. Resting
  BY <1>1 DEF EndReadDoes, Resting, shmVars
<1>3. ~Writing(c)' /\ pc'[c] # "ckcopy"
  BY <1>1
  DEF EndReadDoes, Moves, SameCall, Writing, WritePoints, useWal, PointOK, Alone, Marking
<1> QED
  BY <1>1, <1>2, <1>3, RestingCalm, DiskIdle

LEMMA StartCheckpointDisk ==
  ASSUME DiskInv, ChainInv', NEW c \in Conn, StartCheckpoint(c), recent' = recent
  PROVE  DiskOK'
<1>1. StartCheckpointDoes(c) /\ OthersStay(c) /\ PointOK(c)
  BY AroundOK, StartCheckpointEffect DEF DiskInv, ChainInv, ContInv, Around, Before
<1>2. Resting
  BY <1>1 DEF StartCheckpointDoes, Resting, shmVars
<1>3. ~Writing(c)' /\ pc'[c] # "ckcopy"
  BY <1>1
  DEF StartCheckpointDoes, Moves, SameCall, Writing, WritePoints, useWal, PointOK, Alone, Marking
<1> QED
  BY <1>1, <1>2, <1>3, RestingCalm, DiskIdle

LEMMA InitIteratorDisk ==
  ASSUME DiskInv, ChainInv', NEW c \in Conn, InitIterator(c), recent' = recent
  PROVE  DiskOK'
<1>1. InitIteratorDoes(c) /\ OthersStay(c) /\ PointOK(c)
  BY AroundOK, InitIteratorEffect DEF DiskInv, ChainInv, ContInv, Around, Before
<1>2. Resting
  BY <1>1 DEF InitIteratorDoes, Resting, shmVars
<1>3. ~Writing(c)' /\ pc'[c] # "ckcopy"
  BY <1>1
  DEF InitIteratorDoes, Moves, SameCall, Writing, WritePoints, useWal, PointOK, Alone, Marking
<1> QED
  BY <1>1, <1>2, <1>3, RestingCalm, DiskIdle

LEMMA VisitMarkDisk ==
  ASSUME DiskInv, ChainInv', NEW c \in Conn, VisitMark(c), recent' = recent
  PROVE  DiskOK'
<1>1. VisitMarkDoes(c) /\ OthersStay(c) /\ PointOK(c)
  BY AroundOK, VisitMarkEffect DEF DiskInv, ChainInv, ContInv, Around, Before
<1>2. Resting
  BY <1>1 DEF VisitMarkDoes, Resting, shmVars
<1>3. ~Writing(c)' /\ pc'[c] # "ckcopy"
  BY <1>1
  DEF VisitMarkDoes, Moves, SameCall, Writing, WritePoints, useWal, PointOK, Alone, Marking
<1> QED
  BY <1>1, <1>2, <1>3, RestingCalm, DiskIdle

LEMMA GiveUpDisk ==
  ASSUME DiskInv, ChainInv', NEW c \in Conn, GiveUp(c), recent' = recent
  PROVE  DiskOK'
<1>1. GiveUpDoes(c) /\ OthersStay(c) /\ PointOK(c)
  BY AroundOK, GiveUpEffect DEF DiskInv, ChainInv, ContInv, Around, Before
<1>2. Resting
  BY <1>1 DEF GiveUpDoes, Resting, shmVars
<1>3. ~Writing(c)' /\ pc'[c] # "ckcopy"
  BY <1>1
  DEF GiveUpDoes, Moves, SameCall, Writing, WritePoints, useWal, PointOK, Alone, Marking
<1> QED
  BY <1>1, <1>2, <1>3, RestingCalm, DiskIdle

LEMMA CheckpointFailsDisk ==
  ASSUME DiskInv, ChainInv', NEW c \in Conn, CheckpointFails(c), recent' = recent
  PROVE  DiskOK'
<1>1. CheckpointFailsDoes(c) /\ OthersStay(c) /\ PointOK(c)
  BY AroundOK, CheckpointFailsEffect DEF DiskInv, ChainInv, ContInv, Around, Before
<1>2. Resting
  BY <1>1 DEF CheckpointFailsDoes, Resting, shmVars
<1>3. ~Writing(c)' /\ pc'[c] # "ckcopy"
  BY <1>1
  DEF CheckpointFailsDoes, Moves, SameCall, Writing, WritePoints, useWal, PointOK, Alone, Marking
<1> QED
  BY <1>1, <1>2, <1>3, RestingCalm, DiskIdle

LEMMA EndCheckpointDisk ==
  ASSUME DiskInv, ChainInv', NEW c \in Conn, EndCheckpoint(c), recent' = recent
  PROVE  DiskOK'
<1>1. EndCheckpointDoes(c) /\ OthersStay(c) /\ PointOK(c)
  BY AroundOK, EndCheckpointEffect DEF DiskInv, ChainInv, ContInv, Around, Before
<1>2. Resting
  BY <1>1 DEF EndCheckpointDoes, Resting, shmVars
<1>3. ~Writing(c)' /\ pc'[c] # "ckcopy"
  BY <1>1
  DEF EndCheckpointDoes, Moves, SameCall, Writing, WritePoints, useWal, PointOK, Alone, Marking
<1> QED
  BY <1>1, <1>2, <1>3, RestingCalm, DiskIdle

-----------------------------------------------------------------------------
(* The steps of a writer that write to no file. *)

LEMMA WriterRests ==
  ASSUME DiskInv, ChainInv', NEW c \in Conn, OthersStay(c), Calm, Writing(c),
         pc'[c] \notin {"restart", "ckcopy"}, Written(c)' = Written(c),
         \A p \in Page : dirty'[c][p] \in {dirty[c][p], NoPage},
         Publishing(c) => Publishing(c)',
         wal'[c].hdr.mx > 0 \/ pc'[c] \in {"append"} \cup Logged =>
           wal[c].hdr.mx > 0 \/ pc[c] \in {"append"} \cup Logged,
         pc'[c] \in {"headersync", "append"} /\ Written(c) = 0 =>
           pc[c] \in {"headersync", "append"}
  PROVE  DiskOK'
<1>1. SyncedOK(c) /\ StaleDiskOK(c)
  BY DEF DiskInv, DiskOK, DiskOf
<1>2. CopyOK(c)' /\ FreshOK(c)'
  BY DEF CopyOK, FreshOK
<1>3. SyncedOK(c)'
  BY <1>1 DEF SyncedOK, Calm
<1>4. StaleDiskOK(c)'
  <2> SUFFICES ASSUME NEW n \in Slot, NEW g \in logDisk[n], g.last, ~Own(c, n, g)',
                      NEW j \in DOMAIN g.sum
               PROVE  /\ \A p \in Page : dirty'[c][p] # NoPage => g.sum[j][2] # dirty'[c][p]
                      /\ Written(c) > aHdr[0].mx => g.sum[j][2] # log[aHdr[0].mx + 1].val
    BY DEF StaleDiskOK, Calm
  <2>1. ~Own(c, n, g)
    BY DEF Own, Calm
  <2>2. /\ \A p \in Page : dirty[c][p] # NoPage => g.sum[j][2] # dirty[c][p]
        /\ Written(c) > aHdr[0].mx => g.sum[j][2] # log[aHdr[0].mx + 1].val
    BY <1>1, <2>1 DEF StaleDiskOK
  <2>3. ASSUME NEW p \in Page, dirty'[c][p] # NoPage
        PROVE  g.sum[j][2] # dirty'[c][p]
    <3>1. dirty'[c][p] = dirty[c][p]
      BY <2>3
    <3> QED
      BY <2>2, <2>3, <3>1
  <2> QED
    BY <2>2, <2>3
<1> QED
  BY <1>2, <1>3, <1>4, DiskCalm DEF DiskOf

\* What is known of a connection before its step.
LEMMA Known ==
  ASSUME DiskInv, NEW c \in Conn
  PROVE  /\ TypesOK /\ MarkInv /\ ContInv /\ BaseOK /\ Around(c) /\ PointOK(c) /\ TaskOK(c)
         /\ Numbers(c) /\ WriterHdrOK(c) /\ BackOf(c) /\ CkptOK(c)
         /\ wal[c].hdr.mx \in 0 .. MaxFrame /\ aHdr[0].mx \in 0 .. MaxFrame
         /\ DiskOf(c) /\ WrittenOK(c) /\ FileOK /\ OldOK /\ FilesOK
  BY AroundOK DEF DiskInv, DiskOK, ChainInv, ChainOK, ContInv, Around, Before, MarkInv, Numbers

\* A writer about to log its pages, at most on its way to the first of them.
LEMMA EarlyRests ==
  ASSUME DiskInv, ChainInv', NEW c \in Conn, OthersStay(c), Calm, useWal(c),
         pc[c] \notin Logged \cup {"append", "headersync"},
         pc'[c] \in Marking \cup {"header"} \/ (pc'[c] = "append" /\ wal[c].hdr.mx # 0),
         wal'[c].hdr = wal[c].hdr, job'[c].iFrame = job[c].iFrame, dirty'[c] = dirty[c]
  PROVE  DiskOK'
<1>1. /\ Writing(c) /\ job[c].iFrame = wal[c].hdr.mx /\ Written(c) = wal[c].hdr.mx
      /\ wal[c].hdr.mx \in 0 .. MaxFrame /\ ~Publishing(c)
  BY EarlyKnows DEF DiskInv
<1>2. Written(c)' = Written(c)
  BY <1>1 DEF Written, Marking
<1>3. wal[c].hdr.mx # 0 => wal[c].hdr.mx > 0
  BY <1>1, Sizes
<1> QED
  BY <1>1, <1>2, <1>3, WriterRests DEF Marking, Logged

LEMMA ChooseMarkDisk ==
  ASSUME DiskInv, ChainInv', NEW c \in Conn, ChooseMark(c), recent' = recent
  PROVE  DiskOK'
<1>1. ChooseMarkDoes(c) /\ OthersStay(c) /\ PointOK(c)
  BY Known, ChooseMarkEffect
<1>2. Resting
  BY <1>1 DEF ChooseMarkDoes, Resting
<1>3. CASE ~useWal(c)
  <2>1. ~Writing(c)' /\ pc'[c] # "ckcopy"
    BY <1>1, <1>3 DEF ChooseMarkDoes, SameCall, Retry, Writing, WritePoints, useWal
  <2> QED
    BY <1>1, <1>2, <2>1, RestingCalm, DiskIdle
<1>4. CASE useWal(c)
  <2>1. /\ pc[c] \notin Logged \cup {"append", "headersync"} /\ pc'[c] \in Marking
        /\ wal'[c].hdr = wal[c].hdr /\ job'[c].iFrame = job[c].iFrame /\ dirty'[c] = dirty[c]
    BY <1>1, <1>4
    DEF ChooseMarkDoes, SameCache, SameWal, SameJob, JobIs, Logged, Marking, Retry
  <2> QED
    BY <1>1, <1>2, <1>4, <2>1, RestingCalm, EarlyRests
<1> QED
  BY <1>3, <1>4

LEMMA LockMarkDisk ==
  ASSUME DiskInv, ChainInv', NEW c \in Conn, LockMark(c), recent' = recent
  PROVE  DiskOK'
<1>1. LockMarkDoes(c) /\ OthersStay(c) /\ PointOK(c)
  BY Known, LockMarkEffect
<1>2. Resting
  BY <1>1 DEF LockMarkDoes, Resting, shmVars
<1>3. CASE ~useWal(c)
  <2>1. ~Writing(c)' /\ pc'[c] # "ckcopy"
    BY <1>1, <1>3 DEF LockMarkDoes, Moves, SameCall, Retry, Writing, WritePoints, useWal
  <2> QED
    BY <1>1, <1>2, <2>1, RestingCalm, DiskIdle
<1>4. CASE useWal(c)
  <2>1. /\ pc[c] \notin Logged \cup {"append", "headersync"} /\ pc'[c] \in Marking
        /\ wal'[c].hdr = wal[c].hdr /\ job'[c].iFrame = job[c].iFrame /\ dirty'[c] = dirty[c]
    BY <1>1, <1>4
    DEF LockMarkDoes, Moves, SameCache, SameWal, SameJob, WalIs, Logged, Marking, Retry
  <2> QED
    BY <1>1, <1>2, <1>4, <2>1, RestingCalm, EarlyRests
<1> QED
  BY <1>3, <1>4

LEMMA CheckMarkDisk ==
  ASSUME DiskInv, ChainInv', NEW c \in Conn, CheckMark(c), recent' = recent
  PROVE  DiskOK'
<1>1. CheckMarkDoes(c) /\ OthersStay(c) /\ PointOK(c)
  BY Known, CheckMarkEffect
<1>2. Resting
  BY <1>1 DEF CheckMarkDoes, Resting, shmVars
<1>3. CASE ~useWal(c)
  <2>1. ~Writing(c)' /\ pc'[c] # "ckcopy"
    BY <1>1, <1>3 DEF CheckMarkDoes, Moves, SameCall, Retry, Writing, WritePoints, useWal
  <2> QED
    BY <1>1, <1>2, <2>1, RestingCalm, DiskIdle
<1>4. CASE useWal(c)
  <2>1. /\ pc[c] \notin Logged \cup {"append", "headersync"}
        /\ pc'[c] \in Marking \cup {"header"} \/ (pc'[c] = "append" /\ wal[c].hdr.mx # 0)
        /\ wal'[c].hdr = wal[c].hdr /\ job'[c].iFrame = job[c].iFrame /\ dirty'[c] = dirty[c]
    BY <1>1, <1>4
    DEF CheckMarkDoes, Moves, SameCache, SameWal, SameJob, WalIs, JobIs, Logged, Marking, Retry,
        ToLog
  <2> QED
    BY <1>1, <1>2, <1>4, <2>1, RestingCalm, EarlyRests
<1> QED
  BY <1>3, <1>4

LEMMA KeepLogDisk ==
  ASSUME DiskInv, ChainInv', NEW c \in Conn, KeepLog(c), recent' = recent
  PROVE  DiskOK'
<1>1. KeepLogDoes(c) /\ OthersStay(c) /\ PointOK(c)
  BY Known, KeepLogEffect
<1>2. Resting
  BY <1>1 DEF KeepLogDoes, Resting, shmVars
<1>3. useWal(c)
  BY <1>1 DEF KeepLogDoes, Moves, PointOK, Alone
<1>4. /\ pc[c] \notin Logged \cup {"append", "headersync"}
      /\ pc'[c] \in Marking \cup {"header"} \/ (pc'[c] = "append" /\ wal[c].hdr.mx # 0)
      /\ wal'[c].hdr = wal[c].hdr /\ job'[c].iFrame = job[c].iFrame /\ dirty'[c] = dirty[c]
  BY <1>1
  DEF KeepLogDoes, Moves, SameCache, SameWal, SameJob, WalIs, Logged, Marking, ToLog
<1> QED
  BY <1>1, <1>2, <1>3, <1>4, RestingCalm, EarlyRests

LEMMA RestartInfoDisk ==
  ASSUME DiskInv, ChainInv', NEW c \in Conn, RestartInfo(c), recent' = recent
  PROVE  DiskOK'
<1>1. /\ RestartInfoDoes(c) /\ OthersStay(c) /\ PointOK(c) /\ WriterHdrOK(c)
      /\ nBackfill \in 0 .. MaxFrame
  BY Known, RestartInfoEffect DEF Around
<1>2. useWal(c) /\ aHdr[0].mx = 0
  BY <1>1 DEF RestartInfoDoes, Moves, PointOK, Alone, WriterHdrOK
<1>3. Calm
  BY <1>1, <1>2, Sizes DEF RestartInfoDoes, Calm, FramesStay, dbVars, logVars
<1>4. /\ pc[c] \notin Logged \cup {"append", "headersync"} /\ pc'[c] \in Marking
      /\ wal'[c].hdr = wal[c].hdr /\ job'[c].iFrame = job[c].iFrame /\ dirty'[c] = dirty[c]
  BY <1>1 DEF RestartInfoDoes, Moves, SameCache, SameJob, WalIs, Logged, Marking
<1> QED
  BY <1>1, <1>2, <1>3, <1>4, EarlyRests

-----------------------------------------------------------------------------
(* A transaction begins, changes pages, publishes its frames, or is rolled back. *)

\* After the first commit the header of the log is synced.
LEMMA HeaderSynced ==
  ASSUME DiskInv, aHdr[0].init, aHdr[0].mx > 0
  PROVE  saltDisk = {salt} /\ Complete(log, salt) >= aHdr[0].mx
<1>1. /\ FileOK /\ PendingOK /\ aHdr[0].mx \in 0 .. MaxFrame
  BY Types DEF DiskInv, DiskOK, FilesOK, ChainInv, ChainOK, ContInv, MarkInv, BaseOK
<1>2. /\ salt # 0 /\ Valid(log, salt, aHdr[0].mx) /\ log[aHdr[0].mx].last
      /\ aHdr[0].mx \in Slot
  BY <1>1, Sizes DEF FileOK, Slot
<1>3. ~(aHdr[0].mx > Complete(log, salt)) /\ Complete(log, salt) \in 0 .. MaxFrame
  BY <1>2, CompleteOK
<1>4. Complete(log, salt) >= aHdr[0].mx /\ Complete(log, salt) # 0
  BY <1>1, <1>3, Sizes
<1> QED
  BY <1>1, <1>4 DEF PendingOK

LEMMA BeginWriteDisk ==
  ASSUME DiskInv, ChainInv', NEW c \in Conn, BeginWrite(c), recent' = recent
  PROVE  DiskOK'
<1>1. BeginWriteDoes(c) /\ OthersStay(c) /\ PointOK(c) /\ Numbers(c) /\ BatchOK(c)
  BY Known, BeginWriteEffect DEF ContInv, ContentsOK, ContentOf
<1>2. Resting
  BY <1>1 DEF BeginWriteDoes, Resting, shmVars
<1>3. /\ pc'[c] = "writer" /\ wal'[c] = wal[c] /\ wal[c].hdr = aHdr[0] /\ aHdr[0].init
      /\ dirty'[c] = Clean
  <2>1. ~Writing(c)
    BY <1>1
    DEF BeginWriteDoes, Moves, PointOK, Alone, Marking, Writing, WritePoints
  <2> QED
    BY <1>1, <2>1 DEF BeginWriteDoes, Moves, SameWal, BatchOK, PointOK, Waiting
<1>4. SyncedOK(c)'
  BY <1>2, <1>3, HeaderSynced DEF SyncedOK, Resting, logVars, Logged
<1>5. StaleDiskOK(c)'
  <2>1. Written(c)' = aHdr[0].mx
    BY <1>2, <1>3 DEF Written
  <2>2. \A p \in Page : dirty'[c][p] = NoPage
    BY <1>3 DEF Clean
  <2>3. ~(Written(c)' > aHdr'[0].mx)
    BY <1>1, <1>2, <1>3, <2>1 DEF Numbers, Resting
  <2> QED
    BY <2>2, <2>3 DEF StaleDiskOK
<1>6. DiskOf(c)'
  BY <1>3, <1>4, <1>5 DEF DiskOf, CopyOK, FreshOK
<1> QED
  BY <1>1, <1>2, <1>6, RestingCalm, DiskCalm

\* What is written is new.
LEMMA WriteDisk ==
  ASSUME DiskInv, ChainInv', NEW c \in Conn, NEW p \in Page, Write(c, p), recent' = recent
  PROVE  DiskOK'
<1>1. /\ WriteDoes(c, p) /\ OthersStay(c) /\ TypesOK /\ OldOK /\ DiskOf(c) /\ aHdr' = aHdr
  BY Known, WriteEffect DEF WriteDoes, shmVars
<1>2. /\ UNCHANGED <<db, platter, log, logDisk, salt, saltDisk, nBackfill, aPgno>>
      /\ pc[c] = "writer" /\ pc'[c] = "writer" /\ wal'[c] = wal[c] /\ job'[c] = job[c]
      /\ call'[c] = call[c] /\ change' = change + 1
  BY <1>1
  DEF WriteDoes, Moves, SameWal, SameJob, SameCall, logVars, shmVars
<1>3. Calm
  BY <1>1, <1>2 DEF Calm, FramesStay
<1>4. Writing(c) /\ SyncedOK(c) /\ StaleDiskOK(c)
  BY <1>1, <1>2 DEF DiskOf, Writing, WritePoints
<1>5. /\ Written(c)' = Written(c) /\ ~Publishing(c) /\ ~Publishing(c)'
  BY <1>2 DEF Written, Publishing
<1>6. SyncedOK(c)'
  BY <1>2, <1>4, <1>5 DEF SyncedOK
<1>7. StaleDiskOK(c)'
  <2> SUFFICES ASSUME NEW n \in Slot, NEW g \in logDisk[n], g.last, NEW j \in DOMAIN g.sum
               PROVE  /\ \A q \in Page : dirty'[c][q] # NoPage => g.sum[j][2] # dirty'[c][q]
                      /\ Written(c) > aHdr[0].mx => g.sum[j][2] # log[aHdr[0].mx + 1].val
    BY <1>1, <1>2, <1>5 DEF StaleDiskOK
  <2>1. /\ \A q \in Page : dirty[c][q] # NoPage => g.sum[j][2] # dirty[c][q]
        /\ Written(c) > aHdr[0].mx => g.sum[j][2] # log[aHdr[0].mx + 1].val
    BY <1>4, <1>5 DEF StaleDiskOK, Own
  <2>2. g.sum[j][2] # change + 1
    <3>1. g.sum[j][2] \in Upto
      BY <1>1 DEF OldOK, OldFrame
    <3>2. change \in Nat /\ Torn \notin Nat
      BY <1>1, WalAssumption DEF TypesOK, TypeOK, WalAssumption
    <3> QED
      BY <3>1, <3>2 DEF Upto
  <2>3. ASSUME NEW q \in Page, dirty'[c][q] # NoPage
        PROVE  g.sum[j][2] # dirty'[c][q]
    <3>1. dirty[c] \in [Page -> Content \cup {NoPage}]
      BY <1>1, Types
    <3>2. dirty'[c][q] = IF q = p THEN change + 1 ELSE dirty[c][q]
      BY <1>1, <1>2, <3>1 DEF WriteDoes
    <3> QED
      BY <2>1, <2>2, <2>3, <3>2
  <2> QED
    BY <2>1, <2>3
<1>8. DiskOf(c)'
  BY <1>2, <1>6, <1>7 DEF DiskOf, CopyOK, FreshOK
<1> QED
  BY <1>1, <1>3, <1>8, DiskCalm

LEMMA FramesDisk ==
  ASSUME DiskInv, ChainInv', NEW c \in Conn, NEW what \in {"spill", "commit"},
         NEW pages \in SUBSET Page, Frames(c, what, pages), recent' = recent
  PROVE  DiskOK'
<1>1. FramesDoes(c, what, pages) /\ OthersStay(c)
  BY Known, FramesEffect
<1>2. Resting
  BY <1>1 DEF FramesDoes, Resting, shmVars
<1>3. /\ pc[c] = "writer" /\ pc'[c] = "frames" /\ wal'[c] = wal[c] /\ dirty'[c] = dirty[c]
  BY <1>1 DEF FramesDoes, Moves, SameWal, SameCache
<1>4. Writing(c) /\ ~Publishing(c) /\ Written(c)' = Written(c)
  BY <1>3 DEF Writing, WritePoints, Publishing, Written
<1> QED
  BY <1>1, <1>2, <1>3, <1>4, RestingCalm, WriterRests DEF Logged

LEMMA PublishDisk ==
  ASSUME DiskInv, ChainInv', NEW c \in Conn, Publish(c), recent' = recent
  PROVE  DiskOK'
<1>1. /\ PublishDoes(c) /\ OthersStay(c) /\ WriterHdrOK(c) /\ Numbers(c) /\ PointOK(c)
      /\ aHdr[0].mx \in 0 .. MaxFrame /\ TypesOK
  BY Known, PublishEffect
<1>2. useWal(c) /\ Writing(c)
  BY <1>1 DEF PublishDoes, PointOK, Alone, Writing
<1>3. aHdr[0].mx <= wal[c].hdr.mx
  BY <1>1, <1>2 DEF PublishDoes, WriterHdrOK
<1>4. Calm
  <2>1. aHdr'[0] = aHdr[0] /\ \A i \in 1 .. aHdr[0].mx : aPgno'[i] = aPgno[i]
    <3>1. aHdr'[0] = aHdr[0]
      BY <1>1 DEF PublishDoes, TypesOK
    <3> QED
      BY <1>1, <1>3, <3>1, Sizes DEF PublishDoes, Numbers, Slot
  <2> QED
    BY <1>1, <2>1 DEF PublishDoes, Calm, FramesStay, dbVars, logVars
<1>5. /\ pc'[c] \in {"writer", "publish0"} /\ pc[c] = "publish"
      /\ wal'[c].hdr.mx = job[c].iFrame
      /\ pc'[c] = "writer" => call[c] # "commit"
      /\ pc'[c] = "publish0" => call'[c] = "commit"
      /\ \A p \in Page : dirty'[c][p] \in {dirty[c][p], NoPage}
  BY <1>1 DEF PublishDoes, WalIs, NewHdr
<1>6. Written(c)' = Written(c) /\ (Publishing(c) => Publishing(c)')
  BY <1>5 DEF Written, Publishing
<1> QED
  BY <1>1, <1>2, <1>4, <1>5, <1>6, WriterRests DEF Logged

LEMMA RollbackDisk ==
  ASSUME DiskInv, ChainInv', NEW c \in Conn, Rollback(c), recent' = recent
  PROVE  DiskOK'
<1>1. RollbackDoes(c) /\ OthersStay(c) /\ aHdr[0].mx \in 0 .. MaxFrame
  BY Known, RollbackEffect
<1>2. ~Writing(c)' /\ pc'[c] # "ckcopy"
  BY <1>1 DEF RollbackDoes, Writing, WritePoints, useWal
<1>3. Calm
  <2>1. \A i \in 1 .. aHdr[0].mx : aPgno'[i] = aPgno[i]
    BY <1>1, Sizes DEF RollbackDoes, Slot
  <2> QED
    BY <1>1, <2>1 DEF RollbackDoes, Calm, FramesStay, dbVars, logVars
<1> QED
  BY <1>1, <1>2, <1>3, DiskIdle

-----------------------------------------------------------------------------
(* A log is begun anew. *)

\* No frame with this salt is left anywhere: nothing is read with it.
LEMMA NoneRead ==
  ASSUME TypesOK, NEW s, \A i \in Slot : \A f \in logDisk[i] : f.salt # s, NEW l \in LogLeft
  PROVE  Complete(l, s) = 0
<1>1. \A i \in Slot : l[i] \in logDisk[i]
  BY LeftIs
<1>2. Complete(l, s) \in 0 .. MaxFrame
      /\ (Complete(l, s) # 0 => Valid(l, s, Complete(l, s)))
  BY CompleteOK
<1>3. ASSUME Complete(l, s) # 0
      PROVE  FALSE
  <2>1. 1 \in 1 .. Complete(l, s) /\ 1 \in Slot
    BY <1>2, <1>3, Sizes DEF Slot
  <2>2. l[1].salt = s
    BY <1>2, <1>3, <2>1 DEF Valid
  <2> QED
    BY <1>1, <2>1, <2>2
<1> QED
  BY <1>3

LEMMA RestartHdrDisk ==
  ASSUME DiskInv, ChainInv', NEW c \in Conn, RestartHdr(c), recent' = recent
  PROVE  DiskOK'
<1>1. /\ RestartHdrDoes(c) /\ OthersStay(c) /\ TypesOK /\ DiskOf(c) /\ Numbers(c)
      /\ WriterHdrOK(c) /\ aHdr[0].mx \in 0 .. MaxFrame
  BY Known, RestartHdrEffect
<1>2. /\ pc[c] = "frames" /\ pc'[c] = "restart" /\ dirty'[c] = dirty[c]
      /\ wal'[c].hdr.mx = 0 /\ wal'[c].hdr.salt = NewSalt
      /\ UNCHANGED <<dbVars, logVars, nBackfill, aPgno>>
  BY <1>1 DEF RestartHdrDoes, Moves, SameCache, WalIs
<1>3. aHdr'[0] = aHdr[0]
  BY <1>1 DEF RestartHdrDoes, TypesOK
<1>4. Calm
  BY <1>2, <1>3 DEF Calm, FramesStay, dbVars, logVars
<1>5. Writing(c) /\ StaleDiskOK(c) /\ ~Publishing(c) /\ Written(c)' = 0
  BY <1>1, <1>2 DEF DiskOf, Writing, WritePoints, Publishing, Written
<1>6. FreshOK(c)'
  <2>1. NewSalt \notin Salts
    BY <1>1, NewSaltIn DEF RestartHdrDoes
  <2>2. \A i \in Slot : \A f \in logDisk[i] : f.salt \in Salts
    <3>1. \A i \in Slot : \A f \in logDisk[i] : f \in UNION {logDisk[j] : j \in Slot}
      OBVIOUS
    <3> QED
      BY <3>1 DEF Salts
  <2> QED
    BY <1>2, <2>1, <2>2 DEF FreshOK, logVars
<1>7. SyncedOK(c)'
  BY <1>2 DEF SyncedOK, Logged
<1>8. StaleDiskOK(c)'
  <2>1. ~(Written(c)' > aHdr'[0].mx)
    BY <1>1, <1>3, <1>5
  <2>2. \A n \in Slot : \A g \in logDisk[n] : g.last =>
          \A j \in DOMAIN g.sum : \A p \in Page : dirty[c][p] # NoPage => g.sum[j][2] # dirty[c][p]
    BY <1>5 DEF StaleDiskOK, Own
  <2> QED
    BY <1>2, <2>1, <2>2 DEF StaleDiskOK, logVars
<1>9. CopyOK(c)'
  BY <1>2 DEF CopyOK
<1> QED
  BY <1>1, <1>4, <1>6, <1>7, <1>8, <1>9, DiskCalm DEF DiskOf

\* With a new log the wal-index has the database for its image.
LEMMA RestartHdr0Disk ==
  ASSUME DiskInv, ChainInv', NEW c \in Conn, RestartHdr0(c), recent' = recent
  PROVE  DiskOK'
<1>1. /\ RestartHdr0Does(c) /\ OthersStay(c) /\ TypesOK /\ DiskOf(c) /\ Numbers(c)
      /\ WriterHdrOK(c) /\ BackOf(c) /\ PointOK(c) /\ aHdr[0].mx \in 0 .. MaxFrame
      /\ nBackfill \in 0 .. MaxFrame /\ FilesOK
  BY Known, RestartHdr0Effect DEF Around
<1>2. /\ pc[c] = "restart" /\ pc'[c] = "restarted" /\ wal'[c] = wal[c] /\ dirty'[c] = dirty[c]
      /\ wal[c].hdr.mx = 0 /\ wal[c].hdr.init /\ useWal(c)
      /\ nBackfill = aHdr[0].mx /\ nBackfill > 0
      /\ UNCHANGED <<dbVars, logVars, nBackfill, aPgno>>
  BY <1>1
  DEF RestartHdr0Does, Moves, SameCache, SameWal, WriterHdrOK, BackOf, PointOK, Waiting, Alone
<1>3. aHdr'[0] = wal[c].hdr
  BY <1>1 DEF RestartHdr0Does, TypesOK
<1>4. /\ LogLeft' = LogLeft /\ Stored' = Stored
      /\ UNCHANGED <<db, platter, log, logDisk, salt, saltDisk>>
  BY <1>2, LeftStays DEF Stored, dbVars, logVars
<1>5. /\ Writing(c) /\ FreshOK(c) /\ StaleDiskOK(c) /\ ~Publishing(c) /\ Written(c)' = 0
      /\ aHdr[0].init
  BY <1>1, <1>2, Known, AroundOK DEF DiskOf, Writing, WritePoints, Publishing, Written, Waiting
<1>6. ShortOK'
  <2> SUFFICES ASSUME NEW l \in LogLeft, NEW s \in {salt, wal[c].hdr.salt}
               PROVE  Complete(l, s) <= Complete(log, s)
    BY <1>3, <1>4 DEF ShortOK
  <2>1. CASE s = salt
    BY <1>1, <2>1 DEF FilesOK, ShortOK
  <2>2. CASE s = wal[c].hdr.salt
    <3>1. \A i \in Slot : \A f \in logDisk[i] : f.salt # s
      BY <1>2, <1>5, <2>2 DEF FreshOK
    <3>2. Complete(l, s) = 0
      BY <1>1, <3>1, NoneRead
    <3> QED
      BY <3>2, CompleteOK, Sizes
  <2> QED
    BY <2>1, <2>2
<1>7. RestOK'
  BY <1>1, <1>2, <1>4, <1>5 DEF FilesOK, RestOK
<1>8. RecentOK'
  <2>1. Under(aHdr[0])' = Under(aHdr[0])
    <3>1. TypesOK' /\ TypesOK /\ DbOK
      BY DEF DiskInv, ChainInv, ContInv, MarkInv, BaseOK, ContentsOK
    <3>2. ASSUME NEW p \in Page
          PROVE  Under(aHdr[0])'[p] = Under(aHdr[0])[p]
      <4>1. Under(aHdr[0])[p] = db[p]
        <5>1. Last(aHdr[0].mx, p) \in 0 .. aHdr[0].mx
          BY <1>1, <3>1, LastIn
        <5>2. Last(aHdr[0].mx, p) # 0 => db[p] = log[Last(aHdr[0].mx, p)].val
          BY <1>1, <1>2, <3>1, <5>1 DEF DbOK
        <5> QED
          BY <3>1, <5>2, UnderValue
      <4>2. Last(aHdr[0].mx, p)' = 0
        <5>1. \A q, i : (q = Latest(i, 0, p)) => q = 0
          BY LatestOK
        <5>2. Last(aHdr[0].mx, p)' = Latest(aPgno', 0, p)
          BY <1>2, <1>3 DEF Last, Latest
        <5> QED
          BY <5>1, <5>2
      <4>3. Under(aHdr[0])'[p] = db'[p]
        BY <3>1, <4>2, UnderValueNext
      <4> QED
        BY <1>4, <4>1, <4>3
    <3> QED
      BY <3>2, Images, ImagesNext
  <2> QED
    BY <1>1, <1>5, <2>1 DEF FilesOK, RecentOK
<1>9. FilesOK'
  <2>1. HeldOK' /\ ImagesOK' /\ CoverOK' /\ PendingOK'
    BY <1>1, <1>4 DEF FilesOK, HeldOK, ImagesOK, CoverOK, PendingOK
  <2> QED
    BY <1>6, <1>7, <1>8, <2>1 DEF FilesOK
<1>10. ASSUME NEW d \in Conn \ {c}
       PROVE  DiskOf(d)'
  <2>1. ~Writing(d) /\ Stays(d) /\ CopyOK(d)
    BY <1>1, <1>5, Rivals
    DEF DiskInv, ChainInv, ContInv, MarkInv, OthersStay, DiskOK, DiskOf
  <2>2. ~Writing(d)' /\ CopyOK(d)'
    BY <1>4, <2>1 DEF Stays, Writing, useWal, CopyOK
  <2> QED
    BY <2>2 DEF DiskOf
<1>11. DiskOf(c)'
  <2>1. SyncedOK(c)' /\ FreshOK(c)' /\ CopyOK(c)'
    BY <1>2 DEF SyncedOK, Logged, FreshOK, CopyOK
  <2>2. ~(Written(c)' > aHdr'[0].mx)
    BY <1>2, <1>3, <1>5
  <2>3. \A n \in Slot : \A g \in logDisk[n] : g.last =>
          \A j \in DOMAIN g.sum : \A p \in Page : dirty[c][p] # NoPage => g.sum[j][2] # dirty[c][p]
    BY <1>5 DEF StaleDiskOK, Own
  <2>4. StaleDiskOK(c)'
    BY <1>2, <1>4, <2>2, <2>3 DEF StaleDiskOK
  <2> QED
    BY <2>1, <2>4 DEF DiskOf
<1> QED
  BY <1>9, <1>10, <1>11 DEF DiskOK

-----------------------------------------------------------------------------
(* A commit is published, and an index recovered. *)

LEMMA PublishHdr0Disk ==
  ASSUME DiskInv, ChainInv', NEW c \in Conn, PublishHdr0(c),
         recent' = recent \cup {Under(wal[c].hdr)}
  PROVE  DiskOK'
<1>1. /\ PublishHdr0Does(c) /\ OthersStay(c) /\ TypesOK /\ Numbers(c)
      /\ WriterHdrOK(c) /\ PointOK(c) /\ aHdr[0].mx \in 0 .. MaxFrame
      /\ nBackfill \in 0 .. MaxFrame /\ FilesOK /\ WrittenOK(c) /\ BaseOK /\ MarkInv
  BY Known, PublishHdr0Effect DEF Around
<1>2. /\ pc[c] = "publish0" /\ pc'[c] = "reader" /\ call'[c] = "none" /\ wal'[c] = wal[c]
      /\ wal[c].hdr.init /\ wal[c].hdr.mx > aHdr[0].mx
      /\ UNCHANGED <<dbVars, logVars, nBackfill, aPgno>>
  BY <1>1
  DEF PublishHdr0Does, Moves, SameWal, WriterHdrOK, PointOK, Waiting
<1>3. aHdr'[0] = wal[c].hdr
  BY <1>1 DEF PublishHdr0Does, TypesOK
<1>4. /\ LogLeft' = LogLeft /\ Stored' = Stored
      /\ UNCHANGED <<db, platter, log, logDisk, salt, saltDisk>>
  BY <1>2, LeftStays DEF Stored, dbVars, logVars
<1>5. Writing(c) /\ \A d \in Conn \ {c} : ~Writing(d)
  <2>1. Writing(c)
    BY <1>2 DEF Writing, WritePoints
  <2> QED
    BY <1>1, <2>1, Rivals
<1>6. salt = wal[c].hdr.salt
  BY <1>1, <1>2, <1>5, Sizes DEF WrittenOK, SealedOK, Numbers
<1>7. HeldOK' /\ CoverOK' /\ PendingOK' /\ ImagesOK' /\ ShortOK'
  BY <1>1, <1>3, <1>4, <1>6 DEF FilesOK, HeldOK, ImagesOK, CoverOK, PendingOK, ShortOK
<1>8. RestOK'
  <2>1. nBackfill <= aHdr[0].mx
    <3>1. ~\E d \in Conn : pc[d] = "restarted"
      BY <1>2, <1>5 DEF Writing, WritePoints
    <3> QED
      BY <1>1, <3>1 DEF MarkInv, MarksOK, BackOK
  <2>2. ~(nBackfill >= wal[c].hdr.mx)
    BY <1>1, <1>2, <2>1, Sizes DEF Numbers
  <2> QED
    BY <1>2, <1>3, <2>2 DEF RestOK
<1>9. RecentOK'
  <2>1. Under(aHdr[0])' = Under(wal[c].hdr)
    BY <1>2, <1>3, <1>4 DEF Under, Held
  <2> QED
    BY <2>1 DEF RecentOK
<1>10. ASSUME NEW d \in Conn \ {c}
       PROVE  DiskOf(d)'
  <2>1. ~Writing(d) /\ Stays(d) /\ CopyOK(d)
    BY <1>1, <1>5 DEF DiskInv, OthersStay, DiskOK, DiskOf
  <2>2. ~Writing(d)' /\ CopyOK(d)'
    BY <1>4, <2>1 DEF Stays, Writing, useWal, CopyOK
  <2> QED
    BY <2>2 DEF DiskOf
<1>11. DiskOf(c)'
  BY <1>2 DEF DiskOf, CopyOK, Writing, WritePoints, useWal
<1> QED
  BY <1>7, <1>8, <1>9, <1>10, <1>11 DEF DiskOK, FilesOK

LEMMA RecoverDisk ==
  ASSUME DiskInv, ChainInv', NEW c \in Conn, Recover(c), recent' = recent \cup {Stored}
  PROVE  DiskOK'
<1> DEFINE h == RecoveredHdr(log, salt)
<1>1. /\ RecoverDoes(c) /\ OthersStay(c) /\ TypesOK /\ BaseOK /\ FilesOK /\ PointOK(c)
  BY Known, RecoverEffect
<1>2. /\ UNCHANGED <<dbVars, logVars>> /\ ~HdrGood
      /\ aHdr' = [i \in {0, 1} |-> h] /\ nBackfill' = 0
      /\ CanExclude(c, RecoveryLocks(c)) /\ pc[c] \in {"idle", "ckhdr"}
      /\ pc'[c] \in {"ckstart", "choose"} /\ call'[c] = call[c]
  BY <1>1 DEF RecoverDoes, Moves, SameCall
<1>3. Unused
  BY <1>1, <1>2, Recoverable
<1>4. /\ h.mx = Complete(log, salt) /\ h.salt = salt /\ h.init
  BY DEF RecoveredHdr
<1> HIDE DEF h
<1>5. aHdr'[0] = h
  BY <1>2
<1>6. /\ LogLeft' = LogLeft /\ Stored' = Stored
      /\ UNCHANGED <<db, platter, log, logDisk, salt, saltDisk>>
  BY <1>2, LeftStays DEF Stored, dbVars, logVars
<1>7. \A d \in Conn : ~Writing(d)' /\ ~Publishing(d)' /\ pc'[d] # "ckcopy"
  <2>1. \A d \in Conn : PointOK(d) /\ pc[d] \in Waiting
    BY <1>1, <1>3 DEF BaseOK, OwnOK, Unused
  <2>2. \A d \in Conn \ {c} : ~Writing(d)' /\ ~Publishing(d)' /\ pc'[d] # "ckcopy"
    BY <1>1, <2>1, WaitingIsIdle DEF OthersStay, Stays, Writing, useWal, Publishing, Waiting
  <2>3. ~Writing(c)' /\ ~Publishing(c)' /\ pc'[c] # "ckcopy"
    BY <1>2, <2>1, WaitingIsIdle DEF Writing, WritePoints, useWal, Publishing
  <2> QED
    BY <2>2, <2>3
<1>8. HeldOK' /\ CoverOK' /\ PendingOK' /\ ImagesOK' /\ ShortOK'
  BY <1>1, <1>4, <1>5, <1>6 DEF FilesOK, HeldOK, ImagesOK, CoverOK, PendingOK, ShortOK
<1>9. RestOK'
  <2> SUFFICES ASSUME 0 >= h.mx, NEW p \in Page
               PROVE  platter[p] = {db[p]}
    BY <1>2, <1>5, <1>6 DEF RestOK
  <2>1. Complete(log, salt) = 0
    BY <1>4, CompleteOK, Sizes
  <2>2. log \in LogLeft /\ salt \in saltDisk
    BY <1>1, LeftIs DEF FilesOK, HeldOK, TypesOK
  <2>3. platter[p] = {db[p]} \/ \E i \in 1 .. Complete(log, salt) : log[i].page = p
    BY <1>1, <2>2 DEF FilesOK, CoverOK
  <2> QED
    BY <2>1, <2>3
<1>10. RecentOK'
  <2>1. Stored' = Under(aHdr[0])'
    BY <1>4, <1>5, <1>7, StoredCurrentNext DEF ChainInv, ChainOK
  <2> QED
    BY <1>6, <2>1 DEF RecentOK
<1>11. \A d \in Conn : DiskOf(d)'
  BY <1>7 DEF DiskOf, CopyOK
<1> QED
  BY <1>8, <1>9, <1>10, <1>11 DEF DiskOK, FilesOK

-----------------------------------------------------------------------------
(* The log is synced. *)

\* Nothing else is left then than the files as they are.
LEMMA FilesSynced ==
  ASSUME TypesOK, TypesOK', FilesOK, ChainInv, aHdr[0].init, SyncLog,
         UNCHANGED <<db, platter, log, salt, aHdr, aPgno, nBackfill>>, recent' = {Current}
  PROVE  FilesOK' /\ LogLeft' = {log}
<1>1. /\ \A i \in Slot : logDisk'[i] = {log[i]}
      /\ saltDisk' = {salt}
  BY DEF SyncLog
<1>2. log \in [Slot -> FrameT]
  BY DEF TypesOK
<1>3. LogLeft' = {log}
  BY <1>1, LeftAloneNext
<1>4. log \in LogLeft /\ salt \in saltDisk
  BY <1>2, LeftIs DEF FilesOK, HeldOK
<1>5. Stored' = Stored /\ Under(aHdr[0])' = Under(aHdr[0])
  BY DEF Stored, Under, Held
<1>6. HeldOK'
  BY <1>1 DEF FilesOK, HeldOK
<1>7. ShortOK'
  <2>1. \A s : Complete(log, s) <= Complete(log, s)
    BY CompleteOK, Sizes
  <2> QED
    BY <1>3, <2>1 DEF ShortOK
<1>8. ImagesOK'
  BY <1>1, <1>3, <1>5 DEF ImagesOK, Stored
<1>9. CoverOK'
  BY <1>1, <1>3, <1>4 DEF FilesOK, CoverOK
<1>10. PendingOK' /\ RestOK'
  BY <1>1 DEF FilesOK, PendingOK, RestOK
<1>11. RecentOK'
  BY <1>5 DEF RecentOK, Current
<1> QED
  BY <1>3, <1>6, <1>7, <1>8, <1>9, <1>10, <1>11 DEF FilesOK

\* What stays on the disk was there before.
LEMMA StaleSynced ==
  ASSUME FilesOK, SyncLog, NEW d \in Conn, StaleDiskOK(d), UNCHANGED <<log, aHdr>>,
         dirty'[d] = dirty[d], Written(d)' = Written(d), Publishing(d) => Publishing(d)'
  PROVE  StaleDiskOK(d)'
<1>1. \A i \in Slot : logDisk'[i] = {log[i]} /\ log[i] \in logDisk[i]
  BY DEF SyncLog, FilesOK, HeldOK
<1> SUFFICES ASSUME NEW n \in Slot, log[n].last, ~Own(d, n, log[n])'
             PROVE  \A j \in DOMAIN log[n].sum :
                      /\ \A p \in Page : dirty[d][p] # NoPage => log[n].sum[j][2] # dirty[d][p]
                      /\ Written(d) > aHdr[0].mx => log[n].sum[j][2] # log[aHdr[0].mx + 1].val
  BY <1>1 DEF StaleDiskOK
<1>2. ~Own(d, n, log[n])
  BY DEF Own
<1> QED
  BY <1>1, <1>2 DEF StaleDiskOK

LEMMA SyncHeaderDisk ==
  ASSUME DiskInv, ChainInv', NEW c \in Conn, SyncHeader(c), recent' = {Current}
  PROVE  DiskOK'
<1>1. /\ SyncHeaderDoes(c) /\ OthersStay(c) /\ TypesOK /\ BaseOK /\ FilesOK /\ PointOK(c)
      /\ DiskOf(c) /\ ChainInv /\ TypesOK'
  BY Known, SyncHeaderEffect DEF DiskInv, ChainInv, ContInv, MarkInv, BaseOK
<1>2. /\ pc[c] = "headersync" /\ pc'[c] = "append" /\ call'[c] = call[c]
      /\ wal'[c] = wal[c] /\ job'[c] = job[c] /\ dirty'[c] = dirty[c] /\ SyncLog
      /\ UNCHANGED <<db, platter, log, salt, aHdr, aPgno, nBackfill>>
  BY <1>1
  DEF SyncHeaderDoes, Moves, SameCall, SameWal, SameJob, SameCache, dbVars, shmVars
<1>3. aHdr[0].init /\ useWal(c)
  BY <1>1, <1>2, Known, AroundOK DEF Waiting, PointOK, Alone
<1>4. FilesOK' /\ LogLeft' = {log}
  BY <1>1, <1>2, <1>3, FilesSynced
<1>5. /\ Writing(c) /\ Written(c)' = Written(c) /\ ~Publishing(c)
      /\ \A d \in Conn \ {c} : ~Writing(d)
  <2>1. Writing(c)
    BY <1>2 DEF Writing, WritePoints
  <2>2. job[c].iFrame = wal[c].hdr.mx
    BY <1>1, <1>2, <1>3, EarlyKnows DEF Logged
  <2> QED
    BY <1>1, <1>2, <2>1, <2>2, Rivals DEF Written, Publishing
<1>6. SyncedOK(c)'
  <2>1. SyncedOK(c)
    BY <1>1, <1>5 DEF DiskOf
  <2> QED
    BY <1>2, <1>5, <2>1 DEF SyncedOK, SyncLog
<1>7. StaleDiskOK(c)'
  BY <1>1, <1>2, <1>5, StaleSynced DEF DiskOf
<1>8. DiskOf(c)'
  BY <1>2, <1>6, <1>7 DEF DiskOf, CopyOK, FreshOK
<1>9. ASSUME NEW d \in Conn \ {c}
      PROVE  DiskOf(d)'
  <2>1. ~Writing(d) /\ Stays(d) /\ CopyOK(d)
    BY <1>1, <1>5 DEF DiskInv, OthersStay, DiskOK, DiskOf
  <2>2. ~Writing(d)'
    BY <2>1 DEF Stays, Writing, useWal
  <2>3. CopyOK(d)'
    <3>1. log \in LogLeft
      BY <1>1, LeftIs DEF FilesOK, HeldOK, TypesOK
    <3> QED
      BY <1>2, <1>4, <2>1, <3>1 DEF CopyOK, Stays, SyncLog
  <2> QED
    BY <2>2, <2>3 DEF DiskOf
<1> QED
  BY <1>4, <1>8, <1>9 DEF DiskOK

LEMMA LockZeroDisk ==
  ASSUME DiskInv, ChainInv', NEW c \in Conn, LockZero(c), recent' = {Current}
  PROVE  DiskOK'
<1>1. /\ LockZeroDoes(c) /\ OthersStay(c) /\ TypesOK /\ BaseOK /\ FilesOK /\ PointOK(c)
      /\ TaskOK(c) /\ CkptOK(c) /\ Numbers(c) /\ aHdr[0].mx \in 0 .. MaxFrame
      /\ nBackfill \in 0 .. MaxFrame /\ ChainInv /\ TypesOK'
  BY Known, LockZeroEffect DEF DiskInv, ChainInv, ContInv, MarkInv, BaseOK, Around
<1>2. /\ pc[c] = "ckzero" /\ pc'[c] = "ckcopy" /\ call'[c] = call[c]
      /\ SyncLog /\ nBackfill < job[c].mark /\ job'[c].mark = job[c].mark
      /\ UNCHANGED <<db, platter, log, salt, aHdr, aPgno, nBackfill>>
  BY <1>1
  DEF LockZeroDoes, Moves, SameCall, JobIs, LogSynced, dbVars, shmVars
<1>3. aHdr[0].init /\ call[c] = "ckpt"
  BY <1>1, <1>2, Known, AroundOK DEF Waiting, PointOK, CkPoints
<1>4. FilesOK' /\ LogLeft' = {log}
  BY <1>1, <1>2, <1>3, FilesSynced
<1>5. ~Writing(c)'
  BY <1>2, <1>3 DEF Writing, WritePoints, useWal
<1>6. CopyOK(c)'
  <2>1. job[c].mark <= wal[c].hdr.mx /\ wal[c].hdr.mx <= aHdr[0].mx
    BY <1>1, <1>2 DEF TaskOK, CkptOK
  <2>2. job[c].mark <= aHdr[0].mx /\ aHdr[0].mx > 0
    BY <1>1, <1>2, <2>1, Sizes DEF Numbers
  <2>3. Complete(log, salt) >= aHdr[0].mx
    BY <1>3, <2>2, HeaderSynced
  <2>4. Complete(log, salt) >= job[c].mark
    BY <1>1, <2>2, <2>3, CompleteOK, Sizes DEF Numbers
  <2> QED
    BY <1>2, <1>4, <2>4 DEF CopyOK, SyncLog
<1>7. ASSUME NEW d \in Conn \ {c}
      PROVE  DiskOf(d)'
  <2>1. Stays(d) /\ DiskOf(d)
    BY <1>1 DEF DiskInv, OthersStay, DiskOK
  <2>2. /\ Writing(d)' <=> Writing(d)
        /\ Written(d)' = Written(d)
        /\ Publishing(d)' <=> Publishing(d)
    BY <2>1 DEF Stays, Writing, useWal, Written, Publishing
  <2>3. CopyOK(d)'
    <3>1. log \in LogLeft
      BY <1>1, LeftIs DEF FilesOK, HeldOK, TypesOK
    <3> QED
      BY <1>2, <1>4, <2>1, <3>1 DEF DiskOf, CopyOK, Stays, SyncLog
  <2>4. SyncedOK(d) => SyncedOK(d)'
    BY <1>2, <2>1, <2>2 DEF SyncedOK, Stays, SyncLog
  <2>5. FreshOK(d) => FreshOK(d)'
    BY <1>1, <1>2, <2>1 DEF FreshOK, Stays, SyncLog, FilesOK, HeldOK
  <2>6. StaleDiskOK(d) => StaleDiskOK(d)'
    BY <1>1, <1>2, <2>1, <2>2, StaleSynced DEF Stays
  <2> QED
    BY <2>1, <2>2, <2>3, <2>4, <2>5, <2>6 DEF DiskOf
<1> QED
  BY <1>4, <1>5, <1>6, <1>7 DEF DiskOK, DiskOf

-----------------------------------------------------------------------------
(* The header of a new log, which may be on the disk or not. *)

\* Before the first commit no log that is left has one.
LEMMA NoneLeft ==
  ASSUME DiskInv, aHdr[0].init, aHdr[0].mx = 0, \A d \in Conn : ~Publishing(d),
         NEW s \in 1 .. MaxSalt, s = aHdr[0].salt \/ s \notin Salts, NEW l \in LogLeft
  PROVE  Complete(l, s) = 0
<1>1. TypesOK /\ FileOK /\ FilesOK
  BY DEF DiskInv, DiskOK, ChainInv, ChainOK, ContInv, MarkInv, BaseOK
<1>2. CASE s \notin Salts
  <2>1. \A i \in Slot : \A f \in logDisk[i] : f.salt # s
    <3>1. \A i \in Slot : \A f \in logDisk[i] : f \in UNION {logDisk[j] : j \in Slot}
      OBVIOUS
    <3> QED
      BY <1>2, <3>1 DEF Salts
  <2> QED
    BY <1>1, <2>1, NoneRead
<1>3. CASE s = aHdr[0].salt
  <2>1. s # 0
    BY Sizes
  <2>2. NoneBeyond(s, 0)
    BY <1>1, <1>3, <2>1 DEF FileOK
  <2>3. Complete(log, s) = 0
    <3>1. /\ Complete(log, s) \in 0 .. MaxFrame
          /\ Complete(log, s) # 0 =>
               Valid(log, s, Complete(log, s)) /\ log[Complete(log, s)].last
      BY CompleteOK
    <3> QED
      BY <2>2, <3>1, Sizes DEF NoneBeyond, Slot
  <2>4. Complete(l, s) <= 0 /\ Complete(l, s) \in 0 .. MaxFrame
    BY <1>1, <1>3, <2>3, CompleteOK DEF FilesOK, ShortOK
  <2> QED
    BY <2>4, Sizes
<1> QED
  BY <1>2, <1>3

LEMMA WriteHeaderDisk ==
  ASSUME DiskInv, ChainInv', NEW c \in Conn, WriteHeader(c), recent' = recent
  PROVE  DiskOK'
<1>1. /\ WriteHeaderDoes(c) /\ OthersStay(c) /\ TypesOK /\ DiskOf(c) /\ Numbers(c)
      /\ WriterHdrOK(c) /\ aHdr[0].mx \in 0 .. MaxFrame /\ nBackfill \in 0 .. MaxFrame
      /\ FilesOK /\ FileOK /\ BaseOK /\ ChainInv
  BY Known, WriteHeaderEffect DEF Around, DiskInv
<1>2. /\ pc[c] = "header" /\ pc'[c] = "headersync" /\ dirty'[c] = dirty[c]
      /\ call'[c] = call[c]
      /\ UNCHANGED <<db, platter, log, logDisk, aHdr, aPgno, nBackfill>>
  BY <1>1 DEF WriteHeaderDoes, Moves, SameCache, SameCall, dbVars, shmVars
<1>3. PICK s \in 1 .. MaxSalt :
        /\ s = wal[c].hdr.salt \/ s \notin Salts
        /\ salt' = s /\ saltDisk' = saltDisk \cup {s, 0}
        /\ wal'[c].hdr.mx = wal[c].hdr.mx
  BY <1>1 DEF WriteHeaderDoes, WalIs
<1>4. /\ Writing(c) /\ ~Publishing(c) /\ wal[c].hdr.mx = 0 /\ aHdr[0].mx = 0
      /\ wal[c].hdr = aHdr[0] /\ aHdr[0].init
  <2>1. Writing(c) /\ ~Publishing(c) /\ wal[c].hdr.mx = 0
    BY <1>1, <1>2 DEF Writing, WritePoints, Publishing, WriterHdrOK
  <2>2. aHdr[0].mx = 0
    BY <1>1, <1>2, <2>1, Sizes DEF WriterHdrOK
  <2> QED
    BY <1>1, <1>2, <2>1, <2>2, Known, AroundOK DEF WriterHdrOK, Waiting
<1>5. \A d \in Conn : ~Publishing(d)
  BY <1>1, <1>4, NobodyPublishes
<1>6. \A l \in LogLeft : Complete(l, s) = 0
  BY <1>3, <1>4, <1>5, NoneLeft
<1>7. log \in LogLeft /\ LogLeft' = LogLeft /\ Complete(log, s) = 0
  <2>1. log \in LogLeft
    BY <1>1, LeftIs DEF FilesOK, HeldOK, TypesOK
  <2> QED
    BY <1>2, <1>6, <2>1, LeftStays
<1>8. Stored = db /\ db = [p \in Page |-> db[p]]
  BY <1>1, <1>4, <1>5 DEF FileOK, Stored, TypesOK, TypeOK
<1>9. Stored' = db
  BY <1>2, <1>3, <1>7, <1>8, FoundNothing DEF Stored
<1>10. HeldOK'
  BY <1>1, <1>2, <1>3 DEF FilesOK, HeldOK
<1>11. ShortOK'
  <2>1. \A l \in LogLeft : Complete(l, s) <= Complete(log, s)
    BY <1>6, <1>7
  <2> QED
    BY <1>1, <1>2, <1>3, <1>7, <2>1 DEF FilesOK, ShortOK
<1>12. ImagesOK'
  <2> SUFFICES ASSUME NEW l \in LogLeft, NEW t \in saltDisk \cup {s, 0}
               PROVE  Found(db, l, t) \in recent \cup {db}
    BY <1>2, <1>3, <1>7, <1>9 DEF ImagesOK
  <2>1. CASE t \in saltDisk
    BY <1>1, <1>8, <2>1 DEF FilesOK, ImagesOK
  <2>2. CASE t \in {s, 0}
    <3>1. Complete(l, t) = 0
      BY <1>6, <2>2 DEF Complete
    <3> QED
      BY <1>8, <3>1, FoundNothing
  <2> QED
    BY <2>1, <2>2
<1>13. \A p \in Page : platter[p] = {db[p]}
  BY <1>1, <1>4, Sizes DEF FilesOK, RestOK
<1>14. CoverOK' /\ PendingOK' /\ RestOK'
  BY <1>2, <1>3, <1>7, <1>13 DEF CoverOK, PendingOK, RestOK
<1>15. RecentOK'
  <2>1. Under(aHdr[0])' = Under(aHdr[0])
    BY <1>2 DEF Under, Held
  <2> QED
    BY <1>1, <1>2, <2>1 DEF FilesOK, RecentOK
<1>16. ASSUME NEW d \in Conn \ {c}
       PROVE  DiskOf(d)'
  <2>1. ~Writing(d) /\ Stays(d)
    BY <1>1, <1>4, Rivals DEF OthersStay
  <2>2. ~Writing(d)'
    BY <2>1 DEF Stays, Writing, useWal
  <2>3. pc[d] # "ckcopy"
    <3>1. /\ TaskOK(d) /\ CkptOK(d) /\ job[d].mark \in 0 .. MaxFrame
          /\ wal[d].hdr.mx \in 0 .. MaxFrame
      BY Known DEF Numbers
    <3> QED
      BY <1>1, <1>4, <3>1, Sizes DEF TaskOK, CkptOK
  <2> QED
    BY <2>1, <2>2, <2>3 DEF DiskOf, CopyOK, Stays
<1>17. DiskOf(c)'
  <2>1. SyncedOK(c)' /\ FreshOK(c)' /\ CopyOK(c)'
    BY <1>2, <1>3, <1>4, <1>7 DEF SyncedOK, Logged, FreshOK, CopyOK
  <2>2. Written(c)' = 0 /\ ~(Written(c)' > aHdr'[0].mx)
    BY <1>2, <1>3, <1>4 DEF Written
  <2>3. \A n \in Slot : \A g \in logDisk[n] : g.last =>
          \A j \in DOMAIN g.sum : \A p \in Page : dirty[c][p] # NoPage => g.sum[j][2] # dirty[c][p]
    BY <1>1, <1>4 DEF DiskOf, StaleDiskOK, Own
  <2>4. StaleDiskOK(c)'
    BY <1>2, <2>2, <2>3 DEF StaleDiskOK
  <2> QED
    BY <2>1, <2>4 DEF DiskOf
<1> QED
  BY <1>10, <1>11, <1>12, <1>14, <1>15, <1>16, <1>17 DEF DiskOK, FilesOK

-----------------------------------------------------------------------------
(* A checkpoint writes to the database. *)

\* A page is copied that every log on the disk has.
LEMMA CopyPageDisk ==
  ASSUME DiskInv, ChainInv', NEW c \in Conn, CopyPage(c), recent' = recent
  PROVE  DiskOK'
<1> DEFINE p == Min(ToCopy(c))
           i == job[c].iter[p]
<1>1. /\ CopyPageDoes(c) /\ OthersStay(c) /\ TypesOK /\ DiskOf(c) /\ Numbers(c)
      /\ TaskOK(c) /\ CkptOK(c) /\ PointOK(c) /\ ContInv /\ MarkInv
      /\ aHdr[0].mx \in 0 .. MaxFrame /\ nBackfill \in 0 .. MaxFrame /\ FilesOK
  BY Known, CopyPageEffect DEF Around
<1>2. /\ pc[c] = "ckcopy" /\ pc'[c] = "ckcopy" /\ call'[c] = call[c]
      /\ job'[c].mark = job[c].mark /\ p \in Page /\ i # 0
      /\ UNCHANGED <<logVars, aHdr, aPgno, nBackfill>>
  BY <1>1 DEF CopyPageDoes, Moves, SameCall, JobIs, shmVars, ToCopy
<1>3. /\ db'[p] = log[i].val /\ platter'[p] = platter[p] \cup {log[i].val, Torn}
      /\ \A q \in Page \ {p} : db'[q] = db[q] /\ platter'[q] = platter[q]
  BY <1>1, <1>2 DEF CopyPageDoes, TypesOK, TypeOK
<1>4. /\ i = Last(wal[c].hdr.mx, p) /\ i \in nBackfill + 1 .. job[c].mark
  BY <1>1, <1>2 DEF ContInv, ContentsOK, ContentOf, IterOK
<1>5. /\ job[c].mark <= wal[c].hdr.mx /\ wal[c].hdr.mx <= aHdr[0].mx /\ nBackfill < job[c].mark
  BY <1>1, <1>2 DEF TaskOK, CkptOK
<1>6. i \in 1 .. job[c].mark /\ i \in 1 .. aHdr[0].mx /\ ~(nBackfill >= aHdr[0].mx)
  BY <1>1, <1>4, <1>5, Sizes DEF Numbers
<1>7. log[i].page = p
  <2>1. aPgno[i] = p
    BY <1>1, <1>2, <1>4, LastIn DEF Numbers
  <2> QED
    BY <1>1, <1>6, <2>1 DEF ContInv, ContentsOK, IndexOK
<1> HIDE DEF i, p
<1>8. /\ LogLeft' = LogLeft /\ log \in LogLeft
      /\ UNCHANGED <<log, logDisk, salt, saltDisk>> /\ saltDisk = {salt}
  <2>1. log \in LogLeft
    BY <1>1, LeftIs DEF FilesOK, HeldOK, TypesOK
  <2> QED
    BY <1>1, <1>2, <2>1, LeftStays DEF DiskOf, CopyOK, logVars
<1>9. \A l \in LogLeft : i \in 1 .. Complete(l, salt) /\ l[i].page = p
  <2>1. ASSUME NEW l \in LogLeft
        PROVE  i \in 1 .. Complete(l, salt) /\ l[i].page = p
    <3>1. Complete(l, salt) >= job[c].mark /\ l[i] = log[i]
      BY <1>1, <1>2, <1>6 DEF DiskOf, CopyOK
    <3>2. Complete(l, salt) \in 0 .. MaxFrame
      BY CompleteOK
    <3> QED
      BY <1>1, <1>6, <1>7, <3>1, <3>2, Sizes DEF Numbers
  <2> QED
    BY <2>1
<1>10. \A l \in LogLeft : Found(db', l, salt) = Found(db, l, salt)
  <2>1. ASSUME NEW l \in LogLeft
        PROVE  Found(db', l, salt) = Found(db, l, salt)
    <3>1. \A q \in Page : db'[q] = db[q] \/ \E j \in 1 .. Complete(l, salt) : l[j].page = q
      BY <1>3, <1>9
    <3> QED
      BY <3>1, FoundSame
  <2> QED
    BY <2>1
<1>11. Stored' = Stored
  BY <1>8, <1>10 DEF Stored
<1>12. HeldOK'
  BY <1>1, <1>3, <1>8 DEF FilesOK, HeldOK
<1>13. ShortOK' /\ PendingOK'
  BY <1>1, <1>2, <1>8 DEF FilesOK, ShortOK, PendingOK
<1>14. ImagesOK'
  BY <1>1, <1>8, <1>10, <1>11 DEF FilesOK, ImagesOK
<1>15. CoverOK'
  <2> SUFFICES ASSUME NEW l \in LogLeft, NEW q \in Page
               PROVE  platter'[q] = {db'[q]} \/ \E j \in 1 .. Complete(l, salt) : l[j].page = q
    BY <1>8 DEF CoverOK
  <2>1. platter[q] = {db[q]} \/ \E j \in 1 .. Complete(l, salt) : l[j].page = q
    BY <1>1, <1>8 DEF FilesOK, CoverOK
  <2> QED
    BY <1>3, <1>9, <2>1
<1>16. RestOK'
  BY <1>2, <1>6 DEF RestOK
<1>17. RecentOK'
  <2>1. Under(aHdr[0])' = Under(aHdr[0])
    BY <1>1, CopyPageContents DEF ChainInv, ContInv, MarkInv
  <2> QED
    BY <1>1, <1>2, <2>1 DEF FilesOK, RecentOK
<1>18. ASSUME NEW d \in Conn \ {c}
       PROVE  DiskOf(d)'
  <2>1. Stays(d) /\ DiskOf(d)
    BY <1>1 DEF DiskInv, DiskOK, OthersStay
  <2> QED
    BY <1>2, <1>8, <2>1, OthersDisk
<1>19. DiskOf(c)'
  <2>1. call[c] = "ckpt"
    BY <1>1, <1>2 DEF PointOK, CkPoints
  <2>2. ~Writing(c)'
    BY <1>2, <2>1 DEF Writing, WritePoints, useWal
  <2>3. CopyOK(c)'
    BY <1>1, <1>2, <1>8 DEF DiskOf, CopyOK
  <2> QED
    BY <2>2, <2>3 DEF DiskOf
<1> QED
  BY <1>12, <1>13, <1>14, <1>15, <1>16, <1>17, <1>18, <1>19 DEF DiskOK, FilesOK

LEMMA BackfilledDisk ==
  ASSUME DiskInv, ChainInv', NEW c \in Conn, Backfilled(c), recent' = recent
  PROVE  DiskOK'
<1>1. /\ BackfilledDoes(c) /\ OthersStay(c) /\ TypesOK /\ Numbers(c)
      /\ TaskOK(c) /\ CkptOK(c) /\ PointOK(c)
      /\ aHdr[0].mx \in 0 .. MaxFrame /\ nBackfill \in 0 .. MaxFrame /\ FilesOK
  BY Known, BackfilledEffect DEF Around
<1>2. /\ pc[c] = "ckcopy" /\ pc'[c] = "ckend" /\ call'[c] = call[c]
      /\ UNCHANGED <<db, logVars, aHdr, aPgno>> /\ nBackfill' = job[c].mark
      /\ platter' = IF job[c].mark = aHdr[0].mx THEN [p \in Page |-> {db[p]}] ELSE platter
  BY <1>1 DEF BackfilledDoes, Moves, SameCall
<1>3. job[c].mark <= wal[c].hdr.mx /\ wal[c].hdr.mx <= aHdr[0].mx
  BY <1>1, <1>2 DEF TaskOK, CkptOK
<1>4. job[c].mark >= aHdr[0].mx => job[c].mark = aHdr[0].mx
  BY <1>1, <1>3, Sizes DEF Numbers
<1>5. \A p \in Page : platter'[p] = {db[p]} \/ platter'[p] = platter[p]
  BY <1>2
<1>6. /\ LogLeft' = LogLeft /\ Stored' = Stored /\ UNCHANGED <<log, logDisk, salt, saltDisk>>
  BY <1>2, LeftStays DEF Stored, logVars
<1>7. HeldOK' /\ ShortOK' /\ PendingOK' /\ ImagesOK'
  BY <1>1, <1>2, <1>5, <1>6 DEF FilesOK, HeldOK, ShortOK, PendingOK, ImagesOK
<1>8. CoverOK'
  BY <1>1, <1>2, <1>5, <1>6 DEF FilesOK, CoverOK
<1>9. RestOK'
  BY <1>2, <1>4 DEF RestOK
<1>10. RecentOK'
  <2>1. Under(aHdr[0])' = Under(aHdr[0])
    BY <1>2, <1>6 DEF Under, Held
  <2> QED
    BY <1>1, <1>2, <2>1 DEF FilesOK, RecentOK
<1>11. ASSUME NEW d \in Conn \ {c}
       PROVE  DiskOf(d)'
  <2>1. Stays(d) /\ DiskOf(d)
    BY <1>1 DEF DiskInv, DiskOK, OthersStay
  <2> QED
    BY <1>2, <1>6, <2>1, OthersDisk
<1>12. DiskOf(c)'
  <2>1. call[c] = "ckpt"
    BY <1>1, <1>2 DEF PointOK, CkPoints
  <2> QED
    BY <1>2, <2>1 DEF DiskOf, CopyOK, Writing, WritePoints, useWal
<1> QED
  BY <1>7, <1>8, <1>9, <1>10, <1>11, <1>12 DEF DiskOK, FilesOK

-----------------------------------------------------------------------------
(* The end of the process, and of the power. *)

LEMMA CrashDisk ==
  ASSUME DiskInv, Crash, recent' = recent
  PROVE  DiskOK'
<1>1. FilesOK
  BY DEF DiskInv, DiskOK
<1>2. UNCHANGED <<db, platter, log, logDisk, salt, saltDisk>>
  BY DEF Crash, dbVars, logVars
<1>3. ~aHdr'[0].init /\ aHdr'[0].salt = 0
  BY DEF Crash, Forget, NoHdr
<1>4. LogLeft' = LogLeft /\ Stored' = Stored
  BY <1>2, LeftStays DEF Stored
<1>5. HeldOK' /\ ImagesOK' /\ CoverOK' /\ PendingOK' /\ RestOK' /\ RecentOK'
  BY <1>1, <1>2, <1>3, <1>4
  DEF FilesOK, HeldOK, ImagesOK, CoverOK, PendingOK, RestOK, RecentOK
<1>6. ShortOK'
  <2>1. \A l : Complete(l, 0) <= Complete(log, 0)
    BY DEF Complete
  <2> QED
    BY <1>1, <1>2, <1>3, <1>4, <2>1 DEF FilesOK, ShortOK
<1>7. \A d \in Conn : ~Writing(d)' /\ pc'[d] # "ckcopy"
  BY DEF Crash, Forget, Writing, WritePoints, useWal
<1> QED
  BY <1>5, <1>6, <1>7 DEF DiskOK, FilesOK, DiskOf, CopyOK

\* A disk that holds the files and nothing else.
OnlyFiles ==
  /\ \A i \in Slot : logDisk[i] = {log[i]}
  /\ \A p \in Page : platter[p] = {db[p]}
  /\ saltDisk = {salt}

LEMMA FilesAlone ==
  TypesOK /\ OnlyFiles /\ ~aHdr[0].init => FilesOK
<1> SUFFICES ASSUME TypesOK, OnlyFiles, ~aHdr[0].init
             PROVE  FilesOK
  OBVIOUS
<1>1. LogLeft = {log}
  BY LeftAlone DEF OnlyFiles
<1>2. \A s : Complete(log, s) <= Complete(log, s)
  BY CompleteOK, Sizes
<1>3. HeldOK /\ CoverOK /\ PendingOK /\ RestOK /\ RecentOK
  BY DEF OnlyFiles, HeldOK, CoverOK, PendingOK, RestOK, RecentOK
<1>4. ShortOK /\ ImagesOK
  BY <1>1, <1>2 DEF OnlyFiles, ShortOK, ImagesOK, Stored
<1> QED
  BY <1>3, <1>4 DEF FilesOK

LEMMA FilesAloneNext ==
  (TypesOK /\ OnlyFiles /\ ~aHdr[0].init => FilesOK)'
  BY FilesAlone, PTL

LEMMA PowerLossDisk ==
  ASSUME DiskInv, ChainInv', PowerLoss
  PROVE  DiskOK'
<1>1. TypesOK /\ TypesOK' /\ HdrOK /\ \A d \in Conn : PointOK(d)
  BY DEF DiskInv, ChainInv, ContInv, MarkInv, BaseOK, HdrsOK, OwnOK
<1>2. /\ UNCHANGED <<aHdr, pc, call>> /\ \A d \in Conn : pc[d] = "idle"
      /\ ~aHdr[1].init
  BY DEF PowerLoss, NoProcess, shmVars
<1>3. ~aHdr'[0].init
  BY <1>1, <1>2 DEF HdrOK
<1>4. OnlyFiles'
  BY DEF PowerLoss, OnlyFiles
<1>5. FilesOK'
  BY <1>1, <1>3, <1>4, FilesAloneNext
<1>6. \A d \in Conn : ~Writing(d)' /\ pc'[d] # "ckcopy"
  <2>1. \A d \in Conn : ~Writing(d)
    BY <1>1, <1>2, WaitingIsIdle DEF Waiting
  <2> QED
    BY <1>2, <2>1 DEF Writing, useWal
<1> QED
  BY <1>5, <1>6 DEF DiskOK, DiskOf, CopyOK

LEMMA InitDisk ==
  ASSUME Init, TypesOK
  PROVE  DiskOK
<1>1. OnlyFiles /\ ~aHdr[0].init
  BY DEF Init, OnlyFiles, NoHdr
<1>2. FilesOK
  BY <1>1, FilesAlone
<1>3. \A d \in Conn : ~Writing(d) /\ pc[d] # "ckcopy"
  BY DEF Init, Writing, WritePoints, useWal
<1> QED
  BY <1>2, <1>3 DEF DiskOK, DiskOf, CopyOK

LEMMA DiskUnchanged ==
  ASSUME DiskInv, UNCHANGED vars
  PROVE  DiskOK'
<1>1. /\ UNCHANGED <<db, platter, log, logDisk, salt, saltDisk, recent, aHdr, aPgno, nBackfill>>
      /\ \A d \in Conn : Stays(d)
  BY DEF vars, dbVars, logVars, shmVars, lockVars, Stays
<1>2. TypesOK /\ TypesOK'
  <2>1. TypesOK
    BY DEF DiskInv, ChainInv, ContInv, MarkInv, BaseOK
  <2> QED
    BY <2>1, BaseUnchanged DEF DiskInv, ChainInv, ContInv, MarkInv, BaseOK
<1>3. Calm
  BY <1>1 DEF Calm, FramesStay
<1>4. FilesOK'
  BY <1>2, <1>3, FilesCalm DEF DiskInv, DiskOK
<1>5. \A d \in Conn : DiskOf(d)'
  BY <1>1, OthersDisk DEF DiskInv, DiskOK
<1> QED
  BY <1>4, <1>5 DEF DiskOK

-----------------------------------------------------------------------------
(* A frame is written after those that are published. *)

\* Before its commit is complete no more can be read than what is published.
LEMMA WriterShort ==
  ASSUME DiskInv, NEW c \in Conn, pc[c] \in {"append", "rewrite"}
  PROVE  /\ useWal(c) /\ Writing(c) /\ ~Publishing(c) /\ aHdr[0].init /\ saltDisk = {salt}
         /\ \A d \in Conn : ~Publishing(d)
         /\ \A s \in {salt, aHdr[0].salt} : Complete(log, s) <= aHdr[0].mx
<1>1. /\ PointOK(c) /\ TypesOK /\ FileOK /\ WrittenOK(c) /\ DiskOf(c) /\ Numbers(c)
      /\ TaskOK(c) /\ WriterHdrOK(c) /\ aHdr[0].mx \in 0 .. MaxFrame /\ ChainInv
  BY Known DEF DiskInv
<1>2. useWal(c) /\ Writing(c) /\ ~Publishing(c)
  BY <1>1 DEF PointOK, Alone, Writing, Publishing
<1>3. aHdr[0].init
  BY Known, AroundOK DEF Waiting
<1>4. \A d \in Conn : ~Publishing(d)
  BY <1>1, <1>2, NobodyPublishes
<1>5. saltDisk = {salt}
  BY <1>1, <1>2 DEF DiskOf, SyncedOK, Logged
<1>6. \A s : Complete(log, s) \in 0 .. MaxFrame
  BY CompleteOK
<1>7. \A s : NoneBeyond(s, aHdr[0].mx) => Complete(log, s) <= aHdr[0].mx
  <2>1. ASSUME NEW s, NoneBeyond(s, aHdr[0].mx)
        PROVE  Complete(log, s) <= aHdr[0].mx
    <3> DEFINE n == Complete(log, s)
    <3>1. n # 0 => Valid(log, s, n) /\ log[n].last
      BY CompleteOK
    <3>2. n \in 0 .. MaxFrame
      BY <1>6
    <3> HIDE DEF n
    <3>3. n \in Slot => ~(n > aHdr[0].mx)
      BY <2>1, <3>1, <3>2, Sizes DEF NoneBeyond, Slot
    <3>4. n <= aHdr[0].mx
      BY <1>1, <3>2, <3>3, Sizes DEF Slot
    <3> QED
      BY <3>4 DEF n
  <2> QED
    BY <2>1
<1>8. Complete(log, aHdr[0].salt) <= aHdr[0].mx
  <2>1. CASE aHdr[0].salt = 0
    BY <1>1, <2>1, Sizes DEF Complete
  <2>2. CASE aHdr[0].salt # 0
    BY <1>1, <1>3, <1>4, <1>7, <2>2 DEF FileOK
  <2> QED
    BY <2>1, <2>2
<1>9. Complete(log, salt) <= aHdr[0].mx
  <2>1. CASE Written(c) > aHdr[0].mx
    BY <1>1, <1>2, <1>7, <2>1, NothingBeyond DEF WrittenOK
  <2>2. CASE ~(Written(c) > aHdr[0].mx)
    <3>1. CASE aHdr[0].mx > 0
      BY <1>1, <1>3, <1>8, <3>1 DEF FileOK
    <3>2. CASE ~(aHdr[0].mx > 0)
      <4>1. Written(c) = 0 /\ aHdr[0].mx = 0
        BY <1>1, <2>2, <3>2, Sizes DEF Written, Numbers
      <4>2. pc[c] = "append"
        BY <1>1, <4>1, Sizes DEF WriterHdrOK, Written
      <4> QED
        BY <1>1, <1>2, <4>1, <4>2, Sizes DEF DiskOf, SyncedOK
    <3> QED
      BY <3>1, <3>2
  <2> QED
    BY <2>1, <2>2
<1> QED
  BY <1>2, <1>3, <1>4, <1>5, <1>8, <1>9

\* The writer c writes frame i.
NewFrame(c, i) ==
  /\ DiskHas(i) /\ i > aHdr[0].mx
  /\ UNCHANGED <<db, platter, salt, saltDisk, aHdr, aPgno, nBackfill, recent>>
  /\ OthersStay(c)
  /\ pc[c] \in {"append", "rewrite"} /\ pc'[c] \in {"append", "rewrite", "publish"}

\* No commit can be read through that frame but the one it completes.
Harmless(c, i) ==
  \A l \in LogLeft', s \in {salt, aHdr[0].salt}, n \in Slot :
    /\ l[i] = log'[i] /\ n >= i /\ s # 0 /\ l[n].last /\ Valid(l, s, n)
    => n = i /\ Publishing(c)' /\ Written(c)' = i

\* But for this frame, what is left may have been left before.
LEMMA LeftBefore ==
  ASSUME DiskInv, ChainInv', NEW c \in Conn, NEW i, NewFrame(c, i), NEW l \in LogLeft'
  PROVE  /\ \E k \in LogLeft : \A j \in Slot \ {i} : k[j] = l[j]
         /\ l[i] \in {log'[i], NoFrame} \/ l \in LogLeft
<1>1. TypesOK /\ TypesOK' /\ HeldOK
  BY DEF DiskInv, DiskOK, FilesOK, ChainInv, ContInv, MarkInv, BaseOK
<1>2. /\ i \in Slot /\ logDisk'[i] = logDisk[i] \cup {log'[i], NoFrame}
      /\ \A j \in Slot \ {i} : logDisk'[j] = logDisk[j]
  BY DEF NewFrame, DiskHas
<1>3. l \in [Slot -> FrameT] /\ \A j \in Slot : l[j] \in logDisk'[j]
  BY <1>1, LeftIsNext
<1>4. log[i] \in FrameT /\ log[i] \in logDisk[i]
  BY <1>1, <1>2 DEF HeldOK, TypesOK
<1>5. PICK k : k = [l EXCEPT ![i] = log[i]]
  OBVIOUS
<1>6. k \in [Slot -> FrameT] /\ k[i] = log[i] /\ \A j \in Slot \ {i} : k[j] = l[j]
  BY <1>2, <1>3, <1>4, <1>5
<1>7. k \in LogLeft
  <2>1. \A j \in Slot : k[j] \in logDisk[j]
    BY <1>2, <1>3, <1>4, <1>6
  <2> QED
    BY <1>1, <1>6, <2>1, LeftIs
<1>8. l[i] \in logDisk[i] => l \in LogLeft
  BY <1>1, <1>2, <1>3, LeftIs
<1> QED
  BY <1>2, <1>3, <1>6, <1>7, <1>8

LEMMA PublisherKnowsNext ==
  (ChainInv => \A c \in Conn : Publishing(c) => Complete(log, salt) = Written(c))'
<1>1. ChainInv => \A c \in Conn : Publishing(c) => Complete(log, salt) = Written(c)
  BY PublisherKnows
<1> QED
  BY <1>1, PTL

\* What can be read of it ends before this frame, or is the commit it completes.
LEMMA LeftBound ==
  ASSUME DiskInv, ChainInv', NEW c \in Conn, NEW i, NewFrame(c, i), Harmless(c, i),
         NEW l \in LogLeft', NEW s \in {salt, aHdr[0].salt}
  PROVE  \/ Complete(l, s) < i
         \/ /\ Complete(l, s) = i /\ s = salt /\ Complete(log', salt) = i
            /\ \A j \in 1 .. i : l[j].page = log'[j].page /\ l[j].val = log'[j].val
<1> DEFINE n == Complete(l, s)
<1>1. /\ n \in 0 .. MaxFrame
      /\ n # 0 => s # 0 /\ Valid(l, s, n) /\ l[n].last
  BY CompleteOK
<1>2. /\ i \in Slot /\ i > aHdr[0].mx /\ aHdr[0].mx \in 0 .. MaxFrame /\ salt' = salt
      /\ \A t \in {salt, aHdr[0].salt} : Complete(log, t) <= aHdr[0].mx
      /\ \A k \in LogLeft : Complete(k, s) <= Complete(log, s)
  BY Known, WriterShort DEF NewFrame, DiskHas, FilesOK, ShortOK
<1> SUFFICES ASSUME ~(n < i)
             PROVE  /\ n = i /\ s = salt /\ Complete(log', salt) = i
                    /\ \A j \in 1 .. i : l[j].page = log'[j].page /\ l[j].val = log'[j].val
  OBVIOUS
<1>3. l \notin LogLeft
  BY <1>1, <1>2, CompleteOK, Sizes DEF Slot
<1> HIDE DEF n
<1>4. n >= i /\ n \in Slot /\ i \in 1 .. n /\ n # 0 /\ i \in Nat \ {0}
  BY <1>1, <1>2, Sizes DEF Slot
<1>5. l[i] # NoFrame
  BY <1>1, <1>4 DEF Valid, NoFrame
<1>6. l[i] = log'[i]
  BY <1>3, <1>5, LeftBefore
<1>7. n = i /\ Publishing(c)' /\ Written(c)' = i
  BY <1>1, <1>4, <1>6 DEF Harmless
<1>8. Complete(log', salt) = i
  BY <1>2, <1>7, PublisherKnowsNext
<1>9. Valid(log', salt, i)
  BY <1>4, <1>8, CompleteOK
<1>10. s = salt
  BY <1>1, <1>4, <1>6, <1>7, <1>9 DEF Valid
<1>11. /\ \A j \in 1 .. i : l[i].sum[j] = <<l[j].page, l[j].val, l[j].last>>
       /\ \A j \in 1 .. i : log'[i].sum[j] = <<log'[j].page, log'[j].val, log'[j].last>>
  BY <1>1, <1>4, <1>7, <1>9, SumAt
<1> QED
  BY <1>6, <1>7, <1>8, <1>10, <1>11

LEMMA FrameFiles ==
  ASSUME DiskInv, ChainInv', NEW c \in Conn, NEW i, NewFrame(c, i), Harmless(c, i)
  PROVE  FilesOK' /\ \A d \in Conn \ {c} : DiskOf(d)'
<1> DEFINE m == aHdr[0].mx
<1>1. /\ i \in Slot /\ i > m /\ m \in 0 .. MaxFrame /\ saltDisk = {salt}
      /\ UNCHANGED <<db, platter, salt, saltDisk, aHdr, aPgno, nBackfill, recent>>
      /\ \A j \in Slot \ {i} : log'[j] = log[j] /\ logDisk'[j] = logDisk[j]
      /\ logDisk'[i] = logDisk[i] \cup {log'[i], NoFrame}
      /\ \A t \in {salt, aHdr[0].salt} : Complete(log, t) <= m
      /\ Writing(c) /\ aHdr[0].init /\ \A d \in Conn : ~Publishing(d)
  BY Known, WriterShort DEF NewFrame, DiskHas
<1>2. /\ TypesOK /\ TypesOK' /\ FilesOK /\ ContInv /\ FileOK /\ BaseOK
      /\ \A d \in Conn : DiskOf(d)
  BY DEF DiskInv, DiskOK, ChainInv, ChainOK, ContInv, MarkInv, BaseOK
<1>3. \A l, t : Complete(l, t) \in 0 .. MaxFrame
  BY CompleteOK
<1>4. \A j \in 1 .. m : j \in Slot /\ log'[j] = log[j]
  BY <1>1, Sizes DEF Slot
<1>5. log \in LogLeft
  BY <1>2, LeftIs DEF FilesOK, HeldOK, TypesOK
<1>6. \A t \in {salt, aHdr[0].salt} : Complete(log, t) <= Complete(log', t)
  <2>1. ASSUME NEW t \in {salt, aHdr[0].salt}
        PROVE  Complete(log, t) <= Complete(log', t)
    <3>1. \A j \in 1 .. Complete(log, t) : log[j] = log'[j]
      BY <1>1, <1>3, <1>4, Sizes
    <3> QED
      BY <3>1, CommitShared
  <2> QED
    BY <2>1
<1>7. \A l \in LogLeft', t \in {salt, aHdr[0].salt} : \E k \in LogLeft :
        /\ \A j \in 1 .. i - 1 : j \in Slot /\ k[j] = l[j]
        /\ Complete(k, t) <= Complete(log, t) /\ Complete(k, t) < i
        /\ Complete(l, t) < i => Complete(l, t) = Complete(k, t)
  <2>1. ASSUME NEW l \in LogLeft', NEW t \in {salt, aHdr[0].salt}
        PROVE  \E k \in LogLeft :
                 /\ \A j \in 1 .. i - 1 : j \in Slot /\ k[j] = l[j]
                 /\ Complete(k, t) <= Complete(log, t) /\ Complete(k, t) < i
                 /\ Complete(l, t) < i => Complete(l, t) = Complete(k, t)
    <3>1. PICK k \in LogLeft : \A j \in Slot \ {i} : k[j] = l[j]
      BY LeftBefore
    <3>2. \A j \in 1 .. i - 1 : j \in Slot /\ k[j] = l[j]
      BY <1>1, <3>1, Sizes DEF Slot
    <3>3. Complete(k, t) <= Complete(log, t)
      BY <1>2 DEF FilesOK, ShortOK
    <3>4. Complete(k, t) < i /\ i \in Nat
      BY <1>1, <1>3, <3>3, Sizes DEF Slot
    <3>5. Complete(l, t) < i => Complete(l, t) = Complete(k, t)
      BY <3>2, <3>4, CommitSame
    <3> QED
      BY <3>2, <3>3, <3>4, <3>5
  <2> QED
    BY <2>1
<1>8. HeldOK'
  BY <1>1, <1>2 DEF FilesOK, HeldOK
<1>9. ShortOK'
  <2> SUFFICES ASSUME NEW l \in LogLeft', NEW t \in {salt, aHdr[0].salt}
               PROVE  Complete(l, t) <= Complete(log', t)
    BY <1>1 DEF ShortOK
  <2>1. CASE Complete(l, t) < i
    <3>1. Complete(l, t) <= Complete(log, t) /\ Complete(log, t) <= Complete(log', t)
      BY <1>6, <1>7, <2>1
    <3> QED
      BY <1>3, <3>1, Sizes
  <2>2. CASE Complete(l, t) = i /\ t = salt /\ Complete(log', salt) = i
    BY <1>1, <2>2, Sizes DEF Slot
  <2> QED
    BY <2>1, <2>2, LeftBound
<1>10. Stored \in recent
  <2>1. Stored = Under(aHdr[0])
    BY <1>1, <1>2, StoredIsUnder
  <2> QED
    BY <1>1, <1>2, <2>1 DEF FilesOK, RecentOK
<1>11. ImagesOK'
  <2> SUFFICES ASSUME NEW l \in LogLeft'
               PROVE  Found(db, l, salt) \in recent \cup {Stored'}
    BY <1>1 DEF ImagesOK
  <2>1. CASE Complete(l, salt) < i
    <3>1. PICK k \in LogLeft : /\ \A j \in 1 .. i - 1 : j \in Slot /\ k[j] = l[j]
                               /\ Complete(l, salt) = Complete(k, salt)
      BY <1>7, <2>1
    <3>2. \A j \in 1 .. Complete(l, salt) : l[j].page = k[j].page /\ l[j].val = k[j].val
      BY <1>1, <1>3, <2>1, <3>1, Sizes DEF Slot
    <3>3. Found(db, l, salt) = Found(db, k, salt)
      BY <3>1, <3>2, FoundSame
    <3>4. Found(db, k, salt) \in recent \cup {Stored}
      BY <1>1, <1>2 DEF FilesOK, ImagesOK
    <3> QED
      BY <1>10, <3>3, <3>4
  <2>2. CASE /\ Complete(l, salt) = i /\ Complete(log', salt) = i
             /\ \A j \in 1 .. i : l[j].page = log'[j].page /\ l[j].val = log'[j].val
    <3>1. Found(db, l, salt) = Found(db, log', salt)
      BY <2>2, FoundSame
    <3> QED
      BY <1>1, <3>1 DEF Stored
  <2> QED
    BY <2>1, <2>2, LeftBound
<1>12. CoverOK'
  <2> SUFFICES ASSUME NEW l \in LogLeft', NEW p \in Page
               PROVE  platter[p] = {db[p]} \/ \E j \in 1 .. Complete(l, salt) : l[j].page = p
    BY <1>1 DEF CoverOK
  <2>1. CASE Complete(l, salt) < i
    <3>1. PICK k \in LogLeft : /\ \A j \in 1 .. i - 1 : j \in Slot /\ k[j] = l[j]
                               /\ Complete(l, salt) = Complete(k, salt)
      BY <1>7, <2>1
    <3>2. \A j \in 1 .. Complete(l, salt) : l[j].page = k[j].page
      BY <1>1, <1>3, <2>1, <3>1, Sizes DEF Slot
    <3>3. platter[p] = {db[p]} \/ \E j \in 1 .. Complete(k, salt) : k[j].page = p
      BY <1>1, <1>2 DEF FilesOK, CoverOK
    <3> QED
      BY <3>1, <3>2, <3>3
  <2>2. CASE Complete(l, salt) = i /\ \A j \in 1 .. i : l[j].page = log'[j].page
    <3>1. platter[p] = {db[p]} \/ \E j \in 1 .. Complete(log, salt) : log[j].page = p
      BY <1>1, <1>2, <1>5 DEF FilesOK, CoverOK
    <3>2. ASSUME NEW j \in 1 .. Complete(log, salt), log[j].page = p
          PROVE  j \in 1 .. i /\ l[j].page = p
      <4>1. j \in 1 .. m
        BY <1>1, <1>3, Sizes
      <4>2. j \in 1 .. i
        BY <1>1, <4>1, Sizes DEF Slot
      <4> QED
        BY <1>4, <2>2, <3>2, <4>1, <4>2
    <3> QED
      BY <2>2, <3>1, <3>2
  <2> QED
    BY <2>1, <2>2, LeftBound
<1>13. PendingOK' /\ RestOK'
  BY <1>1, <1>2 DEF FilesOK, PendingOK, RestOK
<1>14. RecentOK'
  <2>1. FramesStay(m)
    BY <1>1, <1>4 DEF FramesStay
  <2>2. Under(aHdr[0])' = Under(aHdr[0])
    BY <1>1, <1>2, <2>1, UnderStays
  <2> QED
    BY <1>1, <1>2, <2>2 DEF FilesOK, RecentOK
<1>15. ASSUME NEW d \in Conn \ {c}
       PROVE  DiskOf(d)'
  <2>1. ~Writing(d) /\ Stays(d)
    BY <1>1, <1>2, Rivals DEF NewFrame, OthersStay
  <2>2. ~Writing(d)'
    BY <2>1 DEF Stays, Writing, useWal
  <2>3. CopyOK(d)'
    <3> SUFFICES ASSUME pc[d] = "ckcopy", NEW l \in LogLeft'
                 PROVE  /\ Complete(l, salt) >= job[d].mark
                        /\ \A j \in 1 .. job[d].mark : l[j] = log'[j]
      BY <1>1, <2>1 DEF CopyOK, Stays
    <3>1. job[d].mark \in 0 .. m
      <4>1. /\ TaskOK(d) /\ CkptOK(d) /\ job[d].mark \in 0 .. MaxFrame
            /\ wal[d].hdr.mx \in 0 .. MaxFrame
        BY Known DEF Numbers
      <4> QED
        BY <1>1, <4>1, Sizes DEF TaskOK, CkptOK
    <3>2. PICK k \in LogLeft : /\ \A j \in 1 .. i - 1 : j \in Slot /\ k[j] = l[j]
                               /\ Complete(l, salt) < i => Complete(l, salt) = Complete(k, salt)
      BY <1>7
    <3>3. Complete(k, salt) >= job[d].mark /\ \A j \in 1 .. job[d].mark : k[j] = log[j]
      BY <1>2 DEF DiskOf, CopyOK
    <3>4. \A j \in 1 .. job[d].mark : j \in 1 .. i - 1 /\ j \in 1 .. m
      BY <1>1, <3>1, Sizes DEF Slot
    <3>5. \A j \in 1 .. job[d].mark : l[j] = log'[j]
      BY <1>4, <3>2, <3>3, <3>4
    <3>6. Complete(l, salt) >= job[d].mark
      BY <1>1, <1>3, <3>1, <3>2, <3>3, LeftBound, Sizes DEF Slot
    <3> QED
      BY <3>5, <3>6
  <2> QED
    BY <2>2, <2>3 DEF DiskOf
<1> QED
  BY <1>8, <1>9, <1>11, <1>12, <1>13, <1>14, <1>15 DEF FilesOK


\* Under one checksum are the same pages.
LEMMA SumShared ==
  ASSUME NEW l, NEW k, NEW s, NEW t, NEW i \in Nat \ {0}, Valid(l, s, i), Valid(k, t, i),
         l[i].sum = k[i].sum
  PROVE  \A j \in 1 .. i : l[j].val = k[j].val
<1>1. \A j \in 1 .. i : l[i].sum[j] = <<l[j].page, l[j].val, l[j].last>>
  BY SumAt
<1>2. \A j \in 1 .. i : k[i].sum[j] = <<k[j].page, k[j].val, k[j].last>>
  BY SumAt
<1> QED
  BY <1>1, <1>2

\* What a new frame keeps: a commit mark only with the commit, and the page that tells
\* the writer's frames from those that other commits were sealed over.
NewMark(c, i) ==
  /\ \A q \in Page : dirty'[c][q] \in {dirty[c][q], NoPage}
  /\ log'[i].last => log'[i].sum = <<>> \/ (Publishing(c)' /\ Written(c)' = i)
  /\ \/ \E p \in Page : dirty[c][p] # NoPage /\ log'[aHdr[0].mx + 1].val = dirty[c][p]
     \/ Written(c) > aHdr[0].mx /\ log'[aHdr[0].mx + 1].val = log[aHdr[0].mx + 1].val

\* What is in it.
NewSum(c, i) ==
  \/ log'[i].sum = <<>> \/ Valid(log', salt, i) \/ log'[i] = log[i]
  \/ \E p \in Page : dirty[c][p] # NoPage /\ log'[i].val = dirty[c][p]

\* No other commit was sealed over what the writer changes or writes.
LEMMA NotSealedOver ==
  ASSUME DiskInv, NEW c \in Conn, NEW i, NewFrame(c, i), TypesOK', NEW l \in LogLeft', NEW s,
         NEW n \in Slot, n # i, l[n].last, Valid(l, s, n), NEW j \in 1 .. n
  PROVE  /\ \A p \in Page : dirty[c][p] # NoPage => l[j].val # dirty[c][p]
         /\ Written(c) > aHdr[0].mx => l[j].val # log[aHdr[0].mx + 1].val
<1>1. StaleDiskOK(c) /\ ~Publishing(c)
  BY Known, WriterShort DEF NewFrame, DiskOf
<1>2. l[n] \in logDisk[n]
  <2>1. l[n] \in logDisk'[n]
    BY LeftIsNext
  <2> QED
    BY <2>1 DEF NewFrame, DiskHas
<1>3. DOMAIN l[n].sum = 1 .. n /\ l[n].sum[j] = <<l[j].page, l[j].val, l[j].last>>
  BY SumAt, Sizes DEF Slot
<1>4. l[n].sum[j][2] = l[j].val
  BY <1>3
<1> QED
  BY <1>1, <1>2, <1>3, <1>4 DEF StaleDiskOK, Own

LEMMA FrameHarmless ==
  ASSUME DiskInv, ChainInv', NEW c \in Conn, NEW i, NewFrame(c, i), NewMark(c, i), NewSum(c, i)
  PROVE  Harmless(c, i)
<1> DEFINE m == aHdr[0].mx
<1>1. /\ TypesOK /\ TypesOK' /\ FilesOK /\ m \in 0 .. MaxFrame /\ i \in Slot /\ i > m
  BY Known DEF NewFrame, DiskHas, ChainInv, ContInv, MarkInv, BaseOK
<1> SUFFICES ASSUME NEW l \in LogLeft', NEW s \in {salt, aHdr[0].salt}, NEW n \in Slot,
                    l[i] = log'[i], n >= i, s # 0, l[n].last, Valid(l, s, n)
             PROVE  n = i /\ Publishing(c)' /\ Written(c)' = i
  BY DEF Harmless
<1>2. i \in Nat \ {0} /\ n \in Nat \ {0} /\ i \in 1 .. n /\ m + 1 \in 1 .. i /\ m + 1 \in 1 .. n
  BY <1>1, Sizes DEF Slot
<1>3. Valid(l, s, i)
  BY <1>2, ValidLess
<1>4. log'[i].sum # <<>>
  <2>1. DOMAIN l[i].sum = 1 .. i /\ 1 \in 1 .. i
    BY <1>2, <1>3, SumAt
  <2>2. DOMAIN << >> = {}
    OBVIOUS
  <2> QED
    BY <2>1, <2>2
<1>5. CASE n = i
  BY <1>4, <1>5 DEF NewMark
<1>6. CASE n # i
  <2>1. \A j \in 1 .. n : /\ \A p \in Page : dirty[c][p] # NoPage => l[j].val # dirty[c][p]
                          /\ Written(c) > m => l[j].val # log[m + 1].val
    BY <1>1, <1>6, NotSealedOver
  <2>2. l[m + 1].val # log'[m + 1].val
    BY <1>2, <2>1 DEF NewMark
  <2>3. ~Valid(log', salt, i)
    BY <1>2, <1>3, <2>2, SumShared
  <2>4. log'[i] # log[i]
    <3>1. SUFFICES ASSUME log'[i] = log[i]
                   PROVE  FALSE
      OBVIOUS
    <3>2. l \in LogLeft
      <4>1. l \in [Slot -> FrameT] /\ \A j \in Slot : l[j] \in logDisk'[j]
        BY <1>1, LeftIsNext
      <4>2. l[i] \in logDisk[i]
        BY <1>1, <3>1 DEF FilesOK, HeldOK
      <4>3. \A j \in Slot : l[j] \in logDisk[j]
        BY <4>1, <4>2 DEF NewFrame, DiskHas
      <4> QED
        BY <1>1, <4>1, <4>3, LeftIs
    <3>3. Complete(l, s) <= Complete(log, s) /\ Complete(log, s) <= m
      BY <1>1, <3>2, WriterShort DEF FilesOK, ShortOK, NewFrame
    <3>4. Complete(l, s) \in 0 .. MaxFrame /\ Complete(log, s) \in 0 .. MaxFrame
      BY CompleteOK
    <3>5. n > Complete(l, s)
      BY <1>1, <1>2, <3>3, <3>4, Sizes
    <3> QED
      BY <3>5, CompleteOK
  <2> QED
    BY <1>2, <1>4, <2>1, <2>3, <2>4 DEF NewSum
<1> QED
  BY <1>5, <1>6

LEMMA FrameStale ==
  ASSUME DiskInv, NEW c \in Conn, NEW i, NewFrame(c, i), NewMark(c, i)
  PROVE  StaleDiskOK(c)'
<1> DEFINE m == aHdr[0].mx
<1>1. /\ StaleDiskOK(c) /\ ~Publishing(c) /\ aHdr'[0].mx = m
      /\ logDisk'[i] = logDisk[i] \cup {log'[i], NoFrame}
      /\ \A j \in Slot \ {i} : logDisk'[j] = logDisk[j]
  BY Known, WriterShort DEF NewFrame, DiskHas, DiskOf
<1> SUFFICES ASSUME NEW n \in Slot, NEW g \in logDisk'[n], g.last, ~Own(c, n, g)',
                    NEW j \in DOMAIN g.sum
             PROVE  /\ \A p \in Page : dirty'[c][p] # NoPage => g.sum[j][2] # dirty'[c][p]
                    /\ Written(c)' > m => g.sum[j][2] # log'[m + 1].val
  BY <1>1 DEF StaleDiskOK
<1>2. CASE g \in logDisk[n]
  <2>1. /\ \A p \in Page : dirty[c][p] # NoPage => g.sum[j][2] # dirty[c][p]
        /\ Written(c) > m => g.sum[j][2] # log[m + 1].val
    BY <1>1, <1>2 DEF StaleDiskOK, Own
  <2> QED
    BY <2>1 DEF NewMark
<1>3. CASE n = i /\ g = log'[i]
  <2>1. g.sum = <<>>
    BY <1>3 DEF NewMark, Own
  <2> QED
    BY <2>1
<1>4. g # NoFrame
  BY DEF NoFrame
<1> QED
  BY <1>1, <1>2, <1>3, <1>4

\* A frame like that keeps what may be on the disk as it is to be.
LEMMA FrameDisk ==
  ASSUME DiskInv, ChainInv', NEW c \in Conn, NEW i, NewFrame(c, i), NewMark(c, i),
         NewSum(c, i), Written(c)' # 0
  PROVE  DiskOK'
<1>1. FilesOK' /\ \A d \in Conn \ {c} : DiskOf(d)'
  BY FrameHarmless, FrameFiles
<1>2. StaleDiskOK(c)'
  BY FrameStale
<1>3. saltDisk = {salt}
  BY WriterShort DEF NewFrame
<1>4. SyncedOK(c)' /\ FreshOK(c)' /\ CopyOK(c)'
  BY <1>3 DEF NewFrame, SyncedOK, FreshOK, CopyOK
<1> QED
  BY <1>1, <1>2, <1>4 DEF DiskOK, DiskOf

-----------------------------------------------------------------------------
(* The frames of a writer. *)

LEMMA WrittenNext ==
  ASSUME ChainInv', NEW c \in Conn, Writing(c)'
  PROVE  SealedOK(c)' /\ TypesOK'
  BY DEF ChainInv, ChainOK, WrittenOK, ContInv, MarkInv, BaseOK

LEMMA AppendDisk ==
  ASSUME DiskInv, ChainInv', NEW c \in Conn, LogPage(c), ~Rewritable(c, Next1(c)),
         recent' = recent
  PROVE  DiskOK'
<1> DEFINE p == Next1(c)
           w == job[c].iFrame
           i == job[c].iFrame + 1
           m == aHdr[0].mx
           x == Seen(c)[p]
<1>1. pc[c] = "append" /\ ChainInv
  BY DEF LogPage, DiskInv
<1>2. /\ useWal(c) /\ TypesOK /\ Around(c) /\ FirstOK(c)
      /\ Written(c) = w /\ w \in 0 .. MaxFrame
      /\ m \in 0 .. MaxFrame /\ m <= w /\ p \in Page /\ p \in job[c].todo
      /\ salt = wal[c].hdr.salt
  BY <1>1, LoggerKnows, Sizes
<1>3. LogPageDoes(c) /\ OthersStay(c) /\ TypesOK' /\ DiskHas(i)
  <2>1. PointOK(c) /\ TaskOK(c)
    BY <1>2 DEF Around, Before
  <2> QED
    BY <1>2, <2>1, LogPageEffect, LogPageDisk DEF FrameNow
<1>4. AppendOne(c, p)
  BY <1>3 DEF LogPageDoes, OverwriteOne
<1>5. /\ UNCHANGED <<db, platter, salt, saltDisk, aHdr, aPgno, nBackfill>>
      /\ dirty'[c] = dirty[c] /\ call'[c] = call[c]
      /\ pc'[c] = AfterPage(c, p) /\ wal'[c].hdr.salt = wal[c].hdr.salt
      /\ wal'[c].iReCksum = wal[c].iReCksum /\ job'[c].iFrame = i
      /\ i \in Slot /\ \A j \in Slot \ {i} : log'[j] = log[j]
  BY <1>3, <1>4
  DEF LogPageDoes, AppendOne, Moves, SameCall, dbVars, shmVars, WalIs, JobIs, OneFrame
<1>6. /\ log'[i].val = x /\ log'[i].last = Marked(c, p)
      /\ wal[c].iReCksum # 0 => log'[i].sum = <<>>
  BY <1>4 DEF AppendOne
<1>7. /\ pc'[c] \in {"append", "rewrite", "publish"} /\ Written(c)' = i
      /\ Marked(c, p) /\ wal[c].iReCksum = 0 => Publishing(c)'
  BY <1>5 DEF AfterPage, Written, Marked, Publishing
<1> HIDE DEF p, x
<1>8. NewFrame(c, i)
  BY <1>1, <1>2, <1>3, <1>5, <1>7, Sizes DEF NewFrame
<1>9. /\ w > m => m + 1 \in Slot \ {i}
      /\ ~(w > m) => m + 1 = i /\ w <= m
  BY <1>2, Sizes DEF Slot
<1>10. ~(w > m) => dirty[c][p] # NoPage /\ x = dirty[c][p]
  <2>1. ~(w > m) => dirty[c][p] # NoPage
    BY <1>1, <1>2, <1>9 DEF FirstOK, Dirty
  <2> QED
    BY <1>2, <2>1, SeenAt DEF x
<1>11. NewMark(c, i)
  BY <1>2, <1>5, <1>6, <1>7, <1>9, <1>10 DEF NewMark
<1>12. NewSum(c, i)
  <2>1. CASE wal[c].iReCksum = 0
    <3>1. SealedOK(c)'
      BY <1>2, <1>5, WrittenNext DEF Writing, useWal
    <3> QED
      BY <1>2, <1>5, <1>7, <2>1, <3>1 DEF SealedOK, NewSum
  <2>2. CASE wal[c].iReCksum # 0
    BY <1>6, <2>2 DEF NewSum
  <2> QED
    BY <2>1, <2>2
<1> QED
  BY <1>2, <1>7, <1>8, <1>11, <1>12, FrameDisk, Sizes

LEMMA OverwriteDisk ==
  ASSUME DiskInv, ChainInv', NEW c \in Conn, LogPage(c), Rewritable(c, Next1(c)),
         recent' = recent
  PROVE  DiskOK'
<1> DEFINE p == Next1(c)
           w == job[c].iFrame
           i == FindFrame(c, p)
           m == aHdr[0].mx
           x == Seen(c)[p]
<1>1. pc[c] = "append" /\ ChainInv
  BY DEF LogPage, DiskInv
<1>2. /\ useWal(c) /\ TypesOK /\ Around(c) /\ LastOK(c)
      /\ Written(c) = w /\ w \in 0 .. MaxFrame
      /\ m \in 0 .. MaxFrame /\ wal[c].hdr.mx \in 0 .. MaxFrame /\ wal[c].hdr.mx <= w
      /\ job[c].first # 0 => job[c].first = m + 1
      /\ p \in Page
  BY <1>1, LoggerKnows
<1>3. LogPageDoes(c) /\ OthersStay(c) /\ TypesOK' /\ DiskHas(i)
  <2>1. PointOK(c) /\ TaskOK(c)
    BY <1>2 DEF Around, Before
  <2> QED
    BY <1>2, <2>1, LogPageEffect, LogPageDisk DEF FrameNow
<1>4. OverwriteOne(c, p)
  BY <1>3 DEF LogPageDoes, AppendOne
<1>5. i \in Slot /\ i > m /\ i <= w /\ i \in m + 1 .. w
  <2>1. i \in 0 .. wal[c].hdr.mx /\ i >= job[c].first /\ job[c].first # 0
    BY <1>2, FindFrameIn DEF Rewritable
  <2> QED
    BY <1>2, <2>1, Sizes DEF Slot
<1>6. log[i] \in FrameT /\ DOMAIN dirty[c] = Page
  BY <1>2, <1>5, Types DEF TypesOK
<1>7. log'[i] = [page |-> log[i].page, val |-> x, last |-> log[i].last, salt |-> log[i].salt,
                 sum |-> log[i].sum]
  BY <1>4 DEF OverwriteOne
<1>8. x = log[i].val => log'[i] = log[i]
  BY <1>6, <1>7 DEF FrameT
<1> HIDE DEF i
<1>9. /\ UNCHANGED <<db, platter, salt, saltDisk, aHdr, aPgno, nBackfill>>
      /\ pc'[c] = AfterPage(c, p) /\ job'[c].iFrame = w
      /\ \A j \in Slot \ {i} : log'[j] = log[j]
      /\ \A q \in Page : dirty'[c][q] \in {dirty[c][q], NoPage}
  BY <1>3, <1>4, <1>6
  DEF LogPageDoes, OverwriteOne, Moves, SameCall, dbVars, shmVars, JobIs, OneFrame, i
<1>10. log'[i].val = x /\ ~log'[i].last
  <2>1. ~log[i].last
    BY <1>1, <1>2, <1>5 DEF LastOK, Logged
  <2> QED
    BY <1>7, <2>1
<1>11. pc'[c] \in {"append", "rewrite", "publish"} /\ Written(c)' = w
  BY <1>9 DEF AfterPage, Written
<1>12. NewFrame(c, i)
  BY <1>1, <1>2, <1>3, <1>5, <1>9, <1>11 DEF NewFrame
<1>13. (x = dirty[c][p] /\ dirty[c][p] # NoPage) \/ x = log[i].val
  <2>1. x = IF dirty[c][p] # NoPage THEN dirty[c][p]
            ELSE IF i = 0 THEN db[p] ELSE log[i].val
    BY <1>2, SeenAt DEF i
  <2> QED
    BY <1>5, <2>1, Sizes DEF Slot
<1> HIDE DEF p, x
<1>14. w > m /\ m + 1 \in Slot /\ w # 0
  BY <1>2, <1>5, Sizes DEF Slot
<1>15. NewMark(c, i)
  BY <1>2, <1>9, <1>10, <1>13, <1>14 DEF NewMark
<1>16. NewSum(c, i)
  BY <1>2, <1>8, <1>10, <1>13 DEF NewSum
<1> QED
  BY <1>11, <1>12, <1>14, <1>15, <1>16, FrameDisk

LEMMA RewriteChecksumDisk ==
  ASSUME DiskInv, ChainInv', NEW c \in Conn, RewriteChecksum(c), recent' = recent
  PROVE  DiskOK'
<1> DEFINE w == job[c].iFrame
           i == wal[c].iReCksum
           m == aHdr[0].mx
<1>1. /\ RewriteChecksumDoes(c) /\ OthersStay(c) /\ Around(c) /\ TypesOK /\ TypesOK'
      /\ WrittenOK(c)
  BY AroundOK, RewriteChecksumEffect, Known DEF Around, Before, ContInv
<1>2. /\ UNCHANGED <<db, platter, salt, saltDisk, aHdr, aPgno, nBackfill>>
      /\ dirty'[c] = dirty[c] /\ call'[c] = call[c] /\ job'[c] = job[c]
      /\ pc[c] = "rewrite" /\ pc'[c] = IF i = w THEN "publish" ELSE "rewrite"
      /\ i \in Slot /\ i <= w /\ \A j \in Slot \ {i} : log'[j] = log[j]
  BY <1>1
  DEF RewriteChecksumDoes, SameCache, SameCall, SameJob, Moves, dbVars, shmVars, OneFrame
<1>3. /\ log'[i].val = log[i].val /\ log'[i].last = log[i].last
      /\ wal'[c].hdr.salt = wal[c].hdr.salt
      /\ wal'[c].iReCksum = IF i = w THEN 0 ELSE i + 1
  BY <1>1 DEF RewriteChecksumDoes, WalIs
<1>4. useWal(c) /\ call[c] = "commit"
  BY <1>1, <1>2 DEF Around, Before, PointOK, Alone
<1>5. m \in 0 .. MaxFrame /\ w \in 0 .. MaxFrame /\ i > m /\ w > m /\ i \in m + 1 .. w
  <2>1. /\ m \in 0 .. MaxFrame /\ w \in 0 .. MaxFrame /\ i > m
    BY <1>1, <1>2, <1>4, Known, WriterKnows, Sizes
    DEF Around, Before, WriterHdrOK, Slot, Numbers, DiskInv, ChainInv
  <2> QED
    BY <1>2, <2>1, Sizes DEF Slot
<1>6. Written(c) = w /\ Written(c)' = w
  BY <1>2 DEF Written
<1>7. SealedOK(c) /\ LastOK(c) /\ salt = wal[c].hdr.salt
  <2>1. SealedOK(c) /\ LastOK(c)
    BY <1>1, <1>4 DEF WrittenOK, Writing
  <2> QED
    BY <1>2, <2>1 DEF SealedOK, Logging
<1>8. DiskHas(i)
  <2>1. \E f : WriteFrame(i, f)
    BY DEF RewriteChecksum
  <2> QED
    BY <1>1, <1>2, <2>1, DiskWritten
<1>9. NewFrame(c, i)
  BY <1>1, <1>2, <1>5, <1>8 DEF NewFrame
<1>10. log'[m + 1].val = log[m + 1].val
  <2>1. m + 1 \in Slot
    BY <1>5, Sizes DEF Slot
  <2> QED
    BY <1>2, <1>3, <2>1
<1>11. NewMark(c, i)
  <2>1. log'[i].last => i = w
    BY <1>3, <1>5, <1>6, <1>7 DEF LastOK
  <2>2. i = w => Publishing(c)'
    BY <1>2, <1>4 DEF Publishing
  <2> QED
    BY <1>2, <1>5, <1>6, <1>10, <2>1, <2>2 DEF NewMark
<1>12. Valid(log', salt, i)
  <2>1. SealedOK(c)'
    BY <1>2, <1>4, WrittenNext DEF Writing, useWal
  <2>2. CASE i = w
    BY <1>2, <1>3, <1>6, <1>7, <2>1, <2>2 DEF SealedOK
  <2>3. CASE i # w
    <3>1. i + 1 # 0 /\ (i + 1) - 1 = i
      BY <1>2, Sizes DEF Slot
    <3> QED
      BY <1>2, <1>3, <1>7, <2>1, <2>3, <3>1 DEF SealedOK
  <2> QED
    BY <2>2, <2>3
<1> QED
  BY <1>5, <1>6, <1>9, <1>11, <1>12, FrameDisk, Sizes DEF NewSum

LEMMA LogPageKeeps ==
  ASSUME DiskInv, ChainInv', NEW c \in Conn, LogPage(c), recent' = recent
  PROVE  DiskOK'
  BY AppendDisk, OverwriteDisk

-----------------------------------------------------------------------------
(* All steps. *)

LEMMA DiskRead ==
  ASSUME DiskInv, ChainInv', NEW c \in Conn, Read(c), recent' = recent
  PROVE  DiskOK'
  BY ReadHdrDisk, HdrLockedDisk, ChooseZeroDisk, LockMarkZeroDisk, ChooseMarkDisk,
     LockMarkDisk, CheckMarkDisk, EndReadDisk
  DEF Read

LEMMA DiskChange ==
  ASSUME DiskInv, ChainInv', NEW c \in Conn, Change(c), recent' = recent
  PROVE  DiskOK'
<1>1. \A p \in Page : Spill(c, p) => DiskOK'
  <2>1. ASSUME NEW p \in Page, Spill(c, p)
        PROVE  DiskOK'
    <3>1. Frames(c, "spill", {p})
      BY <2>1 DEF Spill
    <3> QED
      BY <3>1, FramesDisk
  <2> QED
    BY <2>1
<1>2. Commit(c) => DiskOK'
  BY Known, Batches, FramesDisk
<1> QED
  BY <1>1, <1>2, BeginWriteDisk, RollbackDisk, WriteDisk, RestartHdrDisk, RestartHdr0Disk,
     RestartInfoDisk, KeepLogDisk, WriteHeaderDisk, LogPageKeeps, RewriteChecksumDisk,
     PublishDisk
  DEF Change

LEMMA DiskCheckpoint ==
  ASSUME DiskInv, ChainInv', NEW c \in Conn, Checkpoint(c), recent' = recent
  PROVE  DiskOK'
  BY StartCheckpointDisk, InitIteratorDisk, VisitMarkDisk, GiveUpDisk, CopyPageDisk,
     BackfilledDisk, CheckpointFailsDisk, EndCheckpointDisk
  DEF Checkpoint

LEMMA DiskInvStep ==
  ASSUME DiskInv, NoneOvertaken', [Next]_vars
  PROVE  DiskInv'
<1>1. ChainInv'
  BY ChainInvStep DEF DiskInv
<1>2. CASE UNCHANGED vars
  BY <1>1, <1>2, DiskUnchanged DEF DiskInv
<1>3. ASSUME NEW c \in Conn, Publication(c) \/ Recovery(c) \/ Sync(c)
      PROVE  DiskOK'
  BY <1>1, <1>3, PublishHdr0Disk, RecoverDisk, SyncHeaderDisk, LockZeroDisk
  DEF Publication, Recovery, Sync
<1>4. ASSUME NEW c \in Conn, Read(c) \/ Change(c) \/ Checkpoint(c), recent' = recent
      PROVE  DiskOK'
  BY <1>1, <1>4, DiskRead, DiskChange, DiskCheckpoint
<1>5. CASE Crash /\ recent' = recent
  BY <1>1, <1>5, CrashDisk DEF DiskInv
<1>6. CASE PowerLoss
  BY <1>1, <1>6, PowerLossDisk DEF DiskInv
<1> QED
  BY <1>1, <1>2, <1>3, <1>4, <1>5, <1>6 DEF Next, DiskInv

\* As long as no checkpoint is overtaken by a new log: whatever mixture of old and new pages,
\* frames and headers a loss of power leaves makes an image committed since the log was
\* last synced, for no frame is written under a header that is not synced
\* (sqlite3WalFrames), none is copied that is not synced (walCheckpoint), and no frame
\* that is written over can be read as part of an older commit (walWriteOneFrame,
\* walRewriteChecksums).
THEOREM DiskInvariant == Spec /\ []NoneOvertaken => []DiskInv
<1>1. Init => DiskInv
  BY InitChain, InitClosed, ClosedBase, ClosedMarks, ClosedIsEmpty, InitDisk
  DEF MarkInv, ContInv, ChainInv, DiskInv, BaseOK
<1>2. DiskInv /\ NoneOvertaken' /\ [Next]_vars => DiskInv'
  BY DiskInvStep
<1> QED
  BY <1>1, <1>2, PTL DEF Spec

\* After a loss of power a new process finds what was committed when the log was last
\* synced, or a later commit (sqlite3WalFrames, walCheckpoint, walIndexRecover).
THEOREM SyncedSurvive == Spec /\ []NoneOvertaken => []SyncedCommitsSurvive
<1>1. DiskInv => SyncedCommitsSurvive
  BY DiskSurvives
<1> QED
  BY <1>1, DiskInvariant, PTL
=============================================================================
