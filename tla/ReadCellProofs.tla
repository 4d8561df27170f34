---------------------------- MODULE ReadCellProofs ----------------------------
(***************************************************************************)
(* The property of ReadCell, proved for any number of cells and pages.     *)
(***************************************************************************)
EXTENDS ReadCell, TLAPS

\* The invariant holds when the reader is opened, with every cell in the pool.
LEMMA InitCellInv == Init => CellInv
  BY CellAssumption
     DEF Init, CellInv, CellTypeOK, OwnPictureOrBlank, LastDownloadOwn

\* A cell of the pool is filled: with a URL its image view is emptied and its
\* earlier downloads are set aside, without one it shows no page with a URL.
LEMMA CellForItemKeeps ==
  ASSUME CellInv, NEW c \in Cells, NEW p \in Pages, CellForItem(c, p)
  PROVE  CellInv'
<1> USE CellAssumption DEF CellInv, CellTypeOK
<1>1. shows' \in [Cells -> Pages \cup {NoPage}]
  BY DEF CellForItem
<1>2. CASE SetsImage(c, p)
  <2>1. p \in Readable
    BY <1>2 DEF SetsImage
  <2>2. /\ image' = [image EXCEPT ![c] = NoPage]
        /\ downloads' = Superseded(c) \cup {Download(c, p, TRUE)}
    BY <1>2 DEF CellForItem
  <2>3. Download(c, p, TRUE) \in [cell : Cells, page : Readable, current : BOOLEAN]
    BY <2>1 DEF Download
  <2>4. \A d \in Superseded(c) :
          /\ d \in [cell : Cells, page : Readable, current : BOOLEAN]
          /\ d.current => d \in downloads /\ d.cell # c
    BY DEF Superseded
  <2>5. CellTypeOK'
    BY <1>1, <2>2, <2>3, <2>4
  <2>6. OwnPictureOrBlank'
    BY <2>2 DEF OwnPictureOrBlank, CellForItem
  <2>7. LastDownloadOwn'
    BY <2>2, <2>4 DEF LastDownloadOwn, CellForItem, Download
  <2> QED BY <2>5, <2>6, <2>7
<1>3. CASE ~SetsImage(c, p)
  <2>1. UNCHANGED <<image, downloads>> /\ p \notin Readable
    BY <1>3 DEF CellForItem, SetsImage
  <2>2. CellTypeOK'
    BY <1>1, <2>1
  <2>3. OwnPictureOrBlank' /\ LastDownloadOwn'
    BY <2>1 DEF CellForItem, OwnPictureOrBlank, LastDownloadOwn
  <2> QED BY <2>2, <2>3
<1> QED BY <1>2, <1>3

\* Every step of the cells keeps the invariant.
LEMMA StepCellInv == CellInv /\ [Next]_vars => CellInv'
<1> SUFFICES ASSUME CellInv, [Next]_vars PROVE CellInv'
  OBVIOUS
<1>1. ASSUME NEW c \in Cells, NEW p \in Pages, CellForItem(c, p) PROVE CellInv'
  BY <1>1, CellForItemKeeps
<1> USE CellAssumption
    DEF CellInv, CellTypeOK, OwnPictureOrBlank, LastDownloadOwn
<1>2. ASSUME NEW c \in Cells, Recycle(c) PROVE CellInv'
  BY <1>2 DEF Recycle
<1>3. ASSUME NEW d \in downloads, Downloaded(d) PROVE CellInv'
  BY <1>3 DEF Downloaded
<1>4. ASSUME NEW d \in downloads, DownloadFailed(d) PROVE CellInv'
  BY <1>4 DEF DownloadFailed
<1>5. CASE UNCHANGED vars
  BY <1>5 DEF vars
<1> QED BY <1>1, <1>2, <1>3, <1>4, <1>5 DEF Next

\* A cell that shows a page with a URL shows its picture or none, whichever
\* downloads of earlier pages are still under way and whenever they answer.
THEOREM PagesShowTheirOwnPicture == Spec => []OwnPictureOrBlank
<1>1. CellInv => OwnPictureOrBlank
  BY DEF CellInv
<1> QED BY <1>1, InitCellInv, StepCellInv, PTL DEF Spec
===============================================================================
