------------------------------- MODULE ReadCell -------------------------------
(***************************************************************************)
(* The pictures in the reader's cells.  The collection view has a few      *)
(* cells, which it uses again for other pages; cellForItemAt hands each    *)
(* page's URL to Kingfisher, which downloads the picture and sets it in    *)
(* the cell's image view.  A download outlives the page it was started     *)
(* for: what keeps its answer out of a cell that has gone on to another    *)
(* page is Kingfisher's identifier of the last download of each image      *)
(* view.  A string that is no URL starts no download.                      *)
(*                                                                         *)
(* A definition named ..Slip is the one after it with a likely mistake.    *)
(***************************************************************************)
EXTENDS Naturals, FiniteSets

CONSTANTS
  Cells,      \* the cells of the collection view
  Pages,      \* the pages of currentImageArrV
  Readable,   \* those whose string URL.init(string:) accepts
  NoPage      \* no page, no picture

ASSUME CellAssumption == Readable \subseteq Pages /\ NoPage \notin Pages

VARIABLES
  shows,      \* the page that each cell shows, NoPage in the reuse pool
  image,      \* the page whose picture is in its image view
  downloads   \* downloads under way: for which cell and page, and whether
              \* it is the last one started for that cell

vars == <<shows, image, downloads>>

Pooled == { c \in Cells : shows[c] = NoPage }
Download(c, p, current) == [cell |-> c, page |-> p, current |-> current]

-----------------------------------------------------------------------------
Init ==
  /\ shows = [c \in Cells |-> NoPage]
  /\ image = [c \in Cells |-> NoPage]
  /\ downloads = {}

\* Kingfisher's setImage takes the identifier from earlier downloads of c.
Superseded(c) ==
  { IF d.cell = c THEN [d EXCEPT !.current = FALSE] ELSE d : d \in downloads }

\* Whether cellForItemAt calls setImage, which empties the image view first.
OnlyIfEmptySlip(c, p) == p \in Readable /\ image[c] = NoPage
SetsImage(c, p) == p \in Readable

\* collectionView(_:cellForItemAt:) takes a cell from the pool as it is.
CellForItem(c, p) ==
  /\ c \in Pooled
  /\ \A other \in Cells : shows[other] # p
  /\ shows' = [shows EXCEPT ![c] = p]
  /\ \/ /\ SetsImage(c, p)
        /\ image' = [image EXCEPT ![c] = NoPage]
        /\ downloads' = Superseded(c) \cup {Download(c, p, TRUE)}
     \/ /\ ~SetsImage(c, p)
        /\ UNCHANGED <<image, downloads>>

\* The page leaves the screen, or is reloaded.
Recycle(c) ==
  /\ shows[c] # NoPage
  /\ shows' = [shows EXCEPT ![c] = NoPage]
  /\ UNCHANGED <<image, downloads>>

\* Kingfisher's completion: only the last download of a cell sets its image.
Downloaded(d) ==
  /\ downloads' = downloads \ {d}
  /\ image' = IF d.current THEN [image EXCEPT ![d.cell] = d.page] ELSE image
  /\ UNCHANGED shows

DownloadFailed(d) ==
  /\ downloads' = downloads \ {d}
  /\ UNCHANGED <<shows, image>>

Next ==
  \/ \E c \in Cells, p \in Pages : CellForItem(c, p)
  \/ \E c \in Cells : Recycle(c)
  \/ \E d \in downloads : Downloaded(d) \/ DownloadFailed(d)

Spec == Init /\ [][Next]_vars

-----------------------------------------------------------------------------
(* Properties.                                                             *)

\* However a cell was used before, and whichever of its downloads answer, and
\* when, a page with a URL shows its own picture or none.
OwnPictureOrBlank ==
  \A c \in Cells : shows[c] \in Readable => image[c] \in {shows[c], NoPage}

\* What that rests on: the last download started for a cell that shows a page
\* with a URL is for that page.
LastDownloadOwn ==
  \A d \in downloads :
    d.current /\ shows[d.cell] \in Readable => d.page = shows[d.cell]

CellTypeOK ==
  /\ shows \in [Cells -> Pages \cup {NoPage}]
  /\ image \in [Cells -> Readable \cup {NoPage}]
  /\ downloads \subseteq [cell : Cells, page : Readable, current : BOOLEAN]

CellInv == CellTypeOK /\ OwnPictureOrBlank /\ LastDownloadOwn
===============================================================================
