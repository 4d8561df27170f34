----------------------------- MODULE ReadContentV -----------------------------
(***************************************************************************)
(* The comic reader: MK_ComicReadContentV (the paged collection view and   *)
(* its state machine), the part of MK_ComicReadVC that serves it, and the  *)
(* two things it talks to that live outside the repository: UIKit, which   *)
(* reports pages entering and leaving the screen, and the comic server,    *)
(* which answers requests for a part's pictures in any order or not at all *)
(* well.  Everything in the reader runs on the main thread, so an action   *)
(* is one main-thread callback, run to its end.                            *)
(*                                                                         *)
(* A "part" (<话>) is an index into bookPartArray, which lists the newest  *)
(* part first: index - 1 is the next part of the story, index + 1 the      *)
(* previous one.  The pictures of a part are abstracted to their number.   *)
(***************************************************************************)
EXTENDS Integers, Sequences, FiniteSets

CONSTANTS
  PartCount,    \* bookModel.bookPartArray.count
  Pages,        \* Pages[p]: how many picture URLs the server lists for part p
  StartIndex,   \* the part the reader is opened on
  Swipes,       \* directions in which the user pages: 1 forward, -1 back
  LowestReturn, \* the user pages back no further than this page of the strip
  Outcomes,     \* what requests may come to: TRUE pictures, FALSE nil
  WillOrders,   \* order in which a reload reports pages entering the screen
  EndReports,   \* whether and when a reload reports the pages it replaces
  MaxSections   \* bound: the user stops paging at this many sections

Parts == 0 .. PartCount - 1

ASSUME ReaderAssumption ==
  /\ PartCount \in Nat \ {0}
  /\ Pages \in [Parts -> Nat]
  /\ StartIndex \in Parts
  /\ Swipes \subseteq {-1, 1}
  /\ LowestReturn \in Nat
  /\ Outcomes \subseteq BOOLEAN
  /\ WillOrders \subseteq {"up", "down"}
  /\ EndReports \subseteq {"none", "before", "after"}
  /\ MaxSections \in Nat

VARIABLES
  currentImageArr,   \* the part whose pictures each section holds
  zeroSectionIndex,  \* part index of section 0
  state,             \* reader state, without the index it carries
  currentShowIndex,  \* <<page, pages>> in the status bar
  currentReadIndex,  \* part whose title is in the status bar
  willShowIndex,     \* last index path reported as about to appear
  loads,             \* loads[d][p]: requests outstanding for part p
  strip,             \* the data source page by page, section after section
  offset,            \* page of the strip at rest on screen, from 0
  drag,              \* 0 at rest, else the neighbour being dragged in
  visible,           \* index paths of the cells on screen, as last laid out
  needsLayout,       \* reloadData was called and layout has not run yet
  callbacks          \* UIKit callbacks of the current layout or scroll step

readerVars == <<currentImageArr, zeroSectionIndex, state, currentShowIndex,
                currentReadIndex, willShowIndex>>
screenVars == <<offset, drag, visible>>
vars == <<readerVars, loads, strip, screenVars, needsLayout, callbacks>>

-----------------------------------------------------------------------------
(* Vocabulary.  A definition named for a slip (..Slip) is the one after it *)
(* with a likely mistake; the properties are checked to catch each.        *)

\* MK_ComicReadContentV.State.  The states that load double as the names of
\* the three kinds of request.
Loading == {"setUp", "loadNextDate", "loadPreviousDate"}
State   == Loading \cup {"reading", "error"}

IndexPath == [section : Int, row : Int]
NoIndex   == [section |-> -1, row |-> -1]      \* nil

\* A page of the strip carries the part index that its section stands for.
\* Section s stands for zeroSectionIndex - s, and an insertion in front moves
\* both, so the number of a section that is already there does not change.
PageOfStrip == [number : Int, row : Nat]
PagesOf(part, number) ==
  [r \in 1 .. Pages[part] |-> [number |-> number, row |-> r - 1]]

\* Index path of the k-th page of the strip, k from 0.
PathAt(k) == [section |-> zeroSectionIndex - strip[k + 1].number,
              row     |-> strip[k + 1].row]

\* The cells on screen when the strip rests on o and is dragged by d.
Screen(o, d) ==
  CASE strip = <<>> -> <<>>
    [] strip # <<>> /\ d = 0  -> <<PathAt(o)>>
    [] strip # <<>> /\ d = 1  -> <<PathAt(o), PathAt(o + 1)>>
    [] strip # <<>> /\ d = -1 -> <<PathAt(o - 1), PathAt(o)>>

Callback(kind, path) == [kind |-> kind, path |-> path]

\* What the two kinds of answers do to the array and to the index of its
\* first section.
PrependedSlip(p) == <<p>> \o currentImageArr
ReplacedSlip(p) == <<p>>
Appended(p) == Append(currentImageArr, p)
Inserted(p) == <<p>> \o currentImageArr
ZeroKeptSlip == zeroSectionIndex
ZeroAfterInsertion == zeroSectionIndex + 1

\* Part index just past the last section, which both scroll triggers compute.
FrontierPastSlip == zeroSectionIndex - Len(currentImageArr) - 1
Frontier == zeroSectionIndex - Len(currentImageArr)

\* getIndexComicPart followed by getPartImageUrlStrArr: a request goes out
\* only for an index the book has.
Request(l, kind, part) ==
  IF part \in Parts THEN [l EXCEPT ![kind][part] = @ + 1] ELSE l

AnsweredBothSlip(kind, part) ==
  [loads EXCEPT !["loadNextDate"][part] = @ - 1,
                !["loadPreviousDate"][part] = @ - 1]
Answered(kind, part) == [loads EXCEPT ![kind][part] = @ - 1]

\* How many requests are outstanding, counted up to the bound on the paging.
Outstanding ==
  Cardinality({r \in Loading \X Parts \X (1 .. MaxSections) :
                 r[3] <= loads[r[1]][r[2]]})

\* The main thread is free: no UIKit callback is due and the reader has not
\* trapped.  MK_ComicReadVC indexes bookPartArray with every value of
\* currentReadIndex, and Swift traps on an index out of range.
MainFree == callbacks = <<>> /\ currentReadIndex \in Parts

-----------------------------------------------------------------------------
(* Opening the reader.  viewDidLoad creates the content view, whose first  *)
(* state .setUp(index) sends the first request at once.                    *)

Init ==
  /\ currentImageArr = <<>>
  /\ zeroSectionIndex = 0
  /\ state = "setUp"
  /\ currentShowIndex = <<0, 0>>
  /\ currentReadIndex = 0
  /\ willShowIndex = NoIndex
  /\ loads = [k \in Loading |-> [p \in Parts |->
                IF k = "setUp" /\ p = StartIndex THEN 1 ELSE 0]]
  /\ strip = <<>>
  /\ offset = 0
  /\ drag = 0
  /\ visible = <<>>
  /\ needsLayout = FALSE
  /\ callbacks = <<>>

\* The first part arrives.  A part of one page cannot be scrolled, so its
\* successor is requested here; the previous part is requested in any case,
\* and its state replaces the other's.
SetUpAnswered ==
  /\ MainFree /\ TRUE \in Outcomes
  /\ loads["setUp"][StartIndex] > 0
  /\ currentImageArr' = <<StartIndex>>
  /\ strip' = PagesOf(StartIndex, StartIndex)
  /\ zeroSectionIndex' = StartIndex
  /\ currentShowIndex' = <<1, Pages[StartIndex]>>
  /\ currentReadIndex' = StartIndex
  /\ needsLayout' = TRUE
  /\ state' = "loadPreviousDate"
  /\ LET taken  == Answered("setUp", StartIndex)
         onward == IF Pages[StartIndex] = 1
                   THEN Request(taken, "loadNextDate", StartIndex - 1)
                   ELSE taken
     IN loads' = Request(onward, "loadPreviousDate", StartIndex + 1)
  /\ UNCHANGED <<willShowIndex, screenVars, callbacks>>

\* The first part fails: the code only logs.
SetUpFailed ==
  /\ MainFree /\ FALSE \in Outcomes
  /\ loads["setUp"][StartIndex] > 0
  /\ loads' = Answered("setUp", StartIndex)
  /\ UNCHANGED <<readerVars, strip, screenVars, needsLayout, callbacks>>

-----------------------------------------------------------------------------
(* Answers to the two kinds of request made while reading.                 *)

NextAnswered(p) ==
  /\ MainFree /\ TRUE \in Outcomes
  /\ loads["loadNextDate"][p] > 0
  /\ loads' = Answered("loadNextDate", p)
  /\ currentImageArr' = Appended(p)
  /\ strip' = strip \o PagesOf(p, zeroSectionIndex - Len(currentImageArr))
  /\ needsLayout' = TRUE
  /\ state' = "reading"
  /\ UNCHANGED <<zeroSectionIndex, currentShowIndex, currentReadIndex,
                 willShowIndex, screenVars, callbacks>>

PreviousAnswered(p) ==
  /\ MainFree /\ TRUE \in Outcomes
  /\ loads["loadPreviousDate"][p] > 0
  /\ loads' = Answered("loadPreviousDate", p)
  /\ currentImageArr' = Inserted(p)
  /\ strip' = PagesOf(p, zeroSectionIndex + 1) \o strip
  /\ needsLayout' = TRUE
  /\ zeroSectionIndex' = ZeroAfterInsertion
  /\ state' = "reading"
  /\ UNCHANGED <<currentShowIndex, currentReadIndex, willShowIndex,
                 screenVars, callbacks>>

StateKeptSlip == state
FailedState == "error"

LoadFailed(kind, p) ==
  /\ MainFree /\ FALSE \in Outcomes
  /\ loads[kind][p] > 0
  /\ loads' = Answered(kind, p)
  /\ state' = FailedState
  /\ UNCHANGED <<currentImageArr, zeroSectionIndex, currentShowIndex,
                 currentReadIndex, willShowIndex, strip, screenVars,
                 needsLayout, callbacks>>

-----------------------------------------------------------------------------
(* UIKit.  A reload keeps the content offset and lays the cells out again; *)
(* paging moves by one page; a page dragged in may be let go.  Scrolling   *)
(* runs through layoutSubviews, which carries out a due reload first.      *)

Layout ==
  /\ MainFree /\ needsLayout
  /\ needsLayout' = FALSE
  /\ visible' = Screen(offset, drag)
  /\ \E order \in WillOrders, report \in EndReports :
       LET n     == Len(Screen(offset, drag))
           wills == [i \in 1 .. n |-> Callback("will",
                       Screen(offset, drag)[IF order = "up" THEN i
                                                            ELSE n + 1 - i])]
           ends  == [i \in 1 .. Len(visible) |-> Callback("end", visible[i])]
       IN callbacks' = CASE report = "none"   -> wills
                         [] report = "before" -> ends \o wills
                         [] report = "after"  -> wills \o ends
  /\ UNCHANGED <<readerVars, loads, strip, offset, drag>>

BeginDrag(d) ==
  /\ MainFree /\ ~needsLayout
  /\ drag = 0
  /\ offset + d \in 0 .. Len(strip) - 1
  /\ d = -1 => offset + d >= LowestReturn
  /\ Len(currentImageArr) + Outstanding < MaxSections
  /\ drag' = d
  /\ visible' = Screen(offset, d)
  /\ callbacks' = <<Callback("will", PathAt(offset + d))>>
  /\ UNCHANGED <<readerVars, loads, strip, offset, needsLayout>>

EndDrag(turned) ==
  /\ MainFree /\ ~needsLayout
  /\ drag # 0
  /\ LET stays  == IF turned THEN offset + drag ELSE offset
         leaves == IF turned THEN offset ELSE offset + drag
     IN /\ offset' = stays
        /\ visible' = <<PathAt(stays)>>
        /\ callbacks' = <<Callback("end", PathAt(leaves))>>
  /\ drag' = 0
  /\ UNCHANGED <<readerVars, loads, strip, needsLayout>>

-----------------------------------------------------------------------------
(* The collection view's delegate.                                         *)

\* collectionView(_:willDisplay:forItemAt:)
WillDisplay ==
  /\ callbacks # <<>> /\ currentReadIndex \in Parts
  /\ Head(callbacks).kind = "will"
  /\ willShowIndex' = Head(callbacks).path
  /\ callbacks' = Tail(callbacks)
  /\ UNCHANGED <<currentImageArr, zeroSectionIndex, state, currentShowIndex,
                 currentReadIndex, loads, strip, screenVars, needsLayout>>

\* The page about to appear is the last, or the first, of everything loaded.
BeyondLastPageSlip ==
  /\ willShowIndex.section = Len(currentImageArr) - 1
  /\ willShowIndex.row = Pages[currentImageArr[willShowIndex.section + 1]]
AtLastPage ==
  /\ willShowIndex.section = Len(currentImageArr) - 1
  /\ willShowIndex.row =
       Pages[currentImageArr[willShowIndex.section + 1]] - 1
AnyFirstRowSlip == willShowIndex.row = 0
AtFirstPage == willShowIndex.section = 0 /\ willShowIndex.row = 0

\* The two switches of the handler, the second run after the first has set
\* the state.
AsksNextUnguardedSlip == AtLastPage
AsksNextUnlessFailedSlip == AtLastPage /\ state \notin {"loadNextDate", "error"}
AsksNext     == AtLastPage /\ state # "loadNextDate"
AsksPrevious == AtFirstPage /\ (AsksNext \/ state # "loadPreviousDate")

\* "page/pages" of an index path, for the status bar.
ShowIndexFromZeroSlip(path) ==
  <<path.row, Pages[currentImageArr[path.section + 1]]>>
ShowIndex(path) ==
  <<path.row + 1, Pages[currentImageArr[path.section + 1]]>>

\* collectionView(_:didEndDisplaying:forItemAt:) and the subscription to
\* endShowIndex.  When a page left but it is the one that was about to
\* appear, or none was, nothing happens.
DidEndIgnored ==
  /\ callbacks # <<>> /\ currentReadIndex \in Parts
  /\ Head(callbacks).kind = "end"
  /\ willShowIndex \in {NoIndex, Head(callbacks).path}
  /\ callbacks' = Tail(callbacks)
  /\ UNCHANGED <<readerVars, loads, strip, screenVars, needsLayout>>

\* Otherwise the status bar moves to the page about to appear, which sets
\* currentReadIndex and so may trap; if it does not, more may be requested.
DidEndDisplaying ==
  /\ callbacks # <<>> /\ currentReadIndex \in Parts
  /\ Head(callbacks).kind = "end"
  /\ willShowIndex \notin {NoIndex, Head(callbacks).path}
  /\ currentShowIndex' = ShowIndex(willShowIndex)
  /\ currentReadIndex' = zeroSectionIndex - willShowIndex.section
  /\ IF currentReadIndex' \in Parts
     THEN LET onward == IF AsksNext
                        THEN Request(loads, "loadNextDate", Frontier)
                        ELSE loads
          IN /\ loads' = IF AsksPrevious
                         THEN Request(onward, "loadPreviousDate", Frontier)
                         ELSE onward
             /\ state' = CASE AsksPrevious -> "loadPreviousDate"
                           [] AsksNext /\ ~AsksPrevious -> "loadNextDate"
                           [] OTHER -> state
     ELSE UNCHANGED <<loads, state>>
  /\ callbacks' = Tail(callbacks)
  /\ UNCHANGED <<currentImageArr, zeroSectionIndex, willShowIndex, strip,
                 screenVars, needsLayout>>

-----------------------------------------------------------------------------
Answer(p) ==
  \/ NextAnswered(p)
  \/ PreviousAnswered(p)
  \/ \E kind \in {"loadNextDate", "loadPreviousDate"} : LoadFailed(kind, p)

Deliver == WillDisplay \/ DidEndIgnored \/ DidEndDisplaying

Next ==
  \/ SetUpAnswered
  \/ SetUpFailed
  \/ \E p \in Parts : Answer(p)
  \/ Layout
  \/ \E d \in Swipes : BeginDrag(d)
  \/ \E turned \in BOOLEAN : EndDrag(turned)
  \/ Deliver

Spec == Init /\ [][Next]_vars

-----------------------------------------------------------------------------
(* Properties that hold in every environment.                              *)

Opened == currentImageArr # <<>>

\* The index paths of the sections that the data source has.
SectionPaths == [section : 0 .. Len(currentImageArr) - 1, row : Nat]

\* Every variable keeps its type.
TypeOK ==
  /\ currentImageArr \in Seq(Parts)
  /\ zeroSectionIndex \in Int
  /\ state \in State
  /\ currentShowIndex \in Nat \X Nat
  /\ currentReadIndex \in Int
  /\ willShowIndex \in IndexPath
  /\ loads \in [Loading -> [Parts -> Nat]]
  /\ strip \in Seq(PageOfStrip)
  /\ offset \in Nat
  /\ drag \in {-1, 0, 1}
  /\ visible \in Seq(IndexPath)
  /\ needsLayout \in BOOLEAN
  /\ callbacks \in Seq([kind : {"will", "end"}, path : IndexPath])

\* However many parts were put in front of it and behind it, and in whatever
\* order the answers came, the section that zeroSectionIndex says is the part
\* the user opened does hold that part.
OpenedPartAnchored ==
  Opened => /\ zeroSectionIndex - StartIndex \in 0 .. Len(currentImageArr) - 1
            /\ currentImageArr[zeroSectionIndex - StartIndex + 1] = StartIndex

\* The handler and the data source index currentImageArrV with paths reported
\* earlier, some before an answer changed the array: the section is there.
SectionsExist ==
  /\ willShowIndex \in SectionPaths \cup {NoIndex}
  /\ visible \in Seq(SectionPaths)
  /\ callbacks \in Seq([kind : {"will", "end"}, path : SectionPaths])

\* A loading state suppresses further requests of its kind, so it must not
\* outlive them: one is outstanding, or the book has no such part.
NoAbandonedLoad ==
  /\ state = "loadNextDate" =>
       \/ Frontier \notin Parts
       \/ \E p \in Parts : loads["loadNextDate"][p] > 0
  /\ state = "loadPreviousDate" =>
       \/ Frontier \notin Parts \/ StartIndex + 1 \notin Parts
       \/ \E p \in Parts : loads["loadPreviousDate"][p] > 0

\* From the opened part on, a section may hold a part that was read already,
\* never one further in the story than the title the status bar gives it.
LaterSectionsNeverAhead ==
  \A s \in 0 .. Len(currentImageArr) - 1 :
    s >= zeroSectionIndex - StartIndex =>
      currentImageArr[s + 1] >= zeroSectionIndex - s

\* The strip agrees with the data source, the screen rests on the strip, and
\* nothing happens before the one set-up request is answered: what the four
\* safety properties above rest on.
StripOfSections ==
  \A k \in 1 .. Len(strip) :
    zeroSectionIndex - strip[k].number \in 0 .. Len(currentImageArr) - 1

ScreenOnStrip ==
  IF strip = <<>> THEN offset = 0 /\ drag = 0
                  ELSE {offset, offset + drag} \subseteq 0 .. Len(strip) - 1

SetUpFirst ==
  /\ \A p \in Parts :
       /\ loads["setUp"][p] <= 1
       /\ p # StartIndex \/ Opened => loads["setUp"][p] = 0
  /\ ~Opened =>
       /\ strip = <<>> /\ visible = <<>> /\ callbacks = <<>>
       /\ willShowIndex = NoIndex /\ ~needsLayout
       /\ \A p \in Parts : /\ loads["loadNextDate"][p] = 0
                           /\ loads["loadPreviousDate"][p] = 0

NextNeverAhead ==
  \A p \in Parts : loads["loadNextDate"][p] > 0 => p >= Frontier

ReaderInv ==
  /\ TypeOK /\ SectionsExist /\ OpenedPartAnchored
  /\ StripOfSections /\ ScreenOnStrip /\ SetUpFirst
===============================================================================
