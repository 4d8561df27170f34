----------------------------- MODULE ForwardReader -----------------------------
(***************************************************************************)
(* The reader used the way it works: opened on the first part of the story *)
(* and not paged back to its first page (ForwardEnvironment).  Here it     *)
(* keeps the promises of StoryReader; the runs that are expected to fail   *)
(* show which of them it breaks elsewhere.                                 *)
(***************************************************************************)
EXTENDS ReadContentV

\* Opened on the oldest part; the user turns pages both ways, but never goes
\* back to the very first.
ForwardEnvironment == StartIndex = PartCount - 1 /\ LowestReturn >= 1

-----------------------------------------------------------------------------
(* Safety.                                                                 *)

\* Every section holds the part its title names: the story is laid out
\* without repetition, gap or change of order.
ReadingOrder ==
  \A s \in 0 .. Len(currentImageArr) - 1 :
    currentImageArr[s + 1] = zeroSectionIndex - s

\* MK_ComicReadVC indexes bookPartArray with currentReadIndex unchecked.
NoTrap == currentReadIndex \in Parts

\* No part is asked for again while a request for it is outstanding, or
\* after it arrived.
AskedOnce ==
  \A p \in Parts :
    loads["setUp"][p] + loads["loadNextDate"][p] + loads["loadPreviousDate"][p]
      + Cardinality({i \in 1 .. Len(currentImageArr) : currentImageArr[i] = p})
      <= 1

\* The part and the row of the k-th page of the strip, as the data source
\* resolves them.
ContentAt(k) ==
  [part |-> currentImageArr[PathAt(k).section + 1], row |-> PathAt(k).row]

ShownContent == IF strip = <<>> THEN [part |-> StartIndex, row |-> 0]
                                ELSE ContentAt(offset)

\* Answers arrive while the user reads; none of them moves the page.
AnswerKeepsPage ==
  [][loads' # loads /\ callbacks' = callbacks => ShownContent' = ShownContent]_vars

\* What the status bar should say of the k-th page of the strip: the page,
\* the pages of its part, and the part.
StatusOf(k) ==
  <<<<ContentAt(k).row + 1, Pages[ContentAt(k).part]>>, ContentAt(k).part>>

\* With the screen at rest the status bar shows the page on it, or one of the
\* two next to it, when a reload came in the middle of a drag.
StatusWithinAPage ==
  Opened /\ strip # <<>> /\ callbacks = <<>> /\ ~needsLayout /\ drag = 0 =>
    \E k \in (offset - 1 .. offset + 1) \cap (0 .. Len(strip) - 1) :
      <<currentShowIndex, currentReadIndex>> = StatusOf(k)

\* The abstract reader.  Section numbers are part indices when ReadingOrder
\* holds, and the page being read is read off the data source.
Story == INSTANCE StoryReader WITH
  newest <- IF Opened THEN zeroSectionIndex - Len(currentImageArr) + 1 ELSE 0,
  oldest <- IF Opened THEN zeroSectionIndex ELSE -1,
  page   <- ShownContent

\* The reader implements StoryReader.
StorySpec == Story!Spec

-----------------------------------------------------------------------------
(* What the safety properties rest on: the handler never runs for the      *)
(* first page, so no previous part is asked for, and at most one next part *)
(* is, the one at the frontier.                                            *)

First == [section |-> 0, row |-> 0]

NothingAsked == \A p \in Parts : loads["loadNextDate"][p] = 0

OneLoad ==
  \A p \in Parts :
    /\ loads["loadPreviousDate"][p] = 0
    /\ loads["loadNextDate"][p] > 0 =>
         /\ p = Frontier /\ loads["loadNextDate"][p] = 1
         /\ Pages[p + 1] > 0
         /\ \/ state = "loadNextDate"
            \/ state = "loadPreviousDate" /\ Len(strip) = 1

\* The strip is the story from the opened part on, page by page.
StripInOrder ==
  /\ Opened => zeroSectionIndex = StartIndex
  /\ strip # <<>> => strip[1] = [number |-> StartIndex, row |-> 0]
  /\ \A k \in 1 .. Len(strip) :
       /\ strip[k].number \in Frontier + 1 .. StartIndex
       /\ strip[k].row < Pages[strip[k].number]
       /\ k > 1 => strip[k] # strip[1]

\* Its pages follow each other in the story, up to the last of the last part.
StoryPage(pageOfStrip) == Story!Page(pageOfStrip.number, pageOfStrip.row)
StripFollows ==
  /\ \A k \in 1 .. Len(strip) - 1 :
       Story!Follows(StoryPage(strip[k + 1]), StoryPage(strip[k]))
  /\ Opened /\ Pages[Frontier + 1] > 0 =>
       /\ strip # <<>>
       /\ strip[Len(strip)].number = Frontier + 1
       /\ strip[Len(strip)].row = Pages[Frontier + 1] - 1

\* At the first page: as it was laid out, dragged, or the drag let go.
AsLaidOut ==
  /\ drag = 0 /\ willShowIndex \in {NoIndex, First}
  /\ \A i \in 1 .. Len(visible) : visible[i] = First
  /\ \A i \in 1 .. Len(callbacks) : callbacks[i].path = First
Dragged ==
  /\ drag = 1 /\ ~needsLayout /\ NothingAsked
  /\ \/ callbacks = <<Callback("will", PathAt(1))>>
     \/ callbacks = <<>> /\ willShowIndex = PathAt(1)
LetGo ==
  /\ drag = 0 /\ ~needsLayout /\ NothingAsked
  /\ willShowIndex \notin {NoIndex, First}
  /\ callbacks \in {<<>>, <<Callback("end", willShowIndex)>>}

AtFirst ==
  offset = 0 => /\ AsLaidOut \/ Dragged \/ LetGo
                /\ NothingAsked \/ Len(strip) = 1

PastFirst ==
  offset > 0 =>
    /\ offset + drag > 0 /\ willShowIndex \notin {NoIndex, First}
    /\ \A i \in 1 .. Len(callbacks) :
         callbacks[i].kind = "will" => callbacks[i].path # First

InOrder    == ReadingOrder /\ NoTrap /\ OneLoad /\ StripInOrder
ForwardInv == ReaderInv /\ InOrder /\ AtFirst /\ PastFirst

-----------------------------------------------------------------------------
(* Liveness.  The server, or the system's timeout, answers every request,  *)
(* and the main queue runs the answer in its turn, however often the user  *)
(* and UIKit have the main thread: strong fairness.  UIKit lays out after  *)
(* a reload and reports what it laid out.                                  *)

FairSpec ==
  /\ Spec
  /\ SF_vars(SetUpAnswered \/ SetUpFailed)
  /\ \A p \in Parts : SF_vars(Answer(p))
  /\ WF_vars(Layout)
  /\ WF_vars(Deliver)

\* A request came to nothing: the reader shows what it has.
GaveUp ==
  \/ state = "error"
  \/ ~Opened /\ loads["setUp"][StartIndex] = 0

AtTheEnd == strip # <<>> /\ ShownContent = [part |-> 0, row |-> Pages[0] - 1]

\* A user who in the end only pages forward, and does so as long as there is
\* a page, reads the book to its end, unless a request fails.
ReadsToTheEnd ==
  (<>[](drag # -1) /\ WF_vars(BeginDrag(1)) /\ SF_vars(EndDrag(TRUE)))
    => <>(AtTheEnd \/ GaveUp)

\* The user turns to the last page that is loaded; a request for a part fails.
TurnsToLastPage == EndDrag(TRUE) /\ drag = 1 /\ offset' = Len(strip) - 1
LoadFails == \E p \in Parts : LoadFailed("loadNextDate", p)

\* A failed load is sent for again when the user pages back and forth again: one
\* who keeps turning to the last page gets the whole book, however often the
\* requests fail, if they do not fail for ever.
RetriesFailedLoads ==
  ([]<><<TurnsToLastPage>>_vars /\ <>[][~LoadFails]_vars)
    => <>(Opened /\ Frontier \notin Parts)

\* A loading state ends, unless it waits for a part the book does not have.
LoadingEnds ==
  (state = "loadNextDate" /\ Frontier \in Parts) ~> (state # "loadNextDate")

-----------------------------------------------------------------------------
(* A promise of the code's comments that the reader breaks when it is used *)
(* another way; a run finds it violated.                                   *)

\* MK_ComicReadContentV.swift:198 and :300: at the first page the previous
\* data is loaded.  So what precedes the opened part precedes it in the story.
PrecedingIsOlder ==
  \A s \in 0 .. Len(currentImageArr) - 1 :
    s < zeroSectionIndex - StartIndex => currentImageArr[s + 1] > StartIndex
===============================================================================
