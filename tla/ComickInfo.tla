------------------------------ MODULE ComickInfo ------------------------------
(***************************************************************************)
(* The detail screen: MK_ComickInfoVC asks the data source for the book    *)
(* once and hands the answer to its two halves, MK_ComickI_BookInfoV (the  *)
(* cover and the texts) and MK_ComicPartV (the list of parts, with the     *)
(* button that turns its order round).  Tapping a row of the list pushes   *)
(* the reader of ReadContentV on top.  Nothing leads back: the reader      *)
(* hides the navigation bar, and with it the back button.                  *)
(*                                                                         *)
(* The book is the sequence of its volumes' sizes; a volume the JSON       *)
(* decoder cannot read counts as empty, as bookPartArray treats it.  A     *)
(* definition named ..Slip is the one after it with a likely mistake; the  *)
(* properties are checked to catch each.                                   *)
(***************************************************************************)
EXTENDS Integers, Sequences, SequencesExt

CONSTANT Books   \* the books the server may answer with

ASSUME InfoAssumption == Books \subseteq Seq(Nat)

VARIABLES
  model,              \* the book, in both halves' model, or NoBook
  bookAsked,          \* the one request for the book is outstanding
  coverImage,         \* "none", then "asked" until "image" or "failed"
  orderType,          \* what the order button says
  modelArr,           \* the parts listed, from the top
  currentSelectIndex, \* the row tapped last, or NoRow
  startIndex          \* startIndex of the reader on top, or NoRow

vars == <<model, bookAsked, coverImage, orderType, modelArr,
          currentSelectIndex, startIndex>>

NoBook == <<-1>>     \* nil
Failed == <<-2>>     \* an error event of an Action
NoRow  == -1

-----------------------------------------------------------------------------
(* The data source: what the response to a request comes to.               *)

\* The request for the book may be lost, refused with another status than
\* 200, answered with text that is no JSON, or with JSON that is no object.
\* Any object decodes to a book, an error message to one without volumes.
Response == [kind : {"lost", "refused", "text", "array", "object"}, book : Books]

bookAction(response) ==
  CASE response.kind \in {"lost", "refused", "text"} -> Failed
    [] response.kind = "array" -> NoBook
    [] response.kind = "object" -> response.book

comicBookInfoAction(source, response) ==
  CASE source = "DMZJ" -> bookAction(response)

\* The cover is an image, or the Action fails: its value is never nil.
imageGetAction(isImage) == IF isImage THEN "image" ELSE "failed"
comicImageAction(source, isImage) ==
  CASE source = "DMZJ" -> imageGetAction(isImage)

-----------------------------------------------------------------------------
(* The book's parts: those of its volumes, one volume after the other.     *)

PartsOfVolume(v, size) == [i \in 1 .. size |-> [volume |-> v, number |-> i]]

FirstVolumeSlip(book) == PartsOfVolume(1, Len(book))
bookPartArray(book) ==
  FlattenSeq([v \in DOMAIN book |-> PartsOfVolume(v, book[v])])

Opposite(order) == IF order = "positive" THEN "inverted" ELSE "positive"

\* The list for an order of the button.
ListFor(order, book) ==
  CASE order = "positive" -> Reverse(bookPartArray(book))
    [] order = "inverted" -> bookPartArray(book)

\* What the subscription to orderType lists: with no book, what was there.
RelistedBeforeTapSlip(order) ==
  IF model = NoBook THEN modelArr ELSE ListFor(orderType, model)
Relisted(order) == IF model = NoBook THEN modelArr ELSE ListFor(order, model)

\* The rows of the list's one section.
Rows == 0 .. Len(modelArr) - 1

\* The index a reader is pushed with for a row of the list.
FromOneSlip(row) == row + 1
StartIndexOf(row) == row

-----------------------------------------------------------------------------
Init ==
  /\ model = NoBook
  /\ bookAsked = TRUE
  /\ coverImage = "none"
  /\ orderType = "inverted"
  /\ modelArr = <<>>
  /\ currentSelectIndex = NoRow
  /\ startIndex = NoRow

\* The book arrives: it is listed as it comes, and its cover is asked for.
BookArrives(response) ==
  /\ bookAsked
  /\ comicBookInfoAction("DMZJ", response) \notin {NoBook, Failed}
  /\ bookAsked' = FALSE
  /\ model' = comicBookInfoAction("DMZJ", response)
  /\ modelArr' = bookPartArray(model')
  /\ coverImage' = "asked"
  /\ UNCHANGED <<orderType, currentSelectIndex, startIndex>>

\* No book, at which both halves return, or an error, which nobody handles.
BookMissing(response) ==
  /\ bookAsked
  /\ comicBookInfoAction("DMZJ", response) \in {NoBook, Failed}
  /\ bookAsked' = FALSE
  /\ UNCHANGED <<model, coverImage, orderType, modelArr, currentSelectIndex,
                 startIndex>>

CoverArrives(isImage) ==
  /\ coverImage = "asked"
  /\ coverImage' = comicImageAction("DMZJ", isImage)
  /\ UNCHANGED <<model, bookAsked, orderType, modelArr, currentSelectIndex,
                 startIndex>>

TapOrder ==
  /\ startIndex = NoRow
  /\ orderType' = Opposite(orderType)
  /\ modelArr' = Relisted(orderType')
  /\ UNCHANGED <<model, bookAsked, coverImage, currentSelectIndex, startIndex>>

TapRow(row) ==
  /\ startIndex = NoRow
  /\ row \in Rows
  /\ currentSelectIndex' = row
  /\ startIndex' = IF model = NoBook THEN startIndex ELSE StartIndexOf(row)
  /\ UNCHANGED <<model, bookAsked, coverImage, orderType, modelArr>>

Next ==
  \/ \E response \in Response : BookArrives(response) \/ BookMissing(response)
  \/ \E isImage \in BOOLEAN : CoverArrives(isImage)
  \/ TapOrder
  \/ \E row \in Rows : TapRow(row)

Spec == Init /\ [][Next]_vars

-----------------------------------------------------------------------------
(* Properties.                                                             *)

\* p comes before q in the book.
Before(p, q) ==
  \/ p.volume < q.volume
  \/ p.volume = q.volume /\ p.number < q.number

\* Whenever the answer came and however often the button was tapped, every
\* part of every volume is listed once, in the order of the book or in the
\* opposite one.
ListsTheBook ==
  model # NoBook =>
    /\ { modelArr[i] : i \in DOMAIN modelArr } =
         UNION { { [volume |-> v, number |-> i] : i \in 1 .. model[v] } :
                   v \in DOMAIN model }
    /\ \/ \A i, j \in DOMAIN modelArr : i < j <=> Before(modelArr[i], modelArr[j])
       \/ \A i, j \in DOMAIN modelArr : i > j <=> Before(modelArr[i], modelArr[j])

\* The reader is only opened on an index of the book: what ReadContentV
\* assumes of StartIndex, and MK_ComicReadVC of its first title.
OpensAnIndexOfTheBook ==
  startIndex # NoRow =>
    /\ model # NoBook
    /\ startIndex \in 0 .. Len(bookPartArray(model)) - 1

\* The part tapped, and the part the reader opens.
TappedPart == modelArr[currentSelectIndex + 1]
OpenedPart == bookPartArray(model)[startIndex + 1]

\* While the button says what it said at first, the reader opens the part whose
\* row was tapped: whether the button was tapped before the book came or after
\* it, and however often.
OpensTappedWhenInverted ==
  startIndex # NoRow /\ orderType = "inverted" => OpenedPart = TappedPart
===============================================================================
