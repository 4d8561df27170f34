-------------------------- MODULE ForwardReaderProofs --------------------------
(***************************************************************************)
(* The safety properties of ForwardReader, proved for every book opened on *)
(* its first part and never paged back to its first page.                  *)
(***************************************************************************)
EXTENDS ForwardReader, ReadContentVProofs, FiniteSetTheorems

-----------------------------------------------------------------------------
(* The strip and its paths.                                                *)

\* Types of what the steps below calculate with.
LEMMA Calculated ==
  ASSUME ReaderInv
  PROVE  /\ StartIndex \in Parts /\ StartIndex \in Int /\ PartCount \in Nat
         /\ currentImageArr \in Seq(Parts) /\ Len(currentImageArr) \in Nat
         /\ zeroSectionIndex \in Int /\ Frontier \in Int
         /\ strip \in Seq(PageOfStrip) /\ Len(strip) \in Nat
         /\ offset \in Nat /\ drag \in {-1, 0, 1}
         /\ Opened <=> Len(currentImageArr) > 0
  BY ReaderAssumption, LenProperties, EmptySeq
     DEF ReaderInv, TypeOK, Parts, Frontier, Opened

\* The first page has the path of the first row of the first section, and the
\* other pages have other paths.
LEMMA PathsOfPages ==
  ASSUME ReaderInv, InOrder, Opened, NEW k \in 0 .. Len(strip) - 1
  PROVE  /\ PathAt(k) \in SectionPaths
         /\ PathAt(k) # NoIndex
         /\ PathAt(k) = First <=> k = 0
  <1>1. /\ Len(strip) \in Nat /\ strip # <<>> /\ StartIndex \in Int
        /\ Len(currentImageArr) \in Nat
    BY Calculated
  <1>2. PathAt(k) \in SectionPaths
    BY PathOfPage DEF ReaderInv
  <1>3. PathAt(k).section \in 0 .. Len(currentImageArr) - 1
    BY <1>2 DEF SectionPaths
  <1>4. PathAt(k) # NoIndex
    BY <1>1, <1>3 DEF NoIndex
  <1>5. /\ zeroSectionIndex = StartIndex
        /\ strip[1] = [number |-> StartIndex, row |-> 0]
        /\ k > 0 => strip[k + 1] # strip[1]
    BY <1>1 DEF InOrder, StripInOrder
  <1>6. /\ strip[k + 1] \in PageOfStrip
        /\ PathAt(k) = [section |-> StartIndex - strip[k + 1].number,
                        row     |-> strip[k + 1].row]
    BY <1>1, <1>5, Calculated, ElementOfSeq DEF PathAt
  <1>7. strip[k + 1] = [number |-> strip[k + 1].number, row |-> strip[k + 1].row]
    BY <1>6 DEF PageOfStrip
  <1>8. PathAt(k) = First <=> strip[k + 1] = strip[1]
    <2>1. strip[k + 1].number \in Int
      BY <1>6 DEF PageOfStrip
    <2>2. PathAt(k) = First <=> strip[k + 1].number = StartIndex /\ strip[k + 1].row = 0
      BY <1>1, <1>6, <2>1 DEF First
    <2> QED BY <1>5, <1>7, <2>2
  <1> QED BY <1>1, <1>2, <1>4, <1>5, <1>8

-----------------------------------------------------------------------------
(* Opening the reader.                                                     *)

\* When the reader opens nothing is on the strip and nothing asked for but the
\* first part.
LEMMA InitForward == Init => InOrder /\ AtFirst /\ PastFirst
<1> SUFFICES ASSUME Init PROVE InOrder /\ AtFirst /\ PastFirst
  OBVIOUS
<1>1. /\ currentImageArr = <<>> /\ strip = <<>> /\ visible = <<>> /\ callbacks = <<>>
      /\ Len(currentImageArr) = 0 /\ Len(strip) = 0 /\ Len(visible) = 0
      /\ Len(callbacks) = 0 /\ offset = 0 /\ drag = 0 /\ willShowIndex = NoIndex
      /\ currentReadIndex = 0
  BY EmptySeq DEF Init
<1>2. \A p \in Parts : loads["loadNextDate"][p] = 0 /\ loads["loadPreviousDate"][p] = 0
  BY DEF Init, Loading
<1>3. ReadingOrder /\ NoTrap
  BY <1>1, ReaderAssumption DEF ReadingOrder, NoTrap, Parts
<1>4. OneLoad /\ StripInOrder
  BY <1>1, <1>2 DEF OneLoad, StripInOrder, Opened
<1>5. AtFirst /\ PastFirst
  BY <1>1, <1>2 DEF AtFirst, PastFirst, AsLaidOut, NothingAsked
<1> QED BY <1>3, <1>4, <1>5 DEF InOrder

\* The opened part is the first of the story: no previous part is asked for,
\* and the next one only when the opened part is a single page.
LEMMA SetUpAnsweredForward ==
  ASSUME ForwardEnvironment, ForwardInv, SetUpAnswered
  PROVE  InOrder' /\ AtFirst' /\ PastFirst'
<1>1. /\ StartIndex \in Parts /\ StartIndex \in Int /\ PartCount \in Nat
      /\ Pages[StartIndex] \in Nat /\ StartIndex + 1 \notin Parts
  BY ReaderAssumption DEF Parts, ForwardEnvironment
<1>2. /\ ~Opened /\ strip = <<>> /\ visible = <<>> /\ callbacks = <<>>
      /\ willShowIndex = NoIndex /\ offset = 0 /\ drag = 0
      /\ \A p \in Parts : loads["loadNextDate"][p] = 0 /\ loads["loadPreviousDate"][p] = 0
  BY <1>1, LoadsTyped DEF SetUpAnswered, ForwardInv, ReaderInv, SetUpFirst, ScreenOnStrip
<1>3. /\ currentImageArr' = <<StartIndex>> /\ strip' = PagesOf(StartIndex, StartIndex)
      /\ zeroSectionIndex' = StartIndex /\ currentReadIndex' = StartIndex
      /\ state' = "loadPreviousDate"
      /\ UNCHANGED <<willShowIndex, offset, drag, visible, callbacks>>
  BY DEF SetUpAnswered, screenVars
<1>4. /\ Len(currentImageArr') = 1 /\ currentImageArr'[1] = StartIndex
      /\ Frontier' = StartIndex - 1 /\ Opened'
  BY <1>1, <1>3 DEF Frontier, Opened
<1>5. /\ Len(strip') = Pages[StartIndex]
      /\ \A k \in 1 .. Pages[StartIndex] :
           strip'[k] = [number |-> StartIndex, row |-> k - 1]
  BY <1>1, <1>3, PagesOfPart DEF PagesOf
<1>6. \A p \in Parts :
        /\ loads'["loadPreviousDate"][p] = 0
        /\ loads'["loadNextDate"][p] =
             IF Pages[StartIndex] = 1 /\ p = StartIndex - 1 THEN 1 ELSE 0
  <2> DEFINE taken  == Answered("setUp", StartIndex)
             onward == IF Pages[StartIndex] = 1
                       THEN Request(taken, "loadNextDate", StartIndex - 1)
                       ELSE taken
  <2>1. loads' = Request(onward, "loadPreviousDate", StartIndex + 1)
    BY DEF SetUpAnswered
  <2>2. loads' = onward
    BY <1>1, <2>1 DEF Request
  <2>3. /\ taken \in [Loading -> [Parts -> Nat]]
        /\ \A p \in Parts : taken["loadNextDate"][p] = 0 /\ taken["loadPreviousDate"][p] = 0
    BY <1>1, <1>2, LoadsTyped, AnsweredCounts DEF SetUpAnswered, ForwardInv
  <2> HIDE DEF taken
  <2>4. CASE Pages[StartIndex] = 1
    <3>1. loads' = Request(taken, "loadNextDate", StartIndex - 1)
      BY <2>2, <2>4
    <3>2. \A k \in Loading, p \in Parts :
            loads'[k][p] = IF k = "loadNextDate" /\ p = StartIndex - 1
                           THEN taken[k][p] + 1 ELSE taken[k][p]
      BY <2>3, <3>1, LoadsTyped, RequestCounts
    <3> QED BY <2>3, <2>4, <3>2, LoadsTyped
  <2>5. CASE Pages[StartIndex] # 1
    BY <2>2, <2>3, <2>5
  <2> QED BY <2>4, <2>5
<1>7. ReadingOrder' /\ NoTrap'
  BY <1>1, <1>3, <1>4 DEF ReadingOrder, NoTrap
<1>8. OneLoad'
  BY <1>1, <1>3, <1>4, <1>5, <1>6 DEF OneLoad
<1>9. StripInOrder'
  <2>1. strip' # <<>> => strip'[1] = [number |-> StartIndex, row |-> 0]
    <3>1. strip' \in Seq(PageOfStrip)
      BY <1>1, <1>3, PagesOfPart
    <3>2. strip' # <<>> => Len(strip') \in Nat /\ Len(strip') # 0
      BY <3>1, EmptySeq, LenProperties
    <3> QED BY <1>1, <1>5, <3>2
  <2>2. ASSUME NEW k \in 1 .. Len(strip')
        PROVE  /\ strip'[k].number = StartIndex /\ strip'[k].row = k - 1
               /\ k > 1 => strip'[k] # strip'[1]
    <3>1. /\ k \in 1 .. Pages[StartIndex] /\ 1 \in 1 .. Pages[StartIndex]
          /\ k - 1 \in Int
      BY <1>1, <1>5
    <3>2. /\ strip'[k] = [number |-> StartIndex, row |-> k - 1]
          /\ strip'[1] = [number |-> StartIndex, row |-> 0]
      BY <1>5, <3>1
    <3>3. strip'[k].row = k - 1 /\ strip'[1].row = 0
      BY <3>2
    <3> QED BY <3>1, <3>2, <3>3
  <2> QED BY <1>1, <1>3, <1>4, <1>5, <2>1, <2>2 DEF StripInOrder
<1>10. AtFirst' /\ PastFirst'
  BY <1>1, <1>2, <1>3, <1>5, <1>6 DEF AtFirst, PastFirst, AsLaidOut, NothingAsked
<1> QED BY <1>7, <1>8, <1>9, <1>10 DEF InOrder

\* The set-up fails: nothing of the book is shown or asked for.
LEMMA SetUpFailedForward ==
  ASSUME ForwardInv, SetUpFailed
  PROVE  InOrder' /\ AtFirst' /\ PastFirst'
<1>1. StartIndex \in Parts /\ loads["setUp"][StartIndex] > 0
  BY ReaderAssumption DEF SetUpFailed
<1>2. /\ ~Opened /\ strip = <<>> /\ visible = <<>> /\ callbacks = <<>>
      /\ willShowIndex = NoIndex /\ offset = 0 /\ drag = 0
      /\ \A p \in Parts : loads["loadNextDate"][p] = 0 /\ loads["loadPreviousDate"][p] = 0
  BY <1>1, LoadsTyped DEF ForwardInv, ReaderInv, SetUpFirst, ScreenOnStrip
<1>3. UNCHANGED <<currentImageArr, zeroSectionIndex, currentReadIndex, strip,
                  willShowIndex, offset, drag, visible, callbacks>>
  BY DEF SetUpFailed, readerVars, screenVars
<1>4. \A p \in Parts : loads'["loadNextDate"][p] = 0 /\ loads'["loadPreviousDate"][p] = 0
  <2>1. loads' = Answered("setUp", StartIndex)
    BY DEF SetUpFailed
  <2>2. \A k \in Loading, p \in Parts : k # "setUp" => loads'[k][p] = loads[k][p]
    BY <1>1, <2>1, LoadsTyped, AnsweredCounts DEF ForwardInv
  <2> QED BY <1>2, <2>2, LoadsTyped
<1>5. ReadingOrder' /\ NoTrap' /\ StripInOrder'
  BY <1>3 DEF ForwardInv, InOrder, ReadingOrder, NoTrap, StripInOrder, Opened, Frontier
<1>6. OneLoad' /\ NothingAsked'
  BY <1>4 DEF OneLoad, NothingAsked
<1>7. AsLaidOut'
  BY <1>2, <1>3, EmptySeq DEF AsLaidOut
<1>8. AtFirst' /\ PastFirst'
  BY <1>2, <1>3, <1>6, <1>7 DEF AtFirst, PastFirst
<1> QED BY <1>5, <1>6, <1>8 DEF InOrder

-----------------------------------------------------------------------------
(* Answers while reading.                                                  *)

\* The one request that may be outstanding is for the part at the frontier,
\* and after its answer none is.
LEMMA TheOneAnswer ==
  ASSUME ForwardInv, NEW kind \in {"loadNextDate", "loadPreviousDate"},
         NEW p \in Parts, loads[kind][p] > 0, loads' = Answered(kind, p)
  PROVE  /\ kind = "loadNextDate" /\ p = Frontier /\ Opened /\ strip # <<>>
         /\ \A q \in Parts : /\ loads'["loadNextDate"][q] = 0
                             /\ loads'["loadPreviousDate"][q] = 0
         /\ offset = 0 => AsLaidOut
<1>1. /\ ReaderInv /\ OneLoad /\ AtFirst
      /\ \A q \in Parts : /\ loads["loadNextDate"][q] \in Nat
                          /\ loads["loadPreviousDate"][q] = 0
                          /\ loads["loadNextDate"][q] > 0 =>
                               q = Frontier /\ loads["loadNextDate"][q] = 1
  BY LoadsTyped DEF ForwardInv, InOrder, OneLoad
<1>2. kind = "loadNextDate" /\ p = Frontier
  BY <1>1
<1>3. \A q \in Parts : /\ loads'["loadNextDate"][q] = 0
                       /\ loads'["loadPreviousDate"][q] = 0
  <2>1. \A q \in Parts :
          /\ loads'["loadNextDate"][q] = IF q = p THEN loads["loadNextDate"][q] - 1
                                                  ELSE loads["loadNextDate"][q]
          /\ loads'["loadPreviousDate"][q] = loads["loadPreviousDate"][q]
    BY <1>1, <1>2, LoadsTyped, ReadingAnswer
  <2> QED BY <1>1, <1>2, <2>1
<1>4. ~NothingAsked
  BY <1>1, <1>2 DEF NothingAsked
<1>5. Opened
  BY <1>1, ReadingAnswer
<1>6. offset = 0 => AsLaidOut /\ Len(strip) = 1
  BY <1>1, <1>4 DEF AtFirst, Dragged, LetGo
<1>7. strip # <<>>
  <2>1. strip = <<>> => offset = 0 /\ Len(strip) = 0
    BY <1>1, EmptySeq DEF ReaderInv, ScreenOnStrip
  <2>2. offset = 0 => Len(strip) = 1
    BY <1>6
  <2>3. Len(strip) = 0 => Len(strip) # 1
    OBVIOUS
  <2> QED BY <2>1, <2>2, <2>3
<1> QED BY <1>2, <1>3, <1>5, <1>6, <1>7

\* The part that is appended is the next of the story.
LEMMA NextAnsweredForward ==
  ASSUME ForwardInv, NEW p \in Parts, NextAnswered(p)
  PROVE  InOrder' /\ AtFirst' /\ PastFirst'
<1> DEFINE n == Len(currentImageArr)
           pages == PagesOf(p, Frontier)
<1>1. ReaderInv /\ InOrder
  BY DEF ForwardInv
<1>2. /\ currentImageArr \in Seq(Parts) /\ n \in Nat /\ n > 0
      /\ strip \in Seq(PageOfStrip) /\ Len(strip) \in Nat
      /\ StartIndex \in Int /\ zeroSectionIndex = StartIndex
      /\ Frontier = StartIndex - n /\ p = Frontier /\ strip # <<>> /\ Len(strip) > 0
      /\ Opened
  <2>1. p = Frontier /\ Opened /\ strip # <<>>
    BY TheOneAnswer DEF NextAnswered
  <2> QED BY <1>1, <2>1, Calculated, EmptySeq DEF InOrder, StripInOrder, Frontier
<1>3. /\ \A q \in Parts : /\ loads'["loadNextDate"][q] = 0
                          /\ loads'["loadPreviousDate"][q] = 0
      /\ offset = 0 => AsLaidOut
  BY TheOneAnswer DEF NextAnswered
<1>4. UNCHANGED <<zeroSectionIndex, currentReadIndex, willShowIndex, offset, drag,
                  visible, callbacks>>
  BY DEF NextAnswered, screenVars
<1>5. /\ Len(currentImageArr') = n + 1
      /\ \A i \in 1 .. n : currentImageArr'[i] = currentImageArr[i]
      /\ currentImageArr'[n + 1] = p
  BY <1>2, AppendProperties DEF NextAnswered, Appended
<1>6. Frontier' = Frontier - 1 /\ Opened'
  BY <1>2, <1>4, <1>5 DEF Frontier, Opened
<1>7. /\ pages \in Seq(PageOfStrip) /\ Len(pages) = Pages[p] /\ Pages[p] \in Nat
      /\ \A k \in 1 .. Pages[p] : pages[k].number = p /\ pages[k].row = k - 1
  BY <1>2, PagesOfPart, ReaderAssumption
<1> HIDE DEF pages
<1>8. /\ Len(strip') = Len(strip) + Pages[p]
      /\ \A k \in 1 .. Len(strip') :
           strip'[k] = IF k <= Len(strip) THEN strip[k] ELSE pages[k - Len(strip)]
  <2>1. strip' = strip \o pages
    BY <1>2 DEF NextAnswered, pages, Frontier
  <2>2. /\ Len(strip \o pages) = Len(strip) + Len(pages)
        /\ \A k \in 1 .. Len(strip) + Len(pages) :
             (strip \o pages)[k] = IF k <= Len(strip) THEN strip[k]
                                                     ELSE pages[k - Len(strip)]
    <3>1. strip \in Seq(PageOfStrip) /\ pages \in Seq(PageOfStrip)
      BY <1>2, <1>7
    <3> QED BY <3>1, ConcatProperties
  <2>3. Len(strip') = Len(strip) + Pages[p]
    BY <1>7, <2>1, <2>2
  <2>4. ASSUME NEW k \in 1 .. Len(strip')
        PROVE  strip'[k] = IF k <= Len(strip) THEN strip[k] ELSE pages[k - Len(strip)]
    BY <1>7, <2>1, <2>2, <2>3
  <2> QED BY <2>3, <2>4
<1>9. ReadingOrder' /\ NoTrap'
  <2>1. ASSUME NEW s \in 0 .. n PROVE currentImageArr'[s + 1] = StartIndex - s
    <3>1. CASE s = n
      BY <1>2, <1>5, <3>1
    <3>2. CASE s \in 0 .. n - 1
      <4>1. currentImageArr[s + 1] = StartIndex - s
        BY <1>1, <1>2, <3>2 DEF InOrder, ReadingOrder
      <4> QED BY <1>2, <1>5, <3>2, <4>1
    <3> QED BY <1>2, <3>1, <3>2
  <2> QED BY <1>1, <1>2, <1>4, <1>5, <2>1 DEF InOrder, ReadingOrder, NoTrap
<1>10. OneLoad' /\ NothingAsked'
  BY <1>3 DEF OneLoad, NothingAsked
<1>11. StripInOrder'
  <2>1. /\ strip[1] = [number |-> StartIndex, row |-> 0]
        /\ \A k \in 1 .. Len(strip) :
             /\ strip[k].number \in Frontier + 1 .. StartIndex
             /\ strip[k].row < Pages[strip[k].number]
             /\ k > 1 => strip[k] # strip[1]
    BY <1>1, <1>2 DEF InOrder, StripInOrder
  <2>2. strip'[1] = strip[1]
    <3>1. 1 \in 1 .. Len(strip') /\ 1 <= Len(strip)
      BY <1>2, <1>7, <1>8
    <3> QED BY <1>8, <3>1
  <2>3. ASSUME NEW k \in 1 .. Len(strip')
        PROVE  /\ strip'[k].number \in Frontier .. StartIndex
               /\ strip'[k].row < Pages[strip'[k].number]
               /\ k > 1 => strip'[k] # strip'[1]
    <3>1. CASE k <= Len(strip)
      <4>1. k \in 1 .. Len(strip) /\ strip'[k] = strip[k]
        BY <1>2, <1>7, <1>8, <3>1
      <4> QED BY <1>2, <2>1, <2>2, <4>1
    <3>2. CASE ~(k <= Len(strip))
      <4>1. /\ k - Len(strip) \in 1 .. Pages[p]
            /\ strip'[k] = pages[k - Len(strip)]
        BY <1>2, <1>7, <1>8, <3>2
      <4>2. strip'[k].number = p /\ strip'[k].row < Pages[p]
        BY <1>2, <1>7, <4>1
      <4>3. strip'[1].number = StartIndex
        BY <2>1, <2>2
      <4> QED BY <1>2, <4>2, <4>3
    <3> QED BY <3>1, <3>2
  <2>4. StartIndex = zeroSectionIndex' /\ Frontier' + 1 = Frontier
    BY <1>2, <1>4, <1>6
  <2> QED BY <2>1, <2>2, <2>3, <2>4 DEF StripInOrder
<1>12. AtFirst' /\ PastFirst'
  <2>1. offset = 0 => AsLaidOut'
    BY <1>3, <1>4 DEF AsLaidOut
  <2>2. PastFirst
    BY DEF ForwardInv
  <2> QED BY <1>4, <1>10, <2>1, <2>2 DEF AtFirst, PastFirst
<1> QED BY <1>9, <1>10, <1>11, <1>12 DEF InOrder

\* A failure leaves the pages as they are.
LEMMA LoadFailedForward ==
  ASSUME ForwardInv, NEW kind \in {"loadNextDate", "loadPreviousDate"},
         NEW p \in Parts, LoadFailed(kind, p)
  PROVE  InOrder' /\ AtFirst' /\ PastFirst'
<1>1. InOrder /\ PastFirst
  BY DEF ForwardInv
<1>2. /\ \A q \in Parts : /\ loads'["loadNextDate"][q] = 0
                          /\ loads'["loadPreviousDate"][q] = 0
      /\ offset = 0 => AsLaidOut
  BY TheOneAnswer DEF LoadFailed
<1>3. UNCHANGED <<currentImageArr, zeroSectionIndex, currentReadIndex, strip,
                  willShowIndex, offset, drag, visible, callbacks>>
  BY DEF LoadFailed, screenVars
<1>4. ReadingOrder' /\ NoTrap' /\ StripInOrder'
  BY <1>1, <1>3 DEF InOrder, ReadingOrder, NoTrap, StripInOrder, Opened, Frontier
<1>5. OneLoad' /\ NothingAsked'
  BY <1>2 DEF OneLoad, NothingAsked
<1>6. offset = 0 => AsLaidOut'
  BY <1>2, <1>3 DEF AsLaidOut
<1> QED BY <1>1, <1>3, <1>4, <1>5, <1>6 DEF AtFirst, PastFirst, InOrder

\* An answer to a request: it is one for the next part.
LEMMA AnswerForward ==
  ASSUME ForwardInv, NEW p \in Parts, Answer(p)
  PROVE  InOrder' /\ AtFirst' /\ PastFirst'
<1>1. ~PreviousAnswered(p)
  BY TheOneAnswer DEF PreviousAnswered
<1> QED BY <1>1, NextAnsweredForward, LoadFailedForward DEF Answer

-----------------------------------------------------------------------------
(* UIKit.                                                                  *)

\* Steps that leave the data source and the requests alone.
LEMMA SameOrder ==
  ASSUME InOrder, UNCHANGED <<currentImageArr, zeroSectionIndex, state,
                              currentReadIndex, loads, strip>>
  PROVE  InOrder' /\ (NothingAsked => NothingAsked')
  BY DEF InOrder, ReadingOrder, NoTrap, OneLoad, StripInOrder, Opened, Frontier,
         NothingAsked

\* The pages on the screen, past the first page, are not the first.
LEMMA PagesOnScreen ==
  ASSUME ReaderInv, InOrder, strip # <<>>,
         NEW d \in {-1, 0, 1}, {offset, offset + d} \subseteq 0 .. Len(strip) - 1,
         offset > 0, offset + d > 0
  PROVE  \A i \in 1 .. Len(Screen(offset, d)) : Screen(offset, d)[i] # First
<1>1. Opened /\ offset \in Nat
  BY Calculated DEF ReaderInv, SetUpFirst
<1>2. \A k \in {offset, offset + d} : PathAt(k) # First
  BY <1>1, PathsOfPages
<1>3. Screen(offset, d) = CASE d = 0  -> <<PathAt(offset)>>
                            [] d = 1  -> <<PathAt(offset), PathAt(offset + 1)>>
                            [] d = -1 -> <<PathAt(offset - 1), PathAt(offset)>>
  BY DEF Screen
<1>4. CASE d = 0
  BY <1>2, <1>3, <1>4
<1>5. CASE d = 1
  BY <1>2, <1>3, <1>5
<1>6. CASE d = -1
  <2>1. offset + d = offset - 1
    BY <1>1, <1>6
  <2> QED BY <1>2, <1>3, <1>6, <2>1
<1> QED BY <1>4, <1>5, <1>6

\* A reload reports the pages that are on the screen, and those that were.
LEMMA LayoutForward ==
  ASSUME ForwardInv, Layout
  PROVE  InOrder' /\ AtFirst' /\ PastFirst'
<1> DEFINE screen == Screen(offset, drag)
<1>1. ReaderInv /\ InOrder /\ AtFirst /\ PastFirst
  BY DEF ForwardInv
<1>2. /\ UNCHANGED <<currentImageArr, zeroSectionIndex, state, currentReadIndex,
                     loads, strip, willShowIndex, offset, drag>>
      /\ needsLayout /\ Opened /\ visible' = screen
  BY <1>1 DEF Layout, readerVars, ReaderInv, SetUpFirst
<1>3. InOrder' /\ (NothingAsked => NothingAsked')
  BY <1>1, <1>2, SameOrder
<1>4. /\ screen \in Seq(SectionPaths) /\ visible \in Seq(SectionPaths)
      /\ Len(screen) \in Nat /\ Len(visible) \in Nat
      /\ drag \in {-1, 0, 1}
      /\ strip # <<>> => {offset, offset + drag} \subseteq 0 .. Len(strip) - 1
  <2>1. /\ drag \in {-1, 0, 1} /\ visible \in Seq(SectionPaths)
        /\ strip # <<>> => {offset, offset + drag} \subseteq 0 .. Len(strip) - 1
    BY <1>1 DEF ReaderInv, TypeOK, SectionsExist, ScreenOnStrip
  <2>2. screen \in Seq(SectionPaths)
    BY <1>1, <2>1, CellsOfScreen DEF ReaderInv
  <2> QED BY <2>1, <2>2, LenProperties
<1>5. \A i \in 1 .. Len(callbacks') :
        \/ /\ callbacks'[i].kind = "will"
           /\ \E j \in 1 .. Len(screen) : callbacks'[i].path = screen[j]
        \/ /\ callbacks'[i].kind = "end"
           /\ \E j \in 1 .. Len(visible) : callbacks'[i].path = visible[j]
  <2> HIDE DEF screen
  <2> DEFINE n == Len(screen)
             m == Len(visible)
             wills(order) == [i \in 1 .. n |-> Callback("will",
                                screen[IF order = "up" THEN i ELSE n + 1 - i])]
             ends == [i \in 1 .. m |-> Callback("end", visible[i])]
             OfScreen(c) == \/ /\ c.kind = "will"
                               /\ \E j \in 1 .. Len(screen) : c.path = screen[j]
                            \/ /\ c.kind = "end"
                               /\ \E j \in 1 .. Len(visible) : c.path = visible[j]
  <2>1. PICK order \in WillOrders, report \in EndReports :
          callbacks' = CASE report = "none"   -> wills(order)
                         [] report = "before" -> ends \o wills(order)
                         [] report = "after"  -> wills(order) \o ends
    BY DEF Layout, screen
  <2>2. report \in {"none", "before", "after"}
    BY ReaderAssumption
  <2>3. /\ wills(order) \in Seq(CallbackOf(SectionPaths)) /\ Len(wills(order)) = n
        /\ \A i \in 1 .. n : OfScreen(wills(order)[i])
    <3>1. ASSUME NEW i \in 1 .. n
          PROVE  /\ wills(order)[i] \in CallbackOf(SectionPaths)
                 /\ OfScreen(wills(order)[i])
      <4>1. PICK j \in 1 .. n : wills(order)[i] = Callback("will", screen[j])
        <5>1. i \in 1 .. n /\ n + 1 - i \in 1 .. n
          BY <1>4
        <5> QED BY <5>1
      <4>2. screen[j] \in SectionPaths
        BY <1>4, ElementOfSeq
      <4> QED BY <4>1, <4>2 DEF Callback, CallbackOf
    <3>2. wills(order) \in [1 .. n -> CallbackOf(SectionPaths)] /\ n \in Nat
      BY <1>4, <3>1
    <3>3. wills(order) \in Seq(CallbackOf(SectionPaths)) /\ Len(wills(order)) = n
      BY <3>2
    <3> QED BY <3>1, <3>3
  <2>4. /\ ends \in Seq(CallbackOf(SectionPaths)) /\ Len(ends) = m
        /\ \A i \in 1 .. m : OfScreen(ends[i])
    <3>1. ASSUME NEW i \in 1 .. m
          PROVE  /\ ends[i] \in CallbackOf(SectionPaths)
                 /\ OfScreen(ends[i])
      <4>1. visible[i] \in SectionPaths /\ ends[i] = Callback("end", visible[i])
        BY <1>4, ElementOfSeq
      <4> QED BY <4>1 DEF Callback, CallbackOf
    <3>2. ends \in [1 .. m -> CallbackOf(SectionPaths)] /\ m \in Nat
      BY <1>4, <3>1
    <3>3. ends \in Seq(CallbackOf(SectionPaths)) /\ Len(ends) = m
      BY <3>2
    <3> QED BY <3>1, <3>3
  <2> HIDE DEF wills, ends, OfScreen
  <2>5. ASSUME NEW a \in Seq(CallbackOf(SectionPaths)),
               NEW b \in Seq(CallbackOf(SectionPaths)),
               \A i \in 1 .. Len(a) : OfScreen(a[i]),
               \A i \in 1 .. Len(b) : OfScreen(b[i])
        PROVE  \A i \in 1 .. Len(a \o b) : OfScreen((a \o b)[i])
    <3>1. Len(a) \in Nat /\ Len(b) \in Nat /\ Len(a \o b) = Len(a) + Len(b)
      BY LenProperties, ConcatProperties
    <3>2. ASSUME NEW i \in 1 .. Len(a \o b)
          PROVE  OfScreen((a \o b)[i])
      <4>1. CASE i <= Len(a)
        <5>1. i \in 1 .. Len(a) /\ (a \o b)[i] = a[i]
          BY <3>1, <4>1, ConcatProperties
        <5> QED BY <2>5, <5>1
      <4>2. CASE ~(i <= Len(a))
        <5>1. i - Len(a) \in 1 .. Len(b) /\ (a \o b)[i] = b[i - Len(a)]
          BY <3>1, <4>2, ConcatProperties
        <5> QED BY <2>5, <5>1
      <4> QED BY <4>1, <4>2
    <3> QED BY <3>2
  <2>6. \A i \in 1 .. Len(callbacks') : OfScreen(callbacks'[i])
    <3>1. CASE report = "none"
      BY <2>1, <2>3, <3>1
    <3>2. CASE report = "before"
      <4>1. callbacks' = ends \o wills(order)
        BY <2>1, <3>2
      <4> QED BY <2>3, <2>4, <2>5, <4>1
    <3>3. CASE report = "after"
      <4>1. callbacks' = wills(order) \o ends
        BY <2>1, <3>3
      <4> QED BY <2>3, <2>4, <2>5, <4>1
    <3> QED BY <2>2, <3>1, <3>2, <3>3
  <2> QED BY <2>6 DEF OfScreen
<1>6. ASSUME offset = 0
      PROVE  AtFirst'
  <2>1. AsLaidOut /\ drag = 0 /\ (NothingAsked \/ Len(strip) = 1)
    BY <1>1, <1>2, <1>6 DEF AtFirst, AsLaidOut, Dragged, LetGo
  <2>2. \A j \in 1 .. Len(screen) : screen[j] = First
    <3>1. CASE strip = <<>>
      <4>1. screen = <<>> /\ Len(screen) = 0
        BY <3>1, EmptySeq DEF Screen
      <4> QED BY <4>1
    <3>2. CASE strip # <<>>
      <4>1. screen = <<PathAt(0)>> /\ 0 \in 0 .. Len(strip) - 1
        BY <1>4, <1>6, <2>1, <3>2 DEF Screen
      <4>2. PathAt(0) = First
        BY <1>1, <1>2, <4>1, PathsOfPages
      <4> QED BY <4>1, <4>2
    <3> QED BY <3>1, <3>2
  <2>3. \A j \in 1 .. Len(visible) : visible[j] = First
    BY <2>1 DEF AsLaidOut
  <2>4. \A i \in 1 .. Len(callbacks') : callbacks'[i].path = First
    BY <1>5, <2>2, <2>3
  <2>5. AsLaidOut'
    BY <1>2, <2>1, <2>2, <2>4 DEF AsLaidOut
  <2> QED BY <1>2, <1>3, <2>1, <2>5 DEF AtFirst
<1>7. ASSUME offset > 0
      PROVE  PastFirst'
  <2>1. strip # <<>> /\ offset + drag > 0
    BY <1>1, <1>7 DEF PastFirst, ReaderInv, ScreenOnStrip
  <2>2. \A j \in 1 .. Len(screen) : screen[j] # First
    BY <1>1, <1>4, <1>7, <2>1, PagesOnScreen
  <2>3. \A i \in 1 .. Len(callbacks') :
          callbacks'[i].kind = "will" => callbacks'[i].path # First
    BY <1>5, <2>2
  <2> QED BY <1>1, <1>2, <1>7, <2>3 DEF PastFirst
<1> QED BY <1>2, <1>3, <1>6, <1>7 DEF AtFirst, PastFirst

\* A drag from the first page goes forward, and never ends on it again.
LEMMA BeginDragForward ==
  ASSUME ForwardEnvironment, ForwardInv, NEW d \in Swipes, BeginDrag(d)
  PROVE  InOrder' /\ AtFirst' /\ PastFirst'
<1>1. ReaderInv /\ InOrder /\ AtFirst /\ PastFirst
  BY DEF ForwardInv
<1>2. /\ UNCHANGED <<currentImageArr, zeroSectionIndex, state, currentReadIndex,
                     loads, strip, willShowIndex, offset>>
      /\ callbacks = <<>> /\ ~needsLayout' /\ drag = 0 /\ drag' = d
      /\ offset + d \in 0 .. Len(strip) - 1
      /\ d = -1 => offset + d >= LowestReturn
      /\ callbacks' = <<Callback("will", PathAt(offset + d))>>
  BY DEF BeginDrag, readerVars, MainFree
<1>3. /\ d \in {-1, 1} /\ offset \in Nat /\ Len(strip) \in Nat
      /\ LowestReturn \in Nat /\ LowestReturn >= 1
  BY <1>1, Calculated, ReaderAssumption DEF ForwardEnvironment
<1>4. InOrder' /\ (NothingAsked => NothingAsked')
  BY <1>1, <1>2, SameOrder
<1>5. ASSUME offset = 0
      PROVE  AtFirst'
  <2>1. d = 1 /\ Len(strip) # 1
    <3>1. d \in {-1, 1} /\ Len(strip) \in Nat /\ 0 + d \in 0 .. Len(strip) - 1
      BY <1>2, <1>3, <1>5
    <3>2. d # -1
      BY <3>1
    <3>3. 1 \in 0 .. Len(strip) - 1
      BY <3>1, <3>2
    <3>4. \A l \in Nat : 1 \in 0 .. l - 1 => l # 1
      OBVIOUS
    <3> QED BY <3>1, <3>2, <3>3, <3>4
  <2>2. NothingAsked
    BY <1>1, <1>5, <2>1 DEF AtFirst
  <2>3. PathAt(1)' = PathAt(1)
    BY <1>2 DEF PathAt
  <2>4. Dragged'
    BY <1>2, <1>4, <1>5, <2>1, <2>2, <2>3 DEF Dragged
  <2> QED BY <1>4, <2>2, <2>4 DEF AtFirst
<1>6. ASSUME offset > 0
      PROVE  PastFirst'
  <2>1. offset + d > 0 /\ Opened
    <3>1. offset + d > 0
      BY <1>2, <1>3, <1>6
    <3>2. strip # <<>>
      BY <1>1, <1>6 DEF ReaderInv, ScreenOnStrip
    <3> QED BY <1>1, <3>1, <3>2 DEF ReaderInv, SetUpFirst
  <2>2. PathAt(offset + d) # First
    BY <1>1, <1>2, <2>1, PathsOfPages
  <2> QED BY <1>1, <1>2, <1>6, <2>1, <2>2 DEF PastFirst, Callback
<1> QED BY <1>2, <1>3, <1>4, <1>5, <1>6 DEF AtFirst, PastFirst

\* The first page is left with the second as the page about to appear; let
\* go, it is the second that leaves, which the handler ignores.
LEMMA EndDragForward ==
  ASSUME ForwardInv, NEW turned \in BOOLEAN, EndDrag(turned)
  PROVE  InOrder' /\ AtFirst' /\ PastFirst'
<1>1. ReaderInv /\ InOrder /\ AtFirst /\ PastFirst
  BY DEF ForwardInv
<1>2. /\ UNCHANGED <<currentImageArr, zeroSectionIndex, state, currentReadIndex,
                     loads, strip, willShowIndex>>
      /\ callbacks = <<>> /\ ~needsLayout' /\ drag # 0 /\ drag' = 0
      /\ offset' = IF turned THEN offset + drag ELSE offset
      /\ callbacks' = <<Callback("end", PathAt(IF turned THEN offset
                                                         ELSE offset + drag))>>
  BY DEF EndDrag, readerVars, MainFree
<1>3. /\ offset \in Nat /\ drag \in {-1, 0, 1} /\ Len(strip) \in Nat /\ Opened
      /\ offset + drag \in 0 .. Len(strip) - 1
  <2>1. strip # <<>>
    BY <1>1, <1>2 DEF ReaderInv, ScreenOnStrip
  <2> QED BY <1>1, <2>1, Calculated DEF ReaderInv, ScreenOnStrip, SetUpFirst
<1>4. InOrder' /\ (NothingAsked => NothingAsked')
  BY <1>1, <1>2, SameOrder
<1>5. CASE offset = 0
  <2>1. /\ drag = 1 /\ NothingAsked /\ willShowIndex = PathAt(1)
    BY <1>1, <1>2, <1>5 DEF AtFirst, AsLaidOut, Dragged, LetGo
  <2>2. PathAt(1) \notin {NoIndex, First}
    BY <1>1, <1>3, <1>5, <2>1, PathsOfPages
  <2>3. CASE turned
    <3>1. offset' = 1 /\ drag' = 0 /\ willShowIndex' \notin {NoIndex, First}
      BY <1>2, <1>5, <2>1, <2>2, <2>3
    <3>2. \A i \in 1 .. Len(callbacks') : callbacks'[i].kind = "end"
      BY <1>2 DEF Callback
    <3> QED BY <1>4, <3>1, <3>2 DEF AtFirst, PastFirst
  <2>4. CASE ~turned
    <3>1. /\ offset' = 0 /\ drag' = 0 /\ willShowIndex' \notin {NoIndex, First}
          /\ callbacks' = <<Callback("end", willShowIndex')>>
      BY <1>2, <1>5, <2>1, <2>2, <2>4
    <3>2. LetGo'
      BY <1>2, <1>4, <2>1, <3>1 DEF LetGo
    <3> QED BY <1>4, <2>1, <3>1, <3>2 DEF AtFirst, PastFirst
  <2> QED BY <1>4, <2>3, <2>4
<1>6. CASE offset > 0
  <2>1. /\ offset' > 0 /\ drag' = 0 /\ willShowIndex' \notin {NoIndex, First}
        /\ offset' \in Nat
    BY <1>1, <1>2, <1>3, <1>6 DEF PastFirst
  <2>2. \A i \in 1 .. Len(callbacks') : callbacks'[i].kind = "end"
    BY <1>2 DEF Callback
  <2>3. offset' # 0 /\ offset' + drag' > 0
    <3>1. offset' \in Nat /\ offset' > 0 /\ drag' = 0
      BY <2>1
    <3>2. offset' # 0
      BY <3>1
    <3>3. \A o \in Nat : o > 0 => o + 0 > 0
      OBVIOUS
    <3> QED BY <3>1, <3>2, <3>3
  <2>4. AtFirst' /\ PastFirst'
    BY <2>1, <2>2, <2>3 DEF AtFirst, PastFirst
  <2> QED BY <1>4, <2>4
<1> QED BY <1>3, <1>5, <1>6

-----------------------------------------------------------------------------
(* The delegate.                                                           *)

\* The callback that is due, and the ones after it.
LEMMA DueCallback ==
  ASSUME ReaderInv, callbacks # <<>>, callbacks' = Tail(callbacks)
  PROVE  /\ Opened
         /\ Len(callbacks) \in Nat /\ Len(callbacks) > 0
         /\ Head(callbacks) = callbacks[1]
         /\ callbacks[1].path \in SectionPaths /\ callbacks[1].path # NoIndex
         /\ \A i \in 1 .. Len(callbacks') :
              i + 1 \in 1 .. Len(callbacks) /\ callbacks'[i] = callbacks[i + 1]
<1>1. callbacks \in Seq(CallbackOf(SectionPaths))
  BY DEF ReaderInv, SectionsExist, CallbackOf
<1>2. Len(callbacks) \in Nat /\ Len(callbacks) > 0
  BY <1>1, EmptySeq, LenProperties
<1>3. /\ Len(callbacks') = Len(callbacks) - 1
      /\ \A i \in 1 .. Len(callbacks') : callbacks'[i] = callbacks[i + 1]
  BY <1>1, HeadTailProperties
<1>4. callbacks[1] \in CallbackOf(SectionPaths)
  BY <1>1, <1>2, ElementOfSeq
<1>5. callbacks[1].path \in SectionPaths /\ callbacks[1].path # NoIndex
  <2>1. callbacks[1].path \in SectionPaths
    BY <1>4 DEF CallbackOf
  <2>2. callbacks[1].path.section >= 0
    BY <2>1, Calculated DEF SectionPaths
  <2> QED BY <2>1, <2>2 DEF NoIndex
<1>6. Head(callbacks) = callbacks[1]
  BY <1>1
<1>7. Opened
  BY HeadCallback
<1> QED BY <1>2, <1>3, <1>5, <1>6, <1>7

\* The first page appears as it was laid out, the second as it is dragged in.
LEMMA WillDisplayForward ==
  ASSUME ForwardInv, WillDisplay
  PROVE  InOrder' /\ AtFirst' /\ PastFirst'
<1>1. ReaderInv /\ InOrder /\ AtFirst /\ PastFirst
  BY DEF ForwardInv
<1>2. /\ UNCHANGED <<currentImageArr, zeroSectionIndex, state, currentReadIndex,
                     loads, strip, offset, drag, visible, needsLayout>>
      /\ callbacks # <<>> /\ callbacks' = Tail(callbacks)
      /\ Head(callbacks).kind = "will" /\ willShowIndex' = Head(callbacks).path
  BY DEF WillDisplay, screenVars
<1>3. /\ Len(callbacks) \in Nat /\ 1 \in 1 .. Len(callbacks)
      /\ callbacks[1].kind = "will" /\ willShowIndex' = callbacks[1].path
      /\ willShowIndex' # NoIndex
      /\ \A i \in 1 .. Len(callbacks') :
           i + 1 \in 1 .. Len(callbacks) /\ callbacks'[i] = callbacks[i + 1]
  BY <1>1, <1>2, DueCallback
<1>4. InOrder' /\ (NothingAsked => NothingAsked')
  BY <1>1, <1>2, SameOrder
<1>5. ASSUME offset = 0
      PROVE  AtFirst'
  <2>1. NothingAsked' \/ Len(strip') = 1
    BY <1>1, <1>2, <1>4, <1>5 DEF AtFirst
  <2>2. CASE AsLaidOut
    <3>1. \A i \in 1 .. Len(callbacks') : callbacks'[i].path = First
      BY <1>3, <2>2 DEF AsLaidOut
    <3>2. willShowIndex' = First
      BY <1>3, <2>2 DEF AsLaidOut
    <3>3. AsLaidOut'
      BY <1>2, <2>2, <3>1, <3>2 DEF AsLaidOut
    <3> QED BY <2>1, <3>3 DEF AtFirst
  <2>3. CASE Dragged
    <3>1. callbacks = <<Callback("will", PathAt(1))>>
      BY <1>2, <2>3 DEF Dragged
    <3>2. /\ callbacks' = <<>> /\ willShowIndex' = PathAt(1)
          /\ PathAt(1)' = PathAt(1)
      BY <1>2, <3>1 DEF Callback, PathAt
    <3>3. Dragged'
      BY <1>2, <1>4, <2>3, <3>2 DEF Dragged
    <3> QED BY <2>1, <3>3 DEF AtFirst
  <2>4. CASE LetGo
    <3>1. callbacks = <<Callback("end", willShowIndex)>>
      BY <1>2, <2>4 DEF LetGo
    <3> QED BY <1>3, <3>1 DEF Callback
  <2> QED BY <1>1, <1>5, <2>2, <2>3, <2>4 DEF AtFirst
<1>6. ASSUME offset > 0
      PROVE  PastFirst'
  <2>1. willShowIndex' # First
    BY <1>1, <1>3, <1>6 DEF PastFirst
  <2>2. \A i \in 1 .. Len(callbacks') :
          callbacks'[i].kind = "will" => callbacks'[i].path # First
    BY <1>1, <1>3, <1>6 DEF PastFirst
  <2> QED BY <1>1, <1>2, <1>3, <1>6, <2>1, <2>2 DEF PastFirst
<1> QED BY <1>2, <1>4, <1>5, <1>6 DEF AtFirst, PastFirst

\* A page that leaves and is the one that appeared last changes nothing.
LEMMA DidEndIgnoredForward ==
  ASSUME ForwardInv, DidEndIgnored
  PROVE  InOrder' /\ AtFirst' /\ PastFirst'
<1>1. ReaderInv /\ InOrder /\ AtFirst /\ PastFirst
  BY DEF ForwardInv
<1>2. /\ UNCHANGED <<currentImageArr, zeroSectionIndex, state, currentReadIndex,
                     loads, strip, willShowIndex, offset, drag, visible, needsLayout>>
      /\ callbacks # <<>> /\ callbacks' = Tail(callbacks)
      /\ Head(callbacks).kind = "end"
  BY DEF DidEndIgnored, readerVars, screenVars
<1>3. /\ callbacks[1].kind = "end"
      /\ \A i \in 1 .. Len(callbacks') :
           i + 1 \in 1 .. Len(callbacks) /\ callbacks'[i] = callbacks[i + 1]
  BY <1>1, <1>2, DueCallback
<1>4. InOrder' /\ (NothingAsked => NothingAsked')
  BY <1>1, <1>2, SameOrder
<1>5. ASSUME offset = 0
      PROVE  AtFirst'
  <2>1. NothingAsked' \/ Len(strip') = 1
    BY <1>1, <1>2, <1>4, <1>5 DEF AtFirst
  <2>2. CASE AsLaidOut
    <3>1. \A i \in 1 .. Len(callbacks') : callbacks'[i].path = First
      BY <1>3, <2>2 DEF AsLaidOut
    <3>2. AsLaidOut'
      BY <1>2, <2>2, <3>1 DEF AsLaidOut
    <3> QED BY <2>1, <3>2 DEF AtFirst
  <2>3. CASE Dragged
    <3>1. callbacks = <<Callback("will", PathAt(1))>>
      BY <1>2, <2>3 DEF Dragged
    <3> QED BY <1>3, <3>1 DEF Callback
  <2>4. CASE LetGo
    <3>1. callbacks = <<Callback("end", willShowIndex)>>
      BY <1>2, <2>4 DEF LetGo
    <3>2. callbacks' = <<>>
      BY <1>2, <3>1
    <3>3. LetGo'
      BY <1>2, <1>4, <2>4, <3>2 DEF LetGo
    <3> QED BY <2>1, <3>3 DEF AtFirst
  <2> QED BY <1>1, <1>5, <2>2, <2>3, <2>4 DEF AtFirst
<1>6. ASSUME offset > 0
      PROVE  PastFirst'
  <2>1. \A i \in 1 .. Len(callbacks') :
          callbacks'[i].kind = "will" => callbacks'[i].path # First
    BY <1>1, <1>3, <1>6 DEF PastFirst
  <2> QED BY <1>1, <1>2, <1>6, <2>1 DEF PastFirst
<1> QED BY <1>2, <1>4, <1>5, <1>6 DEF AtFirst, PastFirst

\* The handler runs only past the first page, so it asks for no previous part,
\* and for the next part only when none is outstanding.
LEMMA DidEndDisplayingForward ==
  ASSUME ForwardInv, DidEndDisplaying
  PROVE  InOrder' /\ AtFirst' /\ PastFirst'
<1> DEFINE n == Len(currentImageArr)
           s == willShowIndex.section
<1>1. ReaderInv /\ InOrder /\ AtFirst /\ PastFirst
  BY DEF ForwardInv
<1>2. /\ UNCHANGED <<currentImageArr, zeroSectionIndex, strip, willShowIndex,
                     offset, drag, visible, needsLayout>>
      /\ callbacks # <<>> /\ callbacks' = Tail(callbacks)
      /\ Head(callbacks).kind = "end"
      /\ willShowIndex \notin {NoIndex, Head(callbacks).path}
      /\ currentReadIndex' = zeroSectionIndex - s
  BY DEF DidEndDisplaying, screenVars
<1>3. /\ callbacks[1].kind = "end" /\ Opened
      /\ Len(callbacks) \in Nat /\ 1 \in 1 .. Len(callbacks)
      /\ willShowIndex \notin {NoIndex, callbacks[1].path}
      /\ \A i \in 1 .. Len(callbacks') :
           i + 1 \in 1 .. Len(callbacks) /\ callbacks'[i] = callbacks[i + 1]
  BY <1>1, <1>2, DueCallback
<1>4. offset > 0
  <2>1. SUFFICES ASSUME offset = 0 PROVE FALSE
    BY <1>1, Calculated
  <2>2. CASE AsLaidOut
    BY <1>3, <2>2 DEF AsLaidOut
  <2>3. CASE Dragged
    <3>1. callbacks = <<Callback("will", PathAt(1))>>
      BY <1>2, <2>3 DEF Dragged
    <3> QED BY <1>3, <3>1 DEF Callback
  <2>4. CASE LetGo
    <3>1. callbacks = <<Callback("end", willShowIndex)>>
      BY <1>2, <2>4 DEF LetGo
    <3> QED BY <1>3, <3>1 DEF Callback
  <2> QED BY <1>1, <2>1, <2>2, <2>3, <2>4 DEF AtFirst
<1>5. PastFirst'
  <2>1. \A i \in 1 .. Len(callbacks') :
          callbacks'[i].kind = "will" => callbacks'[i].path # First
    BY <1>1, <1>3, <1>4 DEF PastFirst
  <2> QED BY <1>1, <1>2, <1>4, <2>1 DEF PastFirst
<1>6. AtFirst'
  BY <1>2, <1>4 DEF AtFirst
<1>7. /\ willShowIndex \in SectionPaths /\ willShowIndex # First
      /\ s \in 0 .. n - 1 /\ n \in Nat /\ willShowIndex.row \in Nat
      /\ zeroSectionIndex = StartIndex /\ StartIndex \in Int
      /\ currentImageArr \in Seq(Parts)
  <2>1. willShowIndex \in SectionPaths /\ willShowIndex # First
    BY <1>1, <1>3, <1>4 DEF ReaderInv, SectionsExist, PastFirst
  <2>2. s \in 0 .. n - 1 /\ willShowIndex.row \in Nat
    BY <2>1 DEF SectionPaths
  <2> QED BY <1>1, <1>3, <2>1, <2>2, Calculated DEF InOrder, StripInOrder
<1>8. ~AtFirstPage
  <2>1. willShowIndex = [section |-> s, row |-> willShowIndex.row]
    BY <1>7 DEF SectionPaths
  <2> QED BY <1>7, <2>1 DEF AtFirstPage, First
<1>9. ReadingOrder' /\ NoTrap' /\ StripInOrder' /\ Frontier' = Frontier
  <2>1. currentReadIndex' = currentImageArr[s + 1]
    BY <1>1, <1>2, <1>7 DEF InOrder, ReadingOrder
  <2>2. currentImageArr[s + 1] \in Parts
    BY <1>7, ElementOfSeq
  <2>3. ReadingOrder' /\ StripInOrder' /\ Frontier' = Frontier
    BY <1>1, <1>2 DEF InOrder, ReadingOrder, StripInOrder, Opened, Frontier
  <2> QED BY <2>1, <2>2, <2>3 DEF NoTrap
<1>10. OneLoad'
  <2>1. currentReadIndex' \in Parts
    BY <1>9 DEF NoTrap
  <2>2. CASE AsksNext
    <3>1. /\ loads' = Request(loads, "loadNextDate", Frontier)
          /\ state' = "loadNextDate"
      BY <1>8, <2>1, <2>2 DEF DidEndDisplaying, AsksPrevious
    <3>2. \A p \in Parts :
            loads["loadNextDate"][p] = 0 /\ loads["loadPreviousDate"][p] = 0
      <4>1. Len(strip) # 1
        <5>1. strip # <<>> /\ offset \in 0 .. Len(strip) - 1
          BY <1>1, <1>4 DEF ReaderInv, ScreenOnStrip
        <5>2. Len(strip) \in Nat /\ offset \in Nat
          BY <1>1, Calculated
        <5>3. \A l, o \in Nat : o > 0 /\ o \in 0 .. l - 1 => l # 1
          OBVIOUS
        <5> QED BY <1>4, <5>1, <5>2, <5>3
      <4>2. state # "loadNextDate"
        BY <2>2 DEF AsksNext
      <4>3. \A p \in Parts : loads["loadNextDate"][p] \in Nat
        BY <1>1, LoadsTyped
      <4> QED BY <1>1, <4>1, <4>2, <4>3 DEF InOrder, OneLoad
    <3>3. \A p \in Parts :
            /\ loads'["loadNextDate"][p] = IF p = Frontier THEN 1 ELSE 0
            /\ loads'["loadPreviousDate"][p] = 0
      <4>1. \A k \in Loading, p \in Parts :
              loads'[k][p] = IF k = "loadNextDate" /\ p = Frontier
                             THEN loads[k][p] + 1 ELSE loads[k][p]
        <5>1. loads \in [Loading -> [Parts -> Nat]] /\ "loadNextDate" \in Loading
          BY <1>1, LoadsTyped
        <5> QED BY <3>1, <5>1, RequestCounts
      <4>2. \A p \in Parts :
              /\ loads'["loadNextDate"][p] = IF p = Frontier
                   THEN loads["loadNextDate"][p] + 1 ELSE loads["loadNextDate"][p]
              /\ loads'["loadPreviousDate"][p] = loads["loadPreviousDate"][p]
        BY <4>1, LoadsTyped
      <4> QED BY <3>2, <4>2
    <3>4. Pages[Frontier + 1] > 0
      <4>1. s = n - 1 /\ willShowIndex.row = Pages[currentImageArr[s + 1]] - 1
        BY <2>2 DEF AsksNext, AtLastPage
      <4>2. currentImageArr[s + 1] = Frontier + 1
        BY <1>1, <1>7, <4>1 DEF InOrder, ReadingOrder, Frontier
      <4>3. Pages[Frontier + 1] \in Nat
        <5>1. s + 1 \in 1 .. n
          BY <1>7
        <5>2. currentImageArr[s + 1] \in Parts
          BY <1>7, <5>1, ElementOfSeq
        <5> QED BY <4>2, <5>2, ReaderAssumption
      <4>4. willShowIndex.row = Pages[Frontier + 1] - 1
        BY <4>1, <4>2
      <4> QED BY <1>7, <4>3, <4>4
    <3> QED BY <1>9, <3>1, <3>3, <3>4 DEF OneLoad
  <2>3. CASE ~AsksNext
    <3>1. loads' = loads /\ state' = state
      BY <1>8, <2>1, <2>3 DEF DidEndDisplaying, AsksPrevious
    <3> QED BY <1>1, <1>2, <1>9, <3>1 DEF InOrder, OneLoad
  <2> QED BY <2>2, <2>3
<1> QED BY <1>5, <1>6, <1>9, <1>10 DEF InOrder

-----------------------------------------------------------------------------
(* The theorems.                                                           *)

\* Every step keeps what the safety properties rest on.
LEMMA StepForward ==
  ASSUME ForwardEnvironment, ForwardInv, [Next]_vars
  PROVE  ForwardInv'
<1>1. ReaderInv'
  BY StepReaderInv DEF ForwardInv
<1>2. CASE SetUpAnswered
  BY <1>1, <1>2, SetUpAnsweredForward DEF ForwardInv
<1>3. CASE SetUpFailed
  BY <1>1, <1>3, SetUpFailedForward DEF ForwardInv
<1>4. CASE \E p \in Parts : Answer(p)
  BY <1>1, <1>4, AnswerForward DEF ForwardInv
<1>5. CASE Layout
  BY <1>1, <1>5, LayoutForward DEF ForwardInv
<1>6. CASE \E d \in Swipes : BeginDrag(d)
  BY <1>1, <1>6, BeginDragForward DEF ForwardInv
<1>7. CASE \E turned \in BOOLEAN : EndDrag(turned)
  BY <1>1, <1>7, EndDragForward DEF ForwardInv
<1>8. CASE WillDisplay
  BY <1>1, <1>8, WillDisplayForward DEF ForwardInv
<1>9. CASE DidEndIgnored
  BY <1>1, <1>9, DidEndIgnoredForward DEF ForwardInv
<1>10. CASE DidEndDisplaying
  BY <1>1, <1>10, DidEndDisplayingForward DEF ForwardInv
<1>11. CASE UNCHANGED vars
  <2>1. UNCHANGED <<currentImageArr, zeroSectionIndex, state, currentReadIndex,
                    willShowIndex, loads, strip, offset, drag, visible, needsLayout,
                    callbacks>>
    BY <1>11 DEF vars, readerVars, screenVars
  <2>2. InOrder' /\ (NothingAsked => NothingAsked')
    BY <2>1, SameOrder DEF ForwardInv
  <2>3. PathAt(1)' = PathAt(1)
    BY <2>1 DEF PathAt
  <2>4. AtFirst' /\ PastFirst'
    BY <2>1, <2>2, <2>3 DEF ForwardInv, AtFirst, PastFirst, AsLaidOut, Dragged, LetGo
  <2> QED BY <1>1, <2>2, <2>4 DEF ForwardInv
<1> QED
  BY <1>2, <1>3, <1>4, <1>5, <1>6, <1>7, <1>8, <1>9, <1>10, <1>11 DEF Next, Deliver

\* On a reader opened on the first part and never paged back to its first page,
\* they always hold.
THEOREM ForwardInvariant == ForwardEnvironment => (Spec => []ForwardInv)
<1> SUFFICES ASSUME ForwardEnvironment PROVE Spec => []ForwardInv
  OBVIOUS
<1>1. Init => ForwardInv
  BY InitReaderInv, InitForward DEF ForwardInv
<1>2. ForwardInv /\ [Next]_vars => ForwardInv'
  BY StepForward
<1> QED BY <1>1, <1>2, PTL DEF Spec

\* Read forward from the first part, the sections are the parts of the story
\* in order: none repeated, none skipped.
THEOREM ReadInOrder == ForwardEnvironment => (Spec => []ReadingOrder)
<1>1. ForwardInv => ReadingOrder
  BY DEF ForwardInv, InOrder
<1> QED BY <1>1, ForwardInvariant, PTL

\* Read forward from the first part, the title is always that of a part of the
\* book: MK_ComicReadVC never indexes bookPartArray out of its range.
THEOREM NeverTraps == ForwardEnvironment => (Spec => []NoTrap)
<1>1. ForwardInv => NoTrap
  BY DEF ForwardInv, InOrder
<1> QED BY <1>1, ForwardInvariant, PTL

\* Read forward from the first part, no part is asked for twice: not while it
\* is being loaded, and not once it is there.
THEOREM EachPartIsAskedForOnce == ForwardEnvironment => (Spec => []AskedOnce)
<1>1. ASSUME ForwardInv PROVE AskedOnce
  <2> SUFFICES ASSUME NEW p \in Parts
               PROVE  loads["setUp"][p] + loads["loadNextDate"][p]
                        + loads["loadPreviousDate"][p]
                        + Cardinality({i \in 1 .. Len(currentImageArr) :
                                         currentImageArr[i] = p}) <= 1
    BY DEF AskedOnce
  <2> DEFINE holds == {i \in 1 .. Len(currentImageArr) : currentImageArr[i] = p}
  <2>1. /\ ReaderInv /\ InOrder /\ p \in Int
        /\ loads["setUp"][p] \in Nat /\ loads["loadNextDate"][p] \in Nat
        /\ loads["loadPreviousDate"][p] = 0
        /\ loads["loadNextDate"][p] <= 1
        /\ loads["loadNextDate"][p] > 0 => p = Frontier
    BY <1>1, LoadsTyped DEF ForwardInv, InOrder, OneLoad, Parts
  <2>2. /\ Len(currentImageArr) \in Nat /\ zeroSectionIndex \in Int
        /\ Opened <=> Len(currentImageArr) > 0
        /\ Frontier = zeroSectionIndex - Len(currentImageArr)
        /\ \A i \in 1 .. Len(currentImageArr) :
             currentImageArr[i] = zeroSectionIndex - (i - 1)
    <3>1. ASSUME NEW i \in 1 .. Len(currentImageArr)
          PROVE  currentImageArr[i] = zeroSectionIndex - (i - 1)
      <4>1. i - 1 \in 0 .. Len(currentImageArr) - 1 /\ (i - 1) + 1 = i
        BY <2>1, Calculated
      <4>2. currentImageArr[(i - 1) + 1] = zeroSectionIndex - (i - 1)
        BY <2>1, <4>1 DEF InOrder, ReadingOrder
      <4> QED BY <4>1, <4>2
    <3> QED BY <2>1, <3>1, Calculated DEF Frontier
  <2>3. /\ Opened => loads["setUp"][p] = 0
        /\ ~Opened => loads["loadNextDate"][p] = 0 /\ loads["setUp"][p] <= 1
    BY <2>1 DEF ReaderInv, SetUpFirst
  <2>4. /\ Cardinality(holds) \in {0, 1}
        /\ Cardinality(holds) = 1 => Opened /\ p # Frontier
    <3>1. CASE holds = {}
      BY <3>1, FS_EmptySet
    <3>2. CASE holds # {}
      <4>1. PICK i \in holds : TRUE
        BY <3>2
      <4>2. \A j \in holds : j = i
        BY <2>1, <2>2, <4>1
      <4>3. holds = {i}
        BY <4>1, <4>2
      <4>4. Opened /\ p # Frontier
        BY <2>1, <2>2, <4>1
      <4> QED BY <4>3, <4>4, FS_Singleton
    <3> QED BY <3>1, <3>2
  <2> HIDE DEF holds
  <2>5. loads["setUp"][p] + loads["loadNextDate"][p] + Cardinality(holds) <= 1
    BY <2>1, <2>3, <2>4
  <2> QED BY <2>1, <2>4, <2>5 DEF holds
<1> QED BY <1>1, ForwardInvariant, PTL

-----------------------------------------------------------------------------
(* The reader read forward implements StoryReader: what is loaded is an     *)
(* interval of the book, an answer extends it and leaves the page alone,    *)
(* and a page turned is a neighbour in the order of the story.              *)

StoryInv == ForwardInv /\ StripFollows

-----------------------------------------------------------------------------
(* The pages of the strip.                                                 *)

\* The data source resolves each page of the strip to the page it stands for.
LEMMA ContentOfPage ==
  ForwardInv /\ strip # <<>> =>
    \A k \in 0 .. Len(strip) - 1 : ContentAt(k) = StoryPage(strip[k + 1])
<1> SUFFICES ASSUME ForwardInv, strip # <<>>, NEW k \in 0 .. Len(strip) - 1
             PROVE  ContentAt(k) = StoryPage(strip[k + 1])
  OBVIOUS
<1>1. /\ ReaderInv /\ InOrder /\ Opened
  BY DEF ForwardInv, ReaderInv, SetUpFirst
<1>2. /\ strip \in Seq(PageOfStrip) /\ Len(strip) \in Nat /\ zeroSectionIndex \in Int
      /\ k + 1 \in 1 .. Len(strip) /\ strip[k + 1].number \in Int
  <2>1. strip \in Seq(PageOfStrip) /\ Len(strip) \in Nat /\ zeroSectionIndex \in Int
    BY <1>1, Calculated
  <2>2. k + 1 \in 1 .. Len(strip)
    BY <2>1
  <2>3. strip[k + 1] \in PageOfStrip
    BY <2>1, <2>2, ElementOfSeq
  <2> QED BY <2>1, <2>2, <2>3 DEF PageOfStrip
<1>3. zeroSectionIndex - strip[k + 1].number \in 0 .. Len(currentImageArr) - 1
  BY <1>1, <1>2 DEF ReaderInv, StripOfSections
<1>4. currentImageArr[zeroSectionIndex - strip[k + 1].number + 1]
        = zeroSectionIndex - (zeroSectionIndex - strip[k + 1].number)
  BY <1>1, <1>3 DEF InOrder, ReadingOrder
<1>5. zeroSectionIndex - (zeroSectionIndex - strip[k + 1].number) = strip[k + 1].number
  BY <1>2
<1> QED BY <1>4, <1>5 DEF ContentAt, PathAt, StoryPage, Story!Page

\* So the page being read is the one at the offset.
LEMMA ContentShown ==
  ForwardInv =>
    ShownContent = IF strip = <<>> THEN [part |-> StartIndex, row |-> 0]
                                   ELSE StoryPage(strip[offset + 1])
<1> SUFFICES ASSUME ForwardInv, strip # <<>>
             PROVE  ContentAt(offset) = StoryPage(strip[offset + 1])
  BY DEF ShownContent
<1>1. offset \in 0 .. Len(strip) - 1
  BY DEF ForwardInv, ReaderInv, ScreenOnStrip
<1> QED BY <1>1, ContentOfPage

\* A piece of strip with the pages of one part: they follow each other.
LEMMA RowsFollow ==
  ASSUME NEW a, NEW b, a.number = b.number, NEW r \in Int, a.row = r, b.row = r + 1
  PROVE  Story!Follows(StoryPage(b), StoryPage(a))
  BY DEF Story!Follows, Story!Page, StoryPage

\* The first part: its pages follow each other.
LEMMA SetUpFollows ==
  ASSUME ForwardInv, SetUpAnswered
  PROVE  /\ StripFollows'
         /\ strip = <<>> /\ ~Opened /\ offset' = 0
         /\ strip' # <<>> => StoryPage(strip'[1]) = Story!Page(StartIndex, 0)
         /\ zeroSectionIndex' = StartIndex /\ Opened' /\ Frontier' + 1 = StartIndex
<1>1. /\ StartIndex \in Parts /\ StartIndex \in Int /\ Pages[StartIndex] \in Nat
  BY ReaderAssumption DEF Parts
<1>2. ~Opened /\ strip = <<>> /\ offset = 0
  BY <1>1, LoadsTyped DEF SetUpAnswered, ForwardInv, ReaderInv, SetUpFirst, ScreenOnStrip
<1>3. /\ currentImageArr' = <<StartIndex>> /\ strip' = PagesOf(StartIndex, StartIndex)
      /\ zeroSectionIndex' = StartIndex /\ offset' = offset
  BY DEF SetUpAnswered, screenVars
<1>4. Frontier' = StartIndex - 1 /\ Opened' /\ Frontier' + 1 = StartIndex
  BY <1>1, <1>3 DEF Frontier, Opened
<1>5. /\ Len(strip') = Pages[StartIndex] /\ strip' \in Seq(PageOfStrip)
      /\ \A k \in 1 .. Pages[StartIndex] :
           strip'[k].number = StartIndex /\ strip'[k].row = k - 1
  BY <1>1, <1>3, PagesOfPart
<1>6. ASSUME NEW k \in 1 .. Len(strip') - 1
      PROVE  Story!Follows(StoryPage(strip'[k + 1]), StoryPage(strip'[k]))
  <2>1. /\ k \in 1 .. Pages[StartIndex] /\ k + 1 \in 1 .. Pages[StartIndex]
        /\ k - 1 \in Int /\ (k + 1) - 1 = (k - 1) + 1
    BY <1>1, <1>5
  <2> QED BY <1>5, <2>1, RowsFollow
<1>7. strip' # <<>> => Len(strip') # 0
  BY <1>5, EmptySeq
<1>8. ASSUME Pages[StartIndex] > 0
      PROVE  /\ strip' # <<>>
             /\ strip'[Len(strip')].number = StartIndex
             /\ strip'[Len(strip')].row = Pages[StartIndex] - 1
  <2>1. Pages[StartIndex] \in 1 .. Pages[StartIndex] /\ Len(strip') # 0
    BY <1>1, <1>5, <1>8
  <2> QED BY <1>5, <2>1, EmptySeq
<1>9. strip' # <<>> => StoryPage(strip'[1]) = Story!Page(StartIndex, 0)
  <2>1. strip' # <<>> => 1 \in 1 .. Pages[StartIndex]
    BY <1>1, <1>5, <1>7
  <2>2. 1 - 1 = 0
    OBVIOUS
  <2> QED BY <1>5, <2>1, <2>2 DEF StoryPage
<1>10. StripFollows'
  BY <1>4, <1>6, <1>8 DEF StripFollows
<1> QED BY <1>2, <1>3, <1>4, <1>9, <1>10

\* The next part: its first page follows the last of the strip.
LEMMA NextFollows ==
  ASSUME ForwardInv, StripFollows, NEW p \in Parts, NextAnswered(p)
  PROVE  /\ StripFollows'
         /\ p = Frontier /\ Opened /\ Opened' /\ Frontier' + 1 = Frontier
         /\ Frontier \in Int
         /\ strip # <<>> /\ strip' # <<>>
         /\ \A k \in 1 .. Len(strip) : strip'[k] = strip[k]
<1> DEFINE n == Len(currentImageArr)
           l == Len(strip)
           pages == PagesOf(p, Frontier)
<1>1. /\ ReaderInv /\ OneLoad /\ p = Frontier /\ Opened /\ strip # <<>>
      /\ UNCHANGED zeroSectionIndex
  BY TheOneAnswer DEF NextAnswered, ForwardInv, InOrder
<1>2. /\ strip \in Seq(PageOfStrip) /\ l \in Nat /\ l > 0 /\ Frontier \in Int
      /\ currentImageArr \in Seq(Parts) /\ n \in Nat /\ zeroSectionIndex \in Int
  BY <1>1, Calculated, EmptySeq
<1>3. Opened' /\ Frontier' + 1 = Frontier
  <2>1. currentImageArr' # <<>> /\ Len(currentImageArr') = n + 1
    BY <1>2, AppendProperties DEF NextAnswered, Appended
  <2> QED BY <1>1, <1>2, <2>1 DEF Opened, Frontier
<1>4. /\ strip[l].number = Frontier + 1 /\ strip[l].row = Pages[Frontier + 1] - 1
  <2>1. Pages[p + 1] > 0
    BY <1>1, LoadsTyped DEF NextAnswered, OneLoad
  <2> QED BY <1>1, <2>1 DEF StripFollows
<1>5. /\ pages \in Seq(PageOfStrip) /\ Len(pages) = Pages[p] /\ Pages[p] \in Nat
      /\ \A k \in 1 .. Pages[p] : pages[k].number = p /\ pages[k].row = k - 1
  BY <1>1, <1>2, PagesOfPart, ReaderAssumption
<1> HIDE DEF pages
<1>6. /\ strip' \in Seq(PageOfStrip) /\ Len(strip') = l + Pages[p]
      /\ \A k \in 1 .. Len(strip') :
           strip'[k] = IF k <= l THEN strip[k] ELSE pages[k - l]
  <2>1. strip' = strip \o pages
    BY <1>2 DEF NextAnswered, pages, Frontier
  <2>2. strip \in Seq(PageOfStrip) /\ pages \in Seq(PageOfStrip)
    BY <1>2, <1>5
  <2>3. /\ strip \o pages \in Seq(PageOfStrip) /\ Len(strip \o pages) = l + Len(pages)
        /\ \A k \in 1 .. l + Len(pages) :
             (strip \o pages)[k] = IF k <= l THEN strip[k] ELSE pages[k - l]
    BY <2>2, ConcatProperties
  <2> QED BY <1>5, <2>1, <2>3
<1>7. ASSUME NEW k \in 1 .. l PROVE strip'[k] = strip[k]
  <2>1. k \in 1 .. Len(strip') /\ k <= l
    BY <1>2, <1>5, <1>6
  <2> QED BY <1>6, <2>1
<1>8. ASSUME NEW k \in l + 1 .. Len(strip')
      PROVE  strip'[k].number = p /\ strip'[k].row = (k - l) - 1
  <2>1. k \in 1 .. Len(strip') /\ ~(k <= l) /\ k - l \in 1 .. Pages[p]
    BY <1>2, <1>5, <1>6
  <2>2. strip'[k] = pages[k - l]
    BY <1>6, <2>1
  <2> QED BY <1>5, <2>1, <2>2
<1>9. ASSUME NEW k \in 1 .. Len(strip') - 1
      PROVE  Story!Follows(StoryPage(strip'[k + 1]), StoryPage(strip'[k]))
  <2>0. k \in Int /\ Len(strip') \in Int
    BY <1>2, <1>5, <1>6
  <2>1. CASE k < l
    <3>1. k \in 1 .. l - 1 /\ k \in 1 .. l /\ k + 1 \in 1 .. l
      BY <1>2, <2>1
    <3>2. Story!Follows(StoryPage(strip[k + 1]), StoryPage(strip[k]))
      BY <3>1 DEF StripFollows
    <3>3. strip'[k] = strip[k] /\ strip'[k + 1] = strip[k + 1]
      BY <1>7, <3>1
    <3> QED BY <3>2, <3>3
  <2>2. CASE k = l
    <3>1. k + 1 \in l + 1 .. Len(strip') /\ k \in 1 .. l /\ ((k + 1) - l) - 1 = 0
      BY <1>2, <2>0, <2>2
    <3>2. /\ strip'[k + 1].number = p /\ strip'[k + 1].row = 0
      BY <1>8, <3>1
    <3>3. strip'[k].number = Frontier + 1 /\ strip'[k].row = Pages[Frontier + 1] - 1
      BY <1>4, <1>7, <2>2, <3>1
    <3>4. p = (Frontier + 1) - 1
      BY <1>1, <1>2
    <3> QED BY <3>2, <3>3, <3>4 DEF Story!Follows, StoryPage, Story!Page
  <2>3. CASE k > l
    <3>1. /\ k \in l + 1 .. Len(strip') /\ k + 1 \in l + 1 .. Len(strip')
          /\ (k - l) - 1 \in Int /\ ((k + 1) - l) - 1 = ((k - l) - 1) + 1
      BY <1>2, <2>0, <2>3
    <3>2. /\ strip'[k].number = p /\ strip'[k].row = (k - l) - 1
          /\ strip'[k + 1].number = p /\ strip'[k + 1].row = ((k - l) - 1) + 1
      BY <1>8, <3>1
    <3> QED BY <3>1, <3>2, RowsFollow
  <2> QED BY <1>2, <2>0, <2>1, <2>2, <2>3
<1>10. strip' # <<>>
  BY <1>2, <1>5, <1>6, EmptySeq
<1>11. ASSUME Pages[p] > 0
       PROVE  /\ strip'[Len(strip')].number = p
              /\ strip'[Len(strip')].row = Pages[p] - 1
  <2>1. /\ Len(strip') \in l + 1 .. Len(strip')
        /\ (Len(strip') - l) - 1 = Pages[p] - 1
    BY <1>2, <1>5, <1>6, <1>11
  <2> QED BY <1>8, <2>1
<1>12. StripFollows'
  <2>1. Frontier' + 1 = p
    BY <1>1, <1>3
  <2> QED BY <1>9, <1>10, <1>11, <2>1 DEF StripFollows
<1> QED BY <1>1, <1>2, <1>3, <1>7, <1>10, <1>12

-----------------------------------------------------------------------------
(* The steps of the reader as steps of the story.                          *)

\* The bounds of what is loaded.
LEMMA LoadedInterval ==
  ASSUME ForwardInv
  PROVE  /\ Frontier \in Int /\ StartIndex \in Int
         /\ Opened => /\ Story!Loaded = Frontier + 1 .. StartIndex
                      /\ Frontier + 1 <= StartIndex
         /\ ~Opened => Story!Loaded = {}
<1>1. /\ ReaderInv /\ (Opened => zeroSectionIndex = StartIndex)
  BY DEF ForwardInv, InOrder, StripInOrder
<1>2. /\ Frontier \in Int /\ StartIndex \in Int /\ zeroSectionIndex \in Int
      /\ Len(currentImageArr) \in Nat
      /\ Opened <=> Len(currentImageArr) > 0
  BY <1>1, Calculated
<1>3. CASE Opened
  <2>1. Story!Loaded = zeroSectionIndex - Len(currentImageArr) + 1 .. StartIndex
    BY <1>1, <1>3 DEF Story!Loaded
  <2>2. /\ zeroSectionIndex - Len(currentImageArr) + 1 = Frontier + 1
        /\ Frontier + 1 <= StartIndex
    BY <1>1, <1>2, <1>3 DEF Frontier
  <2> QED BY <1>2, <1>3, <2>1, <2>2
<1>4. CASE ~Opened
  <2>1. Story!Loaded = 0 .. -1
    BY <1>4 DEF Story!Loaded
  <2> QED BY <1>2, <1>4, <2>1
<1> QED BY <1>3, <1>4

\* A page that was turned to is a neighbour of the one before it.
LEMMA TurnedPage ==
  ASSUME StoryInv, NEW turned \in BOOLEAN, EndDrag(turned)
  PROVE  /\ StripFollows'
         /\ UNCHANGED <<currentImageArr, zeroSectionIndex, strip, loads>>
         /\ strip # <<>> /\ Opened
         /\ offset' # offset =>
              /\ strip[offset' + 1].number \in Frontier + 1 .. StartIndex
              /\ strip[offset' + 1].row \in 0 .. Pages[strip[offset' + 1].number] - 1
              /\ \/ Story!Follows(StoryPage(strip[offset' + 1]), StoryPage(strip[offset + 1]))
                 \/ Story!Follows(StoryPage(strip[offset + 1]), StoryPage(strip[offset' + 1]))
<1>1. /\ ReaderInv /\ InOrder /\ StripFollows
  BY DEF StoryInv, ForwardInv
<1>2. /\ UNCHANGED <<currentImageArr, zeroSectionIndex, strip, loads>>
      /\ drag # 0 /\ offset' = IF turned THEN offset + drag ELSE offset
  BY DEF EndDrag, readerVars
<1>3. strip # <<>> /\ Opened
  BY <1>1, <1>2 DEF ReaderInv, ScreenOnStrip, SetUpFirst
<1>4. /\ offset \in Nat /\ drag \in {-1, 0, 1} /\ Len(strip) \in Nat
      /\ strip \in Seq(PageOfStrip)
      /\ offset \in 0 .. Len(strip) - 1 /\ offset + drag \in 0 .. Len(strip) - 1
  BY <1>1, <1>3, Calculated DEF ReaderInv, ScreenOnStrip
<1>5. StripFollows'
  BY <1>1, <1>2 DEF StripFollows, Opened, Frontier
<1>6. ASSUME offset' # offset
      PROVE  /\ strip[offset' + 1].number \in Frontier + 1 .. StartIndex
             /\ strip[offset' + 1].row \in 0 .. Pages[strip[offset' + 1].number] - 1
  <2>1. offset' + 1 \in 1 .. Len(strip)
    BY <1>2, <1>4, <1>6
  <2>2. /\ strip[offset' + 1].number \in Frontier + 1 .. StartIndex
        /\ strip[offset' + 1].row < Pages[strip[offset' + 1].number]
    BY <1>1, <2>1 DEF InOrder, StripInOrder
  <2>3. strip[offset' + 1].row \in Nat
    <3>1. strip[offset' + 1] \in PageOfStrip
      BY <1>4, <2>1, ElementOfSeq
    <3> QED BY <3>1 DEF PageOfStrip
  <2>4. Pages[strip[offset' + 1].number] \in Nat
    <3>1. strip[offset' + 1].number \in Parts
      <4>1. /\ zeroSectionIndex = StartIndex /\ zeroSectionIndex \in Int
            /\ zeroSectionIndex - strip[offset' + 1].number \in 0 .. Len(currentImageArr) - 1
            /\ currentImageArr \in Seq(Parts) /\ Len(currentImageArr) \in Nat
        BY <1>1, <1>3, <2>1, Calculated DEF InOrder, StripInOrder, ReaderInv, StripOfSections
      <4>2. strip[offset' + 1].number \in Int
        BY <2>2, <1>1, Calculated
      <4>3. currentImageArr[zeroSectionIndex - strip[offset' + 1].number + 1] =
              zeroSectionIndex - (zeroSectionIndex - strip[offset' + 1].number)
        BY <1>1, <4>1 DEF InOrder, ReadingOrder
      <4>4. zeroSectionIndex - (zeroSectionIndex - strip[offset' + 1].number)
              = strip[offset' + 1].number
        BY <4>1, <4>2
      <4>5. zeroSectionIndex - strip[offset' + 1].number + 1 \in 1 .. Len(currentImageArr)
        <5>1. \A m \in Nat : \A i \in 0 .. m - 1 : i + 1 \in 1 .. m
          OBVIOUS
        <5> QED BY <4>1, <5>1
      <4>6. currentImageArr[zeroSectionIndex - strip[offset' + 1].number + 1] \in Parts
        BY <4>1, <4>5, ElementOfSeq
      <4> QED BY <4>3, <4>4, <4>6
    <3> QED BY <3>1, ReaderAssumption
  <2> QED BY <2>2, <2>3, <2>4
<1>7. ASSUME offset' # offset
      PROVE  \/ Story!Follows(StoryPage(strip[offset' + 1]), StoryPage(strip[offset + 1]))
             \/ Story!Follows(StoryPage(strip[offset + 1]), StoryPage(strip[offset' + 1]))
  <2>1. offset' = offset + drag /\ drag \in {-1, 1}
    BY <1>2, <1>4, <1>7
  <2>2. CASE drag = 1
    <3>1. /\ offset + 1 \in 1 .. Len(strip) - 1 /\ offset' + 1 = (offset + 1) + 1
      BY <1>4, <2>1, <2>2
    <3> QED BY <1>1, <3>1 DEF StripFollows
  <2>3. CASE drag = -1
    <3>1. /\ offset' + 1 \in 1 .. Len(strip) - 1 /\ offset + 1 = (offset' + 1) + 1
      BY <1>4, <2>1, <2>3
    <3> QED BY <1>1, <3>1 DEF StripFollows
  <2> QED BY <2>1, <2>2, <2>3
<1> QED BY <1>2, <1>3, <1>5, <1>6, <1>7

\* A step that leaves the data source and the offset alone shows the same page.
LEMMA SameStory ==
  ASSUME StripFollows, UNCHANGED <<currentImageArr, zeroSectionIndex, strip, offset>>
  PROVE  /\ StripFollows'
         /\ UNCHANGED Story!storyVars /\ ShownContent' = ShownContent
  BY DEF StripFollows, Opened, Frontier, Story!storyVars, ShownContent, ContentAt,
         PathAt

\* Every step of the reader is a step of the story or leaves it alone, and an
\* answer leaves the page alone.
LEMMA StepStory ==
  ASSUME ForwardEnvironment, StoryInv, ForwardInv', [Next]_vars
  PROVE  /\ StripFollows'
         /\ [Story!Next]_Story!storyVars
         /\ loads' # loads /\ callbacks' = callbacks => ShownContent' = ShownContent
<1>1. ForwardInv /\ StripFollows
  BY DEF StoryInv
<1>2. ShownContent = IF strip = <<>> THEN [part |-> StartIndex, row |-> 0]
                                     ELSE StoryPage(strip[offset + 1])
  BY <1>1, ContentShown
<1>3. ShownContent' = IF strip' = <<>> THEN [part |-> StartIndex, row |-> 0]
                                       ELSE StoryPage(strip'[offset' + 1])
  <2>1. (ForwardInv => ShownContent = IF strip = <<>>
                                      THEN [part |-> StartIndex, row |-> 0]
                                      ELSE StoryPage(strip[offset + 1]))'
    BY ContentShown, PTL
  <2> QED BY <2>1
<1>4. CASE SetUpAnswered
  <2>1. /\ StripFollows' /\ strip = <<>> /\ ~Opened /\ Opened' /\ offset' = 0
        /\ strip' # <<>> => StoryPage(strip'[1]) = [part |-> StartIndex, row |-> 0]
        /\ zeroSectionIndex' = StartIndex /\ Frontier' + 1 = StartIndex
    BY <1>1, <1>4, SetUpFollows DEF Story!Page
  <2>2. ShownContent' = ShownContent
    <3>1. 0 + 1 = 1
      OBVIOUS
    <3> QED BY <1>2, <1>3, <2>1, <3>1
  <2>3. Story!Open
    BY <1>1, <2>1, <2>2, LoadedInterval DEF Story!Open, Frontier
  <2> QED BY <2>1, <2>2, <2>3 DEF Story!Next
<1>5. ASSUME NEW p \in Parts, NextAnswered(p)
      PROVE  /\ StripFollows' /\ Story!LoadNewer /\ ShownContent' = ShownContent
  <2>1. /\ StripFollows' /\ p = Frontier /\ Opened /\ Opened' /\ Frontier' + 1 = Frontier
        /\ Frontier \in Int /\ strip # <<>> /\ strip' # <<>>
        /\ \A k \in 1 .. Len(strip) : strip'[k] = strip[k]
    BY <1>1, <1>5, NextFollows
  <2>2. offset' = offset /\ zeroSectionIndex' = zeroSectionIndex
    BY <1>5 DEF NextAnswered, screenVars
  <2>3. offset + 1 \in 1 .. Len(strip)
    BY <1>1, <2>1, Calculated DEF ForwardInv, ReaderInv, ScreenOnStrip
  <2>4. ShownContent' = ShownContent
    BY <1>2, <1>3, <2>1, <2>2, <2>3
  <2>5. Story!Loaded # {}
    BY <1>1, <2>1, LoadedInterval
  <2>6. Frontier + 1 > 0 /\ Frontier' + 1 = (Frontier + 1) - 1
    BY <2>1 DEF Parts
  <2>7. Story!LoadNewer
    BY <2>1, <2>2, <2>4, <2>5, <2>6 DEF Story!LoadNewer, Frontier
  <2> QED BY <2>1, <2>4, <2>7
<1>6. ASSUME NEW turned \in BOOLEAN, EndDrag(turned)
      PROVE  StripFollows' /\ [Story!Turn]_Story!storyVars /\ loads' = loads
  <2>1. /\ StripFollows' /\ strip # <<>> /\ Opened
        /\ UNCHANGED <<currentImageArr, zeroSectionIndex, strip, loads>>
    BY <1>6, TurnedPage
  <2>2. CASE offset' = offset
    BY <1>1, <2>1, <2>2, SameStory
  <2>3. CASE offset' # offset
    <3> DEFINE part == strip[offset' + 1].number
               row  == strip[offset' + 1].row
    <3>1. /\ part \in Frontier + 1 .. StartIndex /\ row \in 0 .. Pages[part] - 1
          /\ \/ Story!Follows(Story!Page(part, row), StoryPage(strip[offset + 1]))
             \/ Story!Follows(StoryPage(strip[offset + 1]), Story!Page(part, row))
      BY <1>6, <2>3, TurnedPage DEF StoryPage
    <3>2. ShownContent = StoryPage(strip[offset + 1]) /\ ShownContent' = Story!Page(part, row)
      BY <1>2, <1>3, <2>1 DEF StoryPage
    <3>3. part \in Story!Loaded
      BY <1>1, <2>1, <3>1, LoadedInterval
    <3>4. Story!Turn
      BY <2>1, <3>1, <3>2, <3>3 DEF Story!Turn, Opened
    <3> QED BY <2>1, <3>4
  <2> QED BY <2>2, <2>3
<1>7. ASSUME NEW p \in Parts, Answer(p)
      PROVE  /\ StripFollows' /\ [Story!LoadNewer]_Story!storyVars
             /\ ShownContent' = ShownContent
  <2>1. ~PreviousAnswered(p)
    BY <1>1, TheOneAnswer DEF PreviousAnswered
  <2>2. CASE NextAnswered(p)
    BY <1>5, <2>2
  <2>3. CASE \E kind \in {"loadNextDate", "loadPreviousDate"} : LoadFailed(kind, p)
    <3>1. UNCHANGED <<currentImageArr, zeroSectionIndex, strip, offset>>
      BY <2>3 DEF LoadFailed, screenVars
    <3> QED BY <1>1, <3>1, SameStory
  <2> QED BY <1>7, <2>1, <2>2, <2>3 DEF Answer
<1>8. CASE \/ SetUpFailed \/ Layout \/ (\E d \in Swipes : BeginDrag(d)) \/ Deliver
           \/ UNCHANGED vars
  <2>1. UNCHANGED <<currentImageArr, zeroSectionIndex, strip, offset>>
    BY <1>8 DEF SetUpFailed, Layout, BeginDrag, Deliver, WillDisplay, DidEndIgnored,
       DidEndDisplaying, vars, readerVars, screenVars
  <2> QED BY <1>1, <2>1, SameStory
<1> QED BY <1>4, <1>6, <1>7, <1>8 DEF Next, Story!Next

\* When the reader opens the story is at the first page of the opened part.
LEMMA InitStory == Init => StripFollows /\ Story!Init
<1> SUFFICES ASSUME Init PROVE StripFollows /\ Story!Init
  OBVIOUS
<1>1. currentImageArr = <<>> /\ strip = <<>> /\ Len(strip) = 0
  BY EmptySeq DEF Init
<1> QED BY <1>1 DEF StripFollows, Opened, Story!Init, Story!Page, ShownContent

-----------------------------------------------------------------------------
(* The theorems.                                                           *)

\* The pages of the strip always follow each other.
LEMMA StoryInvariant == ForwardEnvironment => (Spec => []StoryInv)
<1> SUFFICES ASSUME ForwardEnvironment PROVE Spec => []StoryInv
  OBVIOUS
<1>1. Init => StripFollows
  BY InitStory
<1>2. StoryInv /\ ForwardInv' /\ [Next]_vars => StripFollows'
  BY StepStory
<1>3. StoryInv <=> ForwardInv /\ StripFollows
  BY DEF StoryInv
<1> QED BY <1>1, <1>2, <1>3, ForwardInvariant, PTL DEF Spec

\* Read forward from the first part, answers may arrive at any moment: none of
\* them moves the reader to another page.
THEOREM AnswersKeepThePage == ForwardEnvironment => (Spec => AnswerKeepsPage)
<1> SUFFICES ASSUME ForwardEnvironment PROVE Spec => AnswerKeepsPage
  OBVIOUS
<1>1. StoryInv /\ ForwardInv' /\ [Next]_vars =>
        [loads' # loads /\ callbacks' = callbacks => ShownContent' = ShownContent]_vars
  BY StepStory
<1> QED BY <1>1, ForwardInvariant, StoryInvariant, PTL DEF Spec, AnswerKeepsPage

\* Read forward from the first part, the reader implements StoryReader.
THEOREM ReaderImplementsStory == ForwardEnvironment => (Spec => StorySpec)
<1> SUFFICES ASSUME ForwardEnvironment PROVE Spec => StorySpec
  OBVIOUS
<1>1. Init => Story!Init
  BY InitStory
<1>2. StoryInv /\ ForwardInv' /\ [Next]_vars => [Story!Next]_Story!storyVars
  BY StepStory
<1> QED BY <1>1, <1>2, ForwardInvariant, StoryInvariant, PTL DEF Spec, StorySpec, Story!Spec

-----------------------------------------------------------------------------
(* The status bar follows the page on the screen.                          *)

Status == <<currentShowIndex, currentReadIndex>>

\* The pages of the strip, and what the bar should say of each.
Paths == [k \in 0 .. Len(strip) - 1 |-> PathAt(k)]
Bars  == [k \in 0 .. Len(strip) - 1 |-> StatusOf(k)]

Near     == {k \in 0 .. Len(strip) - 1 : offset - 1 <= k /\ k <= offset + 1}
OnScreen == {Paths[offset], Paths[offset + drag]}

ScreenShown ==
  IF visible = <<>> THEN needsLayout /\ drag = 0 ELSE visible = Screen(offset, drag)

\* The page that was about to appear last is the one on the screen or next to it.
WillNear == willShowIndex = NoIndex \/ \E k \in Near : willShowIndex = Paths[k]

NearStatus     == \E k \in Near : Status = Bars[k]
StatusOnScreen == Status = Bars[offset] \/ Status = Bars[offset + drag]

NotLast == \A path \in OnScreen \cup {willShowIndex} :
             path.section # Len(currentImageArr) - 1

\* The bar says the page on the screen: at rest, another page dragged in, and
\* let go.
Exact ==
  /\ Status = Bars[offset]
  /\ \/ callbacks = <<>> /\ (drag # 0 => willShowIndex = Paths[offset + drag])
     \/ callbacks = <<Callback("will", Paths[offset + drag])>>
     \/ /\ drag = 0 /\ willShowIndex # NoIndex
        /\ callbacks = <<Callback("end", willShowIndex)>>

\* The page that left is yet to be reported: then the bar says the new one.
Turned ==
  /\ drag = 0 /\ willShowIndex = Paths[offset]
  /\ \E k \in Near \ {offset} : callbacks = <<Callback("end", Paths[k])>>

\* The callbacks of a reload, in any order.  None of the pages is of the last
\* section, so none of them asks for another part.
Reloaded ==
  /\ NotLast /\ NearStatus
  /\ \A i \in 1 .. Len(callbacks) : callbacks[i].path \in OnScreen
  /\ drag # 0 => willShowIndex \in OnScreen /\ StatusOnScreen

\* The bar says a page next to the one on the screen, until a page is turned.
Behind ==
  /\ NearStatus
  /\ \/ /\ callbacks = <<>>
        /\ drag # 0 => \/ willShowIndex = Paths[offset + drag]
                       \/ willShowIndex = Paths[offset] /\ StatusOnScreen
     \/ drag # 0 /\ callbacks = <<Callback("will", Paths[offset + drag])>>
     \/ /\ drag = 0 /\ willShowIndex # NoIndex
        /\ callbacks = <<Callback("end", willShowIndex)>>

\* A reload is laid out while the bar is right.
LayoutDue ==
  needsLayout => /\ Exact /\ callbacks = <<>>
                 /\ visible = <<>> \/ (NothingAsked /\ NotLast)

BarOK ==
  /\ ScreenShown /\ WillNear /\ LayoutDue
  /\ Exact \/ Turned \/ (NothingAsked /\ (Reloaded \/ Behind))

BarInv == Opened /\ strip # <<>> => BarOK

\* The pages next to each other have paths of their own, and the handler's status
\* of a path is that of its page.
LEMMA PagesOfBar ==
  ASSUME StoryInv, Opened, strip # <<>>
  PROVE  /\ Len(strip) \in Nat /\ offset \in Nat /\ drag \in {-1, 0, 1}
         /\ offset \in 0 .. Len(strip) - 1 /\ offset + drag \in 0 .. Len(strip) - 1
         /\ \A k \in 0 .. Len(strip) - 1 :
              /\ Paths[k] = PathAt(k) /\ Paths[k] # NoIndex /\ Paths[k] \in SectionPaths
              /\ Bars[k] = StatusOf(k)
              /\ Bars[k] = <<ShowIndex(Paths[k]), zeroSectionIndex - Paths[k].section>>
              /\ k + 1 \in 0 .. Len(strip) - 1 => Paths[k] # Paths[k + 1]
<1>1. ForwardInv /\ ReaderInv /\ InOrder /\ StripFollows
  BY DEF StoryInv, ForwardInv
<1>2. /\ Len(strip) \in Nat /\ offset \in Nat /\ drag \in {-1, 0, 1}
      /\ strip \in Seq(PageOfStrip) /\ zeroSectionIndex \in Int
      /\ {offset, offset + drag} \subseteq 0 .. Len(strip) - 1
  BY <1>1, Calculated DEF ReaderInv, ScreenOnStrip
<1>3. ASSUME NEW k \in 0 .. Len(strip) - 1
      PROVE  /\ Paths[k] = PathAt(k) /\ Paths[k] # NoIndex /\ Paths[k] \in SectionPaths
             /\ Bars[k] = StatusOf(k)
  BY <1>1, PathsOfPages DEF Paths, Bars
<1>4. ASSUME NEW k \in 0 .. Len(strip) - 1
      PROVE  StatusOf(k) = <<ShowIndex(PathAt(k)), zeroSectionIndex - PathAt(k).section>>
  <2>1. PathAt(k).section \in 0 .. Len(currentImageArr) - 1
    BY <1>3 DEF SectionPaths
  <2>2. currentImageArr[PathAt(k).section + 1] = zeroSectionIndex - PathAt(k).section
    BY <1>1, <2>1 DEF InOrder, ReadingOrder
  <2> QED
    BY <2>2 DEF StatusOf, ContentAt, ShowIndex
<1>5. ASSUME NEW k \in 0 .. Len(strip) - 1, k + 1 \in 0 .. Len(strip) - 1,
             PathAt(k) = PathAt(k + 1)
      PROVE  FALSE
  <2>1. k + 1 \in 1 .. Len(strip) - 1 /\ k + 1 \in 1 .. Len(strip) /\ k + 2 \in 1 .. Len(strip)
    BY <1>2, <1>5
  <2>2. strip[k + 1] \in PageOfStrip /\ strip[k + 2] \in PageOfStrip
    BY <1>2, <2>1, ElementOfSeq
  <2>3. (k + 1) + 1 = k + 2
    BY <1>2
  <2>4. Story!Follows(StoryPage(strip[k + 2]), StoryPage(strip[k + 1]))
    BY <1>1, <2>1, <2>3 DEF StripFollows
  <2>5. /\ strip[k + 1].number \in Int /\ strip[k + 2].number \in Int
        /\ strip[k + 1].row \in Nat /\ strip[k + 2].row \in Nat
    BY <2>2 DEF PageOfStrip
  <2>6. /\ zeroSectionIndex - strip[k + 1].number = zeroSectionIndex - strip[k + 2].number
        /\ strip[k + 1].row = strip[k + 2].row
    BY <1>5, <2>3 DEF PathAt
  <2>7. strip[k + 1].number = strip[k + 2].number
    <3>1. \A z, a, b \in Int : z - a = z - b => a = b
      OBVIOUS
    <3> QED
      BY <1>2, <2>5, <2>6, <3>1
  <2> QED
    BY <2>4, <2>5, <2>6, <2>7 DEF Story!Follows, Story!Page, StoryPage
<1> QED
  BY <1>2, <1>3, <1>4, <1>5

\* With the screen at rest this is what run forward checks.
LEMMA BarFollows ==
  ASSUME StoryInv, BarInv
  PROVE  StatusWithinAPage
<1> SUFFICES ASSUME Opened, strip # <<>>, callbacks = <<>>, ~needsLayout, drag = 0
             PROVE  \E k \in (offset - 1 .. offset + 1) \cap (0 .. Len(strip) - 1) :
                      <<currentShowIndex, currentReadIndex>> = StatusOf(k)
  BY DEF StatusWithinAPage
<1>1. NearStatus
  <2>1. BarOK
    BY DEF BarInv
  <2>2. ASSUME Exact PROVE NearStatus
    <3>1. offset \in Near
      BY PagesOfBar DEF Near
    <3> QED
      BY <2>2, <3>1 DEF Exact, NearStatus
  <2>3. ~Turned
    BY DEF Turned
  <2> QED
    BY <2>1, <2>2, <2>3 DEF BarOK, Reloaded, Behind
<1>2. PICK k \in Near : Status = Bars[k]
  BY <1>1 DEF NearStatus
<1>3. k \in 0 .. Len(strip) - 1 /\ offset - 1 <= k /\ k <= offset + 1
  BY <1>2 DEF Near
<1>4. k \in offset - 1 .. offset + 1
  BY <1>3, PagesOfBar
<1>5. Status = StatusOf(k)
  BY <1>2, <1>3, PagesOfBar
<1> QED
  BY <1>3, <1>4, <1>5 DEF Status

\* A step that leaves the strip alone leaves its pages and their statuses.
LEMMA SamePages ==
  ASSUME UNCHANGED <<currentImageArr, zeroSectionIndex, strip>>
  PROVE  /\ Paths' = Paths /\ Bars' = Bars
         /\ Opened' <=> Opened
         /\ \A k : k \in Near' <=>
              k \in 0 .. Len(strip) - 1 /\ offset' - 1 <= k /\ k <= offset' + 1
  BY DEF Paths, Bars, PathAt, StatusOf, ContentAt, Opened, Near

\* The pages on the screen are near.
LEMMA NearPages ==
  ASSUME StoryInv, Opened, strip # <<>>
  PROVE  /\ offset \in Near /\ offset + drag \in Near
         /\ \A k \in Near : k \in 0 .. Len(strip) - 1 /\ Paths[k] # NoIndex
         /\ drag # 0 => Paths[offset] # Paths[offset + drag]
         /\ \A k \in Near : k # offset => Paths[k] # Paths[offset]
<1>1. /\ Len(strip) \in Nat /\ offset \in Nat /\ drag \in {-1, 0, 1}
      /\ offset \in 0 .. Len(strip) - 1 /\ offset + drag \in 0 .. Len(strip) - 1
      /\ \A k \in 0 .. Len(strip) - 1 : Paths[k] # NoIndex
      /\ \A k \in 0 .. Len(strip) - 1 :
           k + 1 \in 0 .. Len(strip) - 1 => Paths[k] # Paths[k + 1]
  BY PagesOfBar
<1>2. offset \in Near /\ offset + drag \in Near
  BY <1>1 DEF Near
<1>3. \A k \in Near : k \in 0 .. Len(strip) - 1 /\ Paths[k] # NoIndex
  BY <1>1 DEF Near
<1>4. ASSUME NEW k \in Near, k # offset
      PROVE  Paths[k] # Paths[offset]
  <2>1. k \in 0 .. Len(strip) - 1 /\ (k + 1 = offset \/ k = offset + 1)
    BY <1>1, <1>4 DEF Near
  <2>2. CASE k + 1 = offset
    BY <1>1, <2>1, <2>2
  <2>3. CASE k = offset + 1
    <3>1. offset + 1 \in 0 .. Len(strip) - 1
      BY <2>1, <2>3
    <3>2. Paths[offset] # Paths[offset + 1]
      BY <1>1, <3>1
    <3> QED
      BY <2>3, <3>2
  <2> QED
    BY <2>1, <2>2, <2>3
<1>5. drag # 0 => offset + drag # offset
  BY <1>1
<1> QED
  BY <1>2, <1>3, <1>4, <1>5

\* The one callback that is due.
LEMMA OneCallback ==
  ASSUME NEW kind, NEW path, callbacks = <<Callback(kind, path)>>
  PROVE  /\ callbacks # <<>> /\ Tail(callbacks) = <<>>
         /\ Head(callbacks).kind = kind /\ Head(callbacks).path = path
<1>1. Callback(kind, path).kind = kind /\ Callback(kind, path).path = path
  BY DEF Callback
<1> QED
  BY <1>1

-----------------------------------------------------------------------------
(* The bar: the answers.                                                   *)

\* The first part arrives, and the bar says its first page.
LEMMA SetUpAnsweredBar ==
  ASSUME StoryInv, SetUpAnswered
  PROVE  BarInv'
<1>1. ForwardInv /\ ReaderInv
  BY DEF StoryInv, ForwardInv
<1>2. SUFFICES ASSUME strip' # <<>>
               PROVE  BarOK'
  BY DEF BarInv
<1>3. /\ strip = <<>> /\ ~Opened /\ offset' = 0
      /\ StoryPage(strip'[1]) = Story!Page(StartIndex, 0)
      /\ zeroSectionIndex' = StartIndex
  BY <1>1, <1>2, SetUpFollows
<1>4. /\ visible' = <<>> /\ callbacks' = <<>> /\ willShowIndex' = NoIndex
      /\ drag' = 0 /\ needsLayout'
  BY <1>1, <1>3 DEF SetUpAnswered, screenVars, ReaderInv, SetUpFirst, ScreenOnStrip
<1>5. Status' = <<<<1, Pages[StartIndex]>>, StartIndex>>
  BY DEF SetUpAnswered, Status
<1>6. Bars'[0] = <<<<1, Pages[StartIndex]>>, StartIndex>>
  <2>1. strip' = PagesOf(StartIndex, StartIndex) /\ currentImageArr' = <<StartIndex>>
    BY DEF SetUpAnswered
  <2>2. StartIndex \in Parts /\ StartIndex \in Int
    BY <1>1, Calculated
  <2>3. Len(strip') \in Nat /\ Len(strip') > 0 /\ 0 \in 0 .. Len(strip') - 1
    <3>1. strip' \in Seq(PageOfStrip)
      BY <2>1, <2>2, PagesOfPart
    <3> QED
      BY <1>2, <3>1, EmptySeq, LenProperties
  <2>4. strip'[1].number = StartIndex /\ strip'[1].row = 0
    <3>1. Len(strip') = Pages[StartIndex] /\ 1 \in 1 .. Pages[StartIndex]
      BY <2>1, <2>2, <2>3, PagesOfPart
    <3> QED
      BY <2>1, <2>2, <3>1, PagesOfPart
  <2>5. Bars'[0] = StatusOf(0)'
    BY <2>3 DEF Bars
  <2>6. (PathAt(0))' = [section |-> 0, row |-> 0]
    BY <1>3, <2>2, <2>4 DEF PathAt
  <2>7. (ContentAt(0))' = [part |-> StartIndex, row |-> 0]
    BY <2>1, <2>6 DEF ContentAt
  <2> QED
    BY <2>5, <2>7 DEF StatusOf
<1>7. Exact'
  BY <1>3, <1>4, <1>5, <1>6 DEF Exact
<1>8. ScreenShown' /\ WillNear' /\ LayoutDue'
  BY <1>4, <1>7 DEF ScreenShown, WillNear, LayoutDue
<1> QED
  BY <1>7, <1>8 DEF BarOK

\* While a request is out the bar is exact.
LEMMA ExactWhileAsked ==
  ASSUME BarOK, NEW p \in Parts, loads["loadNextDate"][p] > 0, callbacks = <<>>
  PROVE  /\ Exact /\ (drag # 0 => willShowIndex = Paths[offset + drag])
         /\ needsLayout => visible = <<>>
<1>1. ~NothingAsked
  BY DEF NothingAsked
<1>2. ~Turned
  BY DEF Turned
<1>3. Exact
  BY <1>1, <1>2 DEF BarOK
<1> QED
  BY <1>1, <1>3 DEF BarOK, LayoutDue, Exact

\* The next part goes behind what there is, and everything shown stays.
LEMMA NextAnsweredBar ==
  ASSUME StoryInv, BarInv, NEW p \in Parts, NextAnswered(p)
  PROVE  BarInv'
<1>1. ForwardInv /\ ReaderInv /\ InOrder /\ StripFollows
  BY DEF StoryInv, ForwardInv
<1>2. /\ UNCHANGED <<zeroSectionIndex, currentShowIndex, currentReadIndex, willShowIndex,
                     offset, drag, visible, callbacks>>
      /\ callbacks = <<>> /\ needsLayout' /\ loads["loadNextDate"][p] > 0
      /\ loads' = Answered("loadNextDate", p)
      /\ currentImageArr' = Append(currentImageArr, p)
  BY DEF NextAnswered, MainFree, screenVars, Appended
<1>3. /\ Opened /\ Opened' /\ strip # <<>> /\ strip' # <<>>
      /\ \A k \in 1 .. Len(strip) : strip'[k] = strip[k]
  BY <1>1, NextFollows
<1>4. SUFFICES BarOK'
  BY DEF BarInv
<1>5. BarOK
  BY <1>3 DEF BarInv
<1>6. /\ Exact /\ (drag # 0 => willShowIndex = Paths[offset + drag])
      /\ needsLayout => visible = <<>>
  BY <1>2, <1>5, ExactWhileAsked
<1>7. NothingAsked'
  BY <1>1, <1>2, TheOneAnswer DEF NothingAsked
<1>8. /\ currentImageArr \in Seq(Parts) /\ Len(currentImageArr) \in Nat
      /\ Len(strip) \in Nat /\ strip \in Seq(PageOfStrip)
      /\ offset \in 0 .. Len(strip) - 1 /\ offset + drag \in 0 .. Len(strip) - 1
      /\ drag \in {-1, 0, 1} /\ offset \in Nat
  BY <1>1, <1>3, Calculated, PagesOfBar
<1>9. Len(currentImageArr') = Len(currentImageArr) + 1
  BY <1>2, <1>8
<1>10. Len(strip') \in Nat /\ Len(strip') >= Len(strip)
  <2>1. strip' = strip \o PagesOf(p, zeroSectionIndex - Len(currentImageArr))
    BY DEF NextAnswered
  <2>2. PagesOf(p, zeroSectionIndex - Len(currentImageArr)) \in Seq(PageOfStrip)
    BY <1>1, <1>8, Calculated, PagesOfPart
  <2> QED
    BY <1>8, <2>1, <2>2
<1>11. ASSUME NEW k \in 0 .. Len(strip) - 1
       PROVE  /\ Paths'[k] = Paths[k] /\ Bars'[k] = Bars[k]
              /\ Paths[k].section \in 0 .. Len(currentImageArr) - 1
              /\ PathAt(k) = Paths[k] /\ (PathAt(k))' = Paths[k]
  <2>1. k + 1 \in 1 .. Len(strip) /\ k \in 0 .. Len(strip') - 1
    BY <1>8, <1>10
  <2>2. (PathAt(k))' = PathAt(k)
    BY <1>2, <1>3, <2>1 DEF PathAt
  <2>3. Paths[k] = PathAt(k) /\ Paths'[k] = (PathAt(k))'
    BY <2>1 DEF Paths
  <2>4. PathAt(k).section \in 0 .. Len(currentImageArr) - 1
    BY <1>3, <2>3, PagesOfBar DEF SectionPaths
  <2>5. currentImageArr'[PathAt(k).section + 1] = currentImageArr[PathAt(k).section + 1]
    <3>1. PathAt(k).section + 1 \in 1 .. Len(currentImageArr)
      <4>1. \A n \in Nat : \A s \in 0 .. n - 1 : s + 1 \in 1 .. n
        OBVIOUS
      <4> QED
        BY <1>8, <2>4, <4>1
    <3>2. \A i \in 1 .. Len(currentImageArr) :
            Append(currentImageArr, p)[i] = currentImageArr[i]
      BY <1>8
    <3> QED
      BY <1>2, <3>1, <3>2
  <2>6. (ContentAt(k))' = ContentAt(k)
    BY <2>2, <2>5 DEF ContentAt
  <2>7. (StatusOf(k))' = StatusOf(k)
    BY <2>6 DEF StatusOf
  <2>8. Bars[k] = StatusOf(k) /\ Bars'[k] = (StatusOf(k))'
    BY <2>1 DEF Bars
  <2> QED
    BY <2>2, <2>3, <2>4, <2>7, <2>8
<1>12. Exact'
  <2>1. Status' = Status
    BY <1>2 DEF Status
  <2>2. Status' = Bars'[offset']
    BY <1>2, <1>6, <1>8, <1>11, <2>1 DEF Exact
  <2>3. drag' # 0 => willShowIndex' = Paths'[offset' + drag']
    BY <1>2, <1>6, <1>8, <1>11
  <2> QED
    BY <1>2, <2>2, <2>3 DEF Exact
<1>13. ASSUME visible # <<>>
       PROVE  ScreenShown' /\ NotLast'
  <2>1. visible = Screen(offset, drag)
    BY <1>5, <1>13 DEF BarOK, ScreenShown
  <2>2. Screen(offset, drag)' = Screen(offset, drag)
    <3>1. drag = 1 => offset + 1 \in 0 .. Len(strip) - 1
      BY <1>8
    <3>2. drag = -1 => offset - 1 \in 0 .. Len(strip) - 1
      BY <1>8
    <3>3. /\ (PathAt(offset))' = PathAt(offset)
          /\ drag = 1 => (PathAt(offset + 1))' = PathAt(offset + 1)
          /\ drag = -1 => (PathAt(offset - 1))' = PathAt(offset - 1)
      BY <1>2, <1>3, <1>8, <3>1, <3>2 DEF PathAt
    <3>4. CASE drag = 0
      BY <1>2, <1>3, <3>3, <3>4 DEF Screen
    <3>5. CASE drag = 1
      BY <1>2, <1>3, <3>3, <3>5 DEF Screen
    <3>6. CASE drag = -1
      BY <1>2, <1>3, <3>3, <3>6 DEF Screen
    <3> QED
      BY <1>8, <3>4, <3>5, <3>6
  <2>3. NotLast'
    <3>1. willShowIndex = NoIndex \/ \E k \in 0 .. Len(strip) - 1 : willShowIndex = Paths[k]
      BY <1>5 DEF BarOK, WillNear, Near
    <3>2. \A path \in {Paths[offset], Paths[offset + drag], willShowIndex} :
            path.section # Len(currentImageArr)
      <4>1. NoIndex.section # Len(currentImageArr)
        BY <1>8 DEF NoIndex
      <4>2. \A k \in 0 .. Len(strip) - 1 : Paths[k].section # Len(currentImageArr)
        <5>1. \A n \in Nat : \A s \in 0 .. n - 1 : s # n
          OBVIOUS
        <5> QED
          BY <1>8, <1>11, <5>1
      <4> QED
        BY <1>8, <3>1, <4>1, <4>2
    <3>3. OnScreen' = OnScreen
      BY <1>2, <1>8, <1>11 DEF OnScreen
    <3> QED
      <4>1. Len(currentImageArr') - 1 = Len(currentImageArr)
        BY <1>8, <1>9
      <4> QED
        BY <1>2, <3>2, <3>3, <4>1 DEF NotLast, OnScreen
  <2> QED
    BY <1>2, <1>13, <2>1, <2>2, <2>3 DEF ScreenShown
<1>14. visible = <<>> => ScreenShown'
  BY <1>2, <1>5 DEF BarOK, ScreenShown
<1>15. WillNear'
  <2>1. ASSUME NEW k \in Near
        PROVE  k \in Near' /\ Paths'[k] = Paths[k]
    <3>1. k \in 0 .. Len(strip) - 1 /\ offset - 1 <= k /\ k <= offset + 1
      BY <2>1 DEF Near
    <3>2. k \in 0 .. Len(strip') - 1
      BY <1>8, <1>10, <3>1
    <3>3. offset' = offset
      BY <1>2
    <3> QED
      BY <1>11, <3>1, <3>2, <3>3 DEF Near
  <2> QED
    BY <1>2, <1>5, <2>1 DEF BarOK, WillNear
<1>16. LayoutDue'
  BY <1>2, <1>7, <1>12, <1>13 DEF LayoutDue
<1> QED
  BY <1>12, <1>13, <1>14, <1>15, <1>16 DEF BarOK

\* What the bar depends on but for the requests.
LEMMA SameBar ==
  ASSUME Exact, callbacks = <<>>, ScreenShown, WillNear, needsLayout => visible = <<>>,
         UNCHANGED <<currentImageArr, zeroSectionIndex, currentShowIndex, currentReadIndex,
                     willShowIndex, strip, screenVars, needsLayout, callbacks>>
  PROVE  BarOK'
<1>1. /\ Paths' = Paths /\ Bars' = Bars /\ Status' = Status
      /\ Near' = Near
  BY SamePages DEF Near, Status, screenVars
<1>2. Exact'
  BY <1>1 DEF Exact, screenVars
<1>3. WillNear'
  BY <1>1 DEF WillNear
<1>4. ScreenShown'
  <2>1. Screen(offset, drag)' = Screen(offset, drag)
    BY DEF Screen, PathAt, screenVars
  <2> QED
    BY <2>1 DEF ScreenShown, screenVars
<1>5. LayoutDue'
  BY <1>2 DEF LayoutDue, screenVars
<1> QED
  BY <1>2, <1>3, <1>4, <1>5 DEF BarOK

\* A failure changes nothing that is shown.
LEMMA LoadFailedBar ==
  ASSUME StoryInv, BarInv, NEW kind \in {"loadNextDate", "loadPreviousDate"},
         NEW p \in Parts, LoadFailed(kind, p)
  PROVE  BarInv'
<1>1. /\ UNCHANGED <<currentImageArr, zeroSectionIndex, currentShowIndex, currentReadIndex,
                     willShowIndex, strip, screenVars, needsLayout, callbacks>>
      /\ callbacks = <<>> /\ loads[kind][p] > 0 /\ loads' = Answered(kind, p)
  BY DEF LoadFailed, MainFree
<1>2. ForwardInv
  BY DEF StoryInv
<1>3. kind = "loadNextDate" /\ Opened /\ strip # <<>>
  BY <1>1, <1>2, TheOneAnswer
<1>4. BarOK
  BY <1>3 DEF BarInv
<1>5. Exact /\ (needsLayout => visible = <<>>)
  BY <1>1, <1>3, <1>4, ExactWhileAsked
<1>6. ScreenShown /\ WillNear
  BY <1>4 DEF BarOK
<1>7. BarOK'
  BY <1>1, <1>5, <1>6, SameBar
<1> QED
  BY <1>7 DEF BarInv

-----------------------------------------------------------------------------
(* The bar: UIKit.                                                         *)

\* The callbacks of a reload are for the pages that are on the screen.
LEMMA LayoutReports ==
  ASSUME ReaderInv, Layout, NEW S, \A i \in 1 .. Len(visible) : visible[i] \in S,
         \A i \in 1 .. Len(Screen(offset, drag)) : Screen(offset, drag)[i] \in S
  PROVE  /\ \A i \in 1 .. Len(callbacks') : callbacks'[i].path \in S
         /\ visible = <<>> /\ drag = 0 /\ strip # <<>> =>
              callbacks' = <<Callback("will", PathAt(offset))>>
<1> DEFINE screen == Screen(offset, drag)
<1>1. /\ screen \in Seq(SectionPaths) /\ visible \in Seq(SectionPaths)
      /\ Len(screen) \in Nat /\ Len(visible) \in Nat
  <2>1. /\ drag \in {-1, 0, 1} /\ visible \in Seq(SectionPaths)
        /\ strip # <<>> => {offset, offset + drag} \subseteq 0 .. Len(strip) - 1
    BY DEF ReaderInv, TypeOK, SectionsExist, ScreenOnStrip
  <2>2. screen \in Seq(SectionPaths)
    BY <2>1, CellsOfScreen DEF ReaderInv
  <2> QED
    BY <2>1, <2>2, LenProperties
<1>2. visible = <<>> => Len(visible) = 0
  BY EmptySeq
<1>3. drag = 0 /\ strip # <<>> => screen = <<PathAt(offset)>>
  BY DEF Screen
<1> DEFINE n == Len(screen)
           m == Len(visible)
           wills(order) == [i \in 1 .. n |-> Callback("will",
                              screen[IF order = "up" THEN i ELSE n + 1 - i])]
           ends == [i \in 1 .. m |-> Callback("end", visible[i])]
<1>4. PICK order \in WillOrders, report \in EndReports :
        callbacks' = CASE report = "none"   -> wills(order)
                       [] report = "before" -> ends \o wills(order)
                       [] report = "after"  -> wills(order) \o ends
  BY DEF Layout
<1>5. report \in {"none", "before", "after"}
  BY ReaderAssumption
<1> HIDE DEF screen
<1>6. /\ wills(order) \in Seq(CallbackOf(SectionPaths)) /\ Len(wills(order)) = n
      /\ \A i \in 1 .. n : wills(order)[i].path \in S
      /\ drag = 0 /\ strip # <<>> => wills(order) = <<Callback("will", PathAt(offset))>>
  <2>1. ASSUME NEW i \in 1 .. n
        PROVE  \E j \in 1 .. n : wills(order)[i] = Callback("will", screen[j])
    <3>1. i \in 1 .. n /\ n + 1 - i \in 1 .. n
      BY <1>1
    <3> QED
      BY <3>1
  <2>2. ASSUME NEW j \in 1 .. n
        PROVE  /\ Callback("will", screen[j]) \in CallbackOf(SectionPaths)
               /\ Callback("will", screen[j]).path \in S
    <3>1. screen[j] \in SectionPaths
      BY <1>1, ElementOfSeq
    <3>2. screen[j] \in S
      BY DEF screen
    <3> QED
      BY <3>1, <3>2 DEF Callback, CallbackOf
  <2>3. wills(order) \in [1 .. n -> CallbackOf(SectionPaths)] /\ n \in Nat
    BY <1>1, <2>1, <2>2
  <2>4. wills(order) \in Seq(CallbackOf(SectionPaths)) /\ Len(wills(order)) = n
    BY <2>3
  <2>5. ASSUME drag = 0, strip # <<>>
        PROVE  wills(order) = <<Callback("will", PathAt(offset))>>
    <3>1. n = 1 /\ screen[1] = PathAt(offset)
      BY <1>3, <2>5
    <3>2. wills(order)[1] = Callback("will", PathAt(offset))
      BY <3>1
    <3>3. Len(wills(order)) = 1
      BY <2>4, <3>1
    <3> HIDE DEF wills
    <3> QED
      BY <2>4, <3>2, <3>3
  <2>6. \A i \in 1 .. n : wills(order)[i].path \in S
    <3> HIDE DEF wills
    <3> QED
      BY <2>1, <2>2
  <2> QED
    BY <2>4, <2>5, <2>6
<1>7. /\ ends \in Seq(CallbackOf(SectionPaths)) /\ Len(ends) = m
      /\ \A i \in 1 .. m : ends[i].path \in S
  <2>1. ASSUME NEW i \in 1 .. m
        PROVE  ends[i] \in CallbackOf(SectionPaths) /\ ends[i].path \in S
    <3>1. visible[i] \in SectionPaths /\ ends[i] = Callback("end", visible[i])
      BY <1>1, ElementOfSeq
    <3> QED
      BY <3>1 DEF Callback, CallbackOf
  <2>2. ends \in [1 .. m -> CallbackOf(SectionPaths)] /\ m \in Nat
    BY <1>1, <2>1
  <2>3. ends \in Seq(CallbackOf(SectionPaths)) /\ Len(ends) = m
    BY <2>2
  <2> QED
    BY <2>1, <2>3
<1> HIDE DEF wills, ends
<1>8. ASSUME NEW a \in Seq(CallbackOf(SectionPaths)), NEW b \in Seq(CallbackOf(SectionPaths)),
             \A i \in 1 .. Len(a) : a[i].path \in S, \A i \in 1 .. Len(b) : b[i].path \in S
      PROVE  \A i \in 1 .. Len(a \o b) : (a \o b)[i].path \in S
  <2>1. ASSUME NEW i \in 1 .. Len(a \o b)
        PROVE  (a \o b)[i].path \in S
    <3>1. Len(a) \in Nat /\ Len(b) \in Nat /\ Len(a \o b) = Len(a) + Len(b)
      BY <1>8
    <3>2. CASE i <= Len(a)
      BY <1>8, <3>1, <3>2
    <3>3. CASE i > Len(a)
      <4>1. i - Len(a) \in 1 .. Len(b) /\ (a \o b)[i] = b[i - Len(a)]
        BY <1>8, <3>1, <3>3
      <4> QED
        BY <1>8, <4>1
    <3> QED
      BY <3>1, <3>2, <3>3
  <2> QED
    BY <2>1
<1>9. \A i \in 1 .. Len(callbacks') : callbacks'[i].path \in S
  <2>1. CASE report = "none"
    BY <1>4, <1>6, <2>1
  <2>2. CASE report = "before"
    BY <1>4, <1>6, <1>7, <1>8, <2>2
  <2>3. CASE report = "after"
    BY <1>4, <1>6, <1>7, <1>8, <2>3
  <2> QED
    BY <1>5, <2>1, <2>2, <2>3
<1>10. ASSUME visible = <<>>, drag = 0, strip # <<>>
       PROVE  callbacks' = <<Callback("will", PathAt(offset))>>
  <2>1. Len(ends) = 0
    BY <1>2, <1>7, <1>10
  <2>2. ends = <<>>
    BY <1>7, <2>1, EmptySeq
  <2>3. ends \o wills(order) = wills(order) /\ wills(order) \o ends = wills(order)
    BY <1>6, <2>2
  <2> QED
    BY <1>4, <1>5, <1>6, <1>10, <2>3
<1> QED
  BY <1>9, <1>10

\* A reload finds the bar exact.
LEMMA LayoutBar ==
  ASSUME StoryInv, BarInv, Layout
  PROVE  BarInv'
<1>1. ReaderInv
  BY DEF StoryInv, ForwardInv
<1>2. /\ UNCHANGED <<currentImageArr, zeroSectionIndex, currentShowIndex, currentReadIndex,
                     willShowIndex, loads, strip, offset, drag>>
      /\ needsLayout /\ ~needsLayout' /\ visible' = Screen(offset, drag)
  BY DEF Layout, readerVars
<1>3. SUFFICES ASSUME Opened, strip # <<>>
               PROVE  BarOK'
  BY <1>2 DEF BarInv, Opened
<1>4. /\ BarOK /\ Exact /\ callbacks = <<>>
      /\ visible = <<>> \/ (NothingAsked /\ NotLast)
      /\ drag # 0 => willShowIndex = Paths[offset + drag]
  BY <1>2, <1>3 DEF BarInv, BarOK, LayoutDue, Exact
<1>5. /\ Paths' = Paths /\ Bars' = Bars /\ Status' = Status /\ Near' = Near
      /\ OnScreen' = OnScreen
  BY <1>2, SamePages DEF Near, Status, OnScreen
<1>6. /\ offset \in Near /\ offset + drag \in Near /\ drag \in {-1, 0, 1} /\ offset \in Nat
      /\ PathAt(offset) = Paths[offset] /\ PathAt(offset + drag) = Paths[offset + drag]
  BY <1>3, NearPages, PagesOfBar
<1>7. /\ Screen(offset, drag) # <<>>
      /\ \A i \in 1 .. Len(Screen(offset, drag)) : Screen(offset, drag)[i] \in OnScreen
  <2>1. CASE drag = 0
    <3>1. Screen(offset, drag) = <<Paths[offset]>>
      BY <1>3, <1>6, <2>1 DEF Screen
    <3> QED
      BY <3>1 DEF OnScreen
  <2>2. CASE drag = 1
    <3>1. Screen(offset, drag) = <<Paths[offset], Paths[offset + drag]>>
      BY <1>3, <1>6, <2>2 DEF Screen
    <3> QED
      BY <3>1 DEF OnScreen
  <2>3. CASE drag = -1
    <3>1. offset + drag = offset - 1
      BY <1>6, <2>3
    <3>2. Screen(offset, drag) = <<Paths[offset + drag], Paths[offset]>>
      BY <1>3, <1>6, <2>3, <3>1 DEF Screen
    <3> QED
      BY <3>2 DEF OnScreen
  <2> QED
    BY <1>6, <2>1, <2>2, <2>3
<1>8. ScreenShown'
  <2>1. Screen(offset, drag)' = Screen(offset, drag)
    BY <1>2 DEF Screen, PathAt
  <2> QED
    BY <1>2, <1>7, <2>1 DEF ScreenShown
<1>9. WillNear' /\ LayoutDue'
  BY <1>2, <1>4, <1>5 DEF BarOK, WillNear, LayoutDue
<1>10. CASE visible = <<>>
  <2>1. drag = 0
    BY <1>4, <1>10 DEF BarOK, ScreenShown
  <2>2. callbacks' = <<Callback("will", PathAt(offset))>>
    <3>1. \A i \in 1 .. Len(visible) : visible[i] \in OnScreen
      BY <1>10, EmptySeq
    <3> QED
      BY <1>1, <1>3, <1>7, <1>10, <2>1, <3>1, LayoutReports
  <2>3. offset + drag = offset
    BY <1>6, <2>1
  <2>4. Exact'
    BY <1>2, <1>4, <1>5, <1>6, <2>2, <2>3 DEF Exact
  <2> QED
    BY <1>8, <1>9, <2>4 DEF BarOK
<1>11. CASE visible # <<>>
  <2>1. visible = Screen(offset, drag)
    BY <1>4, <1>11 DEF BarOK, ScreenShown
  <2>2. \A i \in 1 .. Len(callbacks') : callbacks'[i].path \in OnScreen
    BY <1>1, <1>7, <2>1, LayoutReports
  <2>3. NothingAsked' /\ NotLast'
    BY <1>2, <1>4, <1>5, <1>11 DEF NothingAsked, NotLast
  <2>4. NearStatus' /\ StatusOnScreen'
    BY <1>2, <1>4, <1>5, <1>6 DEF Exact, NearStatus, StatusOnScreen
  <2>5. drag' # 0 => willShowIndex' \in OnScreen'
    BY <1>2, <1>4, <1>5 DEF OnScreen
  <2>6. Reloaded'
    BY <1>5, <2>2, <2>3, <2>4, <2>5 DEF Reloaded
  <2> QED
    BY <1>8, <1>9, <2>3, <2>6 DEF BarOK
<1> QED
  BY <1>10, <1>11

\* What the bar says stays right, or nearly, while a page is dragged.
LEMMA BeginDragBar ==
  ASSUME StoryInv, BarInv, NEW d \in Swipes, BeginDrag(d)
  PROVE  BarInv'
<1>1. ReaderInv
  BY DEF StoryInv, ForwardInv
<1>2. /\ UNCHANGED <<currentImageArr, zeroSectionIndex, currentShowIndex, currentReadIndex,
                     willShowIndex, loads, strip, offset, needsLayout>>
      /\ callbacks = <<>> /\ ~needsLayout /\ drag = 0 /\ drag' = d
      /\ visible' = Screen(offset, d) /\ offset + d \in 0 .. Len(strip) - 1
      /\ callbacks' = <<Callback("will", PathAt(offset + d))>>
  BY DEF BeginDrag, MainFree, readerVars
<1>3. SUFFICES ASSUME Opened, strip # <<>>
               PROVE  BarOK'
  BY <1>2 DEF BarInv, Opened
<1>4. BarOK
  BY <1>3 DEF BarInv
<1>5. Paths' = Paths /\ Bars' = Bars /\ Status' = Status /\ Near' = Near
  BY <1>2, SamePages DEF Near, Status
<1>6. d \in {-1, 1} /\ PathAt(offset + d) = Paths[offset + d]
  BY <1>2, <1>3, PagesOfBar, ReaderAssumption
<1>7. ScreenShown'
  <2>1. Screen(offset, drag)' = Screen(offset, d) /\ Screen(offset, d) # <<>>
    BY <1>2, <1>3, <1>6 DEF Screen, PathAt
  <2> QED
    BY <1>2, <2>1 DEF ScreenShown
<1>8. WillNear' /\ LayoutDue'
  BY <1>2, <1>4, <1>5 DEF BarOK, WillNear, LayoutDue
<1>9. ~Turned
  BY <1>2 DEF Turned
<1>10. CASE Exact
  <2>1. Exact'
    BY <1>2, <1>5, <1>6, <1>10 DEF Exact
  <2> QED
    BY <1>7, <1>8, <2>1 DEF BarOK
<1>11. CASE NothingAsked /\ (Reloaded \/ Behind)
  <2>1. NearStatus'
    BY <1>5, <1>11 DEF Reloaded, Behind, NearStatus
  <2>2. drag' # 0
    BY <1>2, <1>6
  <2>3. Behind'
    BY <1>2, <1>5, <1>6, <2>1, <2>2 DEF Behind
  <2>4. NothingAsked'
    BY <1>2, <1>11 DEF NothingAsked
  <2> QED
    BY <1>7, <1>8, <2>3, <2>4 DEF BarOK
<1> QED
  BY <1>4, <1>9, <1>10, <1>11 DEF BarOK

\* The page that was about to appear is the one turned to, and the bar is told when
\* the other is reported to have left; or it is the one that leaves.
LEMMA EndDragBar ==
  ASSUME StoryInv, BarInv, NEW turned \in BOOLEAN, EndDrag(turned)
  PROVE  BarInv'
<1> DEFINE stays  == IF turned THEN offset + drag ELSE offset
           leaves == IF turned THEN offset ELSE offset + drag
<1>1. /\ UNCHANGED <<currentImageArr, zeroSectionIndex, currentShowIndex, currentReadIndex,
                     willShowIndex, loads, strip, needsLayout>>
      /\ callbacks = <<>> /\ ~needsLayout /\ drag # 0 /\ drag' = 0
      /\ offset' = stays /\ visible' = <<PathAt(stays)>>
      /\ callbacks' = <<Callback("end", PathAt(leaves))>>
  BY DEF EndDrag, MainFree, readerVars
<1>2. SUFFICES ASSUME Opened, strip # <<>>
               PROVE  BarOK'
  BY <1>1 DEF BarInv, Opened
<1>3. BarOK
  BY <1>2 DEF BarInv
<1>4. /\ Paths' = Paths /\ Bars' = Bars /\ Status' = Status
      /\ \A k : k \in Near' <=>
           k \in 0 .. Len(strip) - 1 /\ offset' - 1 <= k /\ k <= offset' + 1
  BY <1>1, SamePages DEF Status
<1>5. /\ offset \in Nat /\ drag \in {-1, 1} /\ Len(strip) \in Nat
      /\ offset \in 0 .. Len(strip) - 1 /\ offset + drag \in 0 .. Len(strip) - 1
      /\ \A k \in 0 .. Len(strip) - 1 : Paths[k] = PathAt(k) /\ Paths[k] # NoIndex
  BY <1>1, <1>2, PagesOfBar
<1>6. /\ stays \in Near' /\ leaves \in Near' /\ leaves # stays /\ offset' = stays
      /\ PathAt(stays) = Paths[stays] /\ PathAt(leaves) = Paths[leaves]
      /\ Paths[stays] # NoIndex /\ Paths[leaves] # NoIndex
      /\ \/ stays = offset /\ leaves = offset + drag
         \/ stays = offset + drag /\ leaves = offset
  <2>1. /\ stays \in 0 .. Len(strip) - 1 /\ leaves \in 0 .. Len(strip) - 1
        /\ offset' = stays
        /\ \/ stays = offset /\ leaves = offset + drag
           \/ stays = offset + drag /\ leaves = offset
    BY <1>1, <1>5
  <2> HIDE DEF stays, leaves
  <2>2. /\ leaves # stays /\ stays - 1 <= stays /\ stays <= stays + 1
        /\ stays - 1 <= leaves /\ leaves <= stays + 1
    BY <1>5, <2>1
  <2>3. stays \in Near' /\ leaves \in Near'
    BY <1>4, <2>1, <2>2
  <2> QED
    BY <1>5, <2>1, <2>2, <2>3
<1>7. \/ willShowIndex = Paths[offset + drag]
      \/ willShowIndex = Paths[offset] /\ StatusOnScreen
  <2>1. Exact \/ (NothingAsked /\ (Reloaded \/ Behind))
    BY <1>1, <1>3 DEF BarOK, Turned
  <2>2. CASE Exact
    BY <1>1, <2>2 DEF Exact
  <2>3. CASE Reloaded
    BY <1>1, <2>3 DEF Reloaded, OnScreen
  <2>4. CASE Behind
    BY <1>1, <2>4 DEF Behind
  <2> QED
    BY <2>1, <2>2, <2>3, <2>4
<1> HIDE DEF stays, leaves
<1>8. willShowIndex' \in {Paths'[stays], Paths'[leaves]}
  BY <1>1, <1>4, <1>6, <1>7
<1>9. ScreenShown'
  <2>1. Screen(offset, drag)' = <<(PathAt(offset))'>>
    BY <1>1, <1>2 DEF Screen
  <2>2. (PathAt(offset))' = PathAt(stays)
    BY <1>1, <1>6 DEF PathAt
  <2> QED
    BY <1>1, <2>1, <2>2 DEF ScreenShown
<1>10. WillNear' /\ LayoutDue'
  BY <1>1, <1>6, <1>8 DEF WillNear, LayoutDue
<1>11. CASE willShowIndex = Paths[stays]
  <2>1. Turned'
    BY <1>1, <1>4, <1>6, <1>11 DEF Turned
  <2> QED
    BY <1>9, <1>10, <2>1 DEF BarOK
<1>12. CASE willShowIndex = Paths[leaves]
  <2>1. callbacks' = <<Callback("end", willShowIndex')>> /\ willShowIndex' # NoIndex
    BY <1>1, <1>6, <1>12
  <2>2. CASE Exact /\ stays = offset
    <3>1. Exact'
      BY <1>1, <1>4, <1>6, <2>1, <2>2 DEF Exact
    <3> QED
      BY <1>9, <1>10, <3>1 DEF BarOK
  <2>3. ASSUME NothingAsked, NearStatus' PROVE BarOK'
    <3>1. Behind'
      BY <1>1, <2>1, <2>3 DEF Behind
    <3>2. NothingAsked'
      BY <1>1, <2>3 DEF NothingAsked
    <3> QED
      BY <1>9, <1>10, <3>1, <3>2 DEF BarOK
  <2>4. CASE NothingAsked /\ StatusOnScreen
    <3>1. NearStatus'
      BY <1>4, <1>6, <2>4 DEF NearStatus, StatusOnScreen
    <3> QED
      BY <2>3, <2>4, <3>1
  <2>5. CASE NothingAsked /\ (Reloaded \/ Behind) /\ stays = offset
    <3>1. Near' = Near
      BY <1>4, <1>6, <2>5 DEF Near
    <3>2. NearStatus'
      BY <1>4, <2>5, <3>1 DEF NearStatus, Reloaded, Behind
    <3> QED
      BY <2>3, <2>5, <3>2
  <2>6. CASE stays = offset + drag
    <3>1. willShowIndex = Paths[offset] /\ Paths[offset] # Paths[offset + drag]
      BY <1>1, <1>2, <1>6, <1>12, <2>6, NearPages
    <3>2. ~Exact /\ ~Turned
      BY <1>1, <3>1 DEF Exact, Turned
    <3> QED
      BY <1>3, <1>7, <2>4, <3>1, <3>2 DEF BarOK
  <2>7. ~Turned
    BY <1>1 DEF Turned
  <2> QED
    BY <1>3, <1>6, <2>2, <2>5, <2>6, <2>7 DEF BarOK
<1> QED
  BY <1>4, <1>1, <1>8, <1>11, <1>12

-----------------------------------------------------------------------------
(* The bar: the delegate.                                                  *)

\* A callback leaves the screen alone.
LEMMA DelegateBar ==
  ASSUME BarOK, callbacks # <<>>,
         UNCHANGED <<currentImageArr, zeroSectionIndex, strip, screenVars, needsLayout>>
  PROVE  /\ Paths' = Paths /\ Bars' = Bars /\ Near' = Near /\ OnScreen' = OnScreen
         /\ UNCHANGED <<offset, drag>> /\ ~needsLayout /\ ~needsLayout'
         /\ ScreenShown' /\ LayoutDue'
<1>1. UNCHANGED <<offset, drag, visible>>
  BY DEF screenVars
<1>2. Paths' = Paths /\ Bars' = Bars /\ Near' = Near /\ OnScreen' = OnScreen
  BY <1>1, SamePages DEF Near, OnScreen
<1>3. ~needsLayout /\ ~needsLayout'
  BY DEF BarOK, LayoutDue
<1>4. ScreenShown'
  <2>1. Screen(offset, drag)' = Screen(offset, drag)
    BY <1>1 DEF Screen, PathAt
  <2> QED
    BY <1>1, <2>1 DEF BarOK, ScreenShown
<1> QED
  BY <1>1, <1>2, <1>3, <1>4 DEF LayoutDue

\* What appears is on the screen, or was before a reload.
LEMMA WillDisplayBar ==
  ASSUME StoryInv, BarInv, WillDisplay
  PROVE  BarInv'
<1>1. ReaderInv
  BY DEF StoryInv, ForwardInv
<1>2. /\ UNCHANGED <<currentImageArr, zeroSectionIndex, currentShowIndex, currentReadIndex,
                     loads, strip, screenVars, needsLayout>>
      /\ callbacks # <<>> /\ callbacks' = Tail(callbacks)
      /\ Head(callbacks).kind = "will" /\ willShowIndex' = Head(callbacks).path
  BY DEF WillDisplay
<1>3. SUFFICES ASSUME Opened, strip # <<>>
               PROVE  BarOK'
  BY <1>2 DEF BarInv, Opened
<1>4. BarOK
  BY <1>3 DEF BarInv
<1>5. /\ Paths' = Paths /\ Bars' = Bars /\ Near' = Near /\ OnScreen' = OnScreen
      /\ UNCHANGED <<offset, drag>> /\ ScreenShown' /\ LayoutDue'
  BY <1>2, <1>4, DelegateBar
<1>6. Status' = Status
  BY <1>2 DEF Status
<1>7. /\ Head(callbacks) = callbacks[1] /\ 1 \in 1 .. Len(callbacks)
      /\ \A i \in 1 .. Len(callbacks') :
           i + 1 \in 1 .. Len(callbacks) /\ callbacks'[i] = callbacks[i + 1]
  BY <1>1, <1>2, DueCallback
<1>8. offset \in Near /\ offset + drag \in Near
  BY <1>3, NearPages
<1>9. \A path : callbacks # <<Callback("end", path)>>
  <2>1. "will" # "end"
    OBVIOUS
  <2> QED
    BY <1>2, <2>1, OneCallback
<1>10. ASSUME callbacks = <<Callback("will", Paths[offset + drag])>>
       PROVE  callbacks' = <<>> /\ willShowIndex' = Paths'[offset' + drag'] /\ WillNear'
  <2>1. callbacks' = <<>> /\ willShowIndex' = Paths[offset + drag]
    BY <1>2, <1>10, OneCallback
  <2> QED
    BY <1>5, <1>8, <2>1 DEF WillNear
<1>11. CASE Exact
  <2>1. callbacks = <<Callback("will", Paths[offset + drag])>>
    BY <1>2, <1>9, <1>11 DEF Exact
  <2>2. Exact'
    BY <1>5, <1>6, <1>10, <1>11, <2>1 DEF Exact
  <2> QED
    BY <1>5, <1>10, <2>1, <2>2 DEF BarOK
<1>12. ~Turned
  BY <1>9 DEF Turned
<1>13. CASE NothingAsked /\ Behind
  <2>1. callbacks = <<Callback("will", Paths[offset + drag])>>
    BY <1>2, <1>9, <1>13 DEF Behind
  <2>2. Behind'
    BY <1>5, <1>6, <1>10, <1>13, <2>1 DEF Behind, NearStatus
  <2>3. NothingAsked'
    BY <1>2, <1>13 DEF NothingAsked
  <2> QED
    BY <1>5, <1>10, <2>1, <2>2, <2>3 DEF BarOK
<1>14. CASE NothingAsked /\ Reloaded
  <2>1. willShowIndex' \in OnScreen
    BY <1>2, <1>7, <1>14 DEF Reloaded
  <2>2. WillNear'
    BY <1>5, <1>8, <2>1 DEF WillNear, OnScreen
  <2>3. NotLast'
    BY <1>2, <1>5, <1>14, <2>1 DEF Reloaded, NotLast
  <2>4. \A i \in 1 .. Len(callbacks') : callbacks'[i].path \in OnScreen
    BY <1>7, <1>14 DEF Reloaded
  <2>5. NearStatus' /\ (StatusOnScreen => StatusOnScreen')
    BY <1>5, <1>6, <1>14 DEF Reloaded, NearStatus, StatusOnScreen
  <2>6. Reloaded'
    BY <1>5, <1>14, <2>1, <2>3, <2>4, <2>5 DEF Reloaded
  <2>7. NothingAsked'
    BY <1>2, <1>14 DEF NothingAsked
  <2> QED
    BY <1>5, <2>2, <2>6, <2>7 DEF BarOK
<1> QED
  BY <1>4, <1>11, <1>12, <1>13, <1>14 DEF BarOK

\* A page that leaves and is the one that appeared last: the bar stays.
LEMMA DidEndIgnoredBar ==
  ASSUME StoryInv, BarInv, DidEndIgnored
  PROVE  BarInv'
<1>1. ReaderInv
  BY DEF StoryInv, ForwardInv
<1>2. /\ UNCHANGED <<currentImageArr, zeroSectionIndex, currentShowIndex, currentReadIndex,
                     willShowIndex, loads, strip, screenVars, needsLayout>>
      /\ callbacks # <<>> /\ callbacks' = Tail(callbacks)
      /\ Head(callbacks).kind = "end" /\ willShowIndex \in {NoIndex, Head(callbacks).path}
  BY DEF DidEndIgnored, readerVars
<1>3. SUFFICES ASSUME Opened, strip # <<>>
               PROVE  BarOK'
  BY <1>2 DEF BarInv, Opened
<1>4. BarOK
  BY <1>3 DEF BarInv
<1>5. /\ Paths' = Paths /\ Bars' = Bars /\ Near' = Near /\ OnScreen' = OnScreen
      /\ UNCHANGED <<offset, drag>> /\ ScreenShown' /\ LayoutDue'
  BY <1>2, <1>4, DelegateBar
<1>6. Status' = Status /\ WillNear'
  BY <1>2, <1>4, <1>5 DEF Status, BarOK, WillNear
<1>7. \A i \in 1 .. Len(callbacks') :
        i + 1 \in 1 .. Len(callbacks) /\ callbacks'[i] = callbacks[i + 1]
  BY <1>1, <1>2, DueCallback
<1>8. \A path : callbacks # <<Callback("will", path)>>
  <2>1. "will" # "end"
    OBVIOUS
  <2> QED
    BY <1>2, <2>1, OneCallback
<1>9. callbacks = <<Callback("end", willShowIndex)>> => callbacks' = <<>>
  BY <1>2, OneCallback
<1>10. CASE Exact
  <2>1. drag = 0 /\ callbacks' = <<>>
    BY <1>2, <1>8, <1>9, <1>10 DEF Exact
  <2>2. Exact'
    BY <1>5, <1>6, <1>10, <2>1 DEF Exact
  <2> QED
    BY <1>5, <1>6, <2>2 DEF BarOK
<1>11. ~Turned
  <2>1. SUFFICES ASSUME Turned
                 PROVE  FALSE
    OBVIOUS
  <2>2. PICK k \in Near \ {offset} : callbacks = <<Callback("end", Paths[k])>>
    BY <2>1 DEF Turned
  <2>3. Head(callbacks).path = Paths[k]
    BY <2>2, OneCallback
  <2>4. willShowIndex = Paths[offset] /\ Paths[offset] # NoIndex /\ Paths[k] # Paths[offset]
    BY <1>3, <2>1, <2>2, NearPages DEF Turned
  <2> QED
    BY <1>2, <2>3, <2>4
<1>12. CASE NothingAsked /\ Behind
  <2>1. drag = 0 /\ callbacks' = <<>>
    BY <1>2, <1>8, <1>9, <1>12 DEF Behind
  <2>2. Behind'
    BY <1>5, <1>6, <1>12, <2>1 DEF Behind, NearStatus
  <2>3. NothingAsked'
    BY <1>2, <1>12 DEF NothingAsked
  <2> QED
    BY <1>5, <1>6, <2>2, <2>3 DEF BarOK
<1>13. CASE NothingAsked /\ Reloaded
  <2>1. NotLast'
    BY <1>2, <1>5, <1>13 DEF Reloaded, NotLast
  <2>2. \A i \in 1 .. Len(callbacks') : callbacks'[i].path \in OnScreen
    BY <1>7, <1>13 DEF Reloaded
  <2>3. NearStatus' /\ (StatusOnScreen => StatusOnScreen')
    BY <1>5, <1>6, <1>13 DEF Reloaded, NearStatus, StatusOnScreen
  <2>4. Reloaded'
    BY <1>2, <1>5, <1>13, <2>1, <2>2, <2>3 DEF Reloaded
  <2>5. NothingAsked'
    BY <1>2, <1>13 DEF NothingAsked
  <2> QED
    BY <1>5, <1>6, <2>4, <2>5 DEF BarOK
<1> QED
  BY <1>4, <1>10, <1>11, <1>12, <1>13 DEF BarOK

\* Short of the last section the handler asks for no next part.
LEMMA NotLastAsksNothing ==
  ASSUME ReaderInv, NotLast, NothingAsked, DidEndDisplaying
  PROVE  NothingAsked'
<1>1. ~AsksNext
  BY DEF NotLast, AsksNext, AtLastPage
<1>2. loads' = loads \/ loads' = Request(loads, "loadPreviousDate", Frontier)
  BY <1>1 DEF DidEndDisplaying
<1>3. /\ loads \in [Loading -> [Parts -> Nat]]
      /\ "loadPreviousDate" \in Loading /\ "loadNextDate" \in Loading
  BY LoadsTyped
<1>4. \A p \in Parts : loads'["loadNextDate"][p] = loads["loadNextDate"][p]
  <2>1. CASE loads' = loads
    BY <2>1
  <2>2. CASE loads' = Request(loads, "loadPreviousDate", Frontier)
    <3>1. \A k \in Loading, p \in Parts :
            loads'[k][p] = IF k = "loadPreviousDate" /\ p = Frontier
                           THEN loads[k][p] + 1 ELSE loads[k][p]
      BY <1>3, <2>2, RequestCounts
    <3> QED
      BY <1>3, <3>1
  <2> QED
    BY <1>2, <2>1, <2>2
<1> QED
  BY <1>4 DEF NothingAsked

\* The bar moves to the page that appeared last.
LEMMA DidEndDisplayingBar ==
  ASSUME StoryInv, BarInv, DidEndDisplaying
  PROVE  BarInv'
<1>1. ReaderInv
  BY DEF StoryInv, ForwardInv
<1>2. /\ UNCHANGED <<currentImageArr, zeroSectionIndex, willShowIndex, strip, screenVars,
                     needsLayout>>
      /\ callbacks # <<>> /\ callbacks' = Tail(callbacks)
      /\ Head(callbacks).kind = "end" /\ willShowIndex \notin {NoIndex, Head(callbacks).path}
      /\ currentShowIndex' = ShowIndex(willShowIndex)
      /\ currentReadIndex' = zeroSectionIndex - willShowIndex.section
  BY DEF DidEndDisplaying
<1>3. SUFFICES ASSUME Opened, strip # <<>>
               PROVE  BarOK'
  BY <1>2 DEF BarInv, Opened
<1>4. BarOK
  BY <1>3 DEF BarInv
<1>5. /\ Paths' = Paths /\ Bars' = Bars /\ Near' = Near /\ OnScreen' = OnScreen
      /\ UNCHANGED <<offset, drag>> /\ ScreenShown' /\ LayoutDue'
  BY <1>2, <1>4, DelegateBar
<1>6. WillNear'
  BY <1>2, <1>4, <1>5 DEF BarOK, WillNear
<1>7. \A k \in 0 .. Len(strip) - 1 : willShowIndex = Paths[k] => Status' = Bars[k]
  BY <1>2, <1>3, PagesOfBar DEF Status
<1>8. /\ offset \in Near /\ offset + drag \in Near
      /\ \A k \in Near : k \in 0 .. Len(strip) - 1
  BY <1>3, NearPages
<1>9. \A i \in 1 .. Len(callbacks') :
        i + 1 \in 1 .. Len(callbacks) /\ callbacks'[i] = callbacks[i + 1]
  BY <1>1, <1>2, DueCallback
<1>10. \A path : callbacks # <<Callback("will", path)>>
  <2>1. "will" # "end"
    OBVIOUS
  <2> QED
    BY <1>2, <2>1, OneCallback
<1>11. callbacks # <<Callback("end", willShowIndex)>>
  BY <1>2, OneCallback
<1>12. ~Exact
  BY <1>2, <1>10, <1>11 DEF Exact
<1>13. ~Behind
  BY <1>2, <1>10, <1>11 DEF Behind
<1>14. CASE Turned
  <2>1. callbacks' = <<>>
    BY <1>2, <1>14, OneCallback DEF Turned
  <2>2. drag' = 0 /\ Status' = Bars'[offset']
    BY <1>5, <1>7, <1>8, <1>14 DEF Turned
  <2>3. Exact'
    BY <2>1, <2>2 DEF Exact
  <2> QED
    BY <1>5, <1>6, <2>3 DEF BarOK
<1>15. CASE NothingAsked /\ Reloaded
  <2>1. NotLast /\ NotLast'
    BY <1>2, <1>5, <1>15 DEF Reloaded, NotLast
  <2>2. NothingAsked'
    BY <1>1, <1>15, <2>1, NotLastAsksNothing
  <2>3. \A i \in 1 .. Len(callbacks') : callbacks'[i].path \in OnScreen
    BY <1>9, <1>15 DEF Reloaded
  <2>4. NearStatus'
    <3>1. PICK k \in Near : willShowIndex = Paths[k]
      BY <1>2, <1>4 DEF BarOK, WillNear
    <3> QED
      BY <1>5, <1>7, <1>8, <3>1 DEF NearStatus
  <2>5. willShowIndex \in OnScreen => StatusOnScreen'
    BY <1>5, <1>7, <1>8 DEF OnScreen, StatusOnScreen
  <2>6. drag' # 0 => willShowIndex' \in OnScreen' /\ StatusOnScreen'
    BY <1>2, <1>5, <1>15, <2>5 DEF Reloaded
  <2>7. Reloaded'
    BY <1>5, <2>1, <2>3, <2>4, <2>6 DEF Reloaded
  <2> QED
    BY <1>5, <1>6, <2>2, <2>7 DEF BarOK
<1> QED
  BY <1>4, <1>12, <1>13, <1>14, <1>15 DEF BarOK

LEMMA StepBar ==
  ASSUME StoryInv, BarInv, [Next]_vars
  PROVE  BarInv'
<1>1. CASE SetUpAnswered
  BY <1>1, SetUpAnsweredBar
<1>2. CASE SetUpFailed
  <2>1. ReaderInv /\ StartIndex \in Parts
    BY Calculated DEF StoryInv, ForwardInv
  <2>2. loads["setUp"][StartIndex] > 0 /\ currentImageArr' = currentImageArr
    BY <1>2 DEF SetUpFailed, readerVars
  <2>3. ~Opened
    BY <2>1, <2>2 DEF ReaderInv, SetUpFirst
  <2> QED
    BY <2>2, <2>3 DEF BarInv, Opened
<1>3. ASSUME NEW p \in Parts, Answer(p)
      PROVE  BarInv'
  <2>1. CASE NextAnswered(p)
    BY <2>1, NextAnsweredBar
  <2>2. ~PreviousAnswered(p)
    <3>1. ForwardInv
      BY DEF StoryInv
    <3>2. "loadPreviousDate" # "loadNextDate"
      OBVIOUS
    <3> QED
      BY <3>1, <3>2, TheOneAnswer DEF PreviousAnswered
  <2>3. ASSUME NEW kind \in {"loadNextDate", "loadPreviousDate"}, LoadFailed(kind, p)
        PROVE  BarInv'
    BY <2>3, LoadFailedBar
  <2> QED
    BY <1>3, <2>1, <2>2, <2>3 DEF Answer
<1>4. CASE Layout
  BY <1>4, LayoutBar
<1>5. ASSUME NEW d \in Swipes, BeginDrag(d)
      PROVE  BarInv'
  BY <1>5, BeginDragBar
<1>6. ASSUME NEW turned \in BOOLEAN, EndDrag(turned)
      PROVE  BarInv'
  BY <1>6, EndDragBar
<1>7. CASE Deliver
  BY <1>7, WillDisplayBar, DidEndIgnoredBar, DidEndDisplayingBar DEF Deliver
<1>8. CASE UNCHANGED vars
  <2>1. UNCHANGED <<currentImageArr, zeroSectionIndex, currentShowIndex, currentReadIndex,
                    willShowIndex, strip, screenVars, needsLayout, callbacks, loads>>
    BY <1>8 DEF vars, readerVars
  <2>2. /\ Paths' = Paths /\ Bars' = Bars /\ Opened' = Opened /\ Status' = Status
        /\ NothingAsked' = NothingAsked
    BY <2>1 DEF Paths, Bars, PathAt, StatusOf, ContentAt, Opened, Status, NothingAsked
  <2>3. UNCHANGED <<offset, drag, visible, callbacks, willShowIndex, needsLayout>>
    BY <2>1 DEF screenVars
  <2>4. Near' = Near /\ OnScreen' = OnScreen /\ ScreenShown' = ScreenShown
    BY <2>1, <2>2, <2>3 DEF Near, OnScreen, ScreenShown, Screen, PathAt
  <2>5. NotLast' = NotLast /\ NearStatus' = NearStatus /\ StatusOnScreen' = StatusOnScreen
    BY <2>1, <2>2, <2>3, <2>4 DEF NotLast, NearStatus, StatusOnScreen
  <2>6. Exact' = Exact /\ Turned' = Turned
    BY <2>2, <2>3, <2>4 DEF Exact, Turned
  <2>7. Reloaded' = Reloaded /\ Behind' = Behind
    BY <2>2, <2>3, <2>4, <2>5 DEF Reloaded, Behind
  <2>8. WillNear' = WillNear /\ LayoutDue' = LayoutDue
    BY <2>2, <2>3, <2>4, <2>5, <2>6 DEF WillNear, LayoutDue
  <2>9. BarInv' = BarInv
    BY <2>1, <2>2, <2>4, <2>6, <2>7, <2>8 DEF BarInv, BarOK
  <2> QED
    BY <2>9
<1> QED
  BY <1>1, <1>2, <1>3, <1>4, <1>5, <1>6, <1>7, <1>8 DEF Next

\* Read forward from the first part, the status bar shows the page on the screen or one
\* next to it whenever the screen is at rest, whatever the reader does and in
\* whatever order UIKit reports what it lays out.
THEOREM StatusIsNear == ForwardEnvironment => (Spec => []StatusWithinAPage)
<1> SUFFICES ASSUME ForwardEnvironment PROVE Spec => []StatusWithinAPage
  OBVIOUS
<1>1. Init => BarInv
  BY DEF Init, BarInv, Opened
<1>2. StoryInv /\ BarInv /\ [Next]_vars => BarInv'
  BY StepBar
<1>3. StoryInv /\ BarInv => StatusWithinAPage
  BY BarFollows
<1> QED
  BY <1>1, <1>2, <1>3, StoryInvariant, PTL DEF Spec

=============================================================================
