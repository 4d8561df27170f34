-------------------------- MODULE ReadContentVProofs --------------------------
(***************************************************************************)
(* The properties of ReadContentV, proved for every book, every opened     *)
(* part and every environment.                                             *)
(***************************************************************************)
EXTENDS ReadContentV, SequenceTheorems, TLAPS

CallbackOf(paths) == [kind : {"will", "end"}, path : paths]

-----------------------------------------------------------------------------
(* The operators that the actions are built from.                          *)

\* A request changes one counter, and only for a part of the book.
LEMMA RequestCounts ==
  ASSUME NEW l \in [Loading -> [Parts -> Nat]], NEW kind \in Loading,
         NEW part
  PROVE  /\ Request(l, kind, part) \in [Loading -> [Parts -> Nat]]
         /\ \A k \in Loading, p \in Parts :
              Request(l, kind, part)[k][p] =
                IF k = kind /\ p = part THEN l[k][p] + 1 ELSE l[k][p]
  BY DEF Request

\* An answer takes one request off one counter.
LEMMA AnsweredCounts ==
  ASSUME loads \in [Loading -> [Parts -> Nat]], NEW kind \in Loading,
         NEW part \in Parts, loads[kind][part] > 0
  PROVE  /\ Answered(kind, part) \in [Loading -> [Parts -> Nat]]
         /\ \A k \in Loading, p \in Parts :
              Answered(kind, part)[k][p] =
                IF k = kind /\ p = part THEN loads[k][p] - 1 ELSE loads[k][p]
  BY DEF Answered

\* The pages of a part are a piece of strip, all with the part's number.
LEMMA PagesOfPart ==
  ASSUME NEW part \in Parts, NEW number \in Int
  PROVE  /\ PagesOf(part, number) \in Seq(PageOfStrip)
         /\ Len(PagesOf(part, number)) = Pages[part]
         /\ \A k \in 1 .. Pages[part] :
              /\ PagesOf(part, number)[k].number = number
              /\ PagesOf(part, number)[k].row = k - 1
  <1>1. Pages[part] \in Nat
    BY ReaderAssumption
  <1>2. \A r \in 1 .. Pages[part] :
          [number |-> number, row |-> r - 1] \in PageOfStrip
    BY <1>1 DEF PageOfStrip
  <1>3. PagesOf(part, number) \in [1 .. Pages[part] -> PageOfStrip]
    BY <1>2 DEF PagesOf
  <1>4. PagesOf(part, number) \in Seq(PageOfStrip)
    BY <1>1, <1>3
  <1>5. Len(PagesOf(part, number)) = Pages[part]
    BY <1>1 DEF PagesOf
  <1>6. QED
    BY <1>4, <1>5 DEF PagesOf

\* The index path of a page of the strip exists in the data source.
LEMMA PathOfPage ==
  ASSUME TypeOK, StripOfSections, NEW k \in 0 .. Len(strip) - 1
  PROVE  PathAt(k) \in SectionPaths
  <1>1. k + 1 \in 1 .. Len(strip) /\ strip[k + 1] \in PageOfStrip
    BY ElementOfSeq DEF TypeOK
  <1>2. strip[k + 1].row \in Nat
    BY <1>1 DEF PageOfStrip
  <1>3. zeroSectionIndex - strip[k + 1].number \in 0 .. Len(currentImageArr) - 1
    BY <1>1 DEF StripOfSections
  <1>4. QED
    BY <1>2, <1>3 DEF PathAt, SectionPaths

\* So do the cells of a screen that lies on the strip.
LEMMA CellsOfScreen ==
  ASSUME TypeOK, StripOfSections, NEW d \in {-1, 0, 1},
         strip # <<>> => {offset, offset + d} \subseteq 0 .. Len(strip) - 1
  PROVE  Screen(offset, d) \in Seq(SectionPaths)
  <1>1. CASE strip = <<>>
    BY <1>1, EmptySeq DEF Screen
  <1>2. CASE strip # <<>> /\ d = 0
    <2>1. PathAt(offset) \in SectionPaths
      BY <1>2, PathOfPage
    <2>2. Screen(offset, d) = <<PathAt(offset)>>
      BY <1>2 DEF Screen
    <2>3. QED
      BY <2>1, <2>2
  <1>3. CASE strip # <<>> /\ d = 1
    <2>1. PathAt(offset) \in SectionPaths /\ PathAt(offset + 1) \in SectionPaths
      BY <1>3, PathOfPage
    <2>2. Screen(offset, d) = <<PathAt(offset), PathAt(offset + 1)>>
      BY <1>3 DEF Screen
    <2>3. QED
      BY <2>1, <2>2
  <1>4. CASE strip # <<>> /\ d = -1
    <2>1. /\ PathAt(offset) \in SectionPaths
          /\ offset + d = offset - 1 => PathAt(offset - 1) \in SectionPaths
      BY <1>4, PathOfPage
    <2>2. offset + d = offset - 1
      BY <1>4 DEF TypeOK
    <2>3. Screen(offset, d) = <<PathAt(offset - 1), PathAt(offset)>>
      BY <1>4 DEF Screen
    <2>4. QED
      BY <2>1, <2>2, <2>3
  <1>5. QED
    BY <1>1, <1>2, <1>3, <1>4

\* Paths that exist go on existing while the data source does not shrink.
LEMMA PathsGoOn ==
  ASSUME TypeOK, SectionsExist, currentImageArr' \in Seq(Parts),
         Len(currentImageArr') >= Len(currentImageArr)
  PROVE  /\ willShowIndex \in SectionPaths' \cup {NoIndex}
         /\ visible \in Seq(SectionPaths')
         /\ callbacks \in Seq(CallbackOf(SectionPaths'))
  <1>1. Len(currentImageArr) \in Nat /\ Len(currentImageArr') \in Nat
    BY LenProperties DEF TypeOK
  <1>2. 0 .. Len(currentImageArr) - 1 \subseteq 0 .. Len(currentImageArr') - 1
    BY <1>1
  <1>3. SectionPaths \subseteq SectionPaths'
    BY <1>2 DEF SectionPaths
  <1>4. CallbackOf(SectionPaths) \subseteq CallbackOf(SectionPaths')
    BY <1>3 DEF CallbackOf
  <1>5. QED
    BY <1>3, <1>4, SeqMonotonic DEF SectionsExist, CallbackOf

\* The screen goes on lying on the strip while the strip does not shrink.
LEMMA ScreenGoesOn ==
  ASSUME TypeOK, ScreenOnStrip, strip' \in Seq(PageOfStrip),
         Len(strip') >= Len(strip), UNCHANGED <<offset, drag>>
  PROVE  ScreenOnStrip'
  <1>1. /\ strip \in Seq(PageOfStrip) /\ Len(strip) \in Nat
        /\ Len(strip') \in Nat /\ offset \in Int /\ drag \in Int
    BY LenProperties DEF TypeOK
  <1>2. CASE strip = <<>>
    <2>1. offset' = 0 /\ drag' = 0
      BY <1>2 DEF ScreenOnStrip
    <2>2. strip' # <<>> => Len(strip') > 0
      BY <1>1
    <2>3. QED
      BY <1>1, <2>1, <2>2 DEF ScreenOnStrip
  <1>3. CASE strip # <<>>
    <2>1. /\ offset \in 0 .. Len(strip) - 1
          /\ offset + drag \in 0 .. Len(strip) - 1
      BY <1>3 DEF ScreenOnStrip
    <2>2. strip' # <<>>
      BY <1>1, <1>3
    <2>3. /\ offset' \in 0 .. Len(strip') - 1
          /\ offset' + drag' \in 0 .. Len(strip') - 1
      BY <1>1, <2>1
    <2>4. QED
      BY <2>2, <2>3 DEF ScreenOnStrip
  <1>4. QED
    BY <1>2, <1>3

-----------------------------------------------------------------------------
(* The inductive invariant.                                                *)

LEMMA InitReaderInv == Init => ReaderInv
  <1> SUFFICES ASSUME Init PROVE ReaderInv
    OBVIOUS
  <1> USE ReaderAssumption DEF Init
  <1>1. TypeOK
    <2>1. loads \in [Loading -> [Parts -> Nat]]
      OBVIOUS
    <2>2. willShowIndex \in IndexPath
      BY DEF IndexPath, NoIndex
    <2>3. state \in State
      BY DEF State, Loading
    <2>4. /\ currentImageArr \in Seq(Parts) /\ strip \in Seq(PageOfStrip)
          /\ visible \in Seq(IndexPath) /\ callbacks \in Seq(CallbackOf(IndexPath))
      BY EmptySeq
    <2>5. /\ currentReadIndex \in Int /\ zeroSectionIndex \in Int
          /\ offset \in Nat /\ drag \in {-1, 0, 1}
      OBVIOUS
    <2>6. currentShowIndex \in Nat \X Nat
      OBVIOUS
    <2>7. needsLayout \in BOOLEAN
      OBVIOUS
    <2> QED
      BY ONLY <2>1, <2>2, <2>3, <2>4, <2>5, <2>6, <2>7 DEF TypeOK, CallbackOf
  <1>2. SectionsExist
    BY EmptySeq DEF SectionsExist
  <1>3. OpenedPartAnchored /\ StripOfSections /\ ScreenOnStrip
    BY DEF OpenedPartAnchored, Opened, StripOfSections, ScreenOnStrip
  <1>4. SetUpFirst
    BY DEF SetUpFirst, Opened, Loading
  <1>5. QED
    BY <1>1, <1>2, <1>3, <1>4 DEF ReaderInv

LEMMA LoadsTyped ==
  /\ {"setUp", "loadNextDate", "loadPreviousDate"} = Loading
  /\ ReaderInv => /\ loads \in [Loading -> [Parts -> Nat]]
                  /\ \A k \in Loading, p \in Parts : loads[k][p] \in Nat
  BY DEF ReaderInv, TypeOK, Loading

\* The first part opens the reader: nothing was there before.
LEMMA SetUpAnsweredKeeps ==
  ASSUME ReaderInv, SetUpAnswered
  PROVE  ReaderInv'
  <1> DEFINE taken  == Answered("setUp", StartIndex)
             onward == IF Pages[StartIndex] = 1
                       THEN Request(taken, "loadNextDate", StartIndex - 1)
                       ELSE taken
  <1>1. /\ StartIndex \in Parts /\ StartIndex \in Int
        /\ Pages[StartIndex] \in Nat
    BY ReaderAssumption DEF Parts
  <1>2. /\ ~Opened /\ strip = <<>> /\ visible = <<>> /\ callbacks = <<>>
        /\ willShowIndex = NoIndex /\ offset = 0 /\ drag = 0
    BY <1>1 DEF SetUpAnswered, ReaderInv, SetUpFirst, ScreenOnStrip, TypeOK,
                Loading
  <1>3. /\ currentImageArr' = <<StartIndex>>
        /\ currentImageArr' \in Seq(Parts) /\ Len(currentImageArr') = 1
    BY <1>1 DEF SetUpAnswered
  <1>4. /\ taken \in [Loading -> [Parts -> Nat]]
        /\ \A p \in Parts : taken["setUp"][p] = 0
    <2>1. /\ taken \in [Loading -> [Parts -> Nat]]
          /\ \A k \in Loading, p \in Parts : taken[k][p] =
               IF k = "setUp" /\ p = StartIndex THEN loads[k][p] - 1
                                               ELSE loads[k][p]
      BY <1>1, LoadsTyped, AnsweredCounts DEF SetUpAnswered
    <2>2. \A p \in Parts : taken["setUp"][p] =
             IF p = StartIndex THEN loads["setUp"][p] - 1 ELSE loads["setUp"][p]
      BY <2>1, LoadsTyped
    <2>3. /\ \A p \in Parts : loads["setUp"][p] \in Nat
          /\ \A p \in Parts : loads["setUp"][p] <= 1
          /\ \A p \in Parts : p # StartIndex => loads["setUp"][p] = 0
          /\ loads["setUp"][StartIndex] > 0
      BY LoadsTyped DEF ReaderInv, SetUpFirst, SetUpAnswered
    <2>4. QED
      BY <2>1, <2>2, <2>3, <1>1
  <1>5. /\ onward \in [Loading -> [Parts -> Nat]]
        /\ \A p \in Parts : onward["setUp"][p] = 0
    BY <1>4, RequestCounts DEF Loading
  <1>6. /\ loads' \in [Loading -> [Parts -> Nat]]
        /\ \A p \in Parts : loads'["setUp"][p] = 0
    <2>1. loads' = Request(onward, "loadPreviousDate", StartIndex + 1)
      BY DEF SetUpAnswered
    <2>2. QED
      BY <1>5, <2>1, RequestCounts DEF Loading
  <1>7. /\ strip' \in Seq(PageOfStrip) /\ Len(strip') = Pages[StartIndex]
        /\ \A k \in 1 .. Len(strip') : strip'[k].number = StartIndex
    <2>1. strip' = PagesOf(StartIndex, StartIndex)
      BY DEF SetUpAnswered
    <2>2. /\ PagesOf(StartIndex, StartIndex) \in Seq(PageOfStrip)
          /\ Len(PagesOf(StartIndex, StartIndex)) = Pages[StartIndex]
          /\ \A k \in 1 .. Pages[StartIndex] :
               PagesOf(StartIndex, StartIndex)[k].number = StartIndex
      BY <1>1, PagesOfPart
    <2>3. Len(strip') = Pages[StartIndex] /\ strip' \in Seq(PageOfStrip)
      BY <2>1, <2>2
    <2>4. ASSUME NEW k \in 1 .. Len(strip')
          PROVE  strip'[k].number = StartIndex
      BY <2>1, <2>2, <2>3
    <2>5. QED
      BY <2>3, <2>4
  <1>8. TypeOK'
    BY <1>1, <1>3, <1>6, <1>7 DEF SetUpAnswered, ReaderInv, TypeOK, State,
       Loading, screenVars
  <1>9. SectionsExist'
    BY <1>2, EmptySeq DEF SetUpAnswered, SectionsExist, screenVars
  <1>10. OpenedPartAnchored'
    BY <1>1, <1>3 DEF SetUpAnswered, OpenedPartAnchored
  <1>11. StripOfSections'
    BY <1>1, <1>3, <1>7 DEF SetUpAnswered, StripOfSections
  <1>12. ScreenOnStrip'
    <2>1. offset' = 0 /\ drag' = 0
      BY <1>2 DEF SetUpAnswered, screenVars
    <2>2. strip' # <<>> => Len(strip') # 0
      BY <1>7
    <2>3. strip' # <<>> => 0 \in 0 .. Len(strip') - 1
      BY <1>1, <1>7, <2>2
    <2>4. QED
      BY <2>1, <2>3 DEF ScreenOnStrip
  <1>13. SetUpFirst'
    BY <1>3, <1>6 DEF SetUpFirst, Opened
  <1>14. QED
    BY <1>8, <1>9, <1>10, <1>11, <1>12, <1>13 DEF ReaderInv

LEMMA SetUpFailedKeeps ==
  ASSUME ReaderInv, SetUpFailed
  PROVE  ReaderInv'
  <1>1. StartIndex \in Parts
    BY ReaderAssumption
  <1>2. /\ loads' \in [Loading -> [Parts -> Nat]]
        /\ \A k \in Loading, p \in Parts : loads'[k][p] <= loads[k][p]
        /\ \A k \in Loading, p \in Parts : k # "setUp" => loads'[k][p] = loads[k][p]
    <2>1. loads' = Answered("setUp", StartIndex)
      BY DEF SetUpFailed
    <2>2. /\ Answered("setUp", StartIndex) \in [Loading -> [Parts -> Nat]]
          /\ \A k \in Loading, p \in Parts :
               Answered("setUp", StartIndex)[k][p] =
                 IF k = "setUp" /\ p = StartIndex THEN loads[k][p] - 1
                                                 ELSE loads[k][p]
      BY <1>1, LoadsTyped, AnsweredCounts DEF SetUpFailed
    <2>3. QED
      BY <2>1, <2>2, LoadsTyped
  <1>3. TypeOK' /\ SectionsExist' /\ OpenedPartAnchored' /\ StripOfSections'
        /\ ScreenOnStrip'
    BY <1>2 DEF SetUpFailed, ReaderInv, TypeOK, SectionsExist, SectionPaths,
       OpenedPartAnchored, Opened, StripOfSections, ScreenOnStrip, readerVars,
       screenVars
  <1>4. SetUpFirst'
    <2>1. \A p \in Parts :
            /\ loads["setUp"][p] \in Nat /\ loads'["setUp"][p] \in Nat
            /\ loads'["setUp"][p] <= loads["setUp"][p]
            /\ loads'["loadNextDate"][p] = loads["loadNextDate"][p]
            /\ loads'["loadPreviousDate"][p] = loads["loadPreviousDate"][p]
      BY <1>2, LoadsTyped
    <2>2. /\ UNCHANGED <<currentImageArr, strip, visible, callbacks>>
          /\ UNCHANGED <<willShowIndex, needsLayout>>
      BY DEF SetUpFailed, readerVars, screenVars
    <2>3. QED
      BY <2>1, <2>2 DEF ReaderInv, SetUpFirst, Opened
  <1>5. QED
    BY <1>3, <1>4 DEF ReaderInv

\* What the answer to a request made while reading finds and leaves.
LEMMA ReadingAnswer ==
  ASSUME ReaderInv, NEW kind \in {"loadNextDate", "loadPreviousDate"},
         NEW p \in Parts, loads[kind][p] > 0, loads' = Answered(kind, p)
  PROVE  /\ Opened
         /\ loads' \in [Loading -> [Parts -> Nat]]
         /\ \A q \in Parts : loads'["setUp"][q] = loads["setUp"][q]
         /\ \A k \in Loading, q \in Parts :
              loads'[k][q] = IF k = kind /\ q = p THEN loads[k][q] - 1
                                                  ELSE loads[k][q]
  <1>1. kind \in Loading /\ kind # "setUp"
    BY DEF Loading
  <1>2. Opened
    BY <1>1, LoadsTyped DEF ReaderInv, SetUpFirst
  <1>3. /\ Answered(kind, p) \in [Loading -> [Parts -> Nat]]
        /\ \A k \in Loading, q \in Parts :
             Answered(kind, p)[k][q] =
               IF k = kind /\ q = p THEN loads[k][q] - 1 ELSE loads[k][q]
    BY <1>1, LoadsTyped, AnsweredCounts
  <1>4. \A q \in Parts : loads'["setUp"][q] = loads["setUp"][q]
    BY <1>1, <1>3, LoadsTyped
  <1>5. QED
    BY <1>2, <1>3, <1>4

LEMMA NextAnsweredKeeps ==
  ASSUME ReaderInv, NEW p \in Parts, NextAnswered(p)
  PROVE  ReaderInv'
  <1> DEFINE n == Len(currentImageArr)
             pages == PagesOf(p, zeroSectionIndex - n)
  <1>1. /\ currentImageArr \in Seq(Parts) /\ n \in Nat
        /\ zeroSectionIndex \in Int /\ strip \in Seq(PageOfStrip)
        /\ Len(strip) \in Nat
    BY DEF ReaderInv, TypeOK
  <1>2. /\ Opened /\ n > 0
        /\ loads' \in [Loading -> [Parts -> Nat]]
        /\ \A q \in Parts : loads'["setUp"][q] = loads["setUp"][q]
    <2>1. Opened /\ loads' \in [Loading -> [Parts -> Nat]]
          /\ \A q \in Parts : loads'["setUp"][q] = loads["setUp"][q]
      BY ReadingAnswer DEF NextAnswered
    <2>2. QED
      BY <1>1, <2>1 DEF Opened
  <1>3. /\ currentImageArr' = Append(currentImageArr, p)
        /\ currentImageArr' \in Seq(Parts) /\ Len(currentImageArr') = n + 1
        /\ \A i \in 1 .. n : currentImageArr'[i] = currentImageArr[i]
    BY <1>1, AppendProperties DEF NextAnswered, Appended
  <1>4. /\ pages \in Seq(PageOfStrip) /\ Len(pages) = Pages[p]
        /\ Pages[p] \in Nat
        /\ \A k \in 1 .. Pages[p] : pages[k].number = zeroSectionIndex - n
    <2>1. zeroSectionIndex - n \in Int /\ Pages[p] \in Nat
      BY <1>1, ReaderAssumption
    <2>2. QED
      BY <2>1, PagesOfPart
  <1>5. /\ strip' \in Seq(PageOfStrip) /\ Len(strip') = Len(strip) + Pages[p]
        /\ \A k \in 1 .. Len(strip') :
             strip'[k].number = IF k <= Len(strip) THEN strip[k].number
                                                   ELSE zeroSectionIndex - n
    <2>1. strip' = strip \o pages
      BY DEF NextAnswered
    <2> HIDE DEF pages
    <2>2. /\ strip' \in Seq(PageOfStrip) /\ Len(strip') = Len(strip) + Pages[p]
          /\ \A k \in 1 .. Len(strip') :
               strip'[k] = IF k <= Len(strip) THEN strip[k]
                                              ELSE pages[k - Len(strip)]
      BY <1>1, <1>4, <2>1, ConcatProperties
    <2>3. ASSUME NEW k \in 1 .. Len(strip'), ~(k <= Len(strip))
          PROVE  k - Len(strip) \in 1 .. Pages[p]
      BY <1>1, <1>4, <2>2, <2>3
    <2>4. QED
      BY <1>4, <2>2, <2>3
  <1>6. UNCHANGED <<zeroSectionIndex, willShowIndex, offset, drag, visible, callbacks>>
    BY DEF NextAnswered, screenVars
  <1>7. TypeOK'
    BY <1>2, <1>3, <1>5, <1>6 DEF NextAnswered, ReaderInv, TypeOK, State
  <1>8. SectionsExist'
    BY <1>1, <1>3, <1>6, PathsGoOn DEF SectionsExist, ReaderInv, CallbackOf
  <1>9. OpenedPartAnchored'
    BY <1>1, <1>2, <1>3, <1>6 DEF ReaderInv, OpenedPartAnchored, Opened
  <1>10. StripOfSections'
    BY <1>1, <1>3, <1>5, <1>6 DEF ReaderInv, StripOfSections
  <1>11. ScreenOnStrip'
    BY <1>1, <1>4, <1>5, <1>6, ScreenGoesOn DEF ReaderInv
  <1>12. SetUpFirst'
    BY <1>2, <1>3 DEF ReaderInv, SetUpFirst, Opened
  <1>13. QED
    BY <1>7, <1>8, <1>9, <1>10, <1>11, <1>12 DEF ReaderInv

LEMMA LoadFailedKeeps ==
  ASSUME ReaderInv, NEW kind \in {"loadNextDate", "loadPreviousDate"},
         NEW p \in Parts, LoadFailed(kind, p)
  PROVE  ReaderInv'
  <1>1. /\ Opened
        /\ loads' \in [Loading -> [Parts -> Nat]]
        /\ \A q \in Parts : loads'["setUp"][q] = loads["setUp"][q]
    BY ReadingAnswer DEF LoadFailed
  <1>2. /\ UNCHANGED <<currentImageArr, zeroSectionIndex, willShowIndex>>
        /\ UNCHANGED <<strip, offset, drag, visible, callbacks>>
    BY DEF LoadFailed, screenVars
  <1>3. TypeOK'
    BY <1>1, <1>2 DEF LoadFailed, FailedState, ReaderInv, TypeOK, State
  <1>4. SectionsExist' /\ OpenedPartAnchored' /\ StripOfSections' /\ ScreenOnStrip'
    BY <1>2 DEF ReaderInv, SectionsExist, SectionPaths, OpenedPartAnchored,
       Opened, StripOfSections, ScreenOnStrip
  <1>5. SetUpFirst'
    BY <1>1, <1>2 DEF ReaderInv, SetUpFirst, Opened
  <1>6. QED
    BY <1>3, <1>4, <1>5 DEF ReaderInv

\* The part put in front shifts every section by one, and zeroSectionIndex
\* makes up for it.
LEMMA PreviousAnsweredKeeps ==
  ASSUME ReaderInv, NEW p \in Parts, PreviousAnswered(p)
  PROVE  ReaderInv'
  <1> DEFINE n == Len(currentImageArr)
             pages == PagesOf(p, zeroSectionIndex + 1)
  <1>1. /\ currentImageArr \in Seq(Parts) /\ n \in Nat
        /\ zeroSectionIndex \in Int /\ strip \in Seq(PageOfStrip)
        /\ Len(strip) \in Nat /\ StartIndex \in Int
    BY ReaderAssumption DEF ReaderInv, TypeOK, Parts
  <1>2. /\ Opened
        /\ loads' \in [Loading -> [Parts -> Nat]]
        /\ \A q \in Parts : loads'["setUp"][q] = loads["setUp"][q]
    BY ReadingAnswer DEF PreviousAnswered
  <1>3. /\ currentImageArr' \in Seq(Parts) /\ Len(currentImageArr') = n + 1
        /\ \A i \in 1 .. n : currentImageArr'[i + 1] = currentImageArr[i]
    <2>1. currentImageArr' = <<p>> \o currentImageArr
      BY DEF PreviousAnswered, Inserted
    <2>2. <<p>> \in Seq(Parts) /\ Len(<<p>>) = 1
      OBVIOUS
    <2>3. /\ currentImageArr' \in Seq(Parts) /\ Len(currentImageArr') = 1 + n
          /\ \A i \in 1 .. 1 + n :
               currentImageArr'[i] = IF i <= 1 THEN <<p>>[i]
                                               ELSE currentImageArr[i - 1]
      BY <1>1, <2>1, <2>2, ConcatProperties
    <2>4. ASSUME NEW i \in 1 .. n
          PROVE  currentImageArr'[i + 1] = currentImageArr[i]
      <3>1. i + 1 \in 1 .. 1 + n /\ ~(i + 1 <= 1) /\ (i + 1) - 1 = i
        BY <1>1
      <3>2. QED
        BY <2>3, <3>1
    <2>5. QED
      BY <1>1, <2>3, <2>4
  <1>4. /\ pages \in Seq(PageOfStrip) /\ Len(pages) = Pages[p]
        /\ Pages[p] \in Nat
        /\ \A k \in 1 .. Pages[p] : pages[k].number = zeroSectionIndex + 1
    <2>1. zeroSectionIndex + 1 \in Int /\ Pages[p] \in Nat
      BY <1>1, ReaderAssumption
    <2>2. QED
      BY <2>1, PagesOfPart
  <1>5. /\ strip' \in Seq(PageOfStrip) /\ Len(strip') = Pages[p] + Len(strip)
        /\ \A k \in 1 .. Len(strip') :
             \/ strip'[k].number = zeroSectionIndex + 1
             \/ \E j \in 1 .. Len(strip) : strip'[k].number = strip[j].number
    <2>1. strip' = pages \o strip
      BY DEF PreviousAnswered
    <2> HIDE DEF pages
    <2>2. /\ strip' \in Seq(PageOfStrip) /\ Len(strip') = Pages[p] + Len(strip)
          /\ \A k \in 1 .. Len(strip') :
               strip'[k] = IF k <= Pages[p] THEN pages[k]
                                            ELSE strip[k - Pages[p]]
      <3>1. /\ pages \o strip \in Seq(PageOfStrip)
            /\ Len(pages \o strip) = Len(pages) + Len(strip)
            /\ \A k \in 1 .. Len(pages) + Len(strip) :
                 (pages \o strip)[k] = IF k <= Len(pages)
                                       THEN pages[k] ELSE strip[k - Len(pages)]
        BY <1>1, <1>4, ConcatProperties
      <3>2. QED
        BY <1>4, <2>1, <3>1
    <2>3. ASSUME NEW k \in 1 .. Len(strip')
          PROVE  \/ strip'[k].number = zeroSectionIndex + 1
                 \/ \E j \in 1 .. Len(strip) : strip'[k].number = strip[j].number
      <3>1. CASE k <= Pages[p]
        BY <1>1, <1>4, <2>2, <3>1
      <3>2. CASE ~(k <= Pages[p])
        <4>1. k - Pages[p] \in 1 .. Len(strip)
          BY <1>1, <1>4, <2>2, <3>2
        <4>2. QED
          BY <2>2, <3>2, <4>1
      <3>3. QED
        BY <3>1, <3>2
    <2>4. QED
      BY <2>2, <2>3
  <1>6. /\ zeroSectionIndex' = zeroSectionIndex + 1
        /\ UNCHANGED <<willShowIndex, offset, drag, visible, callbacks>>
    BY DEF PreviousAnswered, ZeroAfterInsertion, screenVars
  <1>7. TypeOK'
    BY <1>1, <1>2, <1>3, <1>5, <1>6 DEF PreviousAnswered, ReaderInv, TypeOK, State
  <1>8. SectionsExist'
    BY <1>1, <1>3, <1>6, PathsGoOn DEF SectionsExist, ReaderInv, CallbackOf
  <1>9. OpenedPartAnchored'
    <2>1. /\ zeroSectionIndex - StartIndex \in 0 .. n - 1
          /\ currentImageArr[zeroSectionIndex - StartIndex + 1] = StartIndex
      BY <1>2 DEF ReaderInv, OpenedPartAnchored
    <2>2. /\ zeroSectionIndex' - StartIndex \in 0 .. Len(currentImageArr') - 1
          /\ currentImageArr'[zeroSectionIndex' - StartIndex + 1] = StartIndex
      <3> DEFINE i == zeroSectionIndex - StartIndex + 1
      <3>1. i \in 1 .. n
        BY <1>1, <2>1
      <3>2. zeroSectionIndex' - StartIndex = i
        BY <1>1, <1>6
      <3>3. currentImageArr'[i + 1] = StartIndex
        BY <1>3, <2>1, <3>1
      <3> HIDE DEF i
      <3>4. QED
        BY <1>1, <1>3, <3>1, <3>2, <3>3
    <2>3. QED
      BY <2>2 DEF OpenedPartAnchored
  <1>10. StripOfSections'
    <2>1. ASSUME NEW k \in 1 .. Len(strip')
          PROVE  zeroSectionIndex' - strip'[k].number \in 0 .. n
      <3>1. CASE strip'[k].number = zeroSectionIndex + 1
        BY <1>1, <1>6, <3>1
      <3>2. CASE \E j \in 1 .. Len(strip) : strip'[k].number = strip[j].number
        <4>1. PICK j \in 1 .. Len(strip) : strip'[k].number = strip[j].number
          BY <3>2
        <4>2. strip[j].number \in Int
          <5>1. strip[j] \in PageOfStrip
            BY <1>1
          <5>2. QED
            BY <5>1 DEF PageOfStrip
        <4>3. zeroSectionIndex - strip[j].number \in 0 .. n - 1
          BY DEF ReaderInv, StripOfSections
        <4>4. QED
          BY <1>1, <1>6, <4>1, <4>2, <4>3
      <3>3. QED
        BY <1>5, <3>1, <3>2
    <2>2. QED
      BY <1>1, <1>3, <2>1 DEF StripOfSections
  <1>11. ScreenOnStrip'
    BY <1>1, <1>4, <1>5, <1>6, ScreenGoesOn DEF ReaderInv
  <1>12. SetUpFirst'
    <2>1. Opened'
      BY <1>1, <1>3 DEF Opened
    <2>2. QED
      BY <1>2, <2>1 DEF ReaderInv, SetUpFirst
  <1>13. QED
    BY <1>7, <1>8, <1>9, <1>10, <1>11, <1>12 DEF ReaderInv

\* UIKit changes what is on screen and what it reports, not the data source.
\* What is left to show of such a step is what it puts on screen.
LEMMA UIKitKeeps ==
  ASSUME ReaderInv, Opened, UNCHANGED <<readerVars, loads, strip>>,
         offset' \in Nat, drag' \in {-1, 0, 1}, needsLayout' \in BOOLEAN,
         visible' \in Seq(SectionPaths),
         callbacks' \in Seq(CallbackOf(SectionPaths)),
         ScreenOnStrip'
  PROVE  ReaderInv'
  <1>1. SectionPaths \subseteq IndexPath
    BY DEF SectionPaths, IndexPath
  <1>2. CallbackOf(SectionPaths) \subseteq CallbackOf(IndexPath)
    BY <1>1 DEF CallbackOf
  <1>3. visible' \in Seq(IndexPath) /\ callbacks' \in Seq(CallbackOf(IndexPath))
    BY <1>1, <1>2, SeqMonotonic
  <1>4. /\ UNCHANGED <<currentImageArr, zeroSectionIndex, state, willShowIndex>>
        /\ UNCHANGED <<currentShowIndex, currentReadIndex, loads, strip>>
        /\ SectionPaths' = SectionPaths
    BY DEF readerVars, SectionPaths
  <1>5. TypeOK'
    BY <1>3, <1>4 DEF ReaderInv, TypeOK, CallbackOf
  <1>6. SectionsExist'
    BY <1>4 DEF ReaderInv, SectionsExist, CallbackOf
  <1>7. OpenedPartAnchored' /\ StripOfSections' /\ SetUpFirst'
    BY <1>4 DEF ReaderInv, OpenedPartAnchored, Opened, StripOfSections, SetUpFirst
  <1>8. QED
    BY <1>5, <1>6, <1>7 DEF ReaderInv

LEMMA LayoutKeeps ==
  ASSUME ReaderInv, Layout
  PROVE  ReaderInv'
  <1> DEFINE screen == Screen(offset, drag)
             n      == Len(screen)
             wills(order) == [i \in 1 .. n |-> Callback("will",
                                screen[IF order = "up" THEN i ELSE n + 1 - i])]
             ends   == [i \in 1 .. Len(visible) |-> Callback("end", visible[i])]
  <1>1. Opened /\ needsLayout
    BY DEF Layout, ReaderInv, SetUpFirst
  <1>2. screen \in Seq(SectionPaths) /\ n \in Nat
    <2>1. strip # <<>> => {offset, offset + drag} \subseteq 0 .. Len(strip) - 1
      BY DEF ReaderInv, ScreenOnStrip
    <2>2. drag \in {-1, 0, 1}
      BY DEF ReaderInv, TypeOK
    <2>3. QED
      BY <2>1, <2>2, CellsOfScreen DEF ReaderInv
  <1>3. \A order : wills(order) \in Seq(CallbackOf(SectionPaths))
    <2> HIDE DEF screen
    <2>1. ASSUME NEW order, NEW i \in 1 .. n
          PROVE  Callback("will", screen[IF order = "up" THEN i ELSE n + 1 - i])
                   \in CallbackOf(SectionPaths)
      <3>1. (IF order = "up" THEN i ELSE n + 1 - i) \in 1 .. n
        BY <1>2
      <3>2. screen[IF order = "up" THEN i ELSE n + 1 - i] \in SectionPaths
        BY <1>2, <3>1
      <3>3. QED
        BY <3>2 DEF Callback, CallbackOf
    <2>2. QED
      BY <1>2, <2>1
  <1>4. ends \in Seq(CallbackOf(SectionPaths))
    <2>1. visible \in Seq(SectionPaths) /\ Len(visible) \in Nat
      BY DEF ReaderInv, SectionsExist
    <2>2. ASSUME NEW i \in 1 .. Len(visible)
          PROVE  Callback("end", visible[i]) \in CallbackOf(SectionPaths)
      BY <2>1 DEF Callback, CallbackOf
    <2>3. QED
      BY <2>1, <2>2
  <1>5. callbacks' \in Seq(CallbackOf(SectionPaths))
    <2>1. PICK order \in WillOrders, report \in EndReports :
            callbacks' = CASE report = "none"   -> wills(order)
                           [] report = "before" -> ends \o wills(order)
                           [] report = "after"  -> wills(order) \o ends
      BY DEF Layout
    <2>2. report \in {"none", "before", "after"}
      BY ReaderAssumption
    <2> HIDE DEF wills, ends
    <2>3. /\ wills(order) \in Seq(CallbackOf(SectionPaths))
          /\ ends \o wills(order) \in Seq(CallbackOf(SectionPaths))
          /\ wills(order) \o ends \in Seq(CallbackOf(SectionPaths))
      BY <1>3, <1>4, ConcatProperties
    <2>4. callbacks' \in {wills(order), ends \o wills(order), wills(order) \o ends}
      BY <2>1, <2>2
    <2>5. QED
      BY <2>3, <2>4
  <1>6. /\ UNCHANGED <<readerVars, loads, strip, offset, drag>>
        /\ visible' = screen /\ needsLayout' = FALSE
    BY DEF Layout
  <1>7. ScreenOnStrip' /\ offset' \in Nat /\ drag' \in {-1, 0, 1}
    BY <1>6 DEF ReaderInv, TypeOK, ScreenOnStrip
  <1>8. needsLayout' \in BOOLEAN
    BY <1>6
  <1> HIDE DEF screen
  <1>9. QED
    BY <1>1, <1>2, <1>5, <1>6, <1>7, <1>8, UIKitKeeps

LEMMA BeginDragKeeps ==
  ASSUME ReaderInv, NEW d \in Swipes, BeginDrag(d)
  PROVE  ReaderInv'
  <1>1. d \in {-1, 1} /\ drag = 0 /\ drag' = d
    BY ReaderAssumption DEF BeginDrag
  <1>2. strip \in Seq(PageOfStrip) /\ Len(strip) \in Nat /\ offset \in Nat
    BY DEF ReaderInv, TypeOK
  <1>3. strip # <<>> /\ Opened
    <2>1. strip # <<>>
      BY <1>2 DEF BeginDrag
    <2>2. QED
      BY <2>1 DEF ReaderInv, SetUpFirst
  <1>4. {offset, offset + d} \subseteq 0 .. Len(strip) - 1
    BY <1>3 DEF BeginDrag, ReaderInv, ScreenOnStrip
  <1>5. visible' \in Seq(SectionPaths)
    BY <1>1, <1>4, CellsOfScreen DEF BeginDrag, ReaderInv
  <1>6. callbacks' \in Seq(CallbackOf(SectionPaths))
    <2>1. PathAt(offset + d) \in SectionPaths
      BY <1>4, PathOfPage DEF ReaderInv
    <2>2. Callback("will", PathAt(offset + d)) \in CallbackOf(SectionPaths)
      BY <2>1 DEF Callback, CallbackOf
    <2>3. callbacks' = <<Callback("will", PathAt(offset + d))>>
      BY DEF BeginDrag
    <2>4. QED
      BY <2>2, <2>3
  <1>7. UNCHANGED <<readerVars, loads, strip, offset, needsLayout>>
    BY DEF BeginDrag
  <1>8. ScreenOnStrip'
    BY <1>1, <1>3, <1>4, <1>7 DEF ScreenOnStrip
  <1>9. offset' \in Nat /\ drag' \in {-1, 0, 1}
    BY <1>1, <1>2, <1>7
  <1>10. needsLayout' \in BOOLEAN
    BY <1>7 DEF ReaderInv, TypeOK
  <1>11. QED
    BY <1>3, <1>5, <1>6, <1>7, <1>8, <1>9, <1>10, UIKitKeeps

LEMMA EndDragKeeps ==
  ASSUME ReaderInv, NEW turned \in BOOLEAN, EndDrag(turned)
  PROVE  ReaderInv'
  <1> DEFINE stays  == IF turned THEN offset + drag ELSE offset
             leaves == IF turned THEN offset ELSE offset + drag
  <1>1. strip # <<>> /\ Opened
    BY DEF EndDrag, ReaderInv, ScreenOnStrip, SetUpFirst
  <1>2. /\ strip \in Seq(PageOfStrip) /\ Len(strip) \in Nat
        /\ {offset, offset + drag} \subseteq 0 .. Len(strip) - 1
    BY <1>1 DEF ReaderInv, TypeOK, ScreenOnStrip
  <1>3. stays \in 0 .. Len(strip) - 1 /\ leaves \in 0 .. Len(strip) - 1
    BY <1>2
  <1>4. /\ offset' = stays /\ drag' = 0 /\ visible' = <<PathAt(stays)>>
        /\ callbacks' = <<Callback("end", PathAt(leaves))>>
        /\ UNCHANGED <<readerVars, loads, strip, needsLayout>>
    BY DEF EndDrag
  <1> HIDE DEF stays, leaves
  <1>5. PathAt(stays) \in SectionPaths /\ PathAt(leaves) \in SectionPaths
    BY <1>3, PathOfPage DEF ReaderInv
  <1>6. callbacks' \in Seq(CallbackOf(SectionPaths))
    <2>1. Callback("end", PathAt(leaves)) \in CallbackOf(SectionPaths)
      BY <1>5 DEF Callback, CallbackOf
    <2>2. QED
      BY <1>4, <2>1
  <1>7. visible' \in Seq(SectionPaths)
    BY <1>4, <1>5
  <1>8. ScreenOnStrip'
    <2>1. offset' \in 0 .. Len(strip') - 1 /\ offset' + drag' = offset'
      BY <1>2, <1>3, <1>4
    <2>2. QED
      BY <1>1, <1>4, <2>1 DEF ScreenOnStrip
  <1>9. offset' \in Nat /\ drag' \in {-1, 0, 1}
    BY <1>2, <1>3, <1>4
  <1>10. needsLayout' \in BOOLEAN
    BY <1>4 DEF ReaderInv, TypeOK
  <1>11. QED
    BY <1>1, <1>4, <1>6, <1>7, <1>8, <1>9, <1>10, UIKitKeeps

\* The callback at the head of the queue names a section that exists.
LEMMA HeadCallback ==
  ASSUME ReaderInv, callbacks # <<>>
  PROVE  /\ Opened
         /\ Head(callbacks) \in CallbackOf(SectionPaths)
         /\ Tail(callbacks) \in Seq(CallbackOf(SectionPaths))
  <1>1. callbacks \in Seq(CallbackOf(SectionPaths))
    BY DEF ReaderInv, SectionsExist, CallbackOf
  <1>2. Opened
    BY DEF ReaderInv, SetUpFirst
  <1>3. QED
    BY <1>1, <1>2, HeadTailProperties

\* The delegate's handlers change neither the data source nor the screen.
LEMMA DelegateKeeps ==
  ASSUME ReaderInv, callbacks # <<>>, callbacks' = Tail(callbacks),
         UNCHANGED <<currentImageArr, zeroSectionIndex, strip, screenVars, needsLayout>>,
         willShowIndex' \in SectionPaths \cup {NoIndex},
         state' \in State, currentShowIndex' \in Nat \X Nat,
         currentReadIndex' \in Int,
         loads' \in [Loading -> [Parts -> Nat]],
         \A p \in Parts : loads'["setUp"][p] = loads["setUp"][p]
  PROVE  ReaderInv'
  <1>1. Opened /\ Tail(callbacks) \in Seq(CallbackOf(SectionPaths))
    BY HeadCallback
  <1>2. SectionPaths \subseteq IndexPath
    BY DEF SectionPaths, IndexPath
  <1>3. CallbackOf(SectionPaths) \subseteq CallbackOf(IndexPath)
    BY <1>2 DEF CallbackOf
  <1>4. callbacks' \in Seq(CallbackOf(IndexPath))
    BY <1>1, <1>3, SeqMonotonic
  <1>5. willShowIndex' \in IndexPath
    BY <1>2 DEF NoIndex, IndexPath
  <1>6. /\ UNCHANGED <<currentImageArr, zeroSectionIndex, strip, visible>>
        /\ UNCHANGED <<offset, drag, needsLayout>>
        /\ SectionPaths' = SectionPaths /\ Opened'
    BY <1>1 DEF screenVars, SectionPaths, Opened
  <1>7. TypeOK'
    BY <1>4, <1>5, <1>6 DEF ReaderInv, TypeOK, CallbackOf
  <1>8. SectionsExist'
    BY <1>1, <1>6 DEF ReaderInv, SectionsExist, CallbackOf
  <1>9. OpenedPartAnchored' /\ StripOfSections' /\ ScreenOnStrip'
    BY <1>6 DEF ReaderInv, OpenedPartAnchored, Opened, StripOfSections, ScreenOnStrip
  <1>10. SetUpFirst'
    BY <1>1, <1>6 DEF ReaderInv, SetUpFirst
  <1>11. QED
    BY <1>7, <1>8, <1>9, <1>10 DEF ReaderInv

LEMMA WillDisplayKeeps ==
  ASSUME ReaderInv, WillDisplay
  PROVE  ReaderInv'
  <1>1. /\ callbacks # <<>> /\ callbacks' = Tail(callbacks)
        /\ willShowIndex' = Head(callbacks).path
        /\ UNCHANGED <<currentImageArr, zeroSectionIndex, strip, screenVars, needsLayout>>
        /\ UNCHANGED <<state, currentShowIndex, currentReadIndex, loads>>
    BY DEF WillDisplay
  <1>2. willShowIndex' \in SectionPaths
    BY <1>1, HeadCallback DEF CallbackOf
  <1>3. /\ state' \in State /\ currentShowIndex' \in Nat \X Nat
        /\ currentReadIndex' \in Int /\ loads' \in [Loading -> [Parts -> Nat]]
    BY <1>1 DEF ReaderInv, TypeOK
  <1>4. QED
    BY <1>1, <1>2, <1>3, DelegateKeeps

LEMMA DidEndIgnoredKeeps ==
  ASSUME ReaderInv, DidEndIgnored
  PROVE  ReaderInv'
  <1>1. /\ callbacks # <<>> /\ callbacks' = Tail(callbacks)
        /\ UNCHANGED <<currentImageArr, zeroSectionIndex, strip, screenVars, needsLayout>>
        /\ UNCHANGED <<state, currentShowIndex, currentReadIndex, willShowIndex, loads>>
    BY DEF DidEndIgnored, readerVars
  <1>2. /\ state' \in State /\ currentShowIndex' \in Nat \X Nat
        /\ currentReadIndex' \in Int /\ loads' \in [Loading -> [Parts -> Nat]]
    BY <1>1 DEF ReaderInv, TypeOK
  <1>3. willShowIndex' \in SectionPaths \cup {NoIndex}
    BY <1>1 DEF ReaderInv, SectionsExist
  <1>4. QED
    BY <1>1, <1>2, <1>3, DelegateKeeps

\* What the handler does to the requests and the state.
LEMMA HandlerLoads ==
  ASSUME ReaderInv, DidEndDisplaying
  PROVE  /\ state' \in State
         /\ loads' \in [Loading -> [Parts -> Nat]]
         /\ \A p \in Parts : loads'["setUp"][p] = loads["setUp"][p]
  <1> DEFINE onward == IF AsksNext THEN Request(loads, "loadNextDate", Frontier)
                                   ELSE loads
  <1>1. onward \in [Loading -> [Parts -> Nat]]
        /\ \A p \in Parts : onward["setUp"][p] = loads["setUp"][p]
    BY LoadsTyped, RequestCounts
  <1>2. CASE currentReadIndex' \in Parts
    <2>1. loads' = IF AsksPrevious
                   THEN Request(onward, "loadPreviousDate", Frontier) ELSE onward
      BY <1>2 DEF DidEndDisplaying
    <2> HIDE DEF onward
    <2>2. loads' \in [Loading -> [Parts -> Nat]]
          /\ \A p \in Parts : loads'["setUp"][p] = onward["setUp"][p]
      <3>1. /\ Request(onward, "loadPreviousDate", Frontier)
                 \in [Loading -> [Parts -> Nat]]
            /\ \A p \in Parts :
                 Request(onward, "loadPreviousDate", Frontier)["setUp"][p]
                   = onward["setUp"][p]
        BY <1>1, RequestCounts DEF Loading
      <3>2. QED
        BY <1>1, <2>1, <3>1
    <2>3. state' \in {"loadPreviousDate", "loadNextDate", state}
      BY <1>2 DEF DidEndDisplaying
    <2>4. QED
      BY <1>1, <2>2, <2>3 DEF ReaderInv, TypeOK, State, Loading
  <1>3. CASE ~(currentReadIndex' \in Parts)
    BY <1>3 DEF DidEndDisplaying, ReaderInv, TypeOK
  <1>4. QED
    BY <1>2, <1>3

LEMMA DidEndDisplayingKeeps ==
  ASSUME ReaderInv, DidEndDisplaying
  PROVE  ReaderInv'
  <1>1. /\ callbacks # <<>> /\ callbacks' = Tail(callbacks)
        /\ UNCHANGED <<currentImageArr, zeroSectionIndex, strip, screenVars, needsLayout>>
        /\ willShowIndex # NoIndex /\ UNCHANGED willShowIndex
        /\ currentShowIndex' = ShowIndex(willShowIndex)
        /\ currentReadIndex' = zeroSectionIndex - willShowIndex.section
    BY DEF DidEndDisplaying
  <1>2. willShowIndex \in SectionPaths
    BY <1>1 DEF ReaderInv, SectionsExist
  <1>3. currentShowIndex' \in Nat \X Nat
    <2>1. /\ currentImageArr \in Seq(Parts)
          /\ willShowIndex.section \in 0 .. Len(currentImageArr) - 1
          /\ willShowIndex.row \in Nat
      BY <1>2 DEF ReaderInv, TypeOK, SectionPaths
    <2>2. currentImageArr[willShowIndex.section + 1] \in Parts
      BY <2>1
    <2>3. Pages[currentImageArr[willShowIndex.section + 1]] \in Nat
      BY <2>2, ReaderAssumption
    <2>4. willShowIndex.row + 1 \in Nat
      BY <2>1
    <2>5. QED
      BY <1>1, <2>3, <2>4 DEF ShowIndex
  <1>4. currentReadIndex' \in Int
    BY <1>1, <1>2 DEF ReaderInv, TypeOK, SectionPaths
  <1>5. willShowIndex' \in SectionPaths \cup {NoIndex}
    BY <1>1, <1>2
  <1>6. QED
    BY <1>1, <1>3, <1>4, <1>5, HandlerLoads, DelegateKeeps

LEMMA StepReaderInv == ReaderInv /\ [Next]_vars => ReaderInv'
  <1> SUFFICES ASSUME ReaderInv, [Next]_vars PROVE ReaderInv'
    OBVIOUS
  <1>1. CASE SetUpAnswered
    BY <1>1, SetUpAnsweredKeeps
  <1>2. CASE SetUpFailed
    BY <1>2, SetUpFailedKeeps
  <1>3. ASSUME NEW p \in Parts, Answer(p) PROVE ReaderInv'
    BY <1>3, NextAnsweredKeeps, PreviousAnsweredKeeps, LoadFailedKeeps DEF Answer
  <1>4. CASE Layout
    BY <1>4, LayoutKeeps
  <1>5. ASSUME NEW d \in Swipes, BeginDrag(d) PROVE ReaderInv'
    BY <1>5, BeginDragKeeps
  <1>6. ASSUME NEW turned \in BOOLEAN, EndDrag(turned) PROVE ReaderInv'
    BY <1>6, EndDragKeeps
  <1>7. CASE Deliver
    BY <1>7, WillDisplayKeeps, DidEndIgnoredKeeps, DidEndDisplayingKeeps DEF Deliver
  <1>8. CASE UNCHANGED vars
    BY <1>8 DEF vars, readerVars, screenVars, ReaderInv, TypeOK, SectionsExist,
       SectionPaths, OpenedPartAnchored, Opened, StripOfSections, ScreenOnStrip,
       SetUpFirst
  <1>9. QED
    BY <1>1, <1>2, <1>3, <1>4, <1>5, <1>6, <1>7, <1>8 DEF Next

\* The inductive invariant holds throughout.
THEOREM ReaderInvariant == Spec => []ReaderInv
  BY InitReaderInv, StepReaderInv, PTL DEF Spec

-----------------------------------------------------------------------------
(* The properties that follow from it.                                     *)

\* Every variable of the reader keeps its type, in every environment.
THEOREM TypeCorrect == Spec => []TypeOK
  <1>1. ReaderInv => TypeOK
    BY DEF ReaderInv
  <1>2. QED
    BY <1>1, ReaderInvariant, PTL

\* zeroSectionIndex locates the part the user opened, whatever was loaded
\* before and behind it and in whatever order the answers came.
THEOREM OpenedPartIsAnchored == Spec => []OpenedPartAnchored
  <1>1. ReaderInv => OpenedPartAnchored
    BY DEF ReaderInv
  <1>2. QED
    BY <1>1, ReaderInvariant, PTL

\* No index path that UIKit reported, however old, leads outside
\* currentImageArrV when the handler or the data source uses it.
THEOREM SectionsAlwaysExist == Spec => []SectionsExist
  <1>1. ReaderInv => SectionsExist
    BY DEF ReaderInv
  <1>2. QED
    BY <1>1, ReaderInvariant, PTL

-----------------------------------------------------------------------------
(* Requests: what the handler adds to them.                                *)

\* The handler adds a request at most for the frontier, and when it enters a
\* loading state the request of that state is out, if the book has the part.
LEMMA HandlerAsks ==
  ASSUME ReaderInv, DidEndDisplaying
  PROVE  /\ \A p \in Parts :
              /\ loads'["loadNextDate"][p] >= loads["loadNextDate"][p]
              /\ loads'["loadPreviousDate"][p] >= loads["loadPreviousDate"][p]
              /\ p # Frontier =>
                   loads'["loadNextDate"][p] = loads["loadNextDate"][p]
         /\ state' = "loadNextDate" =>
              \/ state = "loadNextDate"
              \/ Frontier \notin Parts
              \/ \E p \in Parts : loads'["loadNextDate"][p] > 0
         /\ state' = "loadPreviousDate" =>
              \/ state = "loadPreviousDate"
              \/ Frontier \notin Parts
              \/ \E p \in Parts : loads'["loadPreviousDate"][p] > 0
  <1> DEFINE ahead  == Request(loads, "loadNextDate", Frontier)
             onward == IF AsksNext THEN ahead ELSE loads
             back   == Request(onward, "loadPreviousDate", Frontier)
  <1>0. /\ loads \in [Loading -> [Parts -> Nat]]
        /\ \A k \in Loading, p \in Parts : loads[k][p] \in Nat
        /\ "loadNextDate" \in Loading /\ "loadPreviousDate" \in Loading
    BY LoadsTyped
  <1>1. /\ ahead \in [Loading -> [Parts -> Nat]]
        /\ \A k \in Loading, p \in Parts :
             ahead[k][p] = IF k = "loadNextDate" /\ p = Frontier
                           THEN loads[k][p] + 1 ELSE loads[k][p]
    BY <1>0, RequestCounts
  <1> HIDE DEF ahead
  <1>2. /\ onward \in [Loading -> [Parts -> Nat]]
        /\ \A p \in Parts :
             /\ onward["loadNextDate"][p] \in Nat
             /\ onward["loadNextDate"][p] >= loads["loadNextDate"][p]
             /\ p # Frontier =>
                  onward["loadNextDate"][p] = loads["loadNextDate"][p]
             /\ AsksNext /\ p = Frontier => onward["loadNextDate"][p] > 0
             /\ onward["loadPreviousDate"][p] = loads["loadPreviousDate"][p]
    BY <1>0, <1>1
  <1> HIDE DEF onward
  <1>3. /\ back \in [Loading -> [Parts -> Nat]]
        /\ \A k \in Loading, p \in Parts :
             back[k][p] = IF k = "loadPreviousDate" /\ p = Frontier
                          THEN onward[k][p] + 1 ELSE onward[k][p]
    BY <1>0, <1>2, RequestCounts
  <1> HIDE DEF back
  <1>4. \A p \in Parts :
          /\ back["loadNextDate"][p] = onward["loadNextDate"][p]
          /\ back["loadPreviousDate"][p] >= onward["loadPreviousDate"][p]
          /\ p = Frontier => back["loadPreviousDate"][p] > 0
    BY <1>0, <1>2, <1>3
  <1>5. CASE currentReadIndex' \in Parts
    <2>1. /\ loads' = IF AsksPrevious THEN back ELSE onward
          /\ state' = CASE AsksPrevious -> "loadPreviousDate"
                        [] AsksNext /\ ~AsksPrevious -> "loadNextDate"
                        [] OTHER -> state
      BY <1>5 DEF DidEndDisplaying, onward, back, ahead
    <2>2. CASE AsksPrevious
      <3>1. loads' = back /\ state' = "loadPreviousDate"
        BY <2>1, <2>2
      <3>2. QED
        BY <1>0, <1>2, <1>4, <3>1
    <2>3. CASE AsksNext /\ ~AsksPrevious
      <3>1. loads' = onward /\ state' = "loadNextDate"
        BY <2>1, <2>3
      <3>2. QED
        BY <1>0, <1>2, <2>3, <3>1
    <2>4. CASE ~AsksNext /\ ~AsksPrevious
      <3>1. loads' = onward /\ state' = state
        BY <2>1, <2>4
      <3>2. QED
        BY <1>0, <1>2, <3>1
    <2>5. QED
      BY <2>2, <2>3, <2>4
  <1>6. CASE ~(currentReadIndex' \in Parts)
    <2>1. loads' = loads /\ state' = state
      BY <1>6 DEF DidEndDisplaying
    <2>2. QED
      BY <1>0, <2>1
  <1>7. QED
    BY <1>5, <1>6

\* What the set-up asks for.
LEMMA SetUpAsks ==
  ASSUME ReaderInv, SetUpAnswered
  PROVE  /\ \A p \in Parts : p # StartIndex - 1 => loads'["loadNextDate"][p] = 0
         /\ StartIndex + 1 \in Parts =>
              loads'["loadPreviousDate"][StartIndex + 1] > 0
  <1> DEFINE taken  == Answered("setUp", StartIndex)
             ahead  == Request(taken, "loadNextDate", StartIndex - 1)
             onward == IF Pages[StartIndex] = 1 THEN ahead ELSE taken
             back   == Request(onward, "loadPreviousDate", StartIndex + 1)
  <1>0. /\ loads \in [Loading -> [Parts -> Nat]]
        /\ "loadNextDate" \in Loading /\ "loadPreviousDate" \in Loading
        /\ "setUp" \in Loading /\ StartIndex \in Parts
        /\ loads["setUp"][StartIndex] > 0
    BY LoadsTyped, ReaderAssumption DEF SetUpAnswered
  <1>1. \A p \in Parts : loads["loadNextDate"][p] = 0
    BY <1>0 DEF ReaderInv, SetUpFirst
  <1>2. /\ taken \in [Loading -> [Parts -> Nat]]
        /\ \A k \in Loading, p \in Parts :
             taken[k][p] = IF k = "setUp" /\ p = StartIndex
                           THEN loads[k][p] - 1 ELSE loads[k][p]
    BY <1>0, AnsweredCounts
  <1> HIDE DEF taken
  <1>3. /\ ahead \in [Loading -> [Parts -> Nat]]
        /\ \A k \in Loading, p \in Parts :
             ahead[k][p] = IF k = "loadNextDate" /\ p = StartIndex - 1
                           THEN taken[k][p] + 1 ELSE taken[k][p]
    BY <1>0, <1>2, RequestCounts
  <1> HIDE DEF ahead
  <1>4. /\ onward \in [Loading -> [Parts -> Nat]]
        /\ \A p \in Parts : p # StartIndex - 1 => onward["loadNextDate"][p] = 0
    BY <1>0, <1>1, <1>2, <1>3
  <1> HIDE DEF onward
  <1>5. /\ back \in [Loading -> [Parts -> Nat]]
        /\ \A k \in Loading, p \in Parts :
             back[k][p] = IF k = "loadPreviousDate" /\ p = StartIndex + 1
                          THEN onward[k][p] + 1 ELSE onward[k][p]
    BY <1>0, <1>4, RequestCounts
  <1>6. loads' = back
    BY DEF SetUpAnswered, back, onward, ahead, taken
  <1> HIDE DEF back
  <1>7. \A p \in Parts : p # StartIndex - 1 => loads'["loadNextDate"][p] = 0
    BY <1>0, <1>4, <1>5, <1>6
  <1>8. ASSUME StartIndex + 1 \in Parts
        PROVE  loads'["loadPreviousDate"][StartIndex + 1] > 0
    <2>1. onward["loadPreviousDate"][StartIndex + 1] \in Nat
      BY <1>0, <1>4, <1>8
    <2>2. QED
      BY <1>0, <1>5, <1>6, <1>8, <2>1
  <1>9. QED
    BY <1>7, <1>8

-----------------------------------------------------------------------------
(* No loading state outlives its request.                                  *)

LEMMA InitNoAbandonedLoad == Init => NoAbandonedLoad
  BY DEF Init, NoAbandonedLoad

LEMMA StepNoAbandonedLoad ==
  ASSUME ReaderInv, NoAbandonedLoad, [Next]_vars
  PROVE  NoAbandonedLoad'
  <1>1. CASE SetUpAnswered
    <2>1. state' = "loadPreviousDate"
      BY <1>1 DEF SetUpAnswered
    <2>2. StartIndex + 1 \in Parts =>
            \E p \in Parts : loads'["loadPreviousDate"][p] > 0
      BY <1>1, SetUpAsks
    <2>3. QED
      BY <2>1, <2>2 DEF NoAbandonedLoad
  <1>2. CASE SetUpFailed
    <2>1. StartIndex \in Parts
      BY ReaderAssumption
    <2>2. /\ Answered("setUp", StartIndex) \in [Loading -> [Parts -> Nat]]
          /\ \A k \in Loading, p \in Parts :
               Answered("setUp", StartIndex)[k][p] =
                 IF k = "setUp" /\ p = StartIndex THEN loads[k][p] - 1
                                                 ELSE loads[k][p]
      BY <1>2, <2>1, LoadsTyped, AnsweredCounts DEF SetUpFailed
    <2>3. \A p \in Parts :
            /\ loads'["loadNextDate"][p] = loads["loadNextDate"][p]
            /\ loads'["loadPreviousDate"][p] = loads["loadPreviousDate"][p]
      BY <1>2, <2>2, LoadsTyped DEF SetUpFailed
    <2>4. UNCHANGED <<state, zeroSectionIndex, currentImageArr>>
      BY <1>2 DEF SetUpFailed, readerVars
    <2>5. QED
      BY <2>3, <2>4 DEF NoAbandonedLoad, Frontier
  <1>3. ASSUME NEW p \in Parts, Answer(p) PROVE NoAbandonedLoad'
    <2>1. state' \in {"reading", "error"}
      BY <1>3 DEF Answer, NextAnswered, PreviousAnswered, LoadFailed, FailedState
    <2>2. QED
      BY <2>1 DEF NoAbandonedLoad
  <1>4. CASE DidEndDisplaying
    <2>1. Frontier' = Frontier
      BY <1>4 DEF DidEndDisplaying, Frontier
    <2>2. \A p \in Parts :
            /\ loads["loadNextDate"][p] > 0 => loads'["loadNextDate"][p] > 0
            /\ loads["loadPreviousDate"][p] > 0 =>
                 loads'["loadPreviousDate"][p] > 0
      <3>1. ASSUME NEW p \in Parts
            PROVE  /\ loads["loadNextDate"][p] \in Nat
                   /\ loads'["loadNextDate"][p] \in Nat
                   /\ loads["loadPreviousDate"][p] \in Nat
                   /\ loads'["loadPreviousDate"][p] \in Nat
        BY <1>4, LoadsTyped, HandlerLoads
      <3>2. QED
        BY <1>4, <3>1, HandlerAsks
    <2>3. state' = "loadNextDate" =>
            \/ Frontier \notin Parts
            \/ \E p \in Parts : loads'["loadNextDate"][p] > 0
      BY <1>4, <2>2, HandlerAsks DEF NoAbandonedLoad
    <2>4. state' = "loadPreviousDate" =>
            \/ Frontier \notin Parts \/ StartIndex + 1 \notin Parts
            \/ \E p \in Parts : loads'["loadPreviousDate"][p] > 0
      BY <1>4, <2>2, HandlerAsks DEF NoAbandonedLoad
    <2>5. QED
      BY <2>1, <2>3, <2>4 DEF NoAbandonedLoad
  <1>5. CASE UNCHANGED <<state, loads, zeroSectionIndex, currentImageArr>>
    BY <1>5 DEF NoAbandonedLoad, Frontier
  <1>6. \/ Layout \/ (\E d \in Swipes : BeginDrag(d))
        \/ (\E turned \in BOOLEAN : EndDrag(turned))
        \/ WillDisplay \/ DidEndIgnored \/ UNCHANGED vars
        => UNCHANGED <<state, loads, zeroSectionIndex, currentImageArr>>
    BY DEF Layout, BeginDrag, EndDrag, WillDisplay, DidEndIgnored, vars,
       readerVars
  <1>7. QED
    BY <1>1, <1>2, <1>3, <1>4, <1>5, <1>6 DEF Next, Deliver

\* A loading state always has its request outstanding, unless the book has no
\* such part: the scroll handler never holds a request back for one that is
\* gone.
THEOREM NoLoadIsAbandoned == Spec => []NoAbandonedLoad
  BY ReaderInvariant, InitNoAbandonedLoad, StepNoAbandonedLoad, PTL DEF Spec

-----------------------------------------------------------------------------
(* Reading on never skips a part.                                          *)

NeverAhead == LaterSectionsNeverAhead /\ NextNeverAhead

LEMMA InitNeverAhead == Init => NeverAhead
  BY DEF Init, NeverAhead, LaterSectionsNeverAhead, NextNeverAhead, Loading

\* Steps that leave the sections alone and add requests only for the frontier.
LEMMA SameSectionsNeverAhead ==
  ASSUME ReaderInv, NeverAhead, UNCHANGED <<currentImageArr, zeroSectionIndex>>,
         loads' \in [Loading -> [Parts -> Nat]],
         \A p \in Parts : p # Frontier =>
           loads'["loadNextDate"][p] <= loads["loadNextDate"][p]
  PROVE  NeverAhead'
  <1>1. LaterSectionsNeverAhead' /\ Frontier' = Frontier
    BY DEF NeverAhead, LaterSectionsNeverAhead, Frontier
  <1>2. ASSUME NEW p \in Parts, loads'["loadNextDate"][p] > 0
        PROVE  p >= Frontier
    <2>1. CASE p = Frontier
      <3>1. p \in Int
        BY DEF Parts
      <3>2. QED
        BY <2>1, <3>1
    <2>2. CASE p # Frontier
      <3>1. /\ loads["loadNextDate"][p] \in Nat
            /\ loads'["loadNextDate"][p] \in Nat
        BY LoadsTyped
      <3>2. loads["loadNextDate"][p] > 0
        BY <1>2, <2>2, <3>1
      <3>3. QED
        BY <3>2 DEF NeverAhead, NextNeverAhead
    <2>3. QED
      BY <2>1, <2>2
  <1>3. QED
    BY <1>1, <1>2 DEF NeverAhead, NextNeverAhead

LEMMA AppendNeverAhead ==
  ASSUME ReaderInv, NeverAhead, NEW p \in Parts, NextAnswered(p)
  PROVE  NeverAhead'
  <1> DEFINE n == Len(currentImageArr)
  <1>1. /\ currentImageArr \in Seq(Parts) /\ n \in Nat
        /\ zeroSectionIndex \in Int /\ Parts \subseteq Int
        /\ UNCHANGED zeroSectionIndex
        /\ loads["loadNextDate"][p] > 0
    BY DEF ReaderInv, TypeOK, Parts, NextAnswered
  <1>2. /\ Len(currentImageArr') = n + 1
        /\ \A i \in 1 .. n : currentImageArr'[i] = currentImageArr[i]
        /\ currentImageArr'[n + 1] = p
    BY <1>1, AppendProperties DEF NextAnswered, Appended
  <1>3. p >= zeroSectionIndex - n
    BY <1>1 DEF NeverAhead, NextNeverAhead, Frontier
  <1>4. LaterSectionsNeverAhead'
    <2> SUFFICES ASSUME NEW s \in 0 .. n, s >= zeroSectionIndex - StartIndex
                 PROVE  currentImageArr'[s + 1] >= zeroSectionIndex - s
      BY <1>1, <1>2 DEF LaterSectionsNeverAhead
    <2>1. CASE s = n
      BY <1>1, <1>2, <1>3, <2>1
    <2>2. CASE s \in 0 .. n - 1
      <3>1. currentImageArr[s + 1] >= zeroSectionIndex - s
        BY <2>2 DEF NeverAhead, LaterSectionsNeverAhead
      <3>2. s + 1 \in 1 .. n
        BY <1>1, <2>2
      <3>3. QED
        BY <1>2, <3>1, <3>2
    <2>3. QED
      BY <1>1, <2>1, <2>2
  <1>5. NextNeverAhead'
    <2>1. Frontier' = Frontier - 1 /\ Frontier \in Int
      BY <1>1, <1>2 DEF Frontier
    <2>2. ASSUME NEW q \in Parts, loads'["loadNextDate"][q] > 0
          PROVE  q >= Frontier
      <3>1. loads["loadNextDate"][q] > 0
        <4>1. /\ loads["loadNextDate"][q] \in Nat
              /\ loads'["loadNextDate"][q] =
                   IF q = p THEN loads["loadNextDate"][q] - 1
                            ELSE loads["loadNextDate"][q]
          BY LoadsTyped, ReadingAnswer DEF NextAnswered
        <4>2. QED
          BY <2>2, <4>1
      <3>2. QED
        BY <3>1 DEF NeverAhead, NextNeverAhead
    <2>3. ASSUME NEW q \in Parts, loads'["loadNextDate"][q] > 0
          PROVE  q >= Frontier'
      BY <1>1, <2>1, <2>2, <2>3
    <2>4. QED
      BY <2>3 DEF NextNeverAhead
  <1>6. QED
    BY <1>4, <1>5 DEF NeverAhead

LEMMA InsertNeverAhead ==
  ASSUME ReaderInv, NeverAhead, NEW p \in Parts, PreviousAnswered(p)
  PROVE  NeverAhead'
  <1> DEFINE n == Len(currentImageArr)
  <1>1. /\ currentImageArr \in Seq(Parts) /\ n \in Nat
        /\ zeroSectionIndex \in Int /\ StartIndex \in Int
        /\ zeroSectionIndex' = zeroSectionIndex + 1
        /\ loads["loadPreviousDate"][p] > 0
    BY ReaderAssumption DEF ReaderInv, TypeOK, Parts, PreviousAnswered,
       ZeroAfterInsertion
  <1>2. /\ Len(currentImageArr') = 1 + n
        /\ \A i \in 1 .. 1 + n :
             currentImageArr'[i] = IF i <= 1 THEN <<p>>[i]
                                             ELSE currentImageArr[i - 1]
    <2>1. currentImageArr' = <<p>> \o currentImageArr
      BY DEF PreviousAnswered, Inserted
    <2>2. <<p>> \in Seq(Parts) /\ Len(<<p>>) = 1
      OBVIOUS
    <2>3. QED
      BY <1>1, <2>1, <2>2, ConcatProperties
  <1>3. Opened
    BY ReadingAnswer DEF PreviousAnswered
  <1>4. zeroSectionIndex - StartIndex \in 0 .. n - 1
    BY <1>3 DEF ReaderInv, OpenedPartAnchored
  <1>5. LaterSectionsNeverAhead'
    <2> SUFFICES ASSUME NEW s \in 0 .. n,
                        s >= zeroSectionIndex + 1 - StartIndex
                 PROVE  currentImageArr'[s + 1] >= zeroSectionIndex + 1 - s
      BY <1>1, <1>2 DEF LaterSectionsNeverAhead
    <2> DEFINE t == s - 1
    <2>1. t \in 0 .. n - 1 /\ t >= zeroSectionIndex - StartIndex
      BY <1>1, <1>4
    <2>2. currentImageArr[t + 1] >= zeroSectionIndex - t
      BY <2>1 DEF NeverAhead, LaterSectionsNeverAhead
    <2>3. currentImageArr'[s + 1] = currentImageArr[t + 1]
      <3>1. s + 1 \in 1 .. 1 + n /\ ~(s + 1 <= 1) /\ (s + 1) - 1 = t + 1
        BY <1>1, <2>1
      <3>2. QED
        BY <1>2, <3>1
    <2>4. zeroSectionIndex - t = zeroSectionIndex + 1 - s
      BY <1>1, <2>1
    <2>5. QED
      BY <2>2, <2>3, <2>4
  <1>6. NextNeverAhead'
    <2>1. Frontier' = Frontier
      BY <1>1, <1>2 DEF Frontier
    <2>2. \A q \in Parts :
            loads'["loadNextDate"][q] = loads["loadNextDate"][q]
      BY <1>1, LoadsTyped, ReadingAnswer DEF PreviousAnswered
    <2>3. QED
      BY <2>1, <2>2 DEF NeverAhead, NextNeverAhead
  <1>7. QED
    BY <1>5, <1>6 DEF NeverAhead

LEMMA StepNeverAhead ==
  ASSUME ReaderInv, NeverAhead, [Next]_vars
  PROVE  NeverAhead'
  <1>1. CASE SetUpAnswered
    <2>1. /\ currentImageArr' = <<StartIndex>> /\ zeroSectionIndex' = StartIndex
          /\ StartIndex \in Int /\ Parts \subseteq Int
      BY <1>1, ReaderAssumption DEF SetUpAnswered, Parts
    <2>2. LaterSectionsNeverAhead'
      BY <2>1 DEF LaterSectionsNeverAhead
    <2>3. Frontier' = StartIndex - 1
      BY <2>1 DEF Frontier
    <2>4. ASSUME NEW p \in Parts, loads'["loadNextDate"][p] > 0
          PROVE  p >= StartIndex - 1
      <3>1. p = StartIndex - 1
        BY <1>1, <2>4, SetUpAsks
      <3>2. QED
        BY <2>1, <3>1
    <2>5. QED
      BY <2>2, <2>3, <2>4 DEF NeverAhead, NextNeverAhead
  <1>2. CASE SetUpFailed
    <2>1. StartIndex \in Parts
      BY ReaderAssumption
    <2>2. /\ Answered("setUp", StartIndex) \in [Loading -> [Parts -> Nat]]
          /\ \A k \in Loading, p \in Parts :
               Answered("setUp", StartIndex)[k][p] =
                 IF k = "setUp" /\ p = StartIndex THEN loads[k][p] - 1
                                                 ELSE loads[k][p]
      BY <1>2, <2>1, LoadsTyped, AnsweredCounts DEF SetUpFailed
    <2>3. /\ loads' \in [Loading -> [Parts -> Nat]]
          /\ \A p \in Parts :
               loads'["loadNextDate"][p] <= loads["loadNextDate"][p]
      BY <1>2, <2>2, LoadsTyped DEF SetUpFailed
    <2>4. UNCHANGED <<currentImageArr, zeroSectionIndex>>
      BY <1>2 DEF SetUpFailed, readerVars
    <2>5. QED
      BY <2>3, <2>4, SameSectionsNeverAhead
  <1>3. ASSUME NEW p \in Parts, NEW kind \in {"loadNextDate", "loadPreviousDate"},
               LoadFailed(kind, p)
        PROVE  NeverAhead'
    <2>1. /\ loads' \in [Loading -> [Parts -> Nat]]
          /\ \A q \in Parts :
               loads'["loadNextDate"][q] <= loads["loadNextDate"][q]
      <3>1. /\ loads' \in [Loading -> [Parts -> Nat]]
            /\ \A k \in Loading, q \in Parts :
                 loads'[k][q] = IF k = kind /\ q = p THEN loads[k][q] - 1
                                                     ELSE loads[k][q]
        BY <1>3, ReadingAnswer DEF LoadFailed
      <3>2. QED
        BY <3>1, LoadsTyped
    <2>2. UNCHANGED <<currentImageArr, zeroSectionIndex>>
      BY <1>3 DEF LoadFailed
    <2>3. QED
      BY <2>1, <2>2, SameSectionsNeverAhead
  <1>4. CASE DidEndDisplaying
    <2>1. UNCHANGED <<currentImageArr, zeroSectionIndex>>
      BY <1>4 DEF DidEndDisplaying
    <2>2. \A p \in Parts : p # Frontier =>
            loads'["loadNextDate"][p] <= loads["loadNextDate"][p]
      BY <1>4, HandlerAsks, LoadsTyped
    <2>3. QED
      BY <1>4, <2>1, <2>2, HandlerLoads, SameSectionsNeverAhead
  <1>5. CASE UNCHANGED <<loads, zeroSectionIndex, currentImageArr>>
    BY <1>5 DEF NeverAhead, LaterSectionsNeverAhead, NextNeverAhead, Frontier
  <1>6. \/ Layout \/ (\E d \in Swipes : BeginDrag(d))
        \/ (\E turned \in BOOLEAN : EndDrag(turned))
        \/ WillDisplay \/ DidEndIgnored \/ UNCHANGED vars
        => UNCHANGED <<loads, zeroSectionIndex, currentImageArr>>
    BY DEF Layout, BeginDrag, EndDrag, WillDisplay, DidEndIgnored, vars,
       readerVars
  <1>7. ASSUME NEW p \in Parts, Answer(p) PROVE NeverAhead'
    BY <1>3, <1>7, AppendNeverAhead, InsertNeverAhead DEF Answer
  <1>8. QED
    BY <1>1, <1>2, <1>4, <1>5, <1>6, <1>7 DEF Next, Deliver

\* From the opened part on, no section holds a part further in the story than
\* the part it is titled with: answers that come twice or late may repeat a
\* part, they never show one ahead of its title.
THEOREM LaterSectionsAreNeverAhead == Spec => []LaterSectionsNeverAhead
  <1>1. NeverAhead => LaterSectionsNeverAhead
    BY DEF NeverAhead
  <1>2. QED
    BY <1>1, ReaderInvariant, InitNeverAhead, StepNeverAhead, PTL DEF Spec
===============================================================================
