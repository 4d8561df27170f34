-------------------------- MODULE ComickInfoProofs --------------------------
(***************************************************************************)
(* Theorems about the detail screen, for every set of books.  That the     *)
(* volumes of a book, flattened into one list, give its parts in their     *)
(* order is shown by the least volume of which it would not be true.       *)
(***************************************************************************)
EXTENDS ComickInfo, WellFoundedInduction, TLAPS

-----------------------------------------------------------------------------
(* The parts of a book, in the order of the book. *)

\* A set of numbers that is not empty has a smallest one.
LEMMA LeastExists ==
  ASSUME NEW T, T \subseteq Nat, T # {}
  PROVE  \E x \in T : \A y \in T : x <= y
<1> DEFINE R == {r \in Nat \X Nat : r[1] < r[2]}
<1>1. IsWellFoundedOn(R, Nat)
  BY NatLessThanWellFounded, Zenon DEF OpToRel
<1>2. \E x \in T : \A y \in T : ~(<<y, x>> \in R)
  <2> HIDE DEF R
  <2> QED
    BY <1>1, WFMin, Zenon
<1>3. \A x, y \in T : ~(<<y, x>> \in R) => x <= y
  OBVIOUS
<1> QED
  BY <1>2, <1>3

\* The sequences flattened up to each of them, as FlattenSeq has them.
Flattened(f, seqs, n) ==
  f = [i \in 1 .. n |-> IF i = 1 THEN seqs[i] ELSE f[i - 1] \o seqs[i]]

LEMMA FlattenedExists ==
  ASSUME NEW seqs, NEW n \in Nat
  PROVE  \E f : Flattened(f, seqs, n)
<1> DEFINE T == {k \in Nat : ~\E f : Flattened(f, seqs, k)}
<1> SUFFICES ASSUME T # {}
             PROVE  FALSE
  OBVIOUS
<1>1. PICK k \in T : \A j \in T : k <= j
  <2> T \subseteq Nat
    OBVIOUS
  <2> HIDE DEF T
  <2> QED
    BY LeastExists
<1>2. CASE k = 0
  <2> DEFINE f == [i \in 1 .. 0 |-> 0]
  <2>1. Flattened(f, seqs, 0)
    BY DEF Flattened
  <2> QED
    BY <1>2, <2>1
<1>3. CASE k # 0
  <2>1. k - 1 \in Nat /\ k \in Nat
    BY <1>3
  <2>2. PICK g : Flattened(g, seqs, k - 1)
    BY <1>1, <2>1
  <2> DEFINE last == IF k = 1 THEN seqs[k] ELSE g[k - 1] \o seqs[k]
             f == [i \in 1 .. k |-> IF i = k THEN last ELSE g[i]]
  <2>3. \A i \in 1 .. k - 1 : g[i] = IF i = 1 THEN seqs[i] ELSE g[i - 1] \o seqs[i]
    BY <2>2 DEF Flattened
  <2>4. \A i \in 1 .. k : f[i] = IF i = 1 THEN seqs[i] ELSE f[i - 1] \o seqs[i]
    <3>1. \A i \in 1 .. k : i # k => i \in 1 .. k - 1
      BY <2>1
    <3>2. \A i \in 1 .. k : i # 1 => i - 1 \in 1 .. k - 1 /\ f[i - 1] = g[i - 1]
      BY <2>1
    <3> QED
      BY <2>3, <3>1, <3>2
  <2>5. Flattened(f, seqs, k)
    <3>1. f = [i \in 1 .. k |-> f[i]]
      OBVIOUS
    <3> HIDE DEF f
    <3> QED
      BY <2>4, <3>1 DEF Flattened
  <2> QED
    BY <2>5
<1> QED
  BY <1>2, <1>3

LEMMA FlattenSeqIs ==
  ASSUME NEW seqs, Len(seqs) \in Nat \ {0}
  PROVE  \E f : Flattened(f, seqs, Len(seqs)) /\ FlattenSeq(seqs) = f[Len(seqs)]
<1> DEFINE n == Len(seqs)
           F == CHOOSE f : f = [i \in 1 .. n |-> IF i = 1 THEN seqs[i] ELSE f[i - 1] \o seqs[i]]
<1>1. \E f : f = [i \in 1 .. n |-> IF i = 1 THEN seqs[i] ELSE f[i - 1] \o seqs[i]]
  BY FlattenedExists DEF Flattened
<1>2. F = [i \in 1 .. n |-> IF i = 1 THEN seqs[i] ELSE F[i - 1] \o seqs[i]]
  BY <1>1, Zenon
<1>3. FlattenSeq(seqs) = F[n]
  BY Zenon DEF FlattenSeq
<1> QED
  BY <1>2, <1>3, Zenon DEF Flattened

Part == [volume : Nat, number : Nat]

\* The parts of the first k volumes, in their order.
Lists(s, book, k) ==
  /\ s \in Seq(Part)
  /\ \A a \in DOMAIN s : /\ s[a].volume \in 1 .. k
                         /\ s[a].number \in 1 .. book[s[a].volume]
  /\ \A v \in 1 .. k : \A i \in 1 .. book[v] :
       \E a \in DOMAIN s : s[a] = [volume |-> v, number |-> i]
  /\ \A a, b \in DOMAIN s : a < b => Before(s[a], s[b])

LEMMA ListsVolume ==
  ASSUME NEW book \in Seq(Nat), NEW k \in DOMAIN book
  PROVE  /\ PartsOfVolume(k, book[k]) \in Seq(Part)
         /\ Len(PartsOfVolume(k, book[k])) = book[k]
         /\ \A i \in 1 .. book[k] : PartsOfVolume(k, book[k])[i] = [volume |-> k, number |-> i]
<1> DEFINE t == PartsOfVolume(k, book[k])
<1>1. book[k] \in Nat /\ k \in Nat
  OBVIOUS
<1>2. t = [i \in 1 .. book[k] |-> [volume |-> k, number |-> i]]
  BY DEF PartsOfVolume
<1>3. \A i \in 1 .. book[k] : [volume |-> k, number |-> i] \in Part
  BY <1>1 DEF Part
<1> HIDE DEF t
<1>4. t \in Seq(Part) /\ Len(t) = book[k]
  BY <1>1, <1>2, <1>3
<1> QED
  BY <1>2, <1>4 DEF t

LEMMA ListsFirst ==
  ASSUME NEW book \in Seq(Nat), 1 \in DOMAIN book
  PROVE  Lists(PartsOfVolume(1, book[1]), book, 1)
<1> DEFINE t == PartsOfVolume(1, book[1])
<1>1. /\ t \in Seq(Part) /\ Len(t) = book[1] /\ book[1] \in Nat
      /\ \A i \in 1 .. book[1] : t[i] = [volume |-> 1, number |-> i]
  BY ListsVolume
<1> HIDE DEF t
<1>2. DOMAIN t = 1 .. book[1]
  BY <1>1
<1>3. \A a \in DOMAIN t : /\ a \in Nat /\ t[a].volume = 1 /\ t[a].number = a
                         /\ t[a].volume \in 1 .. 1 /\ t[a].number \in 1 .. book[t[a].volume]
  BY <1>1, <1>2
<1>4. \A v \in 1 .. 1 : \A i \in 1 .. book[v] :
        \E a \in DOMAIN t : t[a] = [volume |-> v, number |-> i]
  BY <1>1, <1>2
<1>5. \A a, b \in DOMAIN t : a < b => Before(t[a], t[b])
  BY <1>3 DEF Before
<1>6. Lists(t, book, 1)
  BY <1>1, <1>3, <1>4, <1>5, Zenon DEF Lists
<1> QED
  BY <1>6 DEF t

LEMMA ListsNext ==
  ASSUME NEW book \in Seq(Nat), NEW k \in DOMAIN book, k # 1, NEW s, Lists(s, book, k - 1)
  PROVE  Lists(s \o PartsOfVolume(k, book[k]), book, k)
<1> DEFINE t == PartsOfVolume(k, book[k])
           r == s \o t
           n == Len(s)
<1>1. /\ t \in Seq(Part) /\ Len(t) = book[k] /\ book[k] \in Nat /\ k \in Nat
      /\ \A i \in 1 .. book[k] : t[i] = [volume |-> k, number |-> i]
  BY ListsVolume
<1> HIDE DEF t
<1>2. s \in Seq(Part) /\ n \in Nat /\ DOMAIN s = 1 .. n /\ DOMAIN t = 1 .. book[k]
  BY <1>1 DEF Lists
<1>3. /\ r \in Seq(Part) /\ DOMAIN r = 1 .. n + book[k]
      /\ \A a \in 1 .. n : r[a] = s[a]
      /\ \A i \in 1 .. book[k] : r[n + i] = t[i] /\ n + i \in 1 .. n + book[k]
  <2>1. r \in Seq(Part) /\ Len(r) = n + Len(t)
    BY <1>1, <1>2
  <2>2. \A a \in 1 .. n : r[a] = s[a]
    BY <1>1, <1>2
  <2>3. \A i \in 1 .. Len(t) : r[n + i] = t[i]
    <3>1. ASSUME NEW i \in 1 .. Len(t)
          PROVE  r[n + i] = t[i]
      <4>1. n + i \in 1 .. Len(s) + Len(t) /\ ~(n + i <= Len(s)) /\ n + i - Len(s) = i
        BY <1>1, <1>2
      <4> QED
        BY <1>1, <1>2, <4>1
    <3> QED
      BY <3>1
  <2>4. DOMAIN r = 1 .. n + book[k]
    BY <1>1, <2>1
  <2>5. \A i \in 1 .. book[k] : n + i \in 1 .. n + book[k]
    BY <1>1, <1>2
  <2> QED
    BY <1>1, <2>1, <2>2, <2>3, <2>4, <2>5
<1> HIDE DEF r, n
<1>4. \A a \in DOMAIN r : a \in 1 .. n \/ (a - n \in 1 .. book[k] /\ a = n + (a - n))
  BY <1>1, <1>2, <1>3
<1>5. \A a \in DOMAIN r : a \notin 1 .. n => r[a] = [volume |-> k, number |-> a - n]
  BY <1>1, <1>3, <1>4
<1>6. \A a \in 1 .. n : /\ r[a].volume \in 1 .. k - 1
                        /\ r[a].number \in 1 .. book[r[a].volume]
  BY <1>2, <1>3 DEF Lists
<1>7. \A a \in DOMAIN r : /\ r[a].volume \in 1 .. k
                          /\ r[a].number \in 1 .. book[r[a].volume]
  <2> SUFFICES ASSUME NEW a \in DOMAIN r
               PROVE  r[a].volume \in 1 .. k /\ r[a].number \in 1 .. book[r[a].volume]
    OBVIOUS
  <2>1. CASE a \in 1 .. n
    BY <1>1, <1>6, <2>1
  <2>2. CASE a \notin 1 .. n
    BY <1>1, <1>4, <1>5, <2>2
  <2> QED
    BY <2>1, <2>2
<1>8. ASSUME NEW v \in 1 .. k, NEW i \in 1 .. book[v]
      PROVE  \E a \in DOMAIN r : r[a] = [volume |-> v, number |-> i]
  <2>1. CASE v = k
    <3>1. n + i \in DOMAIN r /\ r[n + i] = [volume |-> v, number |-> i]
      BY <1>1, <1>3, <2>1
    <3> QED
      BY <3>1
  <2>2. CASE v # k
    <3>1. v \in 1 .. k - 1
      BY <1>1, <2>2
    <3>2. PICK a \in DOMAIN s : s[a] = [volume |-> v, number |-> i]
      BY <3>1 DEF Lists
    <3>3. a \in DOMAIN r /\ r[a] = s[a]
      BY <1>1, <1>2, <1>3
    <3> QED
      BY <3>2, <3>3
  <2> QED
    BY <2>1, <2>2
<1>9. ASSUME NEW a \in DOMAIN r, NEW b \in DOMAIN r, a < b
      PROVE  Before(r[a], r[b])
  <2>1. CASE b \in 1 .. n
    <3>1. a \in 1 .. n
      BY <1>2, <1>3, <1>9, <2>1
    <3> QED
      BY <1>2, <1>3, <1>9, <2>1, <3>1 DEF Lists
  <2>2. CASE a \in 1 .. n /\ b \notin 1 .. n
    BY <1>1, <1>5, <1>6, <2>2 DEF Before
  <2>3. CASE a \notin 1 .. n /\ b \notin 1 .. n
    BY <1>1, <1>2, <1>3, <1>5, <1>9, <2>3 DEF Before
  <2> QED
    BY <2>1, <2>2, <2>3
<1>10. Lists(r, book, k)
  BY <1>3, <1>7, <1>8, <1>9, Zenon DEF Lists
<1> QED
  BY <1>10 DEF r, t

\* bookPartArray lists them all.
LEMMA ListsBook ==
  ASSUME NEW book \in Seq(Nat)
  PROVE  Lists(bookPartArray(book), book, Len(book))
<1> DEFINE n == Len(book)
           seqs == [v \in DOMAIN book |-> PartsOfVolume(v, book[v])]
<1>1. n \in Nat /\ DOMAIN book = 1 .. n
  OBVIOUS
<1>2. Len(seqs) = n /\ bookPartArray(book) = FlattenSeq(seqs)
  BY <1>1 DEF bookPartArray
<1>3. \A v \in 1 .. n : seqs[v] = PartsOfVolume(v, book[v])
  BY <1>1
<1>4. CASE n = 0
  <2>1. seqs = << >>
    BY <1>1, <1>4
  <2> HIDE DEF seqs, n
  <2>2. FlattenSeq(seqs) = << >>
    BY <1>2, <1>4, <2>1, Zenon DEF FlattenSeq
  <2> QED
    BY <1>2, <1>4, <2>2 DEF Lists, n
<1>5. CASE n # 0
  <2> HIDE DEF seqs
  <2>1. PICK f : Flattened(f, seqs, n) /\ FlattenSeq(seqs) = f[n]
    BY <1>1, <1>2, <1>5, FlattenSeqIs
  <2> HIDE DEF n
  <2>2. \A i \in 1 .. n : f[i] = IF i = 1 THEN seqs[i] ELSE f[i - 1] \o seqs[i]
    BY <2>1 DEF Flattened
  <2> DEFINE T == {k \in 1 .. n : ~Lists(f[k], book, k)}
  <2>3. ASSUME T # {}
        PROVE  FALSE
    <3>1. PICK k \in T : \A j \in T : k <= j
      <4> T \subseteq Nat
        BY <1>1
      <4> HIDE DEF T
      <4> QED
        BY <2>3, LeastExists
    <3>2. CASE k = 1
      <4>1. f[1] = PartsOfVolume(1, book[1]) /\ 1 \in DOMAIN book
        BY <1>1, <1>3, <2>2, <3>2
      <4>2. Lists(f[1], book, 1)
        BY <4>1, ListsFirst
      <4> QED
        BY <3>2, <4>2
    <3>3. CASE k # 1
      <4>1. k - 1 \in 1 .. n /\ k \in 1 .. n /\ ~(k <= k - 1)
        BY <1>1, <3>3
      <4>2. Lists(f[k - 1], book, k - 1)
        BY <3>1, <4>1
      <4>3. f[k] = f[k - 1] \o PartsOfVolume(k, book[k])
        BY <1>3, <2>2, <3>3, <4>1
      <4>4. Lists(f[k], book, k)
        BY <1>1, <3>3, <4>1, <4>2, <4>3, ListsNext
      <4> QED
        BY <4>4
    <3> QED
      BY <3>2, <3>3
  <2>4. Lists(f[n], book, n)
    BY <1>1, <1>5, <2>3
  <2> QED
    BY <1>2, <2>1, <2>4 DEF n
<1> QED
  BY <1>4, <1>5

-----------------------------------------------------------------------------
(* The answer, the button and the rows. *)

\* The one answer comes before there is a book, and the reader on top was
\* pushed for the row that was tapped last.
InfoInv ==
  /\ bookAsked => model = NoBook
  /\ startIndex # NoRow => model # NoBook /\ startIndex = currentSelectIndex

LEMMA InfoInvHolds == Spec => []InfoInv
<1>1. Init => InfoInv
  BY DEF Init, InfoInv
<1>2. InfoInv /\ [Next]_vars => InfoInv'
  <2> SUFFICES ASSUME InfoInv, [Next]_vars PROVE InfoInv'
    OBVIOUS
  <2>1. ASSUME NEW response \in Response, BookArrives(response) PROVE InfoInv'
    <3>1. model' # NoBook
      BY <2>1 DEF BookArrives
    <3> QED
      BY <2>1, <3>1 DEF BookArrives, InfoInv
  <2>2. ASSUME NEW response \in Response, BookMissing(response) PROVE InfoInv'
    BY <2>2 DEF BookMissing, InfoInv
  <2>3. ASSUME NEW isImage \in BOOLEAN, CoverArrives(isImage) PROVE InfoInv'
    BY <2>3 DEF CoverArrives, InfoInv
  <2>4. CASE TapOrder
    BY <2>4 DEF TapOrder, InfoInv
  <2>5. ASSUME NEW row \in Rows, TapRow(row) PROVE InfoInv'
    BY <2>5 DEF TapRow, InfoInv, StartIndexOf
  <2>6. CASE UNCHANGED vars
    BY <2>6 DEF vars, InfoInv
  <2> QED
    BY <2>1, <2>2, <2>3, <2>4, <2>5, <2>6 DEF Next
<1> QED
  BY <1>1, <1>2, PTL DEF Spec

\* Under the button's first title the rows are those of the book, from the first.
OrderInv ==
  /\ InfoInv
  /\ model # NoBook /\ orderType = "inverted" => modelArr = bookPartArray(model)

LEMMA OrderInvHolds == Spec => []OrderInv
<1>1. Init => OrderInv
  BY DEF Init, InfoInv, OrderInv
<1>2. OrderInv /\ InfoInv' /\ [Next]_vars => OrderInv'
  <2> SUFFICES ASSUME OrderInv, InfoInv', [Next]_vars PROVE OrderInv'
    OBVIOUS
  <2>1. ASSUME NEW response \in Response, BookArrives(response) PROVE OrderInv'
    BY <2>1 DEF BookArrives, OrderInv
  <2>2. CASE TapOrder
    <3>1. model' = model /\ modelArr' = Relisted(orderType')
      BY <2>2 DEF TapOrder
    <3>2. ASSUME model # NoBook, orderType' = "inverted"
          PROVE  modelArr' = bookPartArray(model)
      BY <3>1, <3>2 DEF Relisted, ListFor
    <3> QED
      BY <3>1, <3>2 DEF OrderInv
  <2>3. CASE UNCHANGED <<model, modelArr, orderType>>
    BY <2>3 DEF OrderInv
  <2> QED
    BY <2>1, <2>2, <2>3 DEF Next, vars, BookMissing, CoverArrives, TapRow
<1> QED
  BY <1>1, <1>2, InfoInvHolds, PTL DEF Spec

\* Under the button's first title the reader opens the part whose row was tapped,
\* whatever the order of the book's answer and the taps of the button
\* (MK_ComicPartV's three subscriptions, startIndex of MK_ComicReadVC).
THEOREM OpensTheTappedPart == Spec => []OpensTappedWhenInverted
<1>1. ASSUME OrderInv
      PROVE  OpensTappedWhenInverted
  BY <1>1 DEF OrderInv, InfoInv, OpensTappedWhenInverted, OpenedPart, TappedPart
<1> QED
  BY <1>1, OrderInvHolds, PTL

-----------------------------------------------------------------------------
(* What the screen lists. *)

\* The list is that of the book, one way round or the other, and the reader was
\* pushed for one of its rows.
ListInv ==
  /\ InfoInv
  /\ model # NoBook =>
       /\ model \in Seq(Nat)
       /\ modelArr \in {bookPartArray(model), Reverse(bookPartArray(model))}
  /\ startIndex # NoRow => startIndex \in Rows

LEMMA ListInvHolds == Spec => []ListInv
<1>1. Init => ListInv
  BY DEF Init, InfoInv, ListInv
<1>2. ListInv /\ InfoInv' /\ [Next]_vars => ListInv'
  <2> SUFFICES ASSUME ListInv, InfoInv', [Next]_vars PROVE ListInv'
    OBVIOUS
  <2>1. ASSUME NEW response \in Response, BookArrives(response) PROVE ListInv'
    <3>1. model' # NoBook /\ model' = comicBookInfoAction("DMZJ", response)
          /\ modelArr' = bookPartArray(model') /\ startIndex' = startIndex
      BY <2>1 DEF BookArrives
    <3>2. model' = response.book
      BY <2>1 DEF BookArrives, comicBookInfoAction, bookAction, Response
    <3>3. model' \in Seq(Nat)
      BY <3>2, InfoAssumption DEF Response
    <3>4. startIndex = NoRow
      BY <2>1 DEF BookArrives, ListInv, InfoInv
    <3> QED
      BY <3>1, <3>3, <3>4 DEF ListInv
  <2>2. CASE TapOrder
    <3>1. /\ model' = model /\ startIndex' = NoRow
          /\ model # NoBook => modelArr' = ListFor(orderType', model)
          /\ orderType' \in {"positive", "inverted"}
      BY <2>2 DEF TapOrder, Relisted, Opposite
    <3>2. model # NoBook => modelArr' \in {bookPartArray(model), Reverse(bookPartArray(model))}
      BY <3>1 DEF ListFor
    <3> QED
      BY <3>1, <3>2 DEF ListInv
  <2>3. ASSUME NEW row \in Rows, TapRow(row) PROVE ListInv'
    BY <2>3 DEF TapRow, ListInv, StartIndexOf, Rows
  <2>4. CASE UNCHANGED <<model, modelArr, startIndex>>
    BY <2>4 DEF ListInv, Rows
  <2> QED
    BY <2>1, <2>2, <2>3, <2>4 DEF Next, vars, BookMissing, CoverArrives
<1> QED
  BY <1>1, <1>2, InfoInvHolds, PTL DEF Spec

LEMMA ReverseIs ==
  ASSUME NEW s \in Seq(Part)
  PROVE  /\ Reverse(s) \in Seq(Part) /\ Len(Reverse(s)) = Len(s)
         /\ \A i \in 1 .. Len(s) : Reverse(s)[i] = s[Len(s) - i + 1]
<1>1. Reverse(s) = [i \in 1 .. Len(s) |-> s[(Len(s) - i) + 1]]
  BY Zenon DEF Reverse
<1>2. \A i \in 1 .. Len(s) : (Len(s) - i) + 1 \in 1 .. Len(s)
  OBVIOUS
<1>3. [i \in 1 .. Len(s) |-> s[(Len(s) - i) + 1]] \in Seq(Part)
  BY <1>2
<1> QED
  BY <1>1, <1>3

\* The parts of the book, and their order.
LEMMA OrderIsStrict ==
  ASSUME NEW book \in Seq(Nat), NEW s, Lists(s, book, Len(book)),
         NEW a \in DOMAIN s, NEW b \in DOMAIN s
  PROVE  a < b <=> Before(s[a], s[b])
<1>1. s[a] \in Part /\ s[b] \in Part /\ a \in Nat /\ b \in Nat
  BY DEF Lists
<1>2. a < b => Before(s[a], s[b])
  BY DEF Lists
<1>3. b < a => Before(s[b], s[a])
  BY DEF Lists
<1>4. a = b \/ Before(s[b], s[a]) => ~Before(s[a], s[b])
  BY <1>1 DEF Part, Before
<1> QED
  BY <1>1, <1>2, <1>3, <1>4

LEMMA PartsOfBook ==
  ASSUME NEW book \in Seq(Nat), NEW s, Lists(s, book, Len(book))
  PROVE  { s[a] : a \in DOMAIN s } =
           UNION { { [volume |-> v, number |-> i] : i \in 1 .. book[v] } : v \in DOMAIN book }
<1> DEFINE L == { s[a] : a \in DOMAIN s }
           V(v) == { [volume |-> v, number |-> i] : i \in 1 .. book[v] }
           R == UNION { V(v) : v \in DOMAIN book }
<1>1. DOMAIN book = 1 .. Len(book)
  OBVIOUS
<1>2. ASSUME NEW p \in L
      PROVE  p \in R
  <2>1. PICK a \in DOMAIN s : p = s[a]
    OBVIOUS
  <2>2. p \in Part /\ p.volume \in DOMAIN book /\ p.number \in 1 .. book[p.volume]
    BY <1>1, <2>1 DEF Lists
  <2>3. p = [volume |-> p.volume, number |-> p.number]
    BY <2>2 DEF Part
  <2>4. p \in V(p.volume)
    BY <2>2, <2>3
  <2> QED
    BY <2>2, <2>4
<1>3. ASSUME NEW p \in R
      PROVE  p \in L
  <2>1. PICK v \in DOMAIN book : p \in V(v)
    OBVIOUS
  <2>2. PICK i \in 1 .. book[v] : p = [volume |-> v, number |-> i]
    BY <2>1
  <2>3. \E a \in DOMAIN s : s[a] = p
    BY <1>1, <2>2 DEF Lists
  <2> QED
    BY <2>3
<1> QED
  BY <1>2, <1>3

\* Every part of every volume is listed once, in the order of the book or the other
\* (bookPartArray, the subscription to orderType).
THEOREM ListIsTheBook == Spec => []ListsTheBook
<1>1. ASSUME ListInv
      PROVE  ListsTheBook
  <2> SUFFICES ASSUME model # NoBook
               PROVE  ListsTheBook
    BY DEF ListsTheBook
  <2> DEFINE s == bookPartArray(model)
             n == Len(s)
  <2>1. model \in Seq(Nat) /\ Lists(s, model, Len(model)) /\ modelArr \in {s, Reverse(s)}
    BY <1>1, ListsBook DEF ListInv
  <2>2. s \in Seq(Part)
    BY <2>1 DEF Lists
  <2> HIDE DEF s
  <2>3. DOMAIN s = 1 .. n /\ n \in Nat
    BY <2>2
  <2>4. { s[a] : a \in DOMAIN s } =
          UNION { { [volume |-> v, number |-> i] : i \in 1 .. model[v] } : v \in DOMAIN model }
    BY <2>1, PartsOfBook
  <2>5. \A a, b \in DOMAIN s : a < b <=> Before(s[a], s[b])
    BY <2>1, OrderIsStrict
  <2>6. CASE modelArr = s
    BY <2>4, <2>5, <2>6 DEF ListsTheBook
  <2>7. CASE modelArr = Reverse(s)
    <3>1. DOMAIN modelArr = 1 .. n /\ \A i \in 1 .. n : modelArr[i] = s[n - i + 1]
      BY <2>2, <2>7, ReverseIs
    <3>2. \A i \in 1 .. n : n - i + 1 \in 1 .. n /\ n - (n - i + 1) + 1 = i
      BY <2>3
    <3>3. { modelArr[i] : i \in DOMAIN modelArr } = { s[a] : a \in DOMAIN s }
      <4>1. ASSUME NEW i \in DOMAIN modelArr
            PROVE  modelArr[i] \in { s[a] : a \in DOMAIN s }
        BY <2>3, <3>1, <3>2
      <4>2. ASSUME NEW a \in DOMAIN s
            PROVE  s[a] \in { modelArr[i] : i \in DOMAIN modelArr }
        BY <2>3, <3>1, <3>2
      <4> QED
        BY <4>1, <4>2
    <3>4. ASSUME NEW i \in DOMAIN modelArr, NEW j \in DOMAIN modelArr
          PROVE  i > j <=> Before(modelArr[i], modelArr[j])
      <4>1. i \in 1 .. n /\ j \in 1 .. n
        BY <3>1
      <4>2. i > j <=> n - i + 1 < n - j + 1
        BY <2>3, <4>1
      <4>3. n - i + 1 < n - j + 1 <=> Before(s[n - i + 1], s[n - j + 1])
        BY <2>3, <2>5, <3>2, <4>1
      <4> QED
        BY <3>1, <4>1, <4>2, <4>3
    <3> QED
      BY <2>4, <3>3, <3>4 DEF ListsTheBook
  <2> QED
    BY <2>1, <2>6, <2>7
<1> QED
  BY <1>1, ListInvHolds, PTL

\* The reader is only opened on an index of the book that it is given
\* (MK_ComicPartV's selection, startIndex of MK_ComicReadVC).
THEOREM OpensAnIndex == Spec => []OpensAnIndexOfTheBook
<1>1. ASSUME ListInv
      PROVE  OpensAnIndexOfTheBook
  <2> SUFFICES ASSUME startIndex # NoRow
               PROVE  model # NoBook /\ startIndex \in 0 .. Len(bookPartArray(model)) - 1
    BY DEF OpensAnIndexOfTheBook
  <2>1. model # NoBook /\ startIndex \in Rows /\ model \in Seq(Nat)
    BY <1>1 DEF ListInv, InfoInv
  <2>2. bookPartArray(model) \in Seq(Part)
    BY <2>1, ListsBook DEF Lists
  <2>3. Len(modelArr) = Len(bookPartArray(model))
    BY <1>1, <2>1, <2>2, ReverseIs DEF ListInv
  <2> QED
    BY <2>1, <2>3 DEF Rows
<1> QED
  BY <1>1, ListInvHolds, PTL
=============================================================================
