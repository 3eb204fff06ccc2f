---------------------------- MODULE DiskIO_proofs ---------------------------
(***************************************************************************)
(* Proofs about DiskIO, for every layout of files, empty ones included,    *)
(* every piece length and every file found in the output directory.        *)
(***************************************************************************)
EXTENDS DiskIO, InductionLemmas

----------------------------------------------------------------------------
(* The layout.                                                             *)

LayoutOK == layout \in Seq(Nat) /\ \E k \in DOMAIN layout : layout[k] > 0

\* The equation of file.offset.
IsStart(f) ==
    f = [k \in 1 .. Len(layout) + 1 |-> IF k = 1 THEN 0 ELSE f[k - 1] + layout[k - 1]]

LEMMA StartExists ==
    ASSUME LayoutOK
    PROVE  \E f \in [1 .. Len(layout) + 1 -> Nat] : IsStart(f)
<1> DEFINE n == Len(layout)
           lo == 1
           step == [k \in lo + 1 .. lo + n |-> [v \in Nat |-> v + layout[k - 1]]]
<1>1. n \in Nat /\ \A k \in 1 .. n : layout[k] \in Nat
  BY DEF LayoutOK
<1>2. step \in [lo + 1 .. lo + n -> [Nat -> Nat]]
  BY <1>1
<1>3. \A k \in lo + 1 .. lo + n : \A v \in Nat : step[k][v] = v + layout[k - 1]
  BY <1>1
<1>4. lo \in Int /\ 0 \in Nat /\ lo = 1
  OBVIOUS
<1> HIDE DEF step, lo, n
<1>5. PICK f \in [lo .. lo + n -> Nat] :
         f[lo] = 0 /\ \A k \in lo + 1 .. lo + n : f[k] = step[k][f[k - 1]]
  <2> DEFINE S == Nat
             zero == 0
  <2>1. lo \in Int /\ n \in Nat /\ zero \in S /\ step \in [lo + 1 .. lo + n -> [S -> S]]
    BY <1>1, <1>2, <1>4
  <2> HIDE DEF S, zero
  <2>2. \E f \in [lo .. lo + n -> S] : Recurs(f, lo, n, zero, step)
    BY <2>1, RecursionExists, Zenon
  <2> QED  BY <2>2 DEF S, zero, Recurs
<1>6. ASSUME NEW k \in 1 .. n + 1
      PROVE  f[k] = IF k = 1 THEN 0 ELSE f[k - 1] + layout[k - 1]
  <2>1. CASE k = 1
    BY <1>4, <1>5, <2>1
  <2>2. CASE k # 1
    <3>1. k \in lo + 1 .. lo + n /\ k - 1 \in lo .. lo + n
      BY <1>1, <1>4, <2>2
    <3>2. f[k] = step[k][f[k - 1]] /\ f[k - 1] \in Nat
      BY <1>5, <3>1
    <3> QED  BY <1>3, <2>2, <3>1, <3>2
  <2> QED  BY <2>1, <2>2
<1>7. f \in [1 .. n + 1 -> Nat]
  BY <1>1, <1>4, <1>5
<1> QED  BY <1>6, <1>7 DEF IsStart, n

\* Files lie one behind the other.
LEMMA StartFacts ==
    ASSUME LayoutOK
    PROVE  /\ Len(layout) \in Nat /\ File = 1 .. Len(layout)
           /\ \A k \in File : layout[k] \in Nat
           /\ \A k \in 1 .. Len(layout) + 1 : Start[k] \in Nat
           /\ Start[1] = 0
           /\ \A k \in File : Start[k + 1] = Start[k] + layout[k]
<1>1. IsStart(Start)
  BY StartExists DEF Start, IsStart
<1>2. /\ Len(layout) \in Nat /\ File = 1 .. Len(layout)
      /\ \A k \in File : layout[k] \in Nat
  BY DEF LayoutOK, File
<1> DEFINE G == {k \in 1 .. Len(layout) + 1 : Start[k] \in Nat}
<1>3. \A k \in 1 .. Len(layout) + 1 :
         Start[k] = IF k = 1 THEN 0 ELSE Start[k - 1] + layout[k - 1]
  BY <1>1 DEF IsStart
<1>4. Start[1] = 0 /\ \A k \in File : Start[k + 1] = Start[k] + layout[k]
  BY <1>2, <1>3
<1>5. \A k \in 1 .. Len(layout) + 1 : k \in G
  <2>1. 1 \in G
    BY <1>2, <1>4
  <2>2. \A k \in 1 .. (Len(layout) + 1) - 1 : k \in G => k + 1 \in G
    BY <1>2, <1>4
  <2>3. Len(layout) + 1 \in Nat
    BY <1>2
  <2> HIDE DEF G
  <2> QED  BY <2>1, <2>2, <2>3, UptoInduction
<1> QED  BY <1>2, <1>4, <1>5

\* Offsets grow.
LEMMA StartGrows ==
    ASSUME LayoutOK, NEW j \in 1 .. Len(layout) + 1, NEW k \in j .. Len(layout) + 1
    PROVE  Start[j] <= Start[k]
<1> DEFINE n == Len(layout) + 1
           G == {m \in 1 .. n : j <= m => Start[j] <= Start[m]}
<1>1. n \in Nat /\ j \in 1 .. n /\ k \in 1 .. n /\ j <= k
  BY StartFacts
<1>2. 1 \in G
  BY <1>1, StartFacts
<1>3. ASSUME NEW m \in 1 .. n - 1, m \in G PROVE m + 1 \in G
  <2>1. Start[m + 1] = Start[m] + layout[m] /\ layout[m] \in Nat /\ Start[m] \in Nat
        /\ Start[j] \in Nat /\ Start[m + 1] \in Nat
    BY <1>1, StartFacts
  <2>2. m + 1 \in 1 .. n
    BY <1>1
  <2>3. CASE j <= m
    BY <1>3, <2>1, <2>2, <2>3
  <2>4. CASE j = m + 1
    BY <2>1, <2>2, <2>4
  <2> QED  BY <1>1, <2>2, <2>3, <2>4
<1>4. \A m \in 1 .. n : m \in G
  <2> HIDE DEF G
  <2> QED  BY <1>1, <1>2, <1>3, UptoInduction
<1> QED  BY <1>1, <1>4

\* A byte of the torrent lies in a file, and in one only.
InFile(g, k) == Start[k] <= g /\ g < Start[k] + layout[k]

LEMMA FileBounds ==
    ASSUME LayoutOK, NEW k \in File
    PROVE  /\ Start[k] \in Nat /\ layout[k] \in Nat
           /\ Start[k] + layout[k] <= TotalLength /\ TotalLength \in Nat
<1>1. k \in 1 .. Len(layout) + 1 /\ k + 1 \in 1 .. Len(layout) + 1
      /\ Len(layout) + 1 \in k + 1 .. Len(layout) + 1 /\ Len(layout) + 1 \in 1 .. Len(layout) + 1
  BY StartFacts
<1>2. Start[k + 1] <= Start[Len(layout) + 1]
  BY <1>1, StartGrows
<1> QED  BY <1>1, <1>2, StartFacts DEF TotalLength

LEMMA FileExists ==
    ASSUME LayoutOK, NEW g \in Nat, g < TotalLength
    PROVE  \E k \in File : InFile(g, k)
<1> DEFINE n == Len(layout) + 1
           G == {m \in 1 .. n : Start[m] <= g}
<1> SUFFICES ASSUME \A k \in File : ~InFile(g, k) PROVE FALSE
  OBVIOUS
<1>1. n \in Nat /\ n \in 1 .. n /\ 1 \in G
  BY StartFacts
<1>2. ASSUME NEW m \in 1 .. n - 1, m \in G PROVE m + 1 \in G
  <2>1. m \in File /\ m \in 1 .. n /\ m + 1 \in 1 .. n
    BY <1>1, StartFacts
  <2>2. Start[m + 1] = Start[m] + layout[m] /\ layout[m] \in Nat /\ Start[m] \in Nat
        /\ Start[m + 1] \in Nat
    BY <2>1, StartFacts
  <2>3. Start[m] <= g /\ ~InFile(g, m)
    BY <1>2, <2>1
  <2>4. Start[m + 1] <= g
    BY <2>2, <2>3 DEF InFile
  <2> QED  BY <2>1, <2>4
<1>3. n \in G
  <2> HIDE DEF G
  <2> QED  BY <1>1, <1>2, UptoInduction
<1> QED  BY <1>1, <1>3, StartFacts DEF TotalLength

LEMMA FileUnique ==
    ASSUME LayoutOK, NEW g \in Nat, NEW j \in File, NEW k \in File, InFile(g, j), InFile(g, k)
    PROVE  j = k
<1>1. ASSUME NEW a \in File, NEW b \in File, InFile(g, a), InFile(g, b), a < b PROVE FALSE
  <2>1. a + 1 \in 1 .. Len(layout) + 1 /\ b \in a + 1 .. Len(layout) + 1
    BY <1>1, StartFacts
  <2>2. Start[a + 1] <= Start[b]
    BY <2>1, StartGrows
  <2>3. Start[a + 1] = Start[a] + layout[a] /\ Start[a] \in Nat /\ layout[a] \in Nat
        /\ Start[b] \in Nat
    BY <2>1, StartFacts
  <2> QED  BY <1>1, <2>2, <2>3 DEF InFile
<1>2. j \in Int /\ k \in Int
  BY StartFacts
<1> QED  BY <1>1, <1>2

----------------------------------------------------------------------------
(* Pieces.                                                                 *)

LEMMA DivBounds ==
    ASSUME NEW g \in Nat, NEW p \in Nat \ {0}, NEW i \in Nat
    PROVE  /\ i * p \in Nat
           /\ g \div p \in Nat
           /\ g \div p = i <=> i * p <= g /\ g < i * p + p
  OBVIOUS

LEMMA TimesGrows ==
    ASSUME NEW p \in Nat, NEW i \in Nat, NEW j \in Nat, i < j
    PROVE  i * p + p <= j * p /\ i * p \in Nat /\ j * p \in Nat
  OBVIOUS

\* The pieces cover the torrent, the last one not in vain.
LEMMA PiecesCover ==
    ASSUME NEW t \in Nat \ {0}, NEW p \in Nat \ {0}
    PROVE  LET n == (t + p - 1) \div p
           IN  n \in Nat \ {0} /\ (n - 1) * p < t /\ t <= (n - 1) * p + p
<1> DEFINE n == (t + p - 1) \div p
           a == t + p - 1
<1>1. a \in Nat /\ a >= p
  OBVIOUS
<1>2. n \in Nat /\ n * p <= a /\ a < n * p + p
  <2>1. n = a \div p
    OBVIOUS
  <2> HIDE DEF n, a
  <2> QED  BY <1>1, <2>1
<1> HIDE DEF n
<1>3. n # 0
  BY <1>1, <1>2
<1>4. (n - 1) * p + p = n * p /\ (n - 1) * p \in Nat
  BY <1>2, <1>3
<1>5. (n - 1) * p < t /\ t <= (n - 1) * p + p
  BY <1>2, <1>4
<1> QED  BY <1>2, <1>3, <1>5 DEF n

LEMMA TotalPositive ==
    ASSUME LayoutOK
    PROVE  TotalLength \in Nat \ {0}
<1>1. PICK k \in File : layout[k] > 0
  BY DEF LayoutOK, File
<1> QED  BY <1>1, FileBounds

\* Where a piece lies.
LEMMA PieceBounds ==
    ASSUME LayoutOK, NEW i \in Piece
    PROVE  /\ i \in Nat /\ i * PieceLength \in Nat
           /\ PieceSize(i) \in Nat \ {0}
           /\ i * PieceLength + PieceSize(i) <= TotalLength
           /\ \A g \in Nat : g < TotalLength =>
                 (g \div PieceLength = i <=>
                     i * PieceLength <= g /\ g < i * PieceLength + PieceSize(i))
<1> DEFINE n == NumPieces
           p == PieceLength
           t == TotalLength
<1>1. p \in Nat \ {0} /\ t \in Nat \ {0}
  BY DiskAssumption, TotalPositive
<1>2. n \in Nat \ {0} /\ (n - 1) * p < t /\ t <= (n - 1) * p + p
  BY <1>1, PiecesCover DEF NumPieces
<1>3. i \in Nat /\ i <= n - 1
  BY <1>2 DEF Piece
<1>4. i * p \in Nat /\ PieceSize(i) = IF i = n - 1 THEN t - (n - 1) * p ELSE p
  BY <1>1, <1>3, DivBounds DEF PieceSize
<1> HIDE DEF n, p, t
<1>5. PieceSize(i) \in Nat \ {0} /\ i * p + PieceSize(i) <= t
      /\ (i * p + PieceSize(i) = t \/ PieceSize(i) = p)
      /\ PieceSize(i) <= p
  <2>1. CASE i = n - 1
    BY <1>1, <1>2, <1>4, <2>1
  <2>2. CASE i # n - 1
    <3>1. i * p + p <= (n - 1) * p /\ (n - 1) * p \in Nat
      <4>1. n - 1 \in Nat /\ i < n - 1
        BY <1>2, <1>3, <2>2
      <4> QED  BY <1>1, <1>3, <4>1, TimesGrows
    <3> QED  BY <1>1, <1>2, <1>4, <2>2, <3>1
  <2> QED  BY <2>1, <2>2
<1>6. ASSUME NEW g \in Nat, g < t
      PROVE  g \div p = i <=> i * p <= g /\ g < i * p + PieceSize(i)
  <2>1. g \div p = i <=> i * p <= g /\ g < i * p + p
    BY <1>1, <1>3, DivBounds
  <2> DEFINE f == i * p
             z == PieceSize(i)
  <2>2. f \in Nat /\ z \in Nat /\ z <= p /\ (f + z = t \/ z = p)
    BY <1>4, <1>5
  <2>3. g \div p = i <=> f <= g /\ g < f + p
    BY <2>1
  <2> HIDE DEF f, z
  <2>4. (f <= g /\ g < f + p) <=> (f <= g /\ g < f + z)
    BY <1>1, <1>6, <2>2
  <2> QED  BY <2>3, <2>4 DEF f, z
<1> QED  BY <1>3, <1>4, <1>5, <1>6 DEF p, t

\* Every byte lies in a piece.
LEMMA PieceOf ==
    ASSUME LayoutOK, NEW g \in Nat, g < TotalLength
    PROVE  g \div PieceLength \in Piece
<1> DEFINE n == NumPieces
           p == PieceLength
           t == TotalLength
           q == g \div p
<1>1. p \in Nat \ {0} /\ t \in Nat \ {0} /\ g < t
  BY DiskAssumption, TotalPositive
<1>2. n \in Nat \ {0} /\ (n - 1) * p < t /\ t <= (n - 1) * p + p
  BY <1>1, PiecesCover DEF NumPieces
<1>3. q \in Nat /\ q * p <= g /\ g < q * p + p /\ q * p \in Nat
  BY <1>1, DivBounds
<1> HIDE DEF n, p, t, q
<1>4. q <= n - 1
  <2> SUFFICES ASSUME q > n - 1 PROVE FALSE
    BY <1>2, <1>3
  <2>1. n - 1 \in Nat /\ n - 1 < q
    BY <1>2, <1>3
  <2>2. (n - 1) * p + p <= q * p /\ (n - 1) * p \in Nat
    BY <1>1, <1>3, <2>1, TimesGrows
  <2> QED  BY <1>1, <1>2, <1>3, <2>2
<1> QED  BY <1>2, <1>3, <1>4 DEF Piece, n, p, q

----------------------------------------------------------------------------
(* Where a piece overlaps a file.                                          *)

\* Positions of file k that write_piece writes, as it computes them, are
\* those of the bytes of piece i.
LEMMA OverlapExact ==
    ASSUME LayoutOK, NEW i \in Piece, NEW k \in File, NEW x \in 1 .. layout[k]
    PROVE  (Start[k] + x - 1) \div PieceLength = i <=>
              /\ Overlaps(i, k)
              /\ OffsetInFile(i, k) < x /\ x <= OffsetInFile(i, k) + OverlapLength(i, k)
<1> DEFINE first == i * PieceLength
           size == PieceSize(i)
           st == Start[k]
           len == layout[k]
           g == st + x - 1
<1>1. st \in Nat /\ len \in Nat /\ st + len <= TotalLength /\ TotalLength \in Nat
  BY FileBounds
<1>2. g \in Nat /\ g < TotalLength /\ x \in Nat
  BY <1>1
<1>3. first \in Nat /\ size \in Nat \ {0} /\ x \in Nat
      /\ (g \div PieceLength = i <=> first <= g /\ g < first + size)
  BY <1>2, PieceBounds
<1>4. Overlaps(i, k) <=> ~(first + size <= st \/ first >= st + len)
  BY DEF Overlaps
<1>5. OffsetInFile(i, k) = (IF first >= st THEN first ELSE st) - st
  BY DEF OffsetInFile, OverlapStart, Larger
<1>6. OverlapLength(i, k) = (IF first + size <= st + len THEN first + size ELSE st + len)
                            - (IF first >= st THEN first ELSE st)
  BY DEF OverlapLength, OverlapEnd, OverlapStart, Larger, Smaller
<1>7. g = st + x - 1 /\ x <= len /\ x >= 1
  BY <1>1
<1> HIDE DEF first, size, st, len, g
<1>8. g \div PieceLength = i <=>
         /\ Overlaps(i, k)
         /\ OffsetInFile(i, k) < x /\ x <= OffsetInFile(i, k) + OverlapLength(i, k)
  BY <1>1, <1>2, <1>3, <1>4, <1>5, <1>6, <1>7
<1> QED  BY <1>8 DEF g, st

\* The part of the piece that goes there.
LEMMA OverlapInside ==
    ASSUME LayoutOK, NEW i \in Piece, NEW k \in File, Overlaps(i, k)
    PROVE  /\ OffsetInFile(i, k) \in Nat /\ OffsetInData(i, k) \in Nat
           /\ OverlapLength(i, k) \in Nat
           /\ OffsetInFile(i, k) + OverlapLength(i, k) <= layout[k]
           /\ OffsetInData(i, k) + OverlapLength(i, k) <= PieceSize(i)
           /\ i * PieceLength + OffsetInData(i, k) = Start[k] + OffsetInFile(i, k)
<1> DEFINE first == i * PieceLength
           size == PieceSize(i)
           st == Start[k]
           len == layout[k]
<1>1. st \in Nat /\ len \in Nat
  BY FileBounds
<1>2. first \in Nat /\ size \in Nat \ {0}
  BY PieceBounds
<1>3. ~(first + size <= st \/ first >= st + len)
  BY DEF Overlaps
<1>4. OffsetInFile(i, k) = (IF first >= st THEN first ELSE st) - st
  BY DEF OffsetInFile, OverlapStart, Larger
<1>5. OverlapLength(i, k) = (IF first + size <= st + len THEN first + size ELSE st + len)
                            - (IF first >= st THEN first ELSE st)
  BY DEF OverlapLength, OverlapEnd, OverlapStart, Larger, Smaller
<1>6. OffsetInData(i, k) = (IF first >= st THEN first ELSE st) - first
  BY DEF OffsetInData, OverlapStart, Larger
<1> HIDE DEF first, size, st, len
<1>7. /\ OffsetInFile(i, k) \in Nat /\ OffsetInData(i, k) \in Nat
      /\ OverlapLength(i, k) \in Nat
      /\ OffsetInFile(i, k) + OverlapLength(i, k) <= len
      /\ OffsetInData(i, k) + OverlapLength(i, k) <= size
      /\ first + OffsetInData(i, k) = st + OffsetInFile(i, k)
  BY <1>1, <1>2, <1>3, <1>4, <1>5, <1>6
<1> QED  BY <1>7 DEF first, size, st, len

----------------------------------------------------------------------------
(* The inductive invariant.                                                *)

Byte == {Zero, Old} \cup 0 .. TotalLength - 1

\* The byte that belongs at position x of file k.
Right(k, x) == Start[k] + x - 1

\* The types of files that hold c.
Typed(c) ==
    /\ c \in [File -> Seq(Byte)]
    /\ \A k \in File : \A x \in DOMAIN c[k] : c[k][x] \in {Zero, Old, Right(k, x)}

\* The files hold all bytes of piece i in file k.
Holds(c, i, k) ==
    \A x \in 1 .. layout[k] : Right(k, x) \div PieceLength = i => c[k][x] = Right(k, x)

Sized(c) == \A k \in File : Len(c[k]) = layout[k]

ThreadType ==
    \/ thread = Idle
    \/ thread = Exit
    \/ \E k \in 1 .. Len(layout) + 1 : thread = Allocating(k)
    \/ \E i \in attempted : \E k \in 1 .. Len(layout) + 1 : thread = Writing(i, k)

SetType ==
    /\ written \subseteq attempted /\ lost \subseteq attempted /\ attempted \subseteq Piece
    /\ report \in {"none", "ok", "corrupt"}
    /\ report # "none" => thread = Exit

\* The files before the one that the thread is at have been seen to.
AllocInv ==
    thread.pc = "alloc" =>
        /\ attempted = {}
        /\ \A k \in File : k < thread.file => Len(content[k]) = layout[k]

WriteInv ==
    thread.pc = "write" =>
        /\ thread.piece \notin written
        /\ thread.piece \notin lost =>
              \A k \in File : k < thread.file => Holds(content, thread.piece, k)

DiskInv ==
    /\ LayoutOK /\ Typed(content) /\ (Allocated => Sized(content))
    /\ ThreadType /\ SetType /\ AllocInv /\ WriteInv
    /\ \A i \in written \ lost : \A k \in File : Holds(content, i, k)
    /\ ReportIsExact

LEMMA DiskInvFiles == DiskInv => FilesCorrect
<1> SUFFICES ASSUME DiskInv PROVE FilesCorrect
  OBVIOUS
<1>1. TypeOK
  BY DEF DiskInv, Typed, Sized, SetType, TypeOK, Byte
<1>2. BytesInPlace
  BY DEF DiskInv, Typed, BytesInPlace, Right
<1>3. WrittenIsOnDisk
  BY DEF DiskInv, Holds, WrittenIsOnDisk, OnDisk, Right
<1> QED  BY <1>1, <1>2, <1>3 DEF FilesCorrect

LEMMA InitInv == Init => DiskInv
<1> SUFFICES ASSUME Init PROVE DiskInv
  OBVIOUS
<1>1. LayoutOK
  BY DiskAssumption DEF Init, LayoutOK
<1>2. PICK old \in [DOMAIN layout -> OldLengths] :
         content = [k \in DOMAIN layout |-> [x \in 1 .. old[k] |-> Old]]
  BY DEF Init
<1>3. Typed(content)
  <2>1. ASSUME NEW k \in File
        PROVE  /\ content[k] \in Seq(Byte)
               /\ \A x \in DOMAIN content[k] : content[k][x] = Old
    <3>1. old[k] \in Nat /\ content[k] = [x \in 1 .. old[k] |-> Old]
      BY <1>2, DiskAssumption DEF File
    <3>2. Old \in Byte
      BY DEF Byte
    <3> QED  BY <3>1, <3>2
  <2> HIDE DEF Init
  <2> QED  BY <1>2, <2>1 DEF Typed, File
<1>4. ThreadType
  BY <1>1, StartFacts DEF Init, ThreadType
<1>5. ~Allocated /\ SetType /\ AllocInv /\ WriteInv
  BY <1>1, StartFacts DEF Init, SetType, AllocInv, WriteInv, Allocating, Allocated
<1>6. ReportIsExact
  BY DEF Init, ReportIsExact
<1> QED  BY <1>1, <1>3, <1>4, <1>5, <1>6 DEF DiskInv, Init

\* The layout never changes.
LEMMA LayoutKept ==
    ASSUME UNCHANGED layout
    PROVE  /\ Start' = Start /\ File' = File /\ TotalLength' = TotalLength /\ Piece' = Piece
           /\ LayoutOK' = LayoutOK /\ Byte' = Byte
<1>1. Start' = Start
  BY Zenon DEF Start
<1>2. File' = File /\ TotalLength' = TotalLength
  BY <1>1 DEF File, TotalLength
<1>3. Piece' = Piece /\ Byte' = Byte
  BY <1>2 DEF Piece, NumPieces, Byte
<1>4. LayoutOK' = LayoutOK
  BY DEF LayoutOK
<1> QED  BY <1>1, <1>2, <1>3, <1>4

\* What it says of the files in the next state.
LEMMA FilesPrimed ==
    ASSUME UNCHANGED layout
    PROVE  /\ Typed(content)' <=> Typed(content')
           /\ Sized(content)' <=> Sized(content')
           /\ \A i, k : Holds(content, i, k)' <=> Holds(content', i, k)
<1>1. Start' = Start /\ File' = File /\ Byte' = Byte
  BY LayoutKept
<1>2. \A k, x : Right(k, x)' = Right(k, x)
  BY <1>1 DEF Right
<1> QED  BY <1>1, <1>2 DEF Typed, Sized, Holds

----------------------------------------------------------------------------
(* Writing.                                                                *)

\* The bytes that are written are the right ones, within the file; all others
\* stay as they are.
LEMMA OverwrittenFacts ==
    ASSUME LayoutOK, NEW i \in Piece, NEW k \in File, Overlaps(i, k),
           NEW n \in 0 .. OverlapLength(i, k), NEW s, Len(s) = layout[k]
    PROVE  LET at == OffsetInFile(i, k)
           IN  Overwritten(s, at, PieceData(i), OffsetInData(i, k), n) =
                  [x \in 1 .. layout[k] |-> IF x > at /\ x <= at + n THEN Right(k, x) ELSE s[x]]
<1> DEFINE at == OffsetInFile(i, k)
           from == OffsetInData(i, k)
           len == layout[k]
           first == i * PieceLength
           size == PieceSize(i)
           st == Start[k]
           max == OverlapLength(i, k)
<1>1. /\ at \in Nat /\ from \in Nat /\ max \in Nat /\ at + max <= len /\ from + max <= size
      /\ first + from = st + at
  BY OverlapInside
<1>2. st \in Nat /\ len \in Nat /\ first \in Nat /\ size \in Nat
  BY FileBounds, PieceBounds
<1>3. ASSUME NEW y \in 1 .. size PROVE PieceData(i)[y] = first + y - 1
  BY DEF PieceData
<1>4. Overwritten(s, at, PieceData(i), from, n) =
         [x \in 1 .. Larger(len, at + n) |->
            IF x > at /\ x <= at + n THEN PieceData(i)[from + x - at]
            ELSE IF x <= len THEN s[x] ELSE Zero]
  BY DEF Overwritten
<1>5. \A x : Right(k, x) = st + x - 1
  BY DEF Right
<1> DEFINE data == PieceData(i)
<1>0. n \in 0 .. max
  OBVIOUS
<1> HIDE DEF at, from, len, first, size, st, max, data
<1>6. Larger(len, at + n) = len
  BY <1>0, <1>1, <1>2 DEF Larger
<1>7. ASSUME NEW x \in 1 .. len, x > at, x <= at + n
      PROVE  data[from + x - at] = Right(k, x)
  <2> DEFINE y == from + x - at
  <2>1. y \in 1 .. size /\ first + y - 1 = st + x - 1
    BY <1>0, <1>1, <1>2, <1>7
  <2> HIDE DEF y
  <2>2. data[y] = first + y - 1
    BY <1>3, <2>1 DEF data
  <2> QED  BY <1>5, <2>1, <2>2 DEF y
<1>8. [x \in 1 .. len |-> IF x > at /\ x <= at + n THEN data[from + x - at]
                          ELSE IF x <= len THEN s[x] ELSE Zero]
      = [x \in 1 .. len |-> IF x > at /\ x <= at + n THEN Right(k, x) ELSE s[x]]
  BY <1>2, <1>7
<1>9. Overwritten(s, at, data, from, n) =
         [x \in 1 .. len |-> IF x > at /\ x <= at + n THEN Right(k, x) ELSE s[x]]
  BY <1>4, <1>6, <1>8 DEF data
<1> QED  BY <1>9 DEF at, data, from, len

\* A write, complete or not, keeps the types and the lengths of the files and
\* damages no piece; a complete one puts all bytes there.
LEMMA WriteKeeps ==
    ASSUME LayoutOK, Typed(content), Sized(content),
           NEW i \in Piece, NEW k \in File, Overlaps(i, k), NEW n \in 0 .. OverlapLength(i, k),
           NEW c, c = [content EXCEPT ![k] =
                          Overwritten(content[k], OffsetInFile(i, k), PieceData(i),
                                      OffsetInData(i, k), n)]
    PROVE  /\ Typed(c) /\ Sized(c)
           /\ \A j \in Piece : \A l \in File : Holds(content, j, l) => Holds(c, j, l)
           /\ n = OverlapLength(i, k) => Holds(c, i, k)
<1> DEFINE at == OffsetInFile(i, k)
           s == content[k]
           Hit(x) == x > at /\ x <= at + n
           d == [x \in 1 .. layout[k] |-> IF Hit(x) THEN Right(k, x) ELSE s[x]]
<1>1. s \in Seq(Byte) /\ Len(s) = layout[k] /\ content \in [File -> Seq(Byte)]
      /\ \A x \in DOMAIN s : s[x] \in {Zero, Old, Right(k, x)}
  BY DEF Typed, Sized
<1>2. c = [content EXCEPT ![k] = d]
  <2>1. Overwritten(s, at, PieceData(i), OffsetInData(i, k), n) = d
    BY <1>1, OverwrittenFacts
  <2> QED  BY <2>1
<1>3. /\ layout[k] \in Nat /\ Start[k] \in Nat /\ TotalLength \in Nat
      /\ Start[k] + layout[k] <= TotalLength
  BY FileBounds
<1>4. ASSUME NEW x \in 1 .. layout[k] PROVE Right(k, x) \in Byte
  BY <1>3 DEF Right, Byte
<1>5. \A x \in 1 .. layout[k] : d[x] = IF Hit(x) THEN Right(k, x) ELSE s[x]
  OBVIOUS
<1>6. d \in Seq(Byte) /\ Len(d) = layout[k] /\ DOMAIN d = 1 .. layout[k]
  <2>1. \A x \in 1 .. layout[k] : s[x] \in Byte
    BY <1>1
  <2> HIDE DEF Hit, s
  <2> QED  BY <1>3, <1>4, <2>1
<1> HIDE DEF d, Hit
<1>7. /\ c \in [File -> Seq(Byte)] /\ c[k] = d /\ \A l \in File : l # k => c[l] = content[l]
  BY <1>1, <1>2, <1>6
<1>8. \A x \in 1 .. layout[k] : d[x] \in {Zero, Old, Right(k, x)}
  BY <1>1, <1>5
<1>9. Typed(c)
  <2>1. ASSUME NEW l \in File, NEW x \in DOMAIN c[l] PROVE c[l][x] \in {Zero, Old, Right(l, x)}
    <3>1. CASE l = k
      BY <1>6, <1>7, <1>8, <2>1, <3>1
    <3>2. CASE l # k
      BY <1>7, <2>1, <3>2 DEF Typed
    <3> QED  BY <3>1, <3>2
  <2> QED  BY <1>7, <2>1 DEF Typed
<1>10. Sized(c)
  BY <1>6, <1>7 DEF Sized
<1>11. ASSUME NEW j \in Piece, NEW l \in File, Holds(content, j, l) PROVE Holds(c, j, l)
  <2>1. CASE l = k
    BY <1>5, <1>7, <1>11, <2>1 DEF Holds
  <2>2. CASE l # k
    BY <1>7, <1>11, <2>2 DEF Holds
  <2> QED  BY <2>1, <2>2
<1>12. ASSUME n = OverlapLength(i, k) PROVE Holds(c, i, k)
  <2> SUFFICES ASSUME NEW x \in 1 .. layout[k], Right(k, x) \div PieceLength = i
               PROVE  d[x] = Right(k, x)
    BY <1>7 DEF Holds
  <2>1. (Start[k] + x - 1) \div PieceLength = i
    BY DEF Right
  <2>2. Hit(x)
    BY <1>12, <2>1, OverlapExact DEF Hit
  <2> QED  BY <1>5, <2>2
<1> QED  BY <1>9, <1>10, <1>11, <1>12

\* What the thread is doing tells what it holds.
LEMMA ThreadFacts ==
    ASSUME DiskInv
    PROVE  /\ thread.pc = "idle" <=> thread = Idle
           /\ thread.pc = "alloc" => thread = Allocating(thread.file)
                                     /\ thread.file \in 1 .. Len(layout) + 1
           /\ thread.pc = "write" => /\ thread = Writing(thread.piece, thread.file)
                                     /\ thread.piece \in attempted
                                     /\ thread.file \in 1 .. Len(layout) + 1
  BY DEF DiskInv, ThreadType, Idle, Exit, Allocating, Writing

\* Steps that leave the files and the report alone.
LEMMA FilesKept ==
    ASSUME DiskInv, UNCHANGED <<layout, content, unreadable, report>>
    PROVE  /\ LayoutOK' /\ Typed(content)' /\ ReportIsExact'
           /\ Sized(content) => Sized(content)'
           /\ File' = File /\ Piece' = Piece
           /\ \A i, k : Holds(content, i, k)' <=> Holds(content, i, k)
<1>1. LayoutOK' /\ Start' = Start /\ File' = File /\ Piece' = Piece
  BY LayoutKept DEF DiskInv
<1>2. Typed(content)' /\ (Sized(content) => Sized(content)')
      /\ \A i, k : Holds(content, i, k)' <=> Holds(content, i, k)
  BY FilesPrimed DEF DiskInv
<1>3. \A i : OnDisk(i)' <=> OnDisk(i)
  BY <1>1 DEF OnDisk
<1>4. ReportIsExact'
  BY <1>1, <1>3 DEF DiskInv, ReportIsExact
<1> QED  BY <1>1, <1>2, <1>4

LEMMA AllocateStep ==
    ASSUME DiskInv, AllocateFile
    PROVE  DiskInv'
<1> DEFINE k0 == thread.file
           d == Resized(content[k0], layout[k0])
<1>0. /\ thread.pc = "alloc" /\ k0 \in File /\ LayoutOK /\ Typed(content)
      /\ content' = [content EXCEPT ![k0] = d] /\ thread' = Allocating(k0 + 1)
      /\ UNCHANGED <<layout, attempted, written, lost, unreadable, report>>
  BY DEF DiskInv, AllocateFile
<1>1. /\ File = 1 .. Len(layout) /\ Len(layout) \in Nat /\ layout[k0] \in Nat
      /\ k0 + 1 \in 1 .. Len(layout) + 1
  BY <1>0, StartFacts
<1>2. report = "none" /\ thread # Exit
  BY <1>0 DEF DiskInv, SetType, Exit
<1>3. content[k0] \in Seq(Byte) /\ content \in [File -> Seq(Byte)]
      /\ \A x \in DOMAIN content[k0] : content[k0][x] \in {Zero, Old, Right(k0, x)}
  BY <1>0 DEF Typed
<1>4. /\ d \in Seq(Byte) /\ Len(d) = layout[k0] /\ DOMAIN d = 1 .. layout[k0]
      /\ \A x \in DOMAIN d : d[x] \in {Zero, Old, Right(k0, x)}
  <2> DEFINE s == content[k0]
             m == layout[k0]
  <2>1. /\ s \in Seq(Byte) /\ m \in Nat /\ DOMAIN s = 1 .. Len(s) /\ Len(s) \in Nat
        /\ \A x \in 1 .. Len(s) : s[x] \in Byte
        /\ \A x \in DOMAIN s : s[x] \in {Zero, Old, Right(k0, x)}
    BY <1>1, <1>3
  <2>2. Zero \in Byte
    BY DEF Byte
  <2> HIDE DEF s, m
  <2>3. Resized(s, m) = [x \in 1 .. m |-> IF x <= Len(s) THEN s[x] ELSE Zero]
    BY DEF Resized
  <2>4. /\ Resized(s, m) \in Seq(Byte) /\ Len(Resized(s, m)) = m
        /\ DOMAIN Resized(s, m) = 1 .. m
        /\ \A x \in 1 .. m : Resized(s, m)[x] \in {Zero, Old, Right(k0, x)}
    BY <2>1, <2>2, <2>3
  <2> QED  BY <2>4 DEF s, m
<1> HIDE DEF d
<1>5. /\ content' \in [File -> Seq(Byte)] /\ content'[k0] = d
      /\ \A l \in File : l # k0 => content'[l] = content[l]
  BY <1>0, <1>3, <1>4
<1>6. Typed(content')
  <2>1. ASSUME NEW l \in File, NEW x \in DOMAIN content'[l]
        PROVE  content'[l][x] \in {Zero, Old, Right(l, x)}
    <3>1. CASE l = k0
      BY <1>4, <1>5, <2>1, <3>1
    <3>2. CASE l # k0
      BY <1>0, <1>5, <2>1, <3>2 DEF Typed
    <3> QED  BY <3>1, <3>2
  <2> QED  BY <1>5, <2>1 DEF Typed
<1>7. LayoutOK' /\ Typed(content)' /\ File' = File /\ Piece' = Piece
  BY <1>0, <1>6, LayoutKept, FilesPrimed
<1>8. ThreadType' /\ ~Allocated' /\ WriteInv'
  BY <1>0, <1>1, <1>2 DEF ThreadType, Allocated, WriteInv, Allocating
<1>9. SetType' /\ ReportIsExact'
  BY <1>0, <1>2, <1>7 DEF DiskInv, SetType, ReportIsExact
<1>10. AllocInv'
  <2> SUFFICES ASSUME NEW l \in File, l < k0 + 1 PROVE Len(content'[l]) = layout[l]
    BY <1>0, <1>7 DEF AllocInv, Allocating, DiskInv
  <2>1. CASE l = k0
    BY <1>4, <1>5, <2>1
  <2>2. CASE l # k0
    <3>1. l < k0
      BY <1>0, <1>1, <2>2
    <3> QED  BY <1>0, <1>5, <2>2, <3>1 DEF DiskInv, AllocInv
  <2> QED  BY <2>1, <2>2
<1>11. written' = {}
  BY <1>0 DEF DiskInv, AllocInv, SetType
<1> QED  BY <1>7, <1>8, <1>9, <1>10, <1>11 DEF DiskInv

LEMMA AllocateEnds ==
    ASSUME DiskInv, AllocateDone \/ AllocateFails
    PROVE  DiskInv'
<1>1. /\ thread.pc = "alloc" /\ UNCHANGED <<layout, content, unreadable, report>>
      /\ UNCHANGED <<attempted, written, lost>> /\ thread' \in {Idle, Exit}
  BY DEF AllocateDone, AllocateFails
<1>2. /\ LayoutOK' /\ Typed(content)' /\ ReportIsExact'
      /\ (Sized(content) => Sized(content)') /\ Piece' = Piece
  BY <1>1, FilesKept
<1>3. report = "none" /\ written = {} /\ LayoutOK
  BY <1>1 DEF DiskInv, SetType, AllocInv, Exit
<1>4. Allocated' => Sized(content)
  <2> SUFFICES ASSUME Allocated' PROVE Sized(content)
    OBVIOUS
  <2>1. AllocateDone
    BY <1>1, <1>3 DEF Allocated, AllocateFails, Exit
  <2>2. thread.file \notin File /\ thread.file \in 1 .. Len(layout) + 1
    BY <1>1, <2>1, ThreadFacts DEF AllocateDone
  <2>3. \A k \in File : k < thread.file
    BY <1>3, <2>2, StartFacts
  <2> QED  BY <1>1, <2>3 DEF DiskInv, AllocInv, Sized
<1>5. ThreadType' /\ AllocInv' /\ WriteInv'
  BY <1>1 DEF ThreadType, AllocInv, WriteInv, Idle, Exit
<1>6. SetType'
  BY <1>1, <1>2, <1>3 DEF DiskInv, SetType
<1> QED  BY <1>1, <1>2, <1>3, <1>4, <1>5, <1>6 DEF DiskInv

LEMMA StartWriteStep ==
    ASSUME DiskInv, NEW i \in Piece, StartWrite(i)
    PROVE  DiskInv'
<1>1. /\ thread = Idle /\ report = "none" /\ i \notin attempted
      /\ attempted' = attempted \cup {i} /\ thread' = Writing(i, 1)
      /\ UNCHANGED <<layout, content, written, lost, unreadable, report>>
  BY DEF StartWrite
<1>2. /\ LayoutOK' /\ Typed(content)' /\ ReportIsExact'
      /\ (Sized(content) => Sized(content)') /\ Piece' = Piece /\ File' = File
      /\ \A j, k : Holds(content, j, k)' <=> Holds(content, j, k)
  BY <1>1, FilesKept
<1>3. Sized(content)' /\ LayoutOK
  BY <1>1, <1>2 DEF DiskInv, Allocated, Idle
<1>4. ThreadType' /\ AllocInv'
  <2>1. 1 \in 1 .. Len(layout) + 1
    BY <1>3, StartFacts
  <2> QED  BY <1>1, <2>1 DEF ThreadType, AllocInv, Writing
<1>5. SetType'
  BY <1>1, <1>2 DEF DiskInv, SetType
<1>6. WriteInv'
  <2>1. i \notin written'
    BY <1>1 DEF DiskInv, SetType
  <2>2. \A k \in File : ~(k < 1)
    BY <1>3, StartFacts
  <2> QED  BY <1>1, <1>2, <2>1, <2>2 DEF WriteInv, Writing
<1>7. \A j \in written' \ lost' : \A k \in File' : Holds(content, j, k)'
  BY <1>1, <1>2 DEF DiskInv
<1> QED  BY <1>2, <1>3, <1>4, <1>5, <1>6, <1>7 DEF DiskInv

\* Facts that hold whenever a file is being written.
LEMMA WritingFacts ==
    ASSUME DiskInv, thread.pc = "write"
    PROVE  /\ LayoutOK /\ Typed(content) /\ Sized(content) /\ report = "none"
           /\ thread.piece \in Piece /\ thread.piece \in attempted
           /\ thread.piece \notin written
           /\ thread.file \in 1 .. Len(layout) + 1
           /\ thread.file \in File => thread.file + 1 \in 1 .. Len(layout) + 1
<1>1. LayoutOK /\ Typed(content) /\ Sized(content) /\ report = "none"
  BY DEF DiskInv, Allocated, SetType, Exit
<1>2. thread.piece \in attempted /\ thread.file \in 1 .. Len(layout) + 1
  BY ThreadFacts
<1>3. thread.piece \in Piece /\ thread.piece \notin written
  BY <1>2 DEF DiskInv, SetType, WriteInv
<1>4. thread.file \in File => thread.file + 1 \in 1 .. Len(layout) + 1
  BY <1>1, <1>2, StartFacts
<1> QED  BY <1>1, <1>2, <1>3, <1>4

\* A step of write_piece after which the files hold c: types, lengths and
\* what was written before are kept, and the thread goes on with the next
\* file, or is idle again.
LEMMA WriteGoesOn ==
    ASSUME DiskInv, thread.pc = "write",
           UNCHANGED <<layout, attempted, written, unreadable, report>>,
           Typed(content'), Sized(content'),
           \A j \in Piece : \A k \in File : Holds(content, j, k) => Holds(content', j, k),
           lost \subseteq lost', lost' \subseteq attempted,
           \/ thread' = Idle
           \/ /\ thread.file \in File /\ thread' = Writing(thread.piece, thread.file + 1)
              /\ thread.piece \in lost' \/ Holds(content', thread.piece, thread.file)
    PROVE  DiskInv'
<1>1. /\ LayoutOK' /\ Typed(content)' /\ Sized(content)' /\ File' = File /\ Piece' = Piece
      /\ \A j, k : Holds(content, j, k)' <=> Holds(content', j, k)
  <2>1. LayoutOK
    BY DEF DiskInv
  <2> QED  BY <2>1, LayoutKept, FilesPrimed
<1>2. /\ report = "none" /\ thread.piece \in Piece /\ thread.piece \in attempted
      /\ thread.piece \notin written
      /\ thread.file \in File => thread.file + 1 \in 1 .. Len(layout) + 1
      /\ File = 1 .. Len(layout) /\ Len(layout) \in Nat
  BY WritingFacts, StartFacts
<1>3. SetType' /\ ReportIsExact'
  BY <1>1, <1>2 DEF DiskInv, SetType, ReportIsExact
<1>4. ThreadType' /\ AllocInv'
  BY <1>2 DEF ThreadType, AllocInv, Idle, Writing
<1>5. \A j \in written' \ lost' : \A k \in File' : Holds(content, j, k)'
  <2> SUFFICES ASSUME NEW j \in written \ lost, NEW k \in File PROVE Holds(content', j, k)
    BY <1>1
  <2>1. j \in Piece /\ Holds(content, j, k)
    BY DEF DiskInv, SetType
  <2> QED  BY <2>1
<1>6. WriteInv'
  <2>1. CASE thread' = Idle
    BY <2>1 DEF WriteInv, Idle
  <2>2. CASE /\ thread.file \in File /\ thread' = Writing(thread.piece, thread.file + 1)
             /\ thread.piece \in lost' \/ Holds(content', thread.piece, thread.file)
    <3>1. ASSUME thread.piece \notin lost', NEW k \in File, k < thread.file + 1
          PROVE  Holds(content', thread.piece, k)
      <4>1. CASE k = thread.file
        BY <2>2, <3>1, <4>1
      <4>2. CASE k # thread.file
        <5>1. k < thread.file
          BY <1>2, <2>2, <3>1, <4>2
        <5>2. Holds(content, thread.piece, k)
          BY <3>1, <5>1 DEF DiskInv, WriteInv
        <5> QED  BY <1>2, <5>2
      <4> QED  BY <4>1, <4>2
    <3>2. /\ thread'.piece = thread.piece /\ thread'.file = thread.file + 1
      BY <2>2 DEF Writing
    <3> QED  BY <1>1, <1>2, <3>1, <3>2 DEF WriteInv
  <2> QED  BY <2>1, <2>2
<1> QED  BY <1>1, <1>3, <1>4, <1>5, <1>6 DEF DiskInv

LEMMA WriteFileStep ==
    ASSUME DiskInv, WriteFile
    PROVE  DiskInv'
<1> DEFINE i == thread.piece
           k == thread.file
<1>1. /\ thread.pc = "write" /\ k \in File /\ thread' = Writing(i, k + 1)
      /\ UNCHANGED <<layout, attempted, written, lost, unreadable, report>>
  BY DEF WriteFile
<1>2. LayoutOK /\ Typed(content) /\ Sized(content) /\ i \in Piece
  BY <1>1, WritingFacts
<1>3. /\ Typed(content') /\ Sized(content')
      /\ \A j \in Piece : \A l \in File : Holds(content, j, l) => Holds(content', j, l)
      /\ Holds(content', i, k)
  <2>1. CASE Overlaps(i, k)
    <3>1. content' = [content EXCEPT ![k] =
                         Overwritten(content[k], OffsetInFile(i, k), PieceData(i),
                                     OffsetInData(i, k), OverlapLength(i, k))]
      BY <2>1 DEF WriteFile
    <3>2. OverlapLength(i, k) \in 0 .. OverlapLength(i, k)
      BY <1>1, <1>2, <2>1, OverlapInside
    <3> HIDE DEF i, k
    <3> QED  BY <1>1, <1>2, <2>1, <3>1, <3>2, WriteKeeps
  <2>2. CASE ~Overlaps(i, k)
    <3>1. content' = content
      BY <2>2 DEF WriteFile
    <3>2. Holds(content, i, k)
      <4> SUFFICES ASSUME NEW x \in 1 .. layout[k], Right(k, x) \div PieceLength = i
                   PROVE  FALSE
        BY DEF Holds
      <4>1. (Start[k] + x - 1) \div PieceLength = i
        BY DEF Right
      <4> QED  BY <1>1, <1>2, <2>2, <4>1, OverlapExact
    <3> QED  BY <1>2, <3>1, <3>2
  <2> QED  BY <2>1, <2>2
<1>4. lost' \subseteq attempted
  BY <1>1 DEF DiskInv, SetType
<1> QED  BY <1>1, <1>3, <1>4, WriteGoesOn

\* A write that fails, and one that is lost when the file is closed.
LEMMA WriteBreaksStep ==
    ASSUME DiskInv, WriteFails \/ FlushFails
    PROVE  DiskInv'
<1> DEFINE i == thread.piece
           k == thread.file
<1>1. /\ thread.pc = "write" /\ k \in File /\ Overlaps(i, k)
      /\ UNCHANGED <<layout, attempted, written, unreadable, report>>
  BY DEF WriteFails, FlushFails
<1>2. LayoutOK /\ Typed(content) /\ Sized(content) /\ i \in Piece /\ i \in attempted
  BY <1>1, WritingFacts
<1>3. OverlapLength(i, k) \in Nat
  BY <1>1, <1>2, OverlapInside
<1>4. PICK n \in 0 .. OverlapLength(i, k) :
         content' = [content EXCEPT ![k] =
                        Overwritten(content[k], OffsetInFile(i, k), PieceData(i),
                                    OffsetInData(i, k), n)]
  BY <1>3 DEF WriteFails, FlushFails
<1>5. /\ Typed(content') /\ Sized(content')
      /\ \A j \in Piece : \A l \in File : Holds(content, j, l) => Holds(content', j, l)
  <2> HIDE DEF i, k
  <2> QED  BY <1>1, <1>2, <1>4, WriteKeeps
<1>6. CASE WriteFails
  <2>1. thread' = Idle /\ lost' = lost /\ lost' \subseteq attempted
    BY <1>6 DEF WriteFails, DiskInv, SetType
  <2> QED  BY <1>1, <1>5, <2>1, WriteGoesOn
<1>7. CASE FlushFails
  <2>1. thread' = Writing(i, k + 1) /\ lost' = lost \cup {i} /\ lost' \subseteq attempted
    BY <1>2, <1>7 DEF FlushFails, DiskInv, SetType
  <2> QED  BY <1>1, <1>5, <2>1, WriteGoesOn
<1> QED  BY <1>6, <1>7

LEMMA WriteDoneStep ==
    ASSUME DiskInv, WriteDone
    PROVE  DiskInv'
<1> DEFINE i == thread.piece
<1>1. /\ thread.pc = "write" /\ thread.file \notin File /\ thread' = Idle
      /\ written' = written \cup {i}
      /\ UNCHANGED <<layout, content, attempted, lost, unreadable, report>>
  BY DEF WriteDone
<1>2. /\ LayoutOK' /\ Typed(content)' /\ ReportIsExact'
      /\ (Sized(content) => Sized(content)') /\ Piece' = Piece /\ File' = File
      /\ \A j, k : Holds(content, j, k)' <=> Holds(content, j, k)
  BY <1>1, FilesKept
<1>3. /\ Sized(content) /\ report = "none" /\ i \in attempted
      /\ thread.file \in 1 .. Len(layout) + 1 /\ LayoutOK
  BY <1>1, WritingFacts
<1>4. i \notin lost => \A k \in File : Holds(content, i, k)
  <2>1. \A k \in File : k < thread.file
    BY <1>1, <1>3, StartFacts
  <2> QED  BY <1>1, <2>1 DEF DiskInv, WriteInv
<1>5. \A j \in written' \ lost' : \A k \in File' : Holds(content, j, k)'
  BY <1>1, <1>2, <1>4 DEF DiskInv
<1>6. ThreadType' /\ AllocInv' /\ WriteInv'
  BY <1>1 DEF ThreadType, AllocInv, WriteInv, Idle
<1>7. SetType'
  BY <1>1, <1>2, <1>3 DEF DiskInv, SetType
<1> QED  BY <1>2, <1>3, <1>5, <1>6, <1>7 DEF DiskInv

----------------------------------------------------------------------------
(* Reading back.                                                           *)

\* The files that read_piece finds a byte in: the one where it lies.
LEMMA ReadFrom ==
    ASSUME LayoutOK, NEW i \in Piece, NEW x \in 1 .. PieceSize(i), NEW k \in File
    PROVE  (/\ Overlaps(i, k)
            /\ x > OffsetInData(i, k)
            /\ x <= OffsetInData(i, k) + OverlapLength(i, k))
           <=> InFile(i * PieceLength + x - 1, k)
<1> DEFINE first == i * PieceLength
           size == PieceSize(i)
           st == Start[k]
           len == layout[k]
           g == first + x - 1
<1>1. st \in Nat /\ len \in Nat /\ first \in Nat /\ size \in Nat
  BY FileBounds, PieceBounds
<1>2. Overlaps(i, k) <=> ~(first + size <= st \/ first >= st + len)
  BY DEF Overlaps
<1>3. OverlapLength(i, k) = (IF first + size <= st + len THEN first + size ELSE st + len)
                            - (IF first >= st THEN first ELSE st)
  BY DEF OverlapLength, OverlapEnd, OverlapStart, Larger, Smaller
<1>4. OffsetInData(i, k) = (IF first >= st THEN first ELSE st) - first
  BY DEF OffsetInData, OverlapStart, Larger
<1>5. InFile(g, k) <=> st <= g /\ g < st + len
  BY DEF InFile
<1>6. g = first + x - 1 /\ x \in 1 .. size
  OBVIOUS
<1> HIDE DEF first, size, st, len, g
<1>7. (/\ Overlaps(i, k)
       /\ x > OffsetInData(i, k)
       /\ x <= OffsetInData(i, k) + OverlapLength(i, k)) <=> InFile(g, k)
  BY <1>1, <1>2, <1>3, <1>4, <1>5, <1>6
<1> QED  BY <1>7 DEF g, first

\* The byte it reads there.
LEMMA ReadByte ==
    ASSUME LayoutOK, Sized(content), NEW i \in Piece, NEW x \in 1 .. PieceSize(i),
           NEW k \in File, InFile(i * PieceLength + x - 1, k)
    PROVE  read_piece(i)[x] = content[k][i * PieceLength + x - Start[k]]
<1> DEFINE holds(l) == /\ Overlaps(i, l)
                       /\ x > OffsetInData(i, l)
                       /\ x <= OffsetInData(i, l) + OverlapLength(i, l)
           from == {l \in File : holds(l)}
           last == CHOOSE j \in from : \A l \in from : l <= j
           at(l) == OffsetInFile(i, l) + x - OffsetInData(i, l)
<1>1. /\ Start[k] \in Nat /\ layout[k] \in Nat /\ i * PieceLength \in Nat
      /\ PieceSize(i) \in Nat /\ x \in Nat /\ k \in Nat /\ Len(content[k]) = layout[k]
      /\ i * PieceLength + x - 1 \in Nat
  BY FileBounds, PieceBounds, StartFacts DEF Sized
<1>2. \A l \in File : holds(l) <=> l = k
  <2>1. \A l \in File : holds(l) <=> InFile(i * PieceLength + x - 1, l)
    BY ReadFrom
  <2>2. \A l \in File : InFile(i * PieceLength + x - 1, l) => l = k
    BY <1>1, FileUnique
  <2> QED  BY <2>1, <2>2
<1>3. from = {k}
  BY <1>2
<1>4. last = k
  <2> HIDE DEF from
  <2>1. \A l \in from : l <= k
    BY <1>1, <1>3
  <2> QED  BY <1>3, <2>1
<1>5. at(k) = i * PieceLength + x - Start[k]
  <2>1. Overlaps(i, k)
    BY <1>2
  <2> DEFINE first == i * PieceLength
             st == Start[k]
             a == OffsetInFile(i, k)
             b == OffsetInData(i, k)
  <2>2. a \in Nat /\ b \in Nat /\ first + b = st + a /\ first \in Nat /\ st \in Nat
        /\ x \in Nat
    BY <1>1, <2>1, OverlapInside
  <2>3. at(k) = a + x - b
    OBVIOUS
  <2> HIDE DEF at, first, st, a, b
  <2>4. at(k) = first + x - st
    BY <2>2, <2>3
  <2> QED  BY <2>4 DEF first, st
<1>6. i * PieceLength + x - Start[k] <= Len(content[k])
  BY <1>1 DEF InFile
<1>7. read_piece(i)[x] =
         IF from = {} THEN Zero
         ELSE IF at(last) <= Len(content[last]) THEN content[last][at(last)] ELSE Zero
  BY DEF read_piece
<1> HIDE DEF from, last, at
<1> QED  BY <1>3, <1>4, <1>5, <1>6, <1>7

\* Verification finds out whether the piece is on disk.
LEMMA VerifyExact ==
    ASSUME LayoutOK, Sized(content), NEW i \in Piece
    PROVE  verify_piece(i) <=> OnDisk(i)
<1> DEFINE first == i * PieceLength
           size == PieceSize(i)
<1>1. /\ first \in Nat /\ size \in Nat \ {0} /\ first + size <= TotalLength
      /\ TotalLength \in Nat
      /\ \A g \in Nat : g < TotalLength =>
            (g \div PieceLength = i <=> first <= g /\ g < first + size)
  BY PieceBounds, TotalPositive
<1>2. /\ DOMAIN read_piece(i) = 1 .. size /\ DOMAIN PieceData(i) = 1 .. size
      /\ \A x \in 1 .. size : PieceData(i)[x] = first + x - 1
      /\ read_piece(i) = [x \in 1 .. size |-> read_piece(i)[x]]
      /\ PieceData(i) = [x \in 1 .. size |-> PieceData(i)[x]]
  BY DEF read_piece, PieceData
<1>3. verify_piece(i) <=> \A x \in 1 .. size : read_piece(i)[x] = first + x - 1
  BY <1>2 DEF verify_piece
<1> HIDE DEF first, size
<1>4. ASSUME OnDisk(i), NEW x \in 1 .. size PROVE read_piece(i)[x] = first + x - 1
  <2> DEFINE g == first + x - 1
  <2>1. g \in Nat /\ g < TotalLength /\ g \div PieceLength = i
    BY <1>1
  <2>2. PICK k \in File : InFile(g, k)
    BY <2>1, FileExists
  <2>3. Start[k] \in Nat /\ layout[k] \in Nat /\ Start[k] <= g /\ g < Start[k] + layout[k]
    BY <2>2, FileBounds DEF InFile
  <2> DEFINE y == first + x - Start[k]
  <2>4. y \in 1 .. layout[k] /\ Start[k] + y - 1 = g
    BY <1>1, <2>3
  <2>5. read_piece(i)[x] = content[k][y]
    BY <2>2, ReadByte DEF first, size
  <2> HIDE DEF y, g
  <2>6. content[k][y] = g
    BY <1>4, <2>1, <2>4 DEF OnDisk
  <2> QED  BY <2>5, <2>6 DEF g
<1>5. ASSUME \A x \in 1 .. size : read_piece(i)[x] = first + x - 1,
             NEW k \in File, NEW y \in 1 .. layout[k],
             (Start[k] + y - 1) \div PieceLength = i
      PROVE  content[k][y] = Start[k] + y - 1
  <2> DEFINE g == Start[k] + y - 1
             x == g - first + 1
  <2>1. /\ Start[k] \in Nat /\ layout[k] \in Nat /\ Start[k] + layout[k] <= TotalLength
    BY FileBounds
  <2>2. g \in Nat /\ g < TotalLength
    BY <1>1, <2>1
  <2>3. first <= g /\ g < first + size
    BY <1>1, <1>5, <2>2
  <2>4. x \in 1 .. size /\ first + x - 1 = g /\ first + x - Start[k] = y
    BY <1>1, <2>1, <2>2, <2>3
  <2>5. InFile(first + x - 1, k)
    BY <2>1, <2>4 DEF InFile
  <2> HIDE DEF g, x
  <2>6. read_piece(i)[x] = content[k][first + x - Start[k]]
    BY <2>4, <2>5, ReadByte DEF first, size
  <2> QED  BY <1>5, <2>4, <2>6 DEF g
<1> QED  BY <1>3, <1>4, <1>5 DEF OnDisk

LEMMA ValidateStep ==
    ASSUME DiskInv, Validate
    PROVE  DiskInv'
<1>1. /\ thread = Idle /\ report = "none" /\ thread' = Exit
      /\ unreadable' \subseteq Piece
      /\ report' = IF \A i \in Piece : i \notin unreadable' /\ verify_piece(i)
                   THEN "ok" ELSE "corrupt"
      /\ UNCHANGED <<layout, content, attempted, written, lost>>
  BY DEF Validate
<1>2. LayoutOK /\ Typed(content) /\ Sized(content)
  BY <1>1 DEF DiskInv, Allocated, Idle
<1>3. /\ LayoutOK' /\ Typed(content)' /\ Sized(content)' /\ Piece' = Piece
      /\ Start' = Start /\ File' = File
      /\ \A j, k : Holds(content, j, k)' <=> Holds(content, j, k)
  BY <1>1, <1>2, LayoutKept, FilesPrimed
<1>4. \A i : OnDisk(i)' <=> OnDisk(i)
  BY <1>1, <1>3 DEF OnDisk
<1>5. report' = "ok" <=> unreadable' = {} /\ \A i \in Piece : OnDisk(i)
  <2>1. \A i \in Piece : verify_piece(i) <=> OnDisk(i)
    BY <1>2, VerifyExact
  <2> QED  BY <1>1, <2>1
<1>6. ReportIsExact'
  BY <1>3, <1>4, <1>5 DEF ReportIsExact
<1>7. ThreadType' /\ AllocInv' /\ WriteInv' /\ SetType'
  BY <1>1, <1>3 DEF DiskInv, ThreadType, AllocInv, WriteInv, SetType, Exit
<1>8. \A j \in written' \ lost' : \A k \in File' : Holds(content, j, k)'
  BY <1>1, <1>3 DEF DiskInv
<1> QED  BY <1>3, <1>6, <1>7, <1>8 DEF DiskInv

----------------------------------------------------------------------------
(* The theorems.                                                           *)

LEMMA NextInv == DiskInv /\ [Next]_vars => DiskInv'
<1> SUFFICES ASSUME DiskInv, [Next]_vars PROVE DiskInv'
  OBVIOUS
<1>1. CASE AllocateFile
  BY <1>1, AllocateStep
<1>2. CASE AllocateDone \/ AllocateFails
  BY <1>2, AllocateEnds
<1>3. ASSUME NEW i \in Piece, StartWrite(i) PROVE DiskInv'
  BY <1>3, StartWriteStep
<1>4. CASE WriteFile
  BY <1>4, WriteFileStep
<1>5. CASE WriteFails \/ FlushFails
  BY <1>5, WriteBreaksStep
<1>6. CASE WriteDone
  BY <1>6, WriteDoneStep
<1>7. CASE Validate
  BY <1>7, ValidateStep
<1>8. CASE UNCHANGED vars
  <2>1. UNCHANGED <<layout, content, thread, attempted, written, lost, unreadable, report>>
    BY <1>8 DEF vars
  <2>2. /\ LayoutOK' /\ Typed(content)' /\ ReportIsExact' /\ File' = File /\ Piece' = Piece
        /\ (Sized(content) => Sized(content)')
        /\ \A i, k : Holds(content, i, k)' <=> Holds(content, i, k)
    BY <2>1, FilesKept
  <2>3. ThreadType' /\ SetType' /\ AllocInv' /\ WriteInv' /\ (Allocated' => Sized(content)')
    BY <2>1, <2>2 DEF DiskInv, ThreadType, SetType, AllocInv, WriteInv, Allocated
  <2>4. \A i \in written' \ lost' : \A k \in File' : Holds(content, i, k)'
    BY <2>1, <2>2 DEF DiskInv
  <2> QED  BY <2>2, <2>3, <2>4 DEF DiskInv
<1> QED  BY <1>1, <1>2, <1>3, <1>4, <1>5, <1>6, <1>7, <1>8 DEF Next

LEMMA DiskInvariant == Spec => []DiskInv
  BY InitInv, NextInv, PTL DEF Spec

\* For every layout of files and every piece length: files have their
\* lengths, no byte is ever in a wrong place, and a piece that was written is
\* there in full and stays, whichever writes fail half-way.
THEOREM WritesCorrect == Spec => []FilesCorrect
  BY DiskInvFiles, DiskInvariant, PTL

\* The final report is "ok" exactly when every byte of every file is right and
\* could be read: read_piece finds each byte of a piece in the file where
\* write_piece puts it.
THEOREM ReportCorrect == Spec => []ReportIsExact
<1>1. DiskInv => ReportIsExact
  BY DEF DiskInv
<1> QED  BY <1>1, DiskInvariant, PTL

\* The output is the torrent's content.
FilesComplete ==
    \A k \in File : content[k] = [x \in 1 .. layout[k] |-> Start[k] + x - 1]

\* If the final report is "ok", or every piece was written and no flush failed,
\* then each file is byte for byte what the torrent describes: the pieces leave
\* out no byte of any file, whatever the layout.
THEOREM OkIsComplete ==
    Spec => []((report = "ok" \/ (thread = Idle /\ written \ lost = Piece))
                  => FilesComplete)
<1>1. ASSUME DiskInv, report = "ok" \/ (thread = Idle /\ written \ lost = Piece)
      PROVE  FilesComplete
  <2>1. LayoutOK /\ Sized(content)
    BY <1>1 DEF DiskInv, Allocated, Idle
  <2>2. \A i \in Piece : OnDisk(i)
    <3>1. CASE report = "ok"
      BY <1>1, <3>1 DEF DiskInv, ReportIsExact
    <3>2. CASE written \ lost = Piece
      BY <1>1, <3>2, DiskInvFiles DEF FilesCorrect, WrittenIsOnDisk
    <3> QED  BY <1>1, <3>1, <3>2
  <2>3. ASSUME NEW k \in File
        PROVE  content[k] = [x \in 1 .. layout[k] |-> Start[k] + x - 1]
    <3>1. ASSUME NEW x \in 1 .. layout[k] PROVE content[k][x] = Start[k] + x - 1
      <4>1. Start[k] + x - 1 \in Nat /\ Start[k] + x - 1 < TotalLength
        BY <2>1, FileBounds
      <4>2. (Start[k] + x - 1) \div PieceLength \in Piece
        BY <2>1, <4>1, PieceOf
      <4> QED  BY <2>2, <4>2 DEF OnDisk
    <3>2. content[k] \in Seq(Byte) /\ Len(content[k]) = layout[k]
      BY <1>1, <2>1 DEF DiskInv, Typed, Sized
    <3>3. content[k] = [x \in 1 .. layout[k] |-> content[k][x]]
      BY <3>2
    <3> QED  BY <3>1, <3>3
  <2> QED  BY <2>3 DEF FilesComplete
<1> QED  BY <1>1, DiskInvariant, PTL
=============================================================================
