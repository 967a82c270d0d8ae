----------------------------- MODULE WarpProofs ------------------------------
(***************************************************************************)
(* Theorems about the preprocessor and about the way back of the boxes,    *)
(* for pictures, buffers, inputs and blocks of any size.                   *)
(***************************************************************************)
EXTENDS WarpAffine, TLAPS

LEMMA DivMod ==
    ASSUME NEW a \in Int, NEW b \in Nat \ {0}
    PROVE  /\ a \div b \in Int /\ a % b \in 0 .. b - 1
           /\ a = b * (a \div b) + (a % b)
OBVIOUS

LEMMA GridCovers ==
    ASSUME NEW n \in Nat, NEW b \in Nat \ {0}
    PROVE  Grid(n, b) \in Nat /\ Grid(n, b) >= n
<1> DEFINE m == n + b - 1
           q == m \div b
<1>1. q \in Int /\ m % b \in 0 .. b - 1 /\ m = b * q + (m % b)
  <2>1. m \in Int
    OBVIOUS
  <2> HIDE DEF m
  <2> QED
    BY <2>1, DivMod
<1>2. b * q \in Int
  BY <1>1
<1>3. b * q > n - 1
  BY <1>1, <1>2
<1> QED
  BY <1>2, <1>3 DEF Grid

\* Places in a row-major table do not coincide.
LEMMA Unfold ==
    ASSUME NEW n \in Nat, NEW a \in Nat, NEW b \in 0 .. n - 1,
           NEW c \in Nat, NEW d \in 0 .. n - 1, a * n + b = c * n + d
    PROVE  a = c /\ b = d
<1>1. CASE a < c
  <2>1. (a + 1) * n <= c * n
    BY <1>1
  <2> QED
    BY <2>1
<1>2. CASE c < a
  <2>1. (c + 1) * n <= a * n
    BY <1>2
  <2> QED
    BY <2>1
<1>3. CASE a = c
  BY <1>3
<1> QED
  BY <1>1, <1>2, <1>3

\* The last place of the table is the last one of its rows.
LEMMA InTable ==
    ASSUME NEW m \in Nat, NEW n \in Nat, NEW a \in 0 .. m - 1,
           NEW b \in 0 .. n - 1
    PROVE  a * n + b \in 0 .. m * n - 1
<1>1. (a + 1) * n <= m * n /\ a * n \in Nat /\ m * n \in Nat
  OBVIOUS
<1>2. (a + 1) * n = a * n + n
  OBVIOUS
<1> QED
  BY <1>1, <1>2

-----------------------------------------------------------------------------
\* The cells of the input have addresses of their own, all in the buffer.
LEMMA Sizes ==
    /\ DstW \in Nat \ {0} /\ DstH \in Nat \ {0}
    /\ DstW * DstH \in Nat /\ DstSize \in Nat /\ SrcSize \in Nat
    /\ DstSize = 3 * (DstW * DstH)
<1>1. /\ DstW \in Nat \ {0} /\ DstH \in Nat \ {0}
      /\ SrcW \in Nat /\ SrcH \in Nat
  BY WarpAssumption
<1>2. DstW * DstH \in Nat /\ SrcW * SrcH \in Nat
  BY <1>1
<1> QED
  BY <1>1, <1>2 DEF DstSize, SrcSize

LEMMA CellAddress ==
    ASSUME NEW cell \in Cells
    PROVE  /\ AddressOf(cell) \in 0 .. DstSize - 1
           /\ AddressOf(cell) = cell[3] * (DstW * DstH)
                                    + (cell[2] * DstW + cell[1])
           /\ cell[2] * DstW + cell[1] \in 0 .. DstW * DstH - 1
           /\ cell[1] \in 0 .. DstW - 1 /\ cell[2] \in 0 .. DstH - 1
           /\ cell[3] \in 0 .. 2
<1>1. /\ cell[1] \in 0 .. DstW - 1 /\ cell[2] \in 0 .. DstH - 1
      /\ cell[3] \in 0 .. 2
  BY DEF Cells, Planes
<1>2. cell[2] * DstW + cell[1] \in 0 .. DstH * DstW - 1
  BY <1>1, Sizes, InTable
<1>3. DstH * DstW = DstW * DstH
  BY Sizes
<1>4. cell[3] * (DstW * DstH) + (cell[2] * DstW + cell[1])
          \in 0 .. 3 * (DstW * DstH) - 1
  BY <1>1, <1>2, <1>3, Sizes, InTable
<1>5. AddressOf(cell) = cell[3] * (DstW * DstH)
                            + (cell[2] * DstW + cell[1])
  BY <1>1, Sizes DEF AddressOf, WriteAddress
<1> QED
  BY <1>1, <1>2, <1>3, <1>4, <1>5, Sizes

LEMMA CellsApart ==
    ASSUME NEW a \in Cells, NEW b \in Cells, AddressOf(a) = AddressOf(b)
    PROVE  a = b
<1> DEFINE n == DstW * DstH
           i == a[2] * DstW + a[1]
           j == b[2] * DstW + b[1]
           p == a[3]
           q == b[3]
<1>1. /\ n \in Nat /\ i \in 0 .. n - 1 /\ j \in 0 .. n - 1
      /\ p \in Nat /\ q \in Nat /\ p * n + i = q * n + j
  BY CellAddress, Sizes
<1>2. /\ a[1] \in 0 .. DstW - 1 /\ b[1] \in 0 .. DstW - 1
      /\ a[2] \in Nat /\ b[2] \in Nat /\ DstW \in Nat
  BY CellAddress, Sizes
<1>3. p = q /\ i = j
  <2> HIDE DEF i, j, n, p, q
  <2> QED
    BY <1>1, Unfold
<1>4. a[2] = b[2] /\ a[1] = b[1]
  <2> DEFINE r == a[2]
             s == b[2]
             t == a[1]
             u == b[1]
  <2>1. /\ r * DstW + t = s * DstW + u /\ r \in Nat /\ s \in Nat /\ DstW \in Nat
        /\ t \in 0 .. DstW - 1 /\ u \in 0 .. DstW - 1
    BY <1>2, <1>3
  <2>2. r = s /\ t = u
    <3> HIDE DEF r, s, t, u
    <3> QED
      BY <2>1, Unfold
  <2> QED
    BY <2>2
<1> QED
  BY <1>3, <1>4 DEF Cells

-----------------------------------------------------------------------------
\* A picture, its sides and the scale of one that has pixels.
Picture == Pictures \cup {Configured}

LEMMA Sides ==
    ASSUME NEW p \in Picture
    PROVE  /\ p.width \in Nat /\ p.height \in Nat /\ ImgSize(p) \in Nat
           /\ Fits(p) => ImgSize(p) <= SrcSize
<1>1. p.width \in Nat /\ p.height \in Nat
  BY WarpAssumption DEF Picture, Configured
<1>2. p.width * p.height \in Nat
  BY <1>1
<1> QED
  BY <1>1, <1>2 DEF ImgSize, Fits

LEMMA Scale ==
    ASSUME NEW p \in Picture, ~Empty(p)
    PROVE  /\ Num(p) \in Nat \ {0} /\ Den(p) \in Nat \ {0}
           /\ Unit(p) \in Nat \ {0} /\ Unit(p) = 2 * Num(p)
           /\ DstW * Den(p) >= p.width * Num(p)
           /\ DstH * Den(p) >= p.height * Num(p)
<1>1. /\ p.width \in Nat \ {0} /\ p.height \in Nat \ {0}
      /\ DstW \in Nat \ {0} /\ DstH \in Nat \ {0}
  BY Sides, Sizes DEF Empty
<1>2. CASE WidthDecides(p)
  <2>1. Num(p) = DstW /\ Den(p) = p.width
    BY <1>2 DEF Num, Den
  <2>2. /\ DstW * p.width = p.width * DstW
        /\ p.height * DstW = DstW * p.height
    BY <1>1
  <2> QED
    BY <1>1, <1>2, <2>1, <2>2 DEF WidthDecides, Unit
<1>3. CASE ~WidthDecides(p)
  <2>1. Num(p) = DstH /\ Den(p) = p.height
    BY <1>3 DEF Num, Den
  <2>2. /\ p.width * DstH = DstH * p.width
        /\ p.height * DstH = DstH * p.height
        /\ DstW * p.height \in Nat /\ DstH * p.width \in Nat
    BY <1>1
  <2> QED
    BY <1>1, <1>3, <2>1, <2>2 DEF WidthDecides, Unit
<1> QED
  BY <1>2, <1>3

LEMMA Projected ==
    ASSUME NEW p \in Picture, ~Empty(p), NEW dx \in Int, NEW dy \in Int
    PROVE  SrcX(p, dx) \in Int /\ SrcY(p, dy) \in Int
<1>1. /\ dx * Den(p) \in Int /\ dy * Den(p) \in Int
      /\ Num(p) * p.width \in Int /\ Num(p) * p.height \in Int
      /\ DstW * Den(p) \in Int /\ DstH * Den(p) \in Int
      /\ 2 * dx * Den(p) \in Int /\ 2 * dy * Den(p) \in Int
  BY Scale, Sides, Sizes
<1> QED
  BY <1>1, Scale DEF SrcX, SrcY, Project

-----------------------------------------------------------------------------
\* Between two pixels of a line of n: position a in 1 / u is pixel a \div u and
\* the part a % u of the way to the next.

\* A position at or past the ends touches no pixel of the line.
LEMMA Outside ==
    ASSUME NEW a \in Int, NEW u \in Nat \ {0}, NEW n \in Nat,
           a <= -u \/ a >= n * u, NEW o \in {0, 1}, o = 1 => a % u # 0
    PROVE  (a \div u) + o \notin 0 .. n - 1
<1> DEFINE q == a \div u
           r == a % u
<1>1. q \in Int /\ r \in 0 .. u - 1 /\ a = u * q + r
  BY DivMod
<1>2. (o = 1 => r # 0)
  OBVIOUS
<1> HIDE DEF q, r
<1>3. CASE a <= -u
  <2>1. u * (q + 1) <= -r
    <3>1. u * (q + 1) = u * q + u
      BY <1>1
    <3> QED
      BY <1>1, <1>3, <3>1
  <2>2. q + 1 <= 0
    BY <1>1, <2>1
  <2>3. CASE o = 1
    <3>1. u * (q + 1) < 0
      BY <1>1, <1>2, <2>1, <2>3
    <3>2. q + 1 < 0
      BY <1>1, <3>1
    <3> QED
      BY <1>1, <2>3, <3>2 DEF q
  <2> QED
    BY <1>1, <2>2, <2>3 DEF q
<1>4. CASE a >= n * u
  <2>1. u * q > u * (n - 1)
    <3>1. u * (n - 1) = n * u - u /\ n * u \in Int
      OBVIOUS
    <3> QED
      BY <1>1, <1>4, <3>1
  <2>2. q > n - 1
    BY <1>1, <2>1
  <2> QED
    BY <1>1, <2>2 DEF q
<1> QED
  BY <1>3, <1>4

\* A position before the ends is at most one pixel outside.
LEMMA Inside ==
    ASSUME NEW a \in Int, NEW u \in Nat \ {0}, NEW n \in Nat,
           a > -u, a < n * u
    PROVE  (a \div u) \in -1 .. n - 1
<1> DEFINE q == a \div u
           r == a % u
<1>1. q \in Int /\ r \in 0 .. u - 1 /\ a = u * q + r
  BY DivMod
<1> HIDE DEF q, r
<1>2. q >= -1
  <2>1. u * (q + 2) > 0
    <3>1. u * (q + 2) = u * q + 2 * u
      BY <1>1
    <3> QED
      BY <1>1, <3>1
  <2>2. q + 2 > 0
    BY <1>1, <2>1
  <2> QED
    BY <1>1, <2>2
<1>3. q < n
  <2>1. u * q < u * n
    <3>1. u * n = n * u
      OBVIOUS
    <3> QED
      BY <1>1, <3>1
  <2> QED
    BY <1>1, <2>1
<1> QED
  BY <1>1, <1>2, <1>3 DEF q

-----------------------------------------------------------------------------
\* The kernel's addresses are those of the picture that was copied.
LEMMA Address ==
    ASSUME NEW p \in Picture, NEW x \in 0 .. p.width - 1,
           NEW y \in 0 .. p.height - 1, NEW c \in 0 .. 2
    PROVE  /\ ReadAddress(p, 0, x, y, c) = y * (p.width * 3) + x * 3 + c
           /\ ReadAddress(p, 0, x, y, c) \in 0 .. ImgSize(p) - 1
<1>1. p.width \in Nat /\ p.height \in Nat /\ p.width * 3 \in Nat
  BY Sides
<1>2. x * 3 + c \in 0 .. p.width * 3 - 1
  BY <1>1
<1>3. y * (p.width * 3) + (x * 3 + c) \in 0 .. p.height * (p.width * 3) - 1
  <2> DEFINE n == p.width * 3
             b == x * 3 + c
             m == p.height
  <2>1. n \in Nat /\ b \in 0 .. n - 1 /\ m \in Nat /\ y \in 0 .. m - 1
    BY <1>1, <1>2
  <2> HIDE DEF n, b, m
  <2>2. y * n + b \in 0 .. m * n - 1
    BY <2>1, InTable
  <2> QED
    BY <2>2 DEF n, b, m
<1>4. p.height * (p.width * 3) = ImgSize(p)
  BY <1>1 DEF ImgSize
<1>5. y * (p.width * 3) \in Nat /\ p.width * p.height * 3 \in Nat
  BY <1>1
<1>6. ReadAddress(p, 0, x, y, c) = y * (p.width * 3) + (x * 3 + c)
  BY <1>1, <1>2, <1>5 DEF ReadAddress
<1> QED
  BY <1>1, <1>2, <1>3, <1>4, <1>5, <1>6

\* The bytes of the picture are in the buffer.
Loaded ==
    path = "gpu" /\ Fits(picture) =>
        \A a \in 0 .. SrcSize - 1 : a < ImgSize(picture) => src[a] = <<count, a>>

LEMMA Corner ==
    ASSUME NEW o \in Corners
    PROVE  o[1] \in {0, 1} /\ o[2] \in {0, 1}
BY DEF Corners

\* A thread of the first picture computes the sample.
LEMMA KernelRight ==
    ASSUME WarpTypeOK, Loaded, path = "gpu", Fits(picture),
           NEW dx \in 0 .. DstW - 1, NEW dy \in 0 .. DstH - 1, NEW c \in 0 .. 2
    PROVE  KernelSample(<<dx, dy, 0>>, c) =
               IF Empty(picture) THEN NaN
               ELSE SampleOf(count, picture, picture, dx, dy, c)
<1> DEFINE p == picture
           u == Unit(p)
           sx == SrcX(p, dx)
           sy == SrcY(p, dy)
           x == sx \div u
           y == sy \div u
           lx == sx % u
           ly == sy % u
           ext == [o \in Corners |-> Extended(count, p, x + o[1], y + o[2], c)]
           tap == [o \in Corners |->
                     IF Tests(p, x, y, o)
                     THEN Byte(ReadAddress(p, 0, x + o[1], y + o[2], c))
                     ELSE Grey]
<1>1. p \in Picture
  BY DEF WarpTypeOK, Picture
<1>2. CASE Empty(p)
  BY <1>2 DEF KernelSample
<1>3. CASE ~Empty(p)
  <2>1. u \in Nat \ {0} /\ sx \in Int /\ sy \in Int
    BY <1>1, <1>3, Scale, Projected
  <2>2. p.width \in Nat /\ p.height \in Nat /\ ImgSize(p) <= SrcSize
        /\ ImgSize(p) \in Nat /\ SrcSize \in Nat
    BY <1>1, Sides, Sizes
  <2>3. x \in Int /\ y \in Int
    <3> HIDE DEF sx, sy, u
    <3> QED
      BY <2>1, DivMod
  <2>4. SampleOf(count, p, p, dx, dy, c) = Blend(lx, ly, ext)
    BY DEF SampleOf
  <2>5. CASE OutOfRange(p, dx, dy)
    <3>1. KernelSample(<<dx, dy, 0>>, c) = Grey
      BY <1>3, <2>5 DEF KernelSample
    <3>2. ASSUME NEW o \in Weighted(lx, ly)
          PROVE  ext[o] = Grey
      <4>1. /\ o \in Corners /\ o[1] \in {0, 1} /\ o[2] \in {0, 1}
            /\ o[1] = 1 => lx # 0
            /\ o[2] = 1 => ly # 0
        BY Corner DEF Weighted
      <4> DEFINE i == o[1]
                 j == o[2]
      <4>2. i \in {0, 1} /\ j \in {0, 1} /\ (i = 1 => sx % u # 0)
            /\ (j = 1 => sy % u # 0)
        BY <4>1
      <4>3. \/ sx <= -u \/ sx >= p.width * u
            \/ sy <= -u \/ sy >= p.height * u
        BY <2>5 DEF OutOfRange
      <4>4. \/ x + i \notin 0 .. p.width - 1
            \/ y + j \notin 0 .. p.height - 1
        <5> DEFINE w == p.width
                   h == p.height
        <5>1. w \in Nat /\ h \in Nat
          BY <2>2
        <5>2. \/ sx <= -u \/ sx >= w * u
              \/ sy <= -u \/ sy >= h * u
          BY <4>3
        <5> HIDE DEF sx, sy, u, i, j, p, w, h
        <5>3. CASE sx <= -u \/ sx >= w * u
          <6>1. (sx \div u) + i \notin 0 .. w - 1
            BY <2>1, <4>2, <5>1, <5>3, Outside
          <6> QED
            BY <6>1 DEF w
        <5>4. CASE sy <= -u \/ sy >= h * u
          <6>1. (sy \div u) + j \notin 0 .. h - 1
            BY <2>1, <4>2, <5>1, <5>4, Outside
          <6> QED
            BY <6>1 DEF h
        <5> QED
          BY <5>2, <5>3, <5>4
      <4>5. ext[o] = Extended(count, p, x + i, y + j, c)
        BY <4>1
      <4> HIDE DEF x, y, p, i, j, ext
      <4> QED
        BY <4>4, <4>5 DEF Extended
    <3>3. Blend(lx, ly, ext) = Grey
      <4> HIDE DEF lx, ly, ext
      <4> QED
        BY <3>2 DEF Blend
    <3> QED
      BY <1>3, <2>4, <3>1, <3>3
  <2>6. CASE ~OutOfRange(p, dx, dy)
    <3>1. x \in -1 .. p.width - 1 /\ y \in -1 .. p.height - 1
      <4> DEFINE w == p.width
                 h == p.height
      <4>1. /\ sx > -u /\ sx < w * u /\ sy > -u /\ sy < h * u
            /\ w \in Nat /\ h \in Nat
        <5>1. /\ ~(sx <= -u) /\ ~(sx >= w * u)
              /\ ~(sy <= -u) /\ ~(sy >= h * u)
          BY <2>6 DEF OutOfRange
        <5>2. w * u \in Int /\ h * u \in Int
          BY <2>1, <2>2
        <5> HIDE DEF sx, sy, u
        <5> QED
          BY <2>1, <2>2, <5>1, <5>2
      <4> HIDE DEF sx, sy, u, w, h
      <4>2. (sx \div u) \in -1 .. w - 1 /\ (sy \div u) \in -1 .. h - 1
        BY <2>1, <4>1, Inside
      <4> QED
        BY <4>2 DEF w, h
    <3>2. KernelSample(<<dx, dy, 0>>, c) = Blend(lx, ly, tap)
      BY <1>3, <2>6 DEF KernelSample
    <3>3. ASSUME NEW o \in Corners
          PROVE  tap[o] = ext[o]
      <4> DEFINE i == o[1]
                 j == o[2]
      <4>1. i \in {0, 1} /\ j \in {0, 1}
        BY Corner
      <4>2. Tests(p, x, y, o) <=>
                x + i \in 0 .. p.width - 1 /\ y + j \in 0 .. p.height - 1
        <5> HIDE DEF x, y
        <5> QED
          BY <2>2, <3>1, <4>1 DEF Tests
      <4>3. tap[o] = IF Tests(p, x, y, o)
                     THEN Byte(ReadAddress(p, 0, x + i, y + j, c)) ELSE Grey
        OBVIOUS
      <4>4. ext[o] = Extended(count, p, x + i, y + j, c)
        OBVIOUS
      <4>5. CASE Tests(p, x, y, o)
        <5> DEFINE xi == x + i
                   yj == y + j
        <5>1. xi \in 0 .. p.width - 1 /\ yj \in 0 .. p.height - 1
          BY <4>2, <4>5
        <5> HIDE DEF xi, yj
        <5>2. /\ ReadAddress(p, 0, xi, yj, c)
                     = yj * (p.width * 3) + xi * 3 + c
              /\ ReadAddress(p, 0, xi, yj, c) \in 0 .. ImgSize(p) - 1
          BY <1>1, <5>1, Address
        <5> DEFINE a == ReadAddress(p, 0, xi, yj, c)
        <5>3. a \in 0 .. SrcSize - 1 /\ a < ImgSize(p) /\ a \in DOMAIN src
          <6> DEFINE n == ImgSize(p)
          <6>1. a \in 0 .. n - 1 /\ n \in Nat /\ n <= SrcSize
            BY <2>2, <5>2
          <6>2. DOMAIN src = 0 .. SrcSize - 1
            BY DEF WarpTypeOK
          <6> HIDE DEF a, n
          <6>3. a \in 0 .. SrcSize - 1 /\ a < n
            BY <2>2, <6>1
          <6> QED
            BY <6>2, <6>3 DEF n
        <5>4. src[a] = <<count, a>>
          BY <5>3 DEF Loaded
        <5>5. Byte(a) = <<count, a>>
          BY <5>3, <5>4 DEF Byte
        <5>6. Extended(count, p, xi, yj, c) = <<count, a>>
          BY <5>1, <5>2 DEF Extended
        <5> QED
          BY <4>3, <4>4, <4>5, <5>5, <5>6 DEF xi, yj
      <4>6. CASE ~Tests(p, x, y, o)
        <5>1. Extended(count, p, x + i, y + j, c) = Grey
          <6> HIDE DEF x, y, i, j, p
          <6> QED
            BY <4>2, <4>6 DEF Extended
        <5> QED
          BY <4>3, <4>4, <4>6, <5>1
      <4> QED
        BY <4>5, <4>6
    <3>4. tap = ext
      BY <3>3
    <3> QED
      BY <1>3, <2>4, <3>2, <3>4
  <2> QED
    BY <2>5, <2>6
<1> QED
  BY <1>2, <1>3

-----------------------------------------------------------------------------
\* The threads are the cells, once for each picture of a batch.
LEMMA ThreadsAre ==
    ASSUME WarpTypeOK
    PROVE  Threads = (0 .. DstW - 1) \X (0 .. DstH - 1) \X (0 .. batch - 1)
<1>1. /\ DstW \in Nat /\ DstH \in Nat /\ batch \in Nat
      /\ BlockSide \in Nat \ {0} /\ BlockDepth \in Nat \ {0}
  BY Sizes, WarpAssumption DEF WarpTypeOK
<1> DEFINE gw == Grid(DstW, BlockSide)
           gh == Grid(DstH, BlockSide)
           gd == Grid(batch, BlockDepth)
<1>2. /\ gw \in Nat /\ gw >= DstW /\ gh \in Nat /\ gh >= DstH
      /\ gd \in Nat /\ gd >= batch
  BY <1>1, GridCovers
<1>3. Threads = {t \in (0 .. gw - 1) \X (0 .. gh - 1) \X (0 .. gd - 1) :
                    t[1] < DstW /\ t[2] < DstH /\ t[3] < batch}
  BY DEF Threads
<1> HIDE DEF gw, gh, gd
<1> QED
  BY <1>1, <1>2, <1>3

\* Cells that are computed and written are those of the thread.
LEMMA WritesOf ==
    ASSUME WarpTypeOK, NEW t \in pending, NEW cell \in Cells
    PROVE  (AddressOf(cell) \in Writes(t)) <=> t = <<cell[1], cell[2], 0>>
<1>1. /\ t \in (0 .. DstW - 1) \X (0 .. DstH - 1) \X (0 .. batch - 1)
      /\ batch \in Nat
  BY DEF WarpTypeOK
<1>2. /\ t[1] \in 0 .. DstW - 1 /\ t[2] \in 0 .. DstH - 1 /\ t[3] \in Nat
      /\ t = <<t[1], t[2], t[3]>>
  BY <1>1
<1>3. cell \in (0 .. DstW - 1) \X (0 .. DstH - 1) \X Planes
  BY DEF Cells
<1>4. CASE t[3] = 0
  <2>1. ASSUME t = <<cell[1], cell[2], 0>>
        PROVE  AddressOf(cell) \in Writes(t)
    <3>1. AddressOf(cell) = WriteAddress(t[3], cell[3], t[1], t[2])
      BY <2>1 DEF AddressOf
    <3> QED
      BY <1>3, <3>1 DEF Writes
  <2>2. ASSUME AddressOf(cell) \in Writes(t)
        PROVE  t = <<cell[1], cell[2], 0>>
    <3>1. PICK plane \in Planes :
              AddressOf(cell) = WriteAddress(t[3], plane, t[1], t[2])
      BY <2>2 DEF Writes
    <3> DEFINE other == <<t[1], t[2], plane>>
    <3>2. other \in Cells /\ AddressOf(other) = AddressOf(cell)
      BY <1>2, <1>4, <3>1 DEF Cells, AddressOf
    <3>3. other = cell
      BY <3>2, CellsApart
    <3> QED
      BY <1>2, <1>4, <3>3
  <2> QED
    BY <2>1, <2>2
<1>5. CASE t[3] # 0
  <2>1. t # <<cell[1], cell[2], 0>>
    BY <1>5
  <2>2. ASSUME NEW plane \in Planes
        PROVE  WriteAddress(t[3], plane, t[1], t[2]) # AddressOf(cell)
    <3> DEFINE other == <<t[1], t[2], plane>>
               k == t[3]
    <3>1. other \in Cells
      BY <1>2 DEF Cells
    <3>2. /\ AddressOf(other) \in 0 .. DstSize - 1
          /\ AddressOf(cell) \in 0 .. DstSize - 1
      BY <3>1, CellAddress
    <3>3. k * DstSize >= DstSize /\ k * DstSize \in Nat
      <4>1. k \in Nat \ {0} /\ DstSize \in Nat
        BY <1>2, <1>5, Sizes
      <4> HIDE DEF k
      <4> QED
        BY <4>1
    <3>4. WriteAddress(t[3], plane, t[1], t[2])
              = k * DstSize + AddressOf(other)
      <4>1. /\ (DstW * DstH) * plane \in Int /\ t[2] * DstW \in Int
            /\ 0 * DstSize = 0
        BY <1>2, Sizes DEF Planes
      <4>2. AddressOf(other) = 0 * DstSize + (DstW * DstH) * plane
                                   + t[2] * DstW + t[1]
        BY DEF AddressOf, WriteAddress
      <4>3. WriteAddress(t[3], plane, t[1], t[2])
                = k * DstSize + (DstW * DstH) * plane + t[2] * DstW + t[1]
        BY DEF WriteAddress
      <4> DEFINE y == (DstW * DstH) * plane
                 z == t[2] * DstW
                 kd == k * DstSize
      <4>4. y \in Int /\ z \in Int /\ kd \in Int /\ t[1] \in Int
        BY <1>2, <3>3, <4>1
      <4>5. AddressOf(other) = 0 + y + z + t[1]
        BY <4>1, <4>2
      <4>6. WriteAddress(t[3], plane, t[1], t[2]) = kd + y + z + t[1]
        BY <4>3
      <4> HIDE DEF y, z, kd, k, other
      <4> QED
        BY <4>4, <4>5, <4>6 DEF kd
    <3> HIDE DEF other, k
    <3> QED
      BY <3>2, <3>3, <3>4, Sizes
  <2> QED
    BY <2>1, <2>2 DEF Writes
<1> QED
  BY <1>4, <1>5

-----------------------------------------------------------------------------
(***************************************************************************)
(* The inductive invariant.                                                *)
(***************************************************************************)
Shown(cell) == dst[AddressOf(cell)] = Expected(cell[1], cell[2], cell[3])

\* The kernel runs for a copied picture only, and what it has done is right.
Done ==
    /\ pending # {} => path = "gpu"
    /\ path = "gpu" /\ Fits(picture) =>
          \A cell \in Cells : <<cell[1], cell[2], 0>> \notin pending => Shown(cell)
    /\ path = "cpu" /\ picture = Configured /\ app_mode = "YOLOV5_MODE" =>
          \A cell \in Cells : Shown(cell)

IInv == WarpTypeOK /\ Loaded /\ Done

LEMMA InitOK == Init => IInv
<1> SUFFICES ASSUME Init PROVE IInv
  OBVIOUS
<1>1. WarpTypeOK
  <2>1. [a \in 0 .. SrcSize - 1 |-> <<0, a>>]
            \in [0 .. SrcSize - 1 -> (0 .. 0) \X Nat]
    BY Sizes
  <2>2. src \in [0 .. SrcSize - 1 -> (0 .. count) \X Nat]
    BY <2>1 DEF Init
  <2>3. DOMAIN dst = 0 .. DstSize - 1
    BY DEF Init
  <2>4. /\ batch \in 1 .. MaxBatch /\ app_mode \in {"YOLOV5_MODE", "YOLOX_MODE"}
        /\ count = 0 /\ picture = Configured /\ path = "none" /\ overrun = FALSE
    BY DEF Init
  <2>6. 0 \in 0 .. MaxPictures
    BY WarpAssumption
  <2>5. pending = {}
    BY DEF Init
  <2> QED
    BY <2>2, <2>3, <2>4, <2>5, <2>6 DEF WarpTypeOK
<1> QED
  BY <1>1 DEF Init, IInv, Loaded, Done

LEMMA GpuOK ==
    ASSUME IInv, NEW p \in Pictures, GpuPreprocessor(p)
    PROVE  IInv'
<1> USE DEF IInv
<1>1. /\ batch' = batch /\ app_mode' = app_mode /\ dst' = dst
      /\ overrun' = overrun /\ count' = count + 1 /\ picture' = p
      /\ path' = "gpu" /\ pending' = Threads /\ count < MaxPictures
  BY DEF GpuPreprocessor
<1>2. src' = IF Fits(p)
             THEN [a \in 0 .. SrcSize - 1 |->
                      IF a < ImgSize(p) THEN <<count + 1, a>> ELSE src[a]]
             ELSE src
  BY DEF GpuPreprocessor, WarpTypeOK
<1>3. src' \in [0 .. SrcSize - 1 -> (0 .. count + 1) \X Nat]
  <2>1. count \in Nat /\ src \in [0 .. SrcSize - 1 -> (0 .. count) \X Nat]
    BY WarpAssumption DEF WarpTypeOK
  <2>2. ASSUME NEW a \in 0 .. SrcSize - 1
        PROVE  /\ src[a] \in (0 .. count + 1) \X Nat
               /\ <<count + 1, a>> \in (0 .. count + 1) \X Nat
    <3>1. src[a] \in (0 .. count) \X Nat
      BY <2>1
    <3>2. (0 .. count) \subseteq 0 .. count + 1 /\ a \in Nat
      BY <2>1, Sizes
    <3> QED
      BY <2>1, <3>1, <3>2
  <2>3. CASE Fits(p)
    BY <1>2, <2>2, <2>3
  <2>4. CASE ~Fits(p)
    BY <1>2, <2>1, <2>2, <2>4
  <2> QED
    BY <2>3, <2>4
<1>4. WarpTypeOK'
  BY <1>1, <1>3, ThreadsAre, WarpAssumption DEF WarpTypeOK
<1>5. Loaded'
  <2> SUFFICES ASSUME Fits(p), NEW a \in 0 .. SrcSize - 1, a < ImgSize(p)
               PROVE  src'[a] = <<count', a>>
    BY <1>1 DEF Loaded, Fits, ImgSize
  <2> QED
    BY <1>1, <1>2
<1>6. Done'
  <2>1. ASSUME NEW cell \in Cells
        PROVE  <<cell[1], cell[2], 0>> \in pending'
    <3>1. 0 \in 0 .. batch - 1
      BY WarpAssumption DEF WarpTypeOK
    <3> QED
      BY <1>1, <3>1, CellAddress, ThreadsAre
  <2> QED
    BY <1>1, <2>1 DEF Done
<1> QED
  BY <1>4, <1>5, <1>6

LEMMA WarpOK ==
    ASSUME IInv, NEW t \in pending, Warp(t)
    PROVE  IInv'
<1> USE DEF IInv
<1>1. /\ batch' = batch /\ app_mode' = app_mode /\ count' = count
      /\ picture' = picture /\ src' = src /\ path' = path
      /\ pending' = pending \ {t} /\ overrun' = (overrun \/ Overruns(t))
      /\ path = "gpu"
  BY DEF Warp, Done
<1>2. dst' = [a \in DOMAIN dst |->
                 IF a \in Writes(t)
                 THEN KernelCell(t, CHOOSE plane \in Planes :
                             a = WriteAddress(t[3], plane, t[1], t[2]))
                 ELSE dst[a]]
  BY DEF Warp
<1>3. WarpTypeOK'
  <2>1. overrun' \in BOOLEAN
    BY <1>1 DEF WarpTypeOK, Overruns
  <2>2. DOMAIN dst' = 0 .. DstSize - 1
    BY <1>2 DEF WarpTypeOK
  <2> QED
    BY <1>1, <2>1, <2>2 DEF WarpTypeOK
<1>4. Loaded'
  BY <1>1 DEF Loaded
<1>5. Done'
  <2> SUFFICES ASSUME Fits(picture), NEW cell \in Cells,
                      <<cell[1], cell[2], 0>> \notin pending \ {t}
               PROVE  Shown(cell)'
    BY <1>1 DEF Done
  <2>1. /\ AddressOf(cell) \in DOMAIN dst
        /\ cell[1] \in 0 .. DstW - 1 /\ cell[2] \in 0 .. DstH - 1
        /\ cell[3] \in 0 .. 2
    BY CellAddress DEF WarpTypeOK
  <2>2. Expected(cell[1], cell[2], cell[3])'
            = Expected(cell[1], cell[2], cell[3])
    BY <1>1 DEF Expected
  <2>3. CASE t = <<cell[1], cell[2], 0>>
    <3>1. AddressOf(cell) \in Writes(t)
      BY <2>3, WritesOf
    <3> DEFINE plane == CHOOSE plane \in Planes :
                            AddressOf(cell)
                                = WriteAddress(t[3], plane, t[1], t[2])
    <3>2. plane \in Planes
          /\ AddressOf(cell) = WriteAddress(t[3], plane, t[1], t[2])
      BY <3>1 DEF Writes
    <3>3. plane = cell[3]
      <4> DEFINE other == <<t[1], t[2], plane>>
      <4>1. other \in Cells /\ AddressOf(other) = AddressOf(cell)
        <5> HIDE DEF plane
        <5> QED
          BY <2>1, <2>3, <3>2 DEF Cells, AddressOf
      <4>2. other = cell
        BY <4>1, CellsApart
      <4> HIDE DEF plane
      <4> QED
        BY <4>2
    <3>4. dst'[AddressOf(cell)] = KernelCell(t, cell[3])
      BY <1>2, <2>1, <3>1, <3>3
    <3> DEFINE c == Channel(app_mode, cell[3])
    <3>5. c \in 0 .. 2
      BY <2>1 DEF Channel
    <3>6. KernelSample(t, c) =
              IF Empty(picture) THEN NaN
              ELSE SampleOf(count, picture, picture, cell[1], cell[2], c)
      <4> HIDE DEF c
      <4> QED
        BY <1>1, <2>1, <2>3, <3>5, KernelRight
    <3> QED
      BY <2>2, <3>4, <3>6 DEF KernelCell, Shown, Expected
  <2>4. CASE t # <<cell[1], cell[2], 0>>
    <3>1. AddressOf(cell) \notin Writes(t)
      BY <2>4, WritesOf
    <3>2. dst'[AddressOf(cell)] = dst[AddressOf(cell)]
      BY <1>2, <2>1, <3>1
    <3>3. Shown(cell)
      BY <1>1, <2>4 DEF Done
    <3> QED
      BY <2>2, <3>2, <3>3 DEF Shown
  <2> QED
    BY <2>3, <2>4
<1> QED
  BY <1>3, <1>4, <1>5

LEMMA CpuOK ==
    ASSUME IInv, NEW p \in Pictures, CpuPreprocessor(p)
    PROVE  IInv'
<1> USE DEF IInv
<1>1. /\ batch' = batch /\ app_mode' = app_mode /\ src' = src
      /\ overrun' = overrun /\ count' = count + 1 /\ picture' = p
      /\ path' = (IF Empty(p) THEN "thrown" ELSE "cpu")
      /\ pending' = pending /\ pending = {} /\ count < MaxPictures
  BY DEF CpuPreprocessor
<1>2. dst' = IF Empty(p) THEN dst
             ELSE [a \in DOMAIN dst |->
                     LET cell == CellAt(a)
                     IN  Stored("YOLOV5_MODE",
                                SampleOf(count + 1, p, Configured, cell[1],
                                         cell[2], 2 - cell[3]))]
  BY DEF CpuPreprocessor
<1>3. WarpTypeOK'
  <2>1. src \in [0 .. SrcSize - 1 -> (0 .. count + 1) \X Nat]
    <3>1. count \in Nat /\ src \in [0 .. SrcSize - 1 -> (0 .. count) \X Nat]
      BY WarpAssumption DEF WarpTypeOK
    <3>2. (0 .. count) \X Nat \subseteq (0 .. count + 1) \X Nat
      BY <3>1
    <3> QED
      BY <3>1, <3>2
  <2>2. DOMAIN dst' = 0 .. DstSize - 1
    BY <1>2 DEF WarpTypeOK
  <2> QED
    BY <1>1, <2>1, <2>2, WarpAssumption DEF WarpTypeOK
<1>4. Loaded'
  BY <1>1 DEF Loaded
<1>5. Done'
  <2> SUFFICES ASSUME p = Configured, app_mode = "YOLOV5_MODE",
                      NEW cell \in Cells
               PROVE  Shown(cell)'
    BY <1>1 DEF Done, Configured
  <2>1. ~Empty(Configured)
    BY WarpAssumption DEF Empty, Configured
  <2>2. AddressOf(cell) \in DOMAIN dst
    BY CellAddress DEF WarpTypeOK
  <2>3. CellAt(AddressOf(cell)) = cell
    <3>1. /\ CellAt(AddressOf(cell)) \in Cells
          /\ AddressOf(CellAt(AddressOf(cell))) = AddressOf(cell)
      BY DEF CellAt
    <3> QED
      BY <3>1, CellsApart
  <2>4. dst'[AddressOf(cell)] =
            Stored("YOLOV5_MODE",
                   SampleOf(count + 1, p, Configured, cell[1], cell[2],
                            2 - cell[3]))
    BY <1>2, <2>1, <2>2, <2>3
  <2>5. Expected(cell[1], cell[2], cell[3])' =
            Stored("YOLOV5_MODE",
                   SampleOf(count + 1, p, Configured, cell[1], cell[2],
                            2 - cell[3]))
    BY <1>1, <2>1 DEF Expected, Channel
  <2> QED
    BY <2>4, <2>5 DEF Shown
<1> QED
  BY <1>3, <1>4, <1>5

LEMMA StepOK == IInv /\ [Next]_vars => IInv'
<1> SUFFICES ASSUME IInv, [Next]_vars PROVE IInv'
  OBVIOUS
<1>1. ASSUME NEW p \in Pictures, GpuPreprocessor(p) PROVE IInv'
  BY <1>1, GpuOK
<1>2. ASSUME NEW p \in Pictures, CpuPreprocessor(p) PROVE IInv'
  BY <1>2, CpuOK
<1>3. ASSUME NEW t \in pending, Warp(t) PROVE IInv'
  BY <1>3, WarpOK
<1>4. CASE UNCHANGED vars
  BY <1>4 DEF vars, IInv, WarpTypeOK, Loaded, Done, Shown, Expected
<1> QED
  BY <1>1, <1>2, <1>3, <1>4 DEF Next

LEMMA InvOK == Spec => []IInv
BY InitOK, StepOK, PTL DEF Spec

-----------------------------------------------------------------------------
\* The buffers keep their sizes, and the threads waiting are threads of the
\* kernel.
THEOREM TypeCorrect == Spec => []WarpTypeOK
<1>1. IInv => WarpTypeOK
  BY DEF IInv
<1> QED
  BY <1>1, InvOK, PTL

\* Whatever pictures came before, and in whatever order the threads ran: when
\* they are done the input shows the last picture, centred on grey.
THEOREM ImageIsComplete == Spec => []ImageComplete
<1>1. IInv => ImageComplete
  BY DEF IInv, Done, Shown, ImageComplete
<1> QED
  BY <1>1, InvOK, PTL

\* A thread leaves a buffer only where there is more than one picture in the
\* batch or the picture is too large, so the kernel's own arithmetic is right.
THEOREM OverrunsExplained == Spec => OverrunExplained
<1>1. ASSUME IInv, [Next]_vars
      PROVE  overrun' => overrun \/ batch > 1 \/ ~Fits(picture)
  <2> SUFFICES ASSUME overrun', ~overrun, Fits(picture), ~(batch > 1)
               PROVE  FALSE
    OBVIOUS
  <2>1. PICK t \in pending : Warp(t)
    BY <1>1 DEF Next, GpuPreprocessor, CpuPreprocessor, vars
  <2>2. Overruns(t) /\ path = "gpu"
    BY <1>1, <2>1 DEF Warp, IInv, Done
  <2>3. /\ t \in (0 .. DstW - 1) \X (0 .. DstH - 1) \X (0 .. batch - 1)
        /\ batch \in 1 .. MaxBatch /\ MaxBatch \in Nat
    BY <1>1, WarpAssumption DEF IInv, WarpTypeOK
  <2>4. /\ t[1] \in 0 .. DstW - 1 /\ t[2] \in 0 .. DstH - 1 /\ t[3] = 0
    BY <2>3
  <2>5. ASSUME NEW plane \in Planes
        PROVE  WriteAddress(t[3], plane, t[1], t[2]) \in DOMAIN dst
    <3> DEFINE cell == <<t[1], t[2], plane>>
    <3>1. cell \in Cells
      BY <2>4 DEF Cells
    <3>2. AddressOf(cell) \in 0 .. DstSize - 1
      BY <3>1, CellAddress
    <3>3. AddressOf(cell) = WriteAddress(t[3], plane, t[1], t[2])
      BY <2>4 DEF AddressOf
    <3> QED
      BY <1>1, <3>2, <3>3 DEF IInv, WarpTypeOK
  <2>6. ASSUME NEW c \in Planes, NEW a \in Reads(t, c), ~Empty(picture)
        PROVE  a \in DOMAIN src
    <3> DEFINE p == picture
               x == SrcX(p, t[1]) \div Unit(p)
               y == SrcY(p, t[2]) \div Unit(p)
    <3>1. ~Empty(p) /\ ~OutOfRange(p, t[1], t[2])
      BY <2>6 DEF Reads
    <3>2. PICK o \in Corners :
              /\ Tests(p, x, y, o)
              /\ a = ReadAddress(p, t[3], x + o[1], y + o[2], c)
      BY <2>6, <3>1 DEF Reads, XLow, YLow
    <3>3. p \in Picture
      BY <1>1 DEF IInv, WarpTypeOK, Picture
    <3>4. x \in -1 .. p.width - 1 /\ y \in -1 .. p.height - 1
      <4> DEFINE w == p.width
                 h == p.height
                 u == Unit(p)
                 sx == SrcX(p, t[1])
                 sy == SrcY(p, t[2])
      <4>1. /\ u \in Nat \ {0} /\ sx \in Int /\ sy \in Int
            /\ w \in Nat /\ h \in Nat
        BY <2>4, <3>1, <3>3, Scale, Projected, Sides
      <4>2. /\ ~(sx <= -u) /\ ~(sx >= w * u)
            /\ ~(sy <= -u) /\ ~(sy >= h * u)
        BY <3>1 DEF OutOfRange
      <4>3. w * u \in Int /\ h * u \in Int
        BY <4>1
      <4> HIDE DEF sx, sy, u, w, h
      <4>4. sx > -u /\ sx < w * u /\ sy > -u /\ sy < h * u
        BY <4>1, <4>2, <4>3
      <4>5. (sx \div u) \in -1 .. w - 1 /\ (sy \div u) \in -1 .. h - 1
        BY <4>1, <4>4, Inside
      <4> QED
        BY <4>5 DEF w, h, u, sx, sy
    <3> DEFINE i == o[1]
               j == o[2]
               xi == x + i
               yj == y + j
    <3>5. xi \in 0 .. p.width - 1 /\ yj \in 0 .. p.height - 1
      <4>1. i \in {0, 1} /\ j \in {0, 1} /\ p.width \in Nat /\ p.height \in Nat
        BY Corner, <3>3, Sides
      <4> HIDE DEF x, y
      <4> QED
        BY <3>2, <3>4, <4>1 DEF Tests
    <3>6. a = ReadAddress(p, 0, xi, yj, c)
      BY <2>4, <3>2
    <3> HIDE DEF xi, yj
    <3>7. a \in 0 .. ImgSize(p) - 1
      BY <3>3, <3>5, <3>6, Address DEF Planes
    <3>8. ImgSize(p) \in Nat /\ ImgSize(p) <= SrcSize
      BY <3>3, Sides
    <3> QED
      BY <1>1, <3>7, <3>8, Sizes DEF IInv, WarpTypeOK
  <2>7. ASSUME NEW c \in Planes, NEW a \in Reads(t, c), Empty(picture)
        PROVE  a \in DOMAIN src
    <3>1. picture.width = 0 /\ picture.height = 0
      BY <1>1, <2>7, WarpAssumption DEF IInv, WarpTypeOK, Empty, Configured
    <3>2. PICK o \in Corners :
              /\ Tests(picture, 0, 0, o)
              /\ a = ReadAddress(picture, t[3], 0 + o[1], 0 + o[2], c)
      BY <2>7 DEF Reads, XLow, YLow
    <3>3. o[1] = 0 /\ o[2] = 0
      BY <3>1, <3>2, Corner DEF Tests
    <3>4. a \in 0 .. 2
      BY <2>4, <3>1, <3>2, <3>3 DEF ReadAddress, Planes
    <3>5. SrcSize >= 3 /\ SrcSize \in Nat
      <4>1. SrcW \in Nat \ {0} /\ SrcH \in Nat \ {0}
        BY WarpAssumption
      <4>2. SrcW * SrcH \in Nat /\ SrcW * SrcH >= 1
        BY <4>1
      <4> QED
        BY <4>2 DEF SrcSize
    <3> QED
      BY <1>1, <3>4, <3>5 DEF IInv, WarpTypeOK
  <2> QED
    BY <2>2, <2>5, <2>6, <2>7 DEF Overruns, Writes
<1> QED
  BY <1>1, InvOK, PTL DEF Spec, OverrunExplained

-----------------------------------------------------------------------------
LEMMA PictureOK ==
    ASSUME WarpTypeOK
    PROVE  picture \in Picture
BY DEF WarpTypeOK, Picture

\* The centres of pixels are mapped forth and back to each other, for every
\* picture and every input.
THEOREM CentresMeet == Spec => []CentresAgree
<1>1. ASSUME NEW p \in Picture, ~Empty(p), NEW at \in Nat, NEW src_ \in Nat,
             NEW dst_ \in Nat
      PROVE  ScaleBack(p, 2 * at + 1, src_, dst_)
                 = Project(p, at, src_, dst_) + Num(p)
  <2> DEFINE n == Num(p)
             d == Den(p)
  <2>1. n \in Nat /\ d \in Nat
    BY <1>1, Scale
  <2>2. /\ at * d \in Int /\ dst_ * d \in Int /\ src_ * n \in Int
        /\ n * src_ = src_ * n /\ (2 * at + 1) * d = 2 * (at * d) + d
        /\ 2 * at * d = 2 * (at * d)
    BY <2>1
  <2>3. /\ ScaleBack(p, 2 * at + 1, src_, dst_)
              = (2 * at + 1) * d - (dst_ * d - src_ * n)
        /\ Project(p, at, src_, dst_)
              = 2 * at * d + n * src_ - dst_ * d - n + d
    BY DEF ScaleBack, Project
  <2> HIDE DEF n, d
  <2>4. ScaleBack(p, 2 * at + 1, src_, dst_) = Project(p, at, src_, dst_) + n
    BY <2>1, <2>2, <2>3
  <2> QED
    BY <2>4 DEF n
<1>2. IInv => CentresAgree
  <2> SUFFICES ASSUME IInv, ~Empty(picture)
               PROVE  CentresAgree
    BY DEF CentresAgree
  <2>1. /\ picture \in Picture /\ picture.width \in Nat
        /\ picture.height \in Nat /\ DstW \in Nat /\ DstH \in Nat
    BY PictureOK, Sides, Sizes DEF IInv
  <2>2. ASSUME NEW dx \in 0 .. DstW - 1
        PROVE  ScaleBack(picture, 2 * dx + 1, picture.width, DstW)
                   = SrcX(picture, dx) + Num(picture)
    <3>1. dx \in Nat
      BY <2>1
    <3> QED
      BY <1>1, <2>1, <3>1 DEF SrcX
  <2>3. ASSUME NEW dy \in 0 .. DstH - 1
        PROVE  ScaleBack(picture, 2 * dy + 1, picture.height, DstH)
                   = SrcY(picture, dy) + Num(picture)
    <3>1. dy \in Nat
      BY <2>1
    <3> QED
      BY <1>1, <2>1, <3>1 DEF SrcY
  <2> QED
    BY <2>2, <2>3 DEF CentresAgree
<1> QED
  BY <1>2, InvOK, PTL

\* The borders of the input are mapped to those of the picture, or outside and
\* then to them.
THEOREM WholePicture == Spec => []WholePictureReached
<1>1. ASSUME NEW p \in Picture, ~Empty(p), NEW src_ \in Nat, NEW dst_ \in Nat,
             dst_ * Den(p) >= src_ * Num(p)
      PROVE  /\ ScaleBox(p, 0, src_, dst_) = 0
             /\ ScaleBox(p, 2 * dst_, src_, dst_) = src_ * Unit(p)
  <2> DEFINE a == dst_ * Den(p)
             b == src_ * Num(p)
             s == src_ * Unit(p)
             low == ScaleBack(p, 0, src_, dst_)
             high == ScaleBack(p, 2 * dst_, src_, dst_)
  <2>1. Num(p) \in Nat /\ Den(p) \in Nat /\ Unit(p) = 2 * Num(p)
    BY <1>1, Scale
  <2>2. a \in Nat /\ b \in Nat /\ s = 2 * b /\ a >= b
    BY <1>1, <2>1
  <2>3. low = b - a /\ high = a + b
    <3>1. 2 * dst_ * Den(p) = 2 * a /\ 0 * Den(p) = 0
      BY <2>1
    <3>2. low = 0 * Den(p) - (a - b) /\ high = 2 * dst_ * Den(p) - (a - b)
      BY DEF ScaleBack
    <3> HIDE DEF a, b, low, high
    <3> QED
      BY <2>2, <3>1, <3>2
  <2>4. /\ ScaleBox(p, 0, src_, dst_) = Clamp(low, 0, s)
        /\ ScaleBox(p, 2 * dst_, src_, dst_) = Clamp(high, 0, s)
    BY DEF ScaleBox
  <2>5. Clamp(low, 0, s) = 0 /\ Clamp(high, 0, s) = s
    <3> HIDE DEF a, b, s, low, high
    <3> QED
      BY <2>2, <2>3 DEF Clamp
  <2> QED
    BY <2>4, <2>5
<1>2. IInv => WholePictureReached
  <2> SUFFICES ASSUME IInv, ~Empty(picture)
               PROVE  WholePictureReached
    BY DEF WholePictureReached
  <2>1. /\ picture \in Picture /\ picture.width \in Nat
        /\ picture.height \in Nat /\ DstW \in Nat /\ DstH \in Nat
    BY PictureOK, Sides, Sizes DEF IInv
  <2>2. /\ DstW * Den(picture) >= picture.width * Num(picture)
        /\ DstH * Den(picture) >= picture.height * Num(picture)
    BY <2>1, Scale
  <2>3. /\ ScaleBox(picture, 0, picture.width, DstW) = 0
        /\ ScaleBox(picture, 2 * DstW, picture.width, DstW)
               = picture.width * Unit(picture)
    BY <1>1, <2>1, <2>2
  <2>4. /\ ScaleBox(picture, 0, picture.height, DstH) = 0
        /\ ScaleBox(picture, 2 * DstH, picture.height, DstH)
               = picture.height * Unit(picture)
    BY <1>1, <2>1, <2>2
  <2> QED
    BY <2>3, <2>4 DEF WholePictureReached, ScaledX, ScaledY
<1> QED
  BY <1>2, InvOK, PTL
=============================================================================
