------------------------------ MODULE WarpAffine -----------------------------
(***************************************************************************)
(* PreProcessor::Inference: pictures of different sizes go, one after the  *)
(* other, through the same two device buffers.  GpuPreprocessor copies the *)
(* bytes of a picture to input_data_device_ and launches the kernel of     *)
(* cuda/warpaffine.cu, one thread per pixel of the network's input;        *)
(* CpuPreprocessor, which the application does not ask for, has OpenCV do  *)
(* it.                                                                     *)
(*                                                                         *)
(* Memory is indexed as in the code.  A byte is the number of the picture  *)
(* it belongs to and its offset there.  A cell of the input is the blend   *)
(* it was computed from: the position between four bytes, and those of the *)
(* four whose weight is not zero.                                          *)
(***************************************************************************)
EXTENDS Letterbox

CONSTANTS
    Pictures,       \* the sizes of pictures that may come
    SrcW, SrcH,     \* src_img_w_, src_img_h_, for three channels
    MaxBatch,       \* bound: batchsizes_
    MaxPictures,    \* bound: pictures
    Grey, NaN,      \* 114 in all channels; what comes of an infinite scale
    Garbage,        \* what is in memory that nobody has written
    BlockSide,      \* 16 in the code
    BlockDepth      \* 4 in the code

ASSUME WarpAssumption ==
    /\ Pictures \subseteq [width : Nat, height : Nat]
    /\ \A p \in Pictures : p.width = 0 <=> p.height = 0
    /\ {SrcW, SrcH, DstW, DstH, BlockSide, BlockDepth} \subseteq Nat \ {0}
    /\ MaxBatch \in Nat /\ MaxPictures \in Nat

VARIABLES
    batch, app_mode,    \* the configuration and the build
    count,              \* pictures so far
    picture,            \* the size of the last one
    src,                \* input_data_device_, by byte
    dst,                \* output_img_device_, by cell
    pending,            \* the threads of the kernel still to run
    path,               \* which way the last picture took
    overrun             \* whether a buffer was left

vars == <<batch, app_mode, count, picture, src, dst, pending, path, overrun>>

-----------------------------------------------------------------------------
\* The sizes of the buffers: srcimg_size_ bytes and dstimg_size_ floats.
SrcSize == SrcW * SrcH * 3
DstSize == DstW * DstH * 3

ImgSize(p) == p.width * p.height * 3
Empty(p) == p.width = 0 \/ p.height = 0
Fits(p) == ImgSize(p) <= SrcSize

Configured == [width |-> SrcW, height |-> SrcH]

Init ==
    /\ batch \in 1 .. MaxBatch
    /\ app_mode \in {"YOLOV5_MODE", "YOLOX_MODE"}
    /\ count = 0 /\ picture = Configured
    /\ src = [a \in 0 .. SrcSize - 1 |-> <<0, a>>]
    /\ dst = [a \in 0 .. DstSize - 1 |-> <<FALSE, Garbage>>]
    /\ pending = {} /\ path = "none" /\ overrun = FALSE

-----------------------------------------------------------------------------
\* Blending.  Corner <<i, j>> is the byte i columns right of and j rows below
\* the upper left one; at position 0 the farther ones have no weight.
Corners == {0, 1} \X {0, 1}

Weighted(lx, ly) ==
    {o \in Corners : (o[1] = 1 => lx # 0) /\ (o[2] = 1 => ly # 0)}

Blend(lx, ly, tap) ==
    IF \A o \in Weighted(lx, ly) : tap[o] = Grey THEN Grey
    ELSE [x |-> lx, y |-> ly, taps |-> [o \in Weighted(lx, ly) |-> tap[o]]]

\* YOLOX takes the planes in the picture's order, as they are; YOLOv5 takes
\* them in the opposite order, divided by 255.
Channel(mode, plane) == IF mode = "YOLOX_MODE" THEN plane ELSE 2 - plane

Stored(mode, blend) == <<mode = "YOLOV5_MODE", blend>>

\* What the input should show of picture n: the picture, continued by grey
\* without end, sampled at the projected point.
Extended(n, p, x, y, c) ==
    IF x \in 0 .. p.width - 1 /\ y \in 0 .. p.height - 1
    THEN <<n, y * (p.width * 3) + x * 3 + c>>
    ELSE Grey

SampleOf(n, p, shape, dx, dy, c) ==
    LET u == Unit(shape)
        x == SrcX(shape, dx) \div u
        y == SrcY(shape, dy) \div u
    IN  Blend(SrcX(shape, dx) % u, SrcY(shape, dy) % u,
              [o \in Corners |-> Extended(n, p, x + o[1], y + o[2], c)])

Expected(dx, dy, plane) ==
    Stored(app_mode,
           IF Empty(picture) THEN NaN
           ELSE SampleOf(count, picture, picture, dx, dy,
                         Channel(app_mode, plane)))

-----------------------------------------------------------------------------
ReadAligned(p, k, x, y, c) ==   \* mutant: lines are taken to be longer
    k * (p.width * p.height * 3) + y * (p.width * 3 + 1) + x * 3 + c

\* warp_affine_bilinear_kernel, thread <<dx, dy, k>>.
ReadAddress(p, k, x, y, c) ==
    k * (p.width * p.height * 3) + y * (p.width * 3) + x * 3 + c

WriteAddress(k, plane, dx, dy) ==
    k * DstSize + (DstW * DstH) * plane + dy * DstW + dx

Planes == 0 .. 2

\* A cell is a column, a row and a plane; the address of each is its own.
Cells == (0 .. DstW - 1) \X (0 .. DstH - 1) \X Planes
AddressOf(cell) == WriteAddress(0, cell[3], cell[1], cell[2])
CellAt(a) == CHOOSE cell \in Cells : AddressOf(cell) = a

LowTests(p, x, y, o) ==         \* mutant: the upper bounds are not tested
    (o[1] = 0 => x >= 0) /\ (o[2] = 0 => y >= 0)

\* Which of the four bytes are in the picture.
Tests(p, x, y, o) ==
    /\ IF o[1] = 0 THEN x >= 0 ELSE x + 1 < p.width
    /\ IF o[2] = 0 THEN y >= 0 ELSE y + 1 < p.height

Byte(a) == IF a \in DOMAIN src THEN src[a] ELSE Garbage

OutOfRange(p, dx, dy) ==
    \/ SrcX(p, dx) <= -Unit(p) \/ SrcX(p, dx) >= p.width * Unit(p)
    \/ SrcY(p, dy) <= -Unit(p) \/ SrcY(p, dy) >= p.height * Unit(p)

\* x_low and y_low.  The scale of a picture without pixels is infinite, and
\* what is projected with it is NaN: it is out of no range, and its floor is
\* converted to 0.
XLow(p, dx) == IF Empty(p) THEN 0 ELSE SrcX(p, dx) \div Unit(p)
YLow(p, dy) == IF Empty(p) THEN 0 ELSE SrcY(p, dy) \div Unit(p)

\* The bytes a thread reads.
Reads(t, c) ==
    LET x == XLow(picture, t[1])
        y == YLow(picture, t[2])
    IN  IF ~Empty(picture) /\ OutOfRange(picture, t[1], t[2]) THEN {}
        ELSE {ReadAddress(picture, t[3], x + o[1], y + o[2], c) :
                 o \in {q \in Corners : Tests(picture, x, y, q)}}

\* The weights of a picture without pixels are NaN, and so is the sum.
KernelSample(t, c) ==
    LET u == Unit(picture)
        x == SrcX(picture, t[1]) \div u
        y == SrcY(picture, t[2]) \div u
        tap == [o \in Corners |->
                   IF Tests(picture, x, y, o)
                   THEN Byte(ReadAddress(picture, t[3], x + o[1], y + o[2], c))
                   ELSE Grey]
    IN  IF Empty(picture) THEN NaN
        ELSE IF OutOfRange(picture, t[1], t[2]) THEN Grey
        ELSE Blend(SrcX(picture, t[1]) % u, SrcY(picture, t[2]) % u, tap)

KernelCell(t, plane) ==
    Stored(app_mode, KernelSample(t, Channel(app_mode, plane)))

Writes(t) == {WriteAddress(t[3], plane, t[1], t[2]) : plane \in Planes}

Overruns(t) ==
    \/ \E a \in Writes(t) : a \notin DOMAIN dst
    \/ \E c \in Planes : \E a \in Reads(t, c) : a \notin DOMAIN src

\* The grid covers the input and the batch; threads past their edges return at
\* once.
Grid(n, block) == block * ((n + block - 1) \div block)

Threads ==
    {t \in (0 .. Grid(DstW, BlockSide) - 1) \X (0 .. Grid(DstH, BlockSide) - 1)
              \X (0 .. Grid(batch, BlockDepth) - 1) :
        t[1] < DstW /\ t[2] < DstH /\ t[3] < batch}

-----------------------------------------------------------------------------
\* GpuPreprocessor.  A copy that does not fit fails, and nobody looks.
GpuPreprocessor(p) ==
    /\ pending = {} /\ path # "thrown" /\ count < MaxPictures
    /\ count' = count + 1 /\ picture' = p /\ path' = "gpu"
    /\ src' = IF Fits(p)
              THEN [a \in DOMAIN src |-> IF a < ImgSize(p) THEN <<count + 1, a>>
                                                           ELSE src[a]]
              ELSE src
    /\ pending' = Threads
    /\ UNCHANGED <<batch, app_mode, dst, overrun>>

\* A thread of the kernel.  A write outside the buffer spoils what lies there.
Warp(t) ==
    /\ t \in pending
    /\ pending' = pending \ {t}
    /\ dst' = [a \in DOMAIN dst |->
                  IF a \in Writes(t)
                  THEN KernelCell(t, CHOOSE plane \in Planes :
                              a = WriteAddress(t[3], plane, t[1], t[2]))
                  ELSE dst[a]]
    /\ overrun' = (overrun \/ Overruns(t))
    /\ UNCHANGED <<batch, app_mode, count, picture, src, path>>

\* CpuPreprocessor: the matrix is that of the configured size, the order and
\* the division those of YOLOv5, and one picture is made.  cv::warpAffine
\* throws when there are no pixels.
CpuPreprocessor(p) ==
    /\ pending = {} /\ path # "thrown" /\ count < MaxPictures
    /\ count' = count + 1 /\ picture' = p
    /\ path' = IF Empty(p) THEN "thrown" ELSE "cpu"
    /\ dst' = IF Empty(p) THEN dst
              ELSE [a \in DOMAIN dst |->
                      LET cell == CellAt(a)
                      IN  Stored("YOLOV5_MODE",
                                 SampleOf(count + 1, p, Configured, cell[1],
                                          cell[2], 2 - cell[3]))]
    /\ UNCHANGED <<batch, app_mode, src, pending, overrun>>

Next ==
    \/ \E p \in Pictures : GpuPreprocessor(p) \/ CpuPreprocessor(p)
    \/ \E t \in pending : Warp(t)

Spec == Init /\ [][Next]_vars

-----------------------------------------------------------------------------
WarpTypeOK ==
    /\ batch \in 1 .. MaxBatch /\ app_mode \in {"YOLOV5_MODE", "YOLOX_MODE"}
    /\ count \in 0 .. MaxPictures
    /\ picture \in Pictures \cup {Configured}
    /\ src \in [0 .. SrcSize - 1 -> (0 .. count) \X Nat]
    /\ DOMAIN dst = 0 .. DstSize - 1
    /\ pending \subseteq (0 .. DstW - 1) \X (0 .. DstH - 1) \X (0 .. batch - 1)
    /\ path \in {"none", "gpu", "cpu", "thrown"}
    /\ overrun \in BOOLEAN

\* When the kernel is done every cell of the network's input shows the last
\* picture and no other: none is left from a picture before, of whatever size
\* and aspect, and no byte of one shines through at the edges.  The CPU path
\* makes the same image of a picture of the configured size, for YOLOv5.
ImageComplete ==
    /\ pending = {} /\ ~overrun
    /\ \/ path = "gpu" /\ Fits(picture)
       \/ path = "cpu" /\ picture = Configured /\ app_mode = "YOLOV5_MODE"
    =>
    \A cell \in Cells :
        dst[AddressOf(cell)] = Expected(cell[1], cell[2], cell[3])

\* No buffer is left unless the configuration asks for a batch, of which only
\* the first picture is copied, or the picture is larger than the configured
\* one.
OverrunExplained ==
    [][overrun' => overrun \/ batch > 1 \/ ~Fits(picture)]_vars

\* The way back is the inverse of the way there, although the one maps the
\* centres of pixels and the other the borders between them: the centre of a
\* pixel of the input, as a side of a box, is mapped to the centre of the place
\* that the pixel was sampled from.
CentresAgree ==
    ~Empty(picture) =>
        /\ \A dx \in 0 .. DstW - 1 :
              ScaleBack(picture, 2 * dx + 1, picture.width, DstW)
                  = SrcX(picture, dx) + Num(picture)
        /\ \A dy \in 0 .. DstH - 1 :
              ScaleBack(picture, 2 * dy + 1, picture.height, DstH)
                  = SrcY(picture, dy) + Num(picture)

\* Every place of the picture is seen by some box, and a box over the whole
\* input is mapped to the whole picture.
WholePictureReached ==
    ~Empty(picture) =>
        /\ ScaledX(picture, 0) = 0 /\ ScaledY(picture, 0) = 0
        /\ ScaledX(picture, 2 * DstW) = picture.width * Unit(picture)
        /\ ScaledY(picture, 2 * DstH) = picture.height * Unit(picture)
=============================================================================
