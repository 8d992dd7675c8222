----------------------------- MODULE PartProofs -----------------------------
(***************************************************************************)
(* The parts that do not interact, one after another.  Frames: whoever     *)
(* holds one may index its pixels, for every geometry, every buffer, every *)
(* stride and whatever the widths of usize and u64.  PCM: stamps of a      *)
(* stream and buffers for its blocks, for every rate, every block and      *)
(* every length of a stream.  The wall clock: what a host reads off a      *)
(* mapping lies within the stated error.                                   *)
(***************************************************************************)
EXTENDS Frames, PcmStream, WallClock, TLAPS

PlaneType == [len : Nat, stride : Nat]

GeometryInv ==
  /\ geometry.width \in Nat \ {0} /\ geometry.height \in Nat \ {0}
  /\ geometry.format \in PixelFormat
  /\ geometry.format = "Yuv420p" => geometry.width % 2 = 0 /\ geometry.height % 2 = 0

PlanarInv ==
  /\ planes.y \in PlaneType /\ planes.u \in PlaneType /\ planes.v \in PlaneType
  /\ PlanarOk(geometry, planes)

PackedInv ==
  /\ planes.len \in Nat
  /\ ByteLen(geometry) # NoSize => planes.len >= ByteLen(geometry)

FrameInv ==
  /\ phase \in {"asked", "mutable", "view"} => GeometryInv
  /\ phase \in {"mutable", "view"} =>
       IF geometry.format = "Yuv420p" THEN PlanarInv ELSE PackedInv
  /\ CodedIsMarked

----------------------------------------------------------------------------
LEMMA JpegHasNoSize == ASSUME NEW g, g.format = "Jpeg" PROVE ByteLen(g) = NoSize
  BY DEF ByteLen, NoSize

LEMMA FrameInitInv == FrameInit => FrameInv
  BY DEF FrameInit, FrameInv, CodedIsMarked

LEMMA AskInv ==
  ASSUME FrameInv, Ask
  PROVE  FrameInv'
  <1>1. PICK g \in [width : Sides, height : Sides, format : PixelFormat] :
          IF GeometryOk(g) THEN geometry' = g /\ phase' = "asked"
                           ELSE phase' = "refused" /\ UNCHANGED geometry
    BY DEF Ask
  <1>2. CASE GeometryOk(g)
    <2>1. geometry' = g /\ phase' = "asked"
      BY <1>1, <1>2
    <2>2. g.width \in Nat /\ g.height \in Nat /\ g.format \in PixelFormat
      BY FrameAssumption
    <2>3. g.width # 0 /\ g.height # 0
          /\ (g.format = "Yuv420p" => g.width % 2 = 0 /\ g.height % 2 = 0)
      BY <1>2 DEF GeometryOk
    <2>4. GeometryInv'
      BY <2>1, <2>2, <2>3 DEF GeometryInv
    <2> QED BY <2>1, <2>4 DEF FrameInv, CodedIsMarked
  <1>3. CASE ~GeometryOk(g)
    BY <1>1, <1>3 DEF FrameInv, CodedIsMarked
  <1> QED BY <1>2, <1>3

LEMMA WrapPackedInv ==
  ASSUME FrameInv, WrapPacked
  PROVE  FrameInv'
  <1>1. PICK p \in Packed, mutable \in BOOLEAN :
          IF IF mutable THEN PackedMutOk(geometry, p) ELSE PackedOk(geometry, p)
          THEN planes' = p /\ phase' = IF mutable THEN "mutable" ELSE "view"
          ELSE phase' = "refused" /\ UNCHANGED planes
    BY DEF WrapPacked
  <1>2. GeometryInv /\ geometry' = geometry
    BY DEF WrapPacked, FrameInv
  <1>3. p.len \in Nat
    BY FrameAssumption DEF Packed
  <1>4. CASE phase' = "refused"
    BY <1>4 DEF FrameInv, CodedIsMarked
  <1>5. CASE phase' = "mutable"
    <2>1. planes' = p /\ PackedMutOk(geometry, p)
      BY <1>1, <1>5
    <2>2. PackedInv' /\ geometry.format # "Yuv420p"
      BY <1>2, <1>3, <2>1 DEF PackedInv, PackedMutOk, ByteLen
    <2> QED BY <1>2, <1>5, <2>2 DEF FrameInv, CodedIsMarked, GeometryInv
  <1>6. CASE phase' = "view"
    <2>1. planes' = p /\ PackedOk(geometry, p)
      BY <1>1, <1>6
    <2>2. PackedInv' /\ geometry.format # "Yuv420p"
      BY <1>2, <1>3, <2>1 DEF PackedInv, PackedOk, ByteLen
    <2>3. geometry.format = "Jpeg" => p.soi /\ p.len >= 2
      BY <2>1, JpegHasNoSize DEF PackedOk
    <2>4. CodedIsMarked'
      BY <1>2, <2>1, <2>3 DEF CodedIsMarked
    <2> QED BY <1>2, <1>6, <2>2, <2>4 DEF FrameInv, GeometryInv
  <1> QED BY <1>1, <1>4, <1>5, <1>6

LEMMA WrapPlanarInv ==
  ASSUME FrameInv, WrapPlanar
  PROVE  FrameInv'
  <1>1. PICK y \in Plane, c \in Plane, mutable \in BOOLEAN :
          LET p == [y |-> y, u |-> c, v |-> c]
          IN IF PlanarOk(geometry, p)
             THEN planes' = p /\ phase' = IF mutable THEN "mutable" ELSE "view"
             ELSE phase' = "refused" /\ UNCHANGED planes
    BY DEF WrapPlanar
  <1>2. GeometryInv /\ geometry' = geometry /\ geometry.format = "Yuv420p"
    BY DEF WrapPlanar, FrameInv
  <1>3. y \in PlaneType /\ c \in PlaneType
    BY FrameAssumption DEF Plane, PlaneType
  <1>4. CASE PlanarOk(geometry, [y |-> y, u |-> c, v |-> c])
    <2>1. planes' = [y |-> y, u |-> c, v |-> c] /\ phase' \in {"mutable", "view"}
      BY <1>1, <1>4
    <2>2. PlanarOk(geometry, planes)'
      BY <1>2, <1>4, <2>1 DEF PlanarOk, PlaneOk, Needed
    <2>3. PlanarInv'
      BY <1>3, <2>1, <2>2 DEF PlanarInv
    <2> QED BY <1>2, <2>1, <2>3 DEF FrameInv, CodedIsMarked, GeometryInv
  <1>5. CASE ~PlanarOk(geometry, [y |-> y, u |-> c, v |-> c])
    BY <1>1, <1>5 DEF FrameInv, CodedIsMarked
  <1> QED BY <1>4, <1>5

LEMMA WriteInv ==
  ASSUME FrameInv, Write
  PROVE  FrameInv'
  <1>1. PICK soi \in BOOLEAN : planes' = [planes EXCEPT !.soi = soi /\ planes.len >= 2]
    BY DEF Write
  <1>2. phase = "mutable" /\ geometry.format # "Yuv420p" /\ UNCHANGED <<geometry, phase>>
    BY DEF Write
  <1>3. planes'.len = planes.len
    BY <1>1
  <1> QED BY <1>2, <1>3 DEF FrameInv, PackedInv, GeometryInv, CodedIsMarked, ByteLen

LEMMA AsFrameInv ==
  ASSUME FrameInv, AsFrame
  PROVE  FrameInv'
  <1>1. phase = "mutable" /\ UNCHANGED <<geometry, planes>>
        /\ phase' = IF Handable THEN "view" ELSE "refused"
    BY DEF AsFrame
  <1>2. CASE Handable
    <2>1. geometry.format = "Jpeg" => planes.soi /\ planes.len >= 2
      BY <1>2, JpegHasNoSize DEF Handable, PackedOk
    <2> QED BY <1>1, <1>2, <2>1 DEF FrameInv, PlanarInv, PackedInv, GeometryInv, CodedIsMarked,
                                   ByteLen, PlanarOk, PlaneOk, Needed
  <1>3. CASE ~Handable
    BY <1>1, <1>3 DEF FrameInv, CodedIsMarked
  <1> QED BY <1>2, <1>3

\* What a constructor checked still holds of the frame in hand, through writes and as_frame.
THEOREM FrameInductive == FrameSpec => []FrameInv
  <1>1. FrameInv /\ [FrameNext]_frameVars => FrameInv'
    <2> SUFFICES ASSUME FrameInv, [FrameNext]_frameVars PROVE FrameInv'
      OBVIOUS
    <2>1. CASE UNCHANGED frameVars
      BY <2>1 DEF frameVars, FrameInv, PlanarInv, PackedInv, GeometryInv, CodedIsMarked,
                  ByteLen, PlanarOk, PlaneOk, Needed
    <2> QED BY <2>1, AskInv, WrapPackedInv, WrapPlanarInv, WriteInv, AsFrameInv DEF FrameNext
  <1> QED BY <1>1, FrameInitInv, PTL DEF FrameSpec

\* A view of a coded frame starts with the marker (frame.rs 353-354, 401-403).
THEOREM CodedViewsMarked == FrameSpec => []CodedIsMarked
  <1>1. FrameInv => CodedIsMarked
    BY DEF FrameInv
  <1> QED BY <1>1, FrameInductive, PTL

----------------------------------------------------------------------------
(***************************************************************************)
(* Indices.                                                                *)
(***************************************************************************)
LEMMA ProductsGrow ==
  ASSUME NEW a \in Nat, NEW b \in Nat, a <= b, NEW s \in Nat
  PROVE  a * s \in Nat /\ b * s \in Nat /\ a * s <= b * s
  <1>1. b * s = a * s + (b - a) * s /\ (b - a) * s \in Nat /\ a * s \in Nat
    OBVIOUS
  <1> QED BY <1>1

\* the last index a plane's rows and columns reach
LEMMA PlaneIndex ==
  ASSUME NEW p \in PlaneType, NEW rows \in Nat \ {0}, NEW rowBytes \in Nat \ {0},
         PlaneOk(p, rows, rowBytes), NEW r \in 0 .. rows - 1, NEW x \in 0 .. rowBytes - 1
  PROVE  r * p.stride + x < p.len
  <1>1. p.len \in Nat /\ p.stride \in Nat
    BY DEF PlaneType
  <1>2. r * p.stride \in Nat /\ (rows - 1) * p.stride \in Nat
        /\ r * p.stride <= (rows - 1) * p.stride
    BY <1>1, ProductsGrow
  <1>3. p.len >= (rows - 1) * p.stride + rowBytes
    <2>1. p.stride * (rows - 1) = (rows - 1) * p.stride
      BY <1>1
    <2> QED BY <2>1 DEF PlaneOk, Needed
  <1> QED BY <1>1, <1>2, <1>3

LEMMA HalfIndex ==
  ASSUME NEW n \in Nat \ {0}, n % 2 = 0, NEW r \in 0 .. n - 1
  PROVE  n \div 2 \in Nat \ {0} /\ r \div 2 \in 0 .. (n \div 2) - 1
  OBVIOUS

LEMMA PlanarPixels ==
  ASSUME GeometryInv, PlanarInv, geometry.format = "Yuv420p", NEW r \in Rows, NEW x \in Columns
  PROVE  /\ r * planes.y.stride + x < planes.y.len
         /\ (r \div 2) * planes.u.stride + (x \div 2) < planes.u.len
         /\ (r \div 2) * planes.v.stride + (x \div 2) < planes.v.len
  <1>1. /\ geometry.width \in Nat \ {0} /\ geometry.height \in Nat \ {0}
        /\ geometry.width % 2 = 0 /\ geometry.height % 2 = 0
    BY DEF GeometryInv
  <1>2. r \in 0 .. geometry.height - 1 /\ x \in 0 .. geometry.width - 1
    BY DEF Rows, Columns
  <1>3. /\ geometry.height \div 2 \in Nat \ {0} /\ geometry.width \div 2 \in Nat \ {0}
        /\ r \div 2 \in 0 .. (geometry.height \div 2) - 1
        /\ x \div 2 \in 0 .. (geometry.width \div 2) - 1
    BY <1>1, <1>2, HalfIndex
  <1>4. /\ planes.y \in PlaneType /\ PlaneOk(planes.y, geometry.height, geometry.width)
        /\ planes.u \in PlaneType
        /\ PlaneOk(planes.u, geometry.height \div 2, geometry.width \div 2)
        /\ planes.v \in PlaneType
        /\ PlaneOk(planes.v, geometry.height \div 2, geometry.width \div 2)
    BY DEF PlanarInv, PlanarOk
  <1> QED BY <1>1, <1>2, <1>3, <1>4, PlaneIndex

LEMMA PackedPixels ==
  ASSUME GeometryInv, PackedInv, geometry.format \notin {"Jpeg", "Yuv420p"}, Countable,
         NEW r \in Rows, NEW x \in Columns
  PROVE  ((r * geometry.width + x) * Bits(geometry.format)) \div 8
           + Bits(geometry.format) \div 8 <= planes.len
  <1> DEFINE w == geometry.width
             h == geometry.height
             bits == Bits(geometry.format)
             pixels == w * h
  <1>1. w \in Nat \ {0} /\ h \in Nat \ {0} /\ r \in 0 .. h - 1 /\ x \in 0 .. w - 1
    BY DEF GeometryInv, Rows, Columns
  <1>2. PICK k \in 1 .. 4 : bits = 8 * k
    BY DEF GeometryInv, PixelFormat, Bits
  <1>3. ByteLen(geometry) = pixels * k /\ ByteLen(geometry) # NoSize
    <2>1. pixels \in Nat /\ pixels * k \in Nat /\ pixels * bits = 8 * (pixels * k)
      BY <1>1, <1>2
    <2>2. pixels * bits < U64 /\ (pixels * bits) \div 8 < USIZE
      BY DEF Countable, PixelBits
    <2>3. (pixels * bits) % U64 = pixels * bits /\ (pixels * bits) \div 8 = pixels * k
      BY <2>1, <2>2, FrameAssumption
    <2>4. ByteLen(geometry) = IF (pixels * k) >= USIZE THEN NoSize ELSE pixels * k
      <3>1. ByteLen(geometry) = LET bytes == ((pixels * bits) % U64) \div 8
                                IN IF bytes >= USIZE THEN NoSize ELSE bytes
        BY DEF ByteLen
      <3> QED BY <2>3, <3>1
    <2>5. pixels * k < USIZE /\ pixels * k < U64
      BY <2>1, <2>2, <2>3, FrameAssumption
    <2> HIDE DEF pixels
    <2> QED BY <2>1, <2>4, <2>5, FrameAssumption DEF NoSize
  <1>4. r * w + x + 1 <= pixels /\ r * w \in Nat
    <2>1. r * w \in Nat /\ r * w <= (h - 1) * w
      BY <1>1, ProductsGrow
    <2>2. w * h = (h - 1) * w + w /\ (h - 1) * w \in Nat
      BY <1>1
    <2> HIDE DEF w, h
    <2> QED BY <1>1, <2>1, <2>2
  <1>5. (r * w + x + 1) * k <= pixels * k /\ pixels \in Nat
    <2>1. pixels \in Nat
      BY <1>1
    <2> HIDE DEF pixels
    <2>2. r * w + x + 1 \in Nat /\ x \in Nat
      BY <1>1, <1>4
    <2> QED BY <1>2, <1>4, <2>1, <2>2, ProductsGrow
  <1>6. ((r * w + x) * bits) \div 8 + bits \div 8 = (r * w + x + 1) * k
    <2> DEFINE n == r * w + x
    <2>1. n \in Nat
      BY <1>1, <1>4
    <2> HIDE DEF n, bits
    <2>2. n * bits = 8 * (n * k) /\ n * k \in Nat /\ (n + 1) * k = n * k + k
      BY <1>2, <2>1
    <2>3. (n * bits) \div 8 = n * k /\ bits \div 8 = k
      BY <1>2, <2>2
    <2> QED BY <2>2, <2>3 DEF n
  <1>7. planes.len >= pixels * k /\ planes.len \in Nat
    BY <1>3 DEF PackedInv
  <1> HIDE DEF pixels, bits, w
  <1>8. pixels * k \in Nat /\ (r * w + x + 1) * k \in Nat
    BY <1>1, <1>2, <1>4, <1>5
  <1>9. ((r * w + x) * bits) \div 8 + bits \div 8 <= planes.len
    BY <1>5, <1>6, <1>7, <1>8
  <1> QED BY <1>9 DEF w, bits

\* Every pixel of a wrapped frame lies inside its memory, packed rows or planes by their
\* strides, when usize and the 64-bit product can hold its size (frame.rs 3-6).
THEOREM PixelsAreInside == FrameSpec => []PixelsInside
  <1>1. FrameInv => PixelsInside
    <2> SUFFICES ASSUME FrameInv, Wrapped, geometry.format # "Jpeg", Countable
                 PROVE  IF geometry.format = "Yuv420p"
                        THEN \A r \in Rows, x \in Columns :
                               /\ r * planes.y.stride + x < planes.y.len
                               /\ (r \div 2) * planes.u.stride + (x \div 2) < planes.u.len
                               /\ (r \div 2) * planes.v.stride + (x \div 2) < planes.v.len
                        ELSE \A r \in Rows, x \in Columns :
                               ((r * geometry.width + x) * Bits(geometry.format)) \div 8
                                 + Bits(geometry.format) \div 8 <= planes.len
      BY DEF PixelsInside
    <2>1. GeometryInv /\ IF geometry.format = "Yuv420p" THEN PlanarInv ELSE PackedInv
      BY DEF FrameInv, Wrapped
    <2>2. CASE geometry.format = "Yuv420p"
      BY <2>1, <2>2, PlanarPixels
    <2>3. CASE geometry.format # "Yuv420p"
      BY <2>1, <2>3, PackedPixels
    <2> QED BY <2>2, <2>3
  <1> QED BY <1>1, FrameInductive, PTL

----------------------------------------------------------------------------
(***************************************************************************)
(* PCM streams.                                                            *)
(***************************************************************************)
StreamTypes ==
  /\ format.rate \in Nat \ {0} /\ format.channels \in Nat \ {0} /\ format.bytes \in SampleBytes
  /\ origin \in Nat /\ stamp \in Nat /\ origin <= stamp /\ stamp <= MAX_U64
  /\ frames \in Nat /\ blocks \in Nat /\ last \in Nat

\* what the stamps have lost to rounding: less than `rate` in each block
LagInv ==
  stamp < MAX_U64 =>
    /\ (stamp - origin) * format.rate <= frames * MICROS
    /\ frames * MICROS <= (stamp - origin) * format.rate + blocks * (format.rate - 1)

StreamInv == StreamTypes /\ LagInv

----------------------------------------------------------------------------
LEMMA StreamDivFloor ==
  ASSUME NEW n \in Nat, NEW m \in Nat \ {0}
  PROVE  n \div m \in Nat /\ n % m \in 0 .. m - 1 /\ n = m * (n \div m) + (n % m)
  OBVIOUS

LEMMA StreamInitInv == StreamInit => StreamInv
  <1> SUFFICES ASSUME StreamInit PROVE StreamInv
    OBVIOUS
  <1>1. StreamTypes
    <2>1. format.rate \in Nat \ {0} /\ format.channels \in Nat \ {0} /\ format.bytes \in SampleBytes
      <3>1. format \in [rate : Rates \ {0}, channels : 1 .. MaxChannels, bytes : SampleBytes]
        BY DEF StreamInit
      <3>2. Rates \subseteq Nat /\ MaxChannels \in Nat
        BY StreamAssumption
      <3>3. format.rate \in Nat \ {0}
        BY <3>1, <3>2
      <3>4. format.channels \in Nat \ {0}
        <4>1. format.channels \in 1 .. MaxChannels
          BY <3>1
        <4> QED BY <3>2, <4>1
      <3>5. format.bytes \in SampleBytes
        BY <3>1
      <3> QED BY <3>3, <3>4, <3>5
    <2>2. origin \in 0 .. MAX_U64 /\ MAX_U64 \in Nat
      BY StreamAssumption DEF StreamInit
    <2> QED BY <2>1, <2>2 DEF StreamInit, StreamFresh, StreamTypes
  <1>2. LagInv
    BY <1>1, StreamAssumption DEF StreamInit, StreamFresh, StreamTypes, LagInv
  <1> QED BY <1>1, <1>2 DEF StreamInv

LEMMA DeliverInv ==
  ASSUME StreamInv, Deliver
  PROVE  StreamInv'
  <1>1. PICK len \in DataLens :
          /\ BlockOk(len)
          /\ last' = len \div FrameBytes(format)
          /\ frames' = frames + (len \div FrameBytes(format))
          /\ stamp' = AddMicros(stamp, MicrosForFrames(format, len \div FrameBytes(format)))
    BY DEF Deliver
  <1> DEFINE n    == len \div FrameBytes(format)
             us   == MicrosForFrames(format, n)
             rate == format.rate
  <1>2. blocks' = blocks + 1 /\ UNCHANGED <<format, origin>>
    BY DEF Deliver
  <1>3. StreamTypes /\ MICROS \in Nat \ {0} /\ MAX_U64 \in Nat /\ len \in Nat
    BY <1>1, StreamAssumption DEF StreamInv
  <1>4. FrameBytes(format) \in Nat \ {0}
    BY <1>3 DEF StreamTypes, FrameBytes, SampleBytes
  <1>5. n \in Nat
    BY <1>3, <1>4, StreamDivFloor
  <1>6. n * MICROS \in Nat /\ rate \in Nat \ {0}
    BY <1>3, <1>5 DEF StreamTypes
  <1>7. us \in Nat /\ us * rate <= n * MICROS /\ n * MICROS <= us * rate + (rate - 1)
    <2> DEFINE q == (n * MICROS) \div rate
               r == (n * MICROS) % rate
    <2>1. q \in Nat /\ r \in 0 .. rate - 1 /\ n * MICROS = rate * q + r
      BY <1>6, StreamDivFloor
    <2>2. us = q
      BY DEF MicrosForFrames
    <2>3. rate * q = q * rate /\ q * rate \in Nat
      BY <1>6, <2>1
    <2> HIDE DEF q, r, us
    <2> QED BY <1>6, <2>1, <2>2, <2>3
  <1>8. last' = n /\ frames' = frames + n /\ stamp' = AddMicros(stamp, us)
    BY <1>1
  <1> HIDE DEF n, us
  <1>9. StreamTypes'
    BY <1>2, <1>3, <1>5, <1>7, <1>8 DEF StreamTypes, AddMicros
  <1>10. LagInv'
    <2> SUFFICES ASSUME stamp' < MAX_U64
                 PROVE  /\ (stamp' - origin) * rate <= frames' * MICROS
                        /\ frames' * MICROS <= (stamp' - origin) * rate + (blocks + 1) * (rate - 1)
      BY <1>2 DEF LagInv
    <2>1. stamp' = stamp + us /\ stamp < MAX_U64
      BY <1>3, <1>7, <1>8 DEF StreamTypes, AddMicros
    <2>2. /\ (stamp - origin) * rate <= frames * MICROS
          /\ frames * MICROS <= (stamp - origin) * rate + blocks * (rate - 1)
      BY <2>1 DEF StreamInv, LagInv
    <2>3. /\ (stamp' - origin) * rate = (stamp - origin) * rate + us * rate
          /\ frames' * MICROS = frames * MICROS + n * MICROS
          /\ (blocks + 1) * (rate - 1) = blocks * (rate - 1) + (rate - 1)
      BY <1>3, <1>5, <1>6, <1>7, <1>8, <2>1 DEF StreamTypes
    <2>4. /\ (stamp - origin) * rate \in Int /\ us * rate \in Int
          /\ frames * MICROS \in Int /\ blocks * (rate - 1) \in Int
      BY <1>3, <1>6, <1>7 DEF StreamTypes
    <2> QED BY <1>6, <1>7, <2>2, <2>3, <2>4
  <1> QED BY <1>9, <1>10 DEF StreamInv

\* How far the stamps of a stream have fallen behind, in every behaviour.
THEOREM StreamInductive == StreamSpec => []StreamInv
  <1>1. StreamInv /\ [Deliver]_streamVars => StreamInv'
    <2> SUFFICES ASSUME StreamInv, [Deliver]_streamVars PROVE StreamInv'
      OBVIOUS
    <2>1. CASE Deliver
      BY <2>1, DeliverInv
    <2>2. CASE UNCHANGED streamVars
      BY <2>2 DEF streamVars, StreamInv, StreamTypes, LagInv
    <2> QED BY <2>1, <2>2
  <1> QED BY <1>1, StreamInitInv, PTL DEF StreamSpec

\* A stream whose blocks are stamped one by the end of another never runs ahead of its
\* samples, and each block costs it less than a microsecond, at every rate and for every
\* number of blocks (pcm.rs 400-410).
THEOREM StampsNeverLead == StreamSpec => []StampsLag
  <1>1. StreamInv => StampsLag
    <2> SUFFICES ASSUME StreamInv, stamp < MAX_U64
                 PROVE  /\ (stamp - origin) * format.rate <= frames * MICROS
                        /\ frames * MICROS < (stamp - origin + blocks) * format.rate
                             \/ blocks = 0
      BY DEF StampsLag
    <2> DEFINE rate == format.rate
    <2>1. /\ (stamp - origin) * rate <= frames * MICROS
          /\ frames * MICROS <= (stamp - origin) * rate + blocks * (rate - 1)
      BY DEF StreamInv, LagInv
    <2>2. rate \in Nat \ {0} /\ stamp - origin \in Nat /\ blocks \in Nat /\ frames \in Nat
          /\ MICROS \in Nat
      BY StreamAssumption DEF StreamInv, StreamTypes
    <2>3. /\ (stamp - origin + blocks) * rate = (stamp - origin) * rate + blocks * rate
          /\ blocks * (rate - 1) = blocks * rate - blocks
      BY <2>2
    <2>4. (stamp - origin) * rate \in Int /\ blocks * rate \in Int /\ frames * MICROS \in Int
      BY <2>2
    <2> QED BY <2>1, <2>2, <2>3, <2>4
  <1> QED BY <1>1, StreamInductive, PTL

----------------------------------------------------------------------------
LEMMA MultipleHasNoRest ==
  ASSUME NEW k \in Nat, NEW m \in Nat \ {0}
  PROVE  (k * m) % m = 0
  <1> DEFINE q == (k * m) \div m
             r == (k * m) % m
  <1>1. k * m \in Nat
    OBVIOUS
  <1>2. q \in Nat /\ r \in 0 .. m - 1 /\ k * m = m * q + r
    BY <1>1, StreamDivFloor
  <1> HIDE DEF q, r
  <1>3. CASE k <= q
    <2>1. m * q = m * k + m * (q - k) /\ m * (q - k) >= 0 /\ m * k = k * m
      BY <1>2, <1>3
    <2> QED BY <1>1, <1>2, <2>1 DEF r
  <1>4. CASE k > q
    <2>1. k * m = m * q + m * (k - q) /\ m * (k - q) >= m
      BY <1>2, <1>4
    <2>2. m * q \in Int /\ m * (k - q) \in Int
      BY <1>2
    <2> QED BY <1>2, <2>1, <2>2
  <1> QED BY <1>2, <1>3, <1>4

\* A buffer sized for the duration of a block holds the block but for one frame at most, at
\* any rate up to a frame per microsecond (pcm.rs 355-366).
THEOREM BufferFits == StreamSpec => []SizedForBlock
  <1>1. StreamInv => SizedForBlock
    <2> SUFFICES ASSUME StreamInv, format.rate <= MICROS PROVE SizedForBlock
      BY DEF SizedForBlock
    <2> DEFINE rate == format.rate
               us   == MicrosForFrames(format, last)
               n    == FramesForMicros(format, us)
               size == FrameBytes(format)
    <2>1. rate \in Nat \ {0} /\ last \in Nat /\ MICROS \in Nat \ {0} /\ rate <= MICROS
          /\ size \in Nat \ {0}
      BY StreamAssumption DEF StreamInv, StreamTypes, FrameBytes, SampleBytes
    <2>2. us \in Nat /\ rate * us <= last * MICROS /\ last * MICROS < rate * us + MICROS
      <3>1. last * MICROS \in Nat
        BY <2>1
      <3>2. /\ us \in Nat /\ (last * MICROS) % rate \in 0 .. rate - 1
            /\ last * MICROS = rate * us + ((last * MICROS) % rate)
        BY <2>1, <3>1, StreamDivFloor DEF MicrosForFrames
      <3>3. rate * us \in Nat
        BY <2>1, <3>2
      <3> HIDE DEF us, rate
      <3> QED BY <2>1, <3>1, <3>2, <3>3
    <2>3. n \in Nat /\ n <= last /\ last <= n + 1
      <3>1. rate * us \in Nat
        BY <2>1, <2>2
      <3>2. /\ n \in Nat /\ (rate * us) % MICROS \in 0 .. MICROS - 1
            /\ rate * us = MICROS * n + ((rate * us) % MICROS)
        BY <2>1, <3>1, StreamDivFloor DEF FramesForMicros
      <3> DEFINE product == rate * us
                 rest    == product % MICROS
      <3>3. /\ product \in Nat /\ rest \in 0 .. MICROS - 1 /\ product = MICROS * n + rest
            /\ product <= last * MICROS /\ last * MICROS < product + MICROS
        BY <2>2, <3>1, <3>2
      <3> HIDE DEF product, rest, n, us, rate
      <3>4. CASE n > last
        <4>1. MICROS * n = last * MICROS + MICROS * (n - last) /\ MICROS * (n - last) >= MICROS
          BY <2>1, <3>2, <3>4
        <4>2. last * MICROS \in Int /\ MICROS * n \in Int /\ MICROS * (n - last) \in Int
          BY <2>1, <3>2
        <4>3. MICROS * n <= product
          BY <2>1, <3>3, <4>2
        <4> QED BY <2>1, <3>3, <4>1, <4>2, <4>3
      <3>5. CASE last > n + 1
        <4>1. last * MICROS = MICROS * n + MICROS * (last - n)
              /\ MICROS * (last - n) >= MICROS * 2
          BY <2>1, <3>2, <3>5
        <4>2. last * MICROS \in Int /\ MICROS * n \in Int /\ MICROS * (last - n) \in Int
          BY <2>1, <3>2
        <4> QED BY <2>1, <3>3, <4>1, <4>2
      <3> QED BY <2>1, <3>2, <3>4, <3>5
    <2>4. BytesForMicros(format, us) = n * size
      BY DEF BytesForMicros
    <2> HIDE DEF n, size
    <2>5. (n * size) % size = 0
      BY <2>1, <2>3, MultipleHasNoRest
    <2>6. n * size <= last * size /\ n * size + size >= last * size
      <3>1. last = n \/ last = n + 1
        BY <2>1, <2>3
      <3>2. (n + 1) * size = n * size + size /\ n * size \in Nat
        BY <2>1, <2>3
      <3> QED BY <2>1, <3>1, <3>2
    <2> QED BY <2>4, <2>5, <2>6 DEF SizedForBlock, size
  <1> QED BY <1>1, StreamInductive, PTL

----------------------------------------------------------------------------
(***************************************************************************)
(* What a host reads off a mapping lies within the stated error, for every *)
(* drift, every pair of clocks and every length of a behaviour.            *)
(*                                                                         *)
(* The argument: a mapping hides two unknowns, by how much the middle of   *)
(* the round trip misses the instant the device read its clock (never more *)
(* than `error`), and what the clocks drifted since.  The invariant says   *)
(* that both exist, and the drift of two spans adds up to one of the whole.*)
(***************************************************************************)

\* d is a drift that `us` device microseconds allow
Drifted(d, us) == d * MILLION <= us * Ppm /\ -d * MILLION <= us * Ppm

\* the wall time at the reading of the trip under way, the clocks having drifted by d since
WallAtReading(d) == wall - (device - trip.reading) - d

ClockTypes ==
  /\ device \in Nat /\ wall \in Nat /\ boot \in Nat
  /\ trip \in [sent : Int, reading : Int]
  /\ mapping \in [offset : Int, error : Int, at : Int]

TripInv ==
  trip # NoTrip =>
    /\ 0 <= trip.sent /\ trip.sent <= wall
    /\ trip.reading # Unanswered =>
         /\ 0 <= trip.reading /\ trip.reading <= device
         /\ \E d \in Int : /\ Drifted(d, device - trip.reading)
                           /\ trip.sent <= WallAtReading(d) /\ WallAtReading(d) <= wall

MappingInv ==
  Known(mapping) =>
    /\ 0 <= mapping.error /\ 0 <= mapping.at /\ mapping.at <= device
    /\ \E x, d \in Int : /\ -mapping.error <= x /\ x <= mapping.error
                         /\ Drifted(d, device - mapping.at)
                         /\ wall = device + mapping.offset + x + d

ClockInv == ClockTypes /\ TripInv /\ MappingInv

----------------------------------------------------------------------------
LEMMA DivFloor ==
  ASSUME NEW n \in Nat, NEW m \in Nat \ {0}
  PROVE  n \div m \in Nat /\ n % m \in 0 .. m - 1 /\ n = m * (n \div m) + (n % m)
  OBVIOUS

LEMMA FloorBound ==
  ASSUME NEW n \in Nat, NEW m \in Nat \ {0}, NEW k \in Int, k * m <= n
  PROVE  k <= n \div m
  <1> DEFINE q == n \div m
  <1>1. q \in Nat /\ n < m * q + m
    BY DivFloor
  <1>2. k * m < (q + 1) * m
    BY <1>1
  <1> QED BY <1>1, <1>2

\* the drifts of two spans add up
LEMMA DriftAdds ==
  ASSUME NEW d \in Int, NEW e \in Int, NEW us \in Nat, NEW vs \in Nat,
         Drifted(d, us), Drifted(e, vs)
  PROVE  Drifted(d + e, us + vs)
  <1>1. MILLION \in Nat /\ Ppm \in Nat
    BY ClockAssumption
  <1>2. /\ (d + e) * MILLION = d * MILLION + e * MILLION
        /\ -(d + e) * MILLION = -d * MILLION + -e * MILLION
        /\ (us + vs) * Ppm = us * Ppm + vs * Ppm
    BY <1>1
  <1>3. /\ d * MILLION \in Int /\ e * MILLION \in Int
        /\ -d * MILLION \in Int /\ -e * MILLION \in Int
        /\ us * Ppm \in Int /\ vs * Ppm \in Int
    BY <1>1
  <1> QED BY <1>2, <1>3 DEF Drifted

LEMMA NoDrift == Drifted(0, 0)
  BY ClockAssumption DEF Drifted

\* a drift is at most what error_at adds
LEMMA DriftBounded ==
  ASSUME NEW us \in Nat, NEW d \in Int, d * MILLION <= us * Ppm
  PROVE  d <= (us \div MILLION) * Ppm + ((us % MILLION) * Ppm) \div MILLION
  <1> DEFINE q == us \div MILLION
             r == us % MILLION
  <1>1. MILLION \in Nat \ {0} /\ Ppm \in Nat
    BY ClockAssumption
  <1>2. q \in Nat /\ r \in Nat /\ us = MILLION * q + r
    BY <1>1, DivFloor
  <1>3. us * Ppm = q * Ppm * MILLION + r * Ppm
    BY <1>1, <1>2
  <1>4. (d - q * Ppm) * MILLION = d * MILLION - q * Ppm * MILLION
    BY <1>1, <1>2
  <1>5. r * Ppm \in Nat /\ q * Ppm \in Nat /\ q * Ppm * MILLION \in Nat /\ d * MILLION \in Int
    BY <1>1, <1>2
  <1>6. (d - q * Ppm) * MILLION <= r * Ppm
    BY <1>3, <1>4, <1>5
  <1>7. d - q * Ppm <= (r * Ppm) \div MILLION
    BY <1>1, <1>5, <1>6, FloorBound
  <1>8. (r * Ppm) \div MILLION \in Nat
    BY <1>1, <1>5, DivFloor
  <1> QED BY <1>5, <1>7, <1>8

----------------------------------------------------------------------------
LEMMA ClockInitInv == ClockInit => ClockInv
  <1> SUFFICES ASSUME ClockInit PROVE ClockInv
    OBVIOUS
  <1>1. ClockTypes
    BY ClockAssumption DEF ClockInit, ClockFresh, ClockTypes, NoTrip, UNKNOWN, Infinite
  <1>2. TripInv
    BY DEF ClockInit, ClockFresh, TripInv
  <1>3. MappingInv
    BY DEF ClockInit, ClockFresh, MappingInv, Known, UNKNOWN, Infinite
  <1> QED BY <1>1, <1>2, <1>3 DEF ClockInv

LEMMA PassInv ==
  ASSUME ClockInv, Pass
  PROVE  ClockInv'
  <1>1. PICK us \in 1 .. MaxStep : \E d \in Drifts(us) :
          device' = device + us /\ wall + us + d >= wall /\ wall' = wall + us + d
    BY DEF Pass
  <1>2. PICK e \in Drifts(us) : device' = device + us /\ wall' = wall + us + e /\ wall' >= wall
    BY <1>1
  <1>3. us \in Nat /\ e \in Int /\ Drifted(e, us)
    BY <1>1, <1>2, ClockAssumption DEF Drifts, Drifted
  <1>4. UNCHANGED <<boot, trip, mapping>> /\ ClockTypes
    BY DEF Pass, ClockInv
  <1>5. ClockTypes'
    BY <1>2, <1>3, <1>4 DEF ClockTypes
  <1>6. TripInv'
    <2> SUFFICES ASSUME trip # NoTrip
                 PROVE  /\ 0 <= trip.sent /\ trip.sent <= wall'
                        /\ trip.reading # Unanswered =>
                             /\ 0 <= trip.reading /\ trip.reading <= device'
                             /\ \E d \in Int : /\ Drifted(d, device' - trip.reading)
                                               /\ trip.sent <= wall' - (device' - trip.reading) - d
                                               /\ wall' - (device' - trip.reading) - d <= wall'
      BY <1>4 DEF TripInv, WallAtReading, Drifted
    <2>1. trip.sent \in Int /\ 0 <= trip.sent /\ trip.sent <= wall'
      BY <1>2, <1>3, <1>4 DEF ClockInv, TripInv, ClockTypes
    <2>2. CASE trip.reading # Unanswered
      <3>1. PICK d \in Int : /\ Drifted(d, device - trip.reading)
                             /\ trip.sent <= WallAtReading(d) /\ WallAtReading(d) <= wall
        BY <2>2 DEF ClockInv, TripInv
      <3>2. trip.reading \in Int /\ 0 <= trip.reading /\ trip.reading <= device
        BY <1>4, <2>2 DEF ClockInv, TripInv, ClockTypes
      <3>3. Drifted(d + e, (device - trip.reading) + us)
        BY <1>3, <1>4, <3>1, <3>2, DriftAdds DEF ClockTypes
      <3>4. (device - trip.reading) + us = device' - trip.reading
        BY <1>2, <1>3, <1>4, <3>2 DEF ClockTypes
      <3>5. wall' - (device' - trip.reading) - (d + e) = WallAtReading(d)
        BY <1>2, <1>3, <1>4, <3>2 DEF ClockTypes, WallAtReading
      <3>6. WallAtReading(d) <= wall'
        BY <1>2, <1>3, <1>4, <3>1, <3>2 DEF ClockTypes, WallAtReading
      <3>7. trip.reading <= device'
        BY <1>2, <1>3, <1>4, <3>2 DEF ClockTypes
      <3> QED BY <1>3, <2>1, <3>1, <3>2, <3>3, <3>4, <3>5, <3>6, <3>7
    <2> QED BY <2>1, <2>2
  <1>7. MappingInv'
    <2> SUFFICES ASSUME Known(mapping)
                 PROVE  /\ 0 <= mapping.error /\ 0 <= mapping.at /\ mapping.at <= device'
                        /\ \E x, d \in Int : /\ -mapping.error <= x /\ x <= mapping.error
                                             /\ Drifted(d, device' - mapping.at)
                                             /\ wall' = device' + mapping.offset + x + d
      BY <1>4 DEF MappingInv, Known, Drifted
    <2>1. PICK x \in Int, d \in Int :
            /\ -mapping.error <= x /\ x <= mapping.error
            /\ Drifted(d, device - mapping.at)
            /\ wall = device + mapping.offset + x + d
      BY DEF ClockInv, MappingInv
    <2>2. mapping.offset \in Int /\ mapping.at \in Int /\ 0 <= mapping.error
          /\ 0 <= mapping.at /\ mapping.at <= device
      BY DEF ClockInv, ClockTypes, MappingInv
    <2>3. Drifted(d + e, (device - mapping.at) + us)
      BY <1>3, <1>4, <2>1, <2>2, DriftAdds DEF ClockTypes
    <2>4. (device - mapping.at) + us = device' - mapping.at /\ mapping.at <= device'
      BY <1>2, <1>3, <1>4, <2>2 DEF ClockTypes
    <2>5. wall' = device' + mapping.offset + x + (d + e)
      BY <1>2, <1>3, <1>4, <2>1, <2>2 DEF ClockTypes
    <2> QED BY <1>3, <2>1, <2>2, <2>3, <2>4, <2>5
  <1> QED BY <1>5, <1>6, <1>7 DEF ClockInv

LEMMA SendInv ==
  ASSUME ClockInv, Send
  PROVE  ClockInv'
  <1>1. ClockTypes'
    BY DEF ClockInv, ClockTypes, Send, Unanswered
  <1>2. TripInv'
    BY DEF ClockInv, ClockTypes, Send, TripInv, Unanswered
  <1>3. MappingInv'
    BY DEF ClockInv, Send, MappingInv, Known, Drifted
  <1> QED BY <1>1, <1>2, <1>3 DEF ClockInv

LEMMA ReadClockInv ==
  ASSUME ClockInv, ReadClock
  PROVE  ClockInv'
  <1>1. ClockTypes'
    BY DEF ClockInv, ClockTypes, ReadClock
  <1>2. TripInv'
    <2>1. /\ trip'.sent = trip.sent /\ trip'.reading = device
          /\ device' = device /\ wall' = wall
          /\ trip.sent \in Int /\ device \in Nat /\ wall \in Nat
          /\ 0 <= trip.sent /\ trip.sent <= wall
      BY DEF ClockInv, ClockTypes, TripInv, ReadClock
    <2>2. device' - trip'.reading = 0 /\ wall' - (device' - trip'.reading) - 0 = wall
      BY <2>1
    <2>3. Drifted(0, device' - trip'.reading)
      BY <2>2, NoDrift
    <2> QED BY <2>1, <2>2, <2>3 DEF TripInv, WallAtReading, Drifted
  <1>3. MappingInv'
    BY DEF ClockInv, ReadClock, MappingInv, Known, Drifted
  <1> QED BY <1>1, <1>2, <1>3 DEF ClockInv

LEMMA HalfTrip ==
  ASSUME NEW rtt \in Nat
  PROVE  /\ rtt \div 2 \in Nat /\ Error(rtt) \in Nat
         /\ rtt \div 2 <= Error(rtt) /\ rtt - (rtt \div 2) <= Error(rtt)
  BY DEF Error

LEMMA ReceiveInv ==
  ASSUME ClockInv, Receive
  PROVE  ClockInv'
  <1> DEFINE m == FromExchange(trip.sent, trip.reading, wall)
             rtt == wall - trip.sent
  <1>1. /\ device' = device /\ wall' = wall /\ boot' = boot
        /\ trip' = NoTrip
        /\ mapping' = m \/ mapping' = mapping
    BY DEF Receive, Better
  <1>2. /\ trip.sent \in Int /\ trip.reading \in Int /\ device \in Nat /\ wall \in Nat
        /\ 0 <= trip.sent /\ trip.sent <= wall
        /\ 0 <= trip.reading /\ trip.reading <= device
    BY DEF ClockInv, ClockTypes, TripInv, Receive
  <1>3. rtt \in Nat
    BY <1>2
  <1>4. /\ m.offset = trip.sent + (rtt \div 2) - trip.reading
        /\ m.error = Error(rtt) /\ m.at = trip.reading
        /\ m.offset \in Int /\ m.error \in Nat
        /\ m \in [offset : Int, error : Int, at : Int]
    BY <1>2, <1>3, HalfTrip DEF FromExchange
  <1>5. ClockTypes'
    BY <1>1, <1>4 DEF ClockInv, ClockTypes, NoTrip
  <1>6. TripInv'
    BY <1>1 DEF TripInv
  <1>7. MappingInv'
    <2>1. CASE mapping' = mapping
      BY <1>1, <2>1 DEF ClockInv, MappingInv, Known, Drifted
    <2>2. CASE mapping' = m
      <3>1. PICK d \in Int : /\ Drifted(d, device - trip.reading)
                             /\ trip.sent <= WallAtReading(d) /\ WallAtReading(d) <= wall
        BY DEF ClockInv, TripInv, Receive
      <3> DEFINE x == WallAtReading(d) - (trip.sent + (rtt \div 2))
      <3>2. x \in Int /\ -m.error <= x /\ x <= m.error
        BY <1>2, <1>3, <1>4, <3>1, HalfTrip DEF WallAtReading
      <3>3. wall = device + m.offset + x + d
        BY <1>2, <1>3, <1>4, HalfTrip DEF WallAtReading
      <3>4. 0 <= m.error /\ 0 <= m.at /\ m.at <= device /\ Drifted(d, device - m.at)
        BY <1>2, <1>4, <3>1
      <3> HIDE DEF m, x
      <3> QED BY <1>1, <2>2, <3>2, <3>3, <3>4 DEF MappingInv, Drifted
    <2> QED BY <1>1, <2>1, <2>2
  <1> QED BY <1>5, <1>6, <1>7 DEF ClockInv

\* The unknowns of a mapping stay within their bounds in every behaviour.
THEOREM ClockInductive == ClockSpec => []ClockInv
  <1>1. ClockInv /\ [ClockNext]_clockVars => ClockInv'
    <2> SUFFICES ASSUME ClockInv, [ClockNext]_clockVars PROVE ClockInv'
      OBVIOUS
    <2>1. CASE Pass
      BY <2>1, PassInv
    <2>2. CASE Send
      BY <2>2, SendInv
    <2>3. CASE ReadClock
      BY <2>3, ReadClockInv
    <2>4. CASE Receive
      BY <2>4, ReceiveInv
    <2>5. CASE UNCHANGED clockVars
      BY <2>5 DEF clockVars, ClockInv, ClockTypes, TripInv, MappingInv, Known, Drifted,
                  WallAtReading
    <2> QED BY <2>1, <2>2, <2>3, <2>4, <2>5 DEF ClockNext
  <1> QED BY <1>1, ClockInitInv, PTL DEF ClockSpec

LEMMA ClockInvCovers == ClockInv => ErrorCovers
  <1> SUFFICES ASSUME ClockInv, Known(mapping), device <= MAX_I64, wall <= MAX_I64
               PROVE  Distance(ToWall(mapping, device), wall) <= ErrorAt(mapping, device)
    BY DEF ErrorCovers
  <1> DEFINE age   == device - mapping.at
             drift == (age \div MILLION) * Ppm + ((age % MILLION) * Ppm) \div MILLION
  <1>1. PICK x \in Int, d \in Int :
          /\ -mapping.error <= x /\ x <= mapping.error
          /\ Drifted(d, age)
          /\ wall = device + mapping.offset + x + d
    BY DEF ClockInv, MappingInv
  <1>2. /\ device \in Nat /\ wall \in Nat /\ mapping.offset \in Int
        /\ mapping.error \in Nat /\ mapping.at \in Nat /\ mapping.at <= device /\ age \in Nat
    BY DEF ClockInv, ClockTypes, MappingInv
  <1>3. MILLION \in Nat \ {0} /\ Ppm \in Nat /\ MAX_I64 \in Nat
    BY ClockAssumption
  <1>4. age \div MILLION \in Nat /\ age % MILLION \in Nat
    BY <1>2, <1>3, DivFloor
  <1>5. (age \div MILLION) * Ppm \in Nat /\ (age % MILLION) * Ppm \in Nat
    BY <1>3, <1>4
  <1>6. ((age % MILLION) * Ppm) \div MILLION \in Nat
    BY <1>3, <1>5, DivFloor
  <1>7. d <= drift /\ -d <= drift
    <2>1. d * MILLION <= age * Ppm /\ (-d) * MILLION <= age * Ppm /\ -d \in Int
      BY <1>1, <1>3 DEF Drifted
    <2>2. d <= drift
      BY <1>2, <2>1, DriftBounded
    <2>3. -d <= drift
      BY <1>2, <2>1, DriftBounded
    <2> QED BY <2>2, <2>3
  <1>8. drift \in Nat
    BY <1>5, <1>6
  <1>9. ErrorAt(mapping, device) = mapping.error + drift
    BY <1>2, <1>5, <1>6 DEF ErrorAt, Since
  <1>10. ToWall(mapping, device) = Clamp(device + mapping.offset)
    BY <1>2, <1>3 DEF ToWall, Signed64
  <1> HIDE DEF drift
  <1>11. Distance(Clamp(device + mapping.offset), wall) <= mapping.error + drift
    BY <1>1, <1>2, <1>3, <1>7, <1>8 DEF Distance, Clamp
  <1> QED BY <1>9, <1>10, <1>11

\* What a host reads off a mapping is within the error it states for that instant, for every
\* drift that error_at is asked to allow for and every round trip (time.rs 53-67, 132-141).
THEOREM ErrorSound == ClockSpec => []ErrorCovers
  BY ClockInductive, ClockInvCovers, PTL

\* A mapping once measured is never given up for none or for a worse one, in any behaviour
\* (better, time.rs 143-158).
THEOREM ErrorNeverGrows == ClockSpec => NeverWorse
  <1>1. ASSUME ClockInv, [ClockNext]_clockVars
        PROVE  [Known(mapping) => Known(mapping') /\ mapping'.error <= mapping.error]_clockVars
    <2> SUFFICES ASSUME ClockNext, Known(mapping)
                 PROVE  Known(mapping') /\ mapping'.error <= mapping.error
      BY <1>1
    <2>1. mapping.error \in Nat
      BY <1>1 DEF ClockInv, ClockTypes, MappingInv
    <2>2. CASE mapping' = mapping
      BY <2>1, <2>2
    <2>3. CASE Receive
      <3> DEFINE m == FromExchange(trip.sent, trip.reading, wall)
      <3>1. mapping' = mapping \/ (mapping' = m /\ mapping' = Better(mapping, m))
        BY <2>3 DEF Receive, Better
      <3>2. wall - trip.sent \in Nat
        BY <1>1, <2>3 DEF ClockInv, ClockTypes, TripInv, Receive
      <3>3. m.error \in Nat /\ Known(m)
        BY <3>2, HalfTrip DEF FromExchange, Known, Infinite
      <3> HIDE DEF m
      <3>4. mapping' = mapping \/ (m.error < mapping.error /\ mapping' = m)
        BY <2>1, <3>1, <3>3 DEF Better
      <3> QED BY <2>1, <3>3, <3>4
    <2> QED BY <2>2, <2>3 DEF ClockNext, Pass, Send, ReadClock
  <1> QED BY <1>1, ClockInductive, PTL DEF ClockSpec, NeverWorse
=============================================================================
