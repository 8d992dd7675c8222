------------------------------- MODULE Frames -------------------------------
(***************************************************************************)
(* Frames over borrowed memory (crates/rusty_esp_core/src/frame.rs): a     *)
(* geometry, one buffer or three planes, wrapped for writing (FrameMut),   *)
(* written, and handed on as a read-only view; or wrapped as a view at     *)
(* once (Frame).                                                           *)
(*                                                                         *)
(* A buffer is its length and whether it starts with the JPEG marker.      *)
(***************************************************************************)
EXTENDS Naturals

CONSTANTS
  USIZE, U64,     \* arithmetic is modulo these: 2^32 and 2^64 on the chips
  Sides,          \* widths and heights asked for
  BufferLens,     \* lengths of the buffers
  Strides

ASSUME FrameAssumption ==
  /\ USIZE \in Nat \ {0} /\ U64 \in Nat \ {0}
  /\ Sides \subseteq Nat /\ BufferLens \subseteq Nat /\ Strides \subseteq Nat

\* PixelFormat; those of the same size and parity rule stand for one another
PixelFormat == {"Jpeg", "Gray8", "Rgb565", "Rgb888", "Rgba8888", "Yuyv422", "Yuv420p"}
NoSize == U64    \* Option::None of a length: no length is so large

VARIABLES
  geometry,   \* of the frame in hand
  planes,     \* its memory: one buffer, or three planes
  phase       \* "none", "mutable", "view" or "refused"

frameVars == <<geometry, planes, phase>>

----------------------------------------------------------------------------
Bits(format) == CASE format = "Gray8" -> 8
                  [] format \in {"Rgb565", "Yuyv422"} -> 16
                  [] format = "Rgb888" -> 24
                  [] format = "Rgba8888" -> 32

\* MUTANT of GeometryOk: only the width of a 4:2:0 frame must be even
GeometryOkWidth(g) ==
  /\ g.width # 0 /\ g.height # 0
  /\ g.format \in {"Yuyv422", "Yuv420p"} => g.width % 2 = 0

\* Geometry::new
GeometryOk(g) ==
  /\ g.width # 0 /\ g.height # 0
  /\ g.format \in {"Yuyv422", "Yuv420p"} => g.width % 2 = 0
  /\ g.format = "Yuv420p" => g.height % 2 = 0

\* Geometry::byte_len; the product with the bits wraps at 64 bits
ByteLen(g) ==
  LET pixels == g.width * g.height
      bytes  == CASE g.format = "Jpeg"    -> NoSize
                  [] g.format = "Yuv420p" -> ((pixels * 3) % U64) \div 2
                  [] OTHER -> ((pixels * Bits(g.format)) % U64) \div 8
  IN IF bytes >= USIZE THEN NoSize ELSE bytes

Needed(p, rows, rowBytes) == p.stride * (rows - 1) + rowBytes

\* Plane::new; a size that does not fit in usize is InvalidGeometry
PlaneOk(p, rows, rowBytes) ==
  /\ rowBytes <= p.stride /\ rows # 0
  /\ Needed(p, rows, rowBytes) < USIZE /\ p.len >= Needed(p, rows, rowBytes)

\* yuv420p, of Frame and of FrameMut
PlanarOk(g, p) ==
  /\ g.format = "Yuv420p"
  /\ PlaneOk(p.y, g.height, g.width)
  /\ PlaneOk(p.u, g.height \div 2, g.width \div 2)
  /\ PlaneOk(p.v, g.height \div 2, g.width \div 2)

\* FrameMut::packed: the bytes are about to be written
PackedMutOk(g, p) ==
  g.format # "Yuv420p" /\ (ByteLen(g) # NoSize => p.len >= ByteLen(g))

\* Frame::packed
PackedOk(g, p) ==
  /\ g.format # "Yuv420p"
  /\ IF ByteLen(g) # NoSize THEN p.len >= ByteLen(g) ELSE p.len >= 2 /\ p.soi

----------------------------------------------------------------------------
Packed == [len : BufferLens, soi : BOOLEAN]
Plane  == [len : BufferLens, stride : Strides]

NoGeometry == [width |-> 0, height |-> 0, format |-> "Jpeg"]
NoPlanes   == [len |-> 0, soi |-> FALSE]

Ask ==
  /\ phase = "none"
  /\ \E g \in [width : Sides, height : Sides, format : PixelFormat] :
       IF GeometryOk(g) THEN geometry' = g /\ phase' = "asked"
                        ELSE phase' = "refused" /\ UNCHANGED geometry
  /\ UNCHANGED planes

\* Frame::packed or FrameMut::packed
WrapPacked ==
  /\ phase = "asked"
  /\ \E p \in Packed, mutable \in BOOLEAN :
       IF IF mutable THEN PackedMutOk(geometry, p) ELSE PackedOk(geometry, p)
       THEN planes' = p /\ phase' = IF mutable THEN "mutable" ELSE "view"
       ELSE phase' = "refused" /\ UNCHANGED planes
  /\ UNCHANGED geometry

\* Frame::yuv420p or FrameMut::yuv420p; the two chroma buffers are of one length
WrapPlanar ==
  /\ phase = "asked" /\ geometry.format = "Yuv420p"
  /\ \E y, c \in Plane, mutable \in BOOLEAN :
       LET p == [y |-> y, u |-> c, v |-> c]
       IN IF PlanarOk(geometry, p)
          THEN planes' = p /\ phase' = IF mutable THEN "mutable" ELSE "view"
          ELSE phase' = "refused" /\ UNCHANGED planes
  /\ UNCHANGED geometry

\* packed_mut: whatever the writer leaves in the first bytes
Write ==
  /\ phase = "mutable" /\ geometry.format # "Yuv420p"
  /\ \E soi \in BOOLEAN : planes' = [planes EXCEPT !.soi = soi /\ planes.len >= 2]
  /\ UNCHANGED <<geometry, phase>>

\* MUTANT of Handable: a frame that was wrapped is handed on as it is
HandableUnchecked == TRUE

Handable == geometry.format # "Yuv420p" => PackedOk(geometry, planes)

\* FrameMut::as_frame
AsFrame ==
  /\ phase = "mutable"
  /\ phase' = IF Handable THEN "view" ELSE "refused"
  /\ UNCHANGED <<geometry, planes>>

FrameInit == geometry = NoGeometry /\ planes = NoPlanes /\ phase = "none"

FrameNext == Ask \/ WrapPacked \/ WrapPlanar \/ Write \/ AsFrame

FrameSpec == FrameInit /\ [][FrameNext]_frameVars

----------------------------------------------------------------------------
Wrapped == phase \in {"mutable", "view"}
Rows    == 0 .. geometry.height - 1
Columns == 0 .. geometry.width - 1

\* the size of the pixels, in bits, as a mathematician counts it
PixelBits == geometry.width * geometry.height
             * (IF geometry.format = "Yuv420p" THEN 12 ELSE Bits(geometry.format))
Countable == PixelBits < U64 /\ PixelBits \div 8 < USIZE

\* Whoever is given a frame may index the memory of every pixel of its geometry without a
\* check of his own (frame.rs 3-6), from packed rows or from each plane by its stride.  A size
\* that usize or the 64-bit product cannot hold is left out.
PixelsInside ==
  Wrapped /\ geometry.format # "Jpeg" /\ Countable =>
    IF geometry.format = "Yuv420p"
    THEN \A r \in Rows, x \in Columns :
           /\ r * planes.y.stride + x < planes.y.len
           /\ (r \div 2) * planes.u.stride + (x \div 2) < planes.u.len
           /\ (r \div 2) * planes.v.stride + (x \div 2) < planes.v.len
    ELSE \A r \in Rows, x \in Columns :
           ((r * geometry.width + x) * Bits(geometry.format)) \div 8
             + Bits(geometry.format) \div 8 <= planes.len

\* A view of a coded frame starts with the marker, although a frame wrapped for writing need
\* not and may be written after (frame.rs 353-354, 401-403).
CodedIsMarked ==
  phase = "view" /\ geometry.format = "Jpeg" => planes.soi /\ planes.len >= 2
=============================================================================
