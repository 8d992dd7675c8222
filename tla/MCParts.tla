------------------------------ MODULE MCParts ------------------------------
(***************************************************************************)
(* One run for the parts that do not interact: the image loader, the       *)
(* capability manifest, frames, PCM streams and the wall clock.  A         *)
(* behaviour is one of one part; the others stay as they were.             *)
(***************************************************************************)
EXTENDS BootImage, MCManifest, Frames, PcmStream, WallClock

VARIABLE component

\* the chip's address map, scaled down: DRAM and IRAM share bytes, the loader lies inside
MCDRAM == <<64, 112>>
MCIRAM == <<176, 224>>
MCRTC  == <<232, 248>>
MCDROM == <<256, 512>>
MCIROM == <<512, 768>>
MCLoaderDRAM == <<88, 100>>
MCLoaderIRAM == <<208, 220>>

At(offset, len)  == [offset |-> offset, len |-> len]
FactoryAt(part)  == [kind |-> "factory", slot |-> 0, part |-> part]
OtaAt(slot, part) == [kind |-> "ota", slot |-> slot, part |-> part]
DataAtSector     == [kind |-> "data", slot |-> 0, part |-> At(32, 64)]

Seg(addr, len) == [addr |-> addr, len |-> len]
Made(segs) == [header |-> TRUE, entry |-> 512, segs |-> segs, hash |-> TRUE,
               bad |-> NoByte, signature |-> "trusted"]

\* rodata, RAM, an empty segment, padding, and text that crosses a page
GoodSegs == <<Seg(256, 8), Seg(72, 4), Seg(0, 0), Seg(4, 8), Seg(564, 20)>>
GoodImage == Made(GoodSegs)
BadImage  == [GoodImage EXCEPT !.header = FALSE]

Board(entries, images(_)) == [table |-> entries, image |-> [c \in Candidate |-> images(c)]]

\* one image, every byte of it damaged in turn, in partitions that are short by one or fit
DamagedBoards ==
  {Board(<<FactoryAt(At(32, len))>>,
         LAMBDA c : [GoodImage EXCEPT !.bad = bad, !.hash = hash, !.signature = signature]) :
     bad \in {NoByte} \cup 0 .. 200, hash \in BOOLEAN, signature \in {"trusted", "other"},
     len \in {192}}
  \cup
  {Board(<<FactoryAt(At(32, len))>>, LAMBDA c : [GoodImage EXCEPT !.hash = hash]) :
     hash \in BOOLEAN, len \in {20, 28, 34, 111, 112, 127, 128, 143, 144, 191, 192, 256, 257}}

\* two segments at the edges of every range, and lengths at which the sums wrap
EdgeSegs ==
  {Seg(a, n) : a \in {84, 88, 96, 100, 108, 204, 208, 212, 216, 220, 224, 244, 248}, n \in {4, 8, 12}}
  \cup {Seg(72, 2), Seg(74, 4), Seg(72, 0), Seg(8, 4), Seg(72, 988), Seg(72, 992), Seg(72, 1020)}
  \cup {Seg(a, n) : a \in {256 + 0, 256 + 4, 256 + 12, 256 + 16, 256 + 28, 500, 504, 512, 516, 512 + 28, 756, 760},
                    n \in {4, 8, 40}}

EdgeBoards ==
  {Board(<<FactoryAt(At(offset, 240))>>, LAMBDA c : Made(<<one, two>>)) :
     offset \in {32}, one \in EdgeSegs, two \in EdgeSegs}
  \cup {Board(<<FactoryAt(At(44, 200))>>, LAMBDA c : Made(<<one>>)) : one \in EdgeSegs}

\* what tables name, and which of the images are good
Tables ==
  LET part(k) == At(32 * k, 192)
  IN {<<FactoryAt(part(1))>>, <<OtaAt(0, part(1)), DataAtSector, OtaAt(1, part(2))>>,
      <<FactoryAt(part(1)), OtaAt(0, part(2)), OtaAt(1, part(3)), OtaAt(2, part(4))>>,
      <<OtaAt(1, part(1))>>, <<OtaAt(2, part(1)), FactoryAt(part(2))>>,
      <<OtaAt(0, part(1)), OtaAt(0, part(2))>>, <<DataAtSector>>}

TableBoards ==
  {Board(t, LAMBDA c : IF c \in good THEN GoodImage ELSE BadImage) : t \in Tables, good \in SUBSET Candidate}

MCBoards == DamagedBoards \cup EdgeBoards \cup TableBoards

----------------------------------------------------------------------------
\* the device just booted, one whose clock is ahead, and both near the end of their range
MCEpochs == {<<0, 40>>, <<9, 3>>, <<54, 52>>}

----------------------------------------------------------------------------
ShortText == [len |-> 1, clean |-> TRUE]
OneBoard  == Board(<<>>, LAMBDA c : BadImage)

ImageOff    == policy = "open" /\ initial = FALSE /\ PowerOn(OneBoard)
ManifestOff == model = ShortText /\ firmware = ShortText /\ ManifestFresh
StreamOff   == format = [rate |-> 1, channels |-> 1, bytes |-> 2] /\ origin = 0 /\ StreamFresh
ClockOff    == ClockFresh(<<0, 0>>)

Components == {"image", "manifest", "frames", "stream", "clock"}

PartsInit ==
  /\ component \in Components
  /\ IF component = "image" THEN ImageInit ELSE ImageOff
  /\ IF component = "manifest" THEN ManifestInit ELSE ManifestOff
  /\ FrameInit
  /\ IF component = "stream" THEN StreamInit ELSE StreamOff
  /\ IF component = "clock" THEN ClockInit ELSE ClockOff

PartsNext ==
  /\ UNCHANGED component
  /\ \/ component = "image" /\ ImageNext /\ UNCHANGED <<manifestVars, frameVars, streamVars, clockVars>>
     \/ component = "manifest" /\ ManifestNext /\ UNCHANGED <<imageVars, frameVars, streamVars, clockVars>>
     \/ component = "frames" /\ FrameNext /\ UNCHANGED <<imageVars, manifestVars, streamVars, clockVars>>
     \/ component = "stream" /\ Deliver /\ UNCHANGED <<imageVars, manifestVars, frameVars, clockVars>>
     \/ component = "clock" /\ ClockNext /\ UNCHANGED <<imageVars, manifestVars, frameVars, streamVars>>

PartsSpec == PartsInit /\ [][PartsNext]_<<component, imageVars, manifestVars, frameVars, streamVars, clockVars>>
=============================================================================
