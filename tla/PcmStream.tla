----------------------------- MODULE PcmStream -----------------------------
(***************************************************************************)
(* A stream of PCM blocks (crates/rusty_esp_core/src/pcm.rs): a source     *)
(* hands over buffers of whole sample frames, each stamped with the end of *)
(* the block before it.                                                    *)
(***************************************************************************)
EXTENDS Integers

CONSTANTS
  MICROS,       \* 1_000_000
  Rates,        \* sample rates
  MaxChannels,
  MAX_U64,      \* the last timestamp: stamps saturate there
  Stamps,       \* those a stream may start with
  DataLens,     \* lengths of the buffers a source hands over
  MaxBlocks     \* bound

ASSUME StreamAssumption ==
  /\ MICROS \in Nat \ {0} /\ MAX_U64 \in Nat
  /\ Rates \subseteq Nat /\ MaxChannels \in Nat
  /\ Stamps \subseteq 0 .. MAX_U64 /\ DataLens \subseteq Nat /\ MaxBlocks \in Nat

SampleBytes == {2, 4}     \* SampleFormat::bytes

VARIABLES
  format,   \* PcmFormat
  origin,    \* the stamp of the stream's first frame
  stamp,    \* that of the next block: end() of the last
  frames,   \* those handed over
  blocks,   \* their blocks
  last      \* the frames of the last block

streamVars == <<format, origin, stamp, frames, blocks, last>>

----------------------------------------------------------------------------
FrameBytes(f) == f.bytes * f.channels

\* MUTANT of MicrosForFrames: the duration is rounded up
MicrosRoundedUp(f, n) == (n * MICROS + f.rate - 1) \div f.rate

\* micros_for_frames
MicrosForFrames(f, n) == (n * MICROS) \div f.rate

\* MUTANT of FramesForMicros: the division comes first
FramesBySeconds(f, us) == (us \div MICROS) * f.rate

\* bytes_for_micros, before the frames become bytes
FramesForMicros(f, us) == (f.rate * us) \div MICROS

BytesForMicros(f, us) == FramesForMicros(f, us) * FrameBytes(f)

\* Micros::add_micros
AddMicros(t, us) == IF t + us > MAX_U64 THEN MAX_U64 ELSE t + us

----------------------------------------------------------------------------
\* PcmBlock::new refuses a buffer that is empty or ends inside a frame
BlockOk(len) == len # 0 /\ len % FrameBytes(format) = 0

\* a block of `len` bytes, stamped with the end of the last; refused, it leaves no trace
Deliver ==
  /\ blocks < MaxBlocks
  /\ \E len \in DataLens :
       /\ BlockOk(len)
       /\ LET n == len \div FrameBytes(format)
          IN /\ last' = n /\ frames' = frames + n
             /\ stamp' = AddMicros(stamp, MicrosForFrames(format, n))
  /\ blocks' = blocks + 1
  /\ UNCHANGED <<format, origin>>

StreamFresh ==
  /\ stamp = origin
  /\ frames = 0 /\ blocks = 0 /\ last = 0

\* PcmFormat::new refuses a rate or a channel count of zero
StreamInit ==
  /\ format \in [rate : Rates \ {0}, channels : 1 .. MaxChannels, bytes : SampleBytes]
  /\ origin \in Stamps
  /\ StreamFresh

StreamSpec == StreamInit /\ [][Deliver]_streamVars

----------------------------------------------------------------------------
\* A stream whose blocks are stamped one by the end of another never runs ahead of its
\* samples, and each block costs it less than a microsecond (pcm.rs 400-410).
StampsLag ==
  stamp < MAX_U64 =>
    /\ (stamp - origin) * format.rate <= frames * MICROS
    /\ frames * MICROS < (stamp - origin + blocks) * format.rate \/ blocks = 0

\* A buffer sized for the duration of a block holds the block but for one frame at most, at
\* any rate up to a frame per microsecond (pcm.rs 355-366).
SizedForBlock ==
  format.rate <= MICROS =>
    LET bytes == BytesForMicros(format, MicrosForFrames(format, last))
    IN bytes % FrameBytes(format) = 0 /\ bytes <= last * FrameBytes(format)
       /\ bytes + FrameBytes(format) >= last * FrameBytes(format)
=============================================================================
