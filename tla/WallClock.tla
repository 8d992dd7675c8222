----------------------------- MODULE WallClock -----------------------------
(***************************************************************************)
(* A host that maps a device's monotonic clock to wall time                *)
(* (crates/rusty_esp_core/src/time.rs, WallOffset).  Both clocks run; the  *)
(* device's drifts by at most `Ppm` parts per MILLION.  The host measures  *)
(* by exchanges: it notes its time, the device reads its clock at some     *)
(* instant of the round trip, the host notes its time again.  Of the       *)
(* mappings it measures it keeps the better one.                           *)
(*                                                                         *)
(* Time passes in whole microseconds of both clocks.  The offset of a      *)
(* mapping is kept in 64 signed bits: MAX_I64 is 2^63 - 1.                 *)
(***************************************************************************)
EXTENDS Integers

CONSTANTS
  MILLION,   \* 1_000_000
  Ppm,       \* the drift that error_at is asked to allow for
  MAX_I64,
  Epochs,    \* what the two clocks may read at first: pairs
  MaxStep,   \* bound: device microseconds that pass at once
  MaxAge     \* bound: device microseconds of a behaviour

ASSUME ClockAssumption ==
  /\ MILLION \in Nat \ {0} /\ Ppm \in Nat /\ MAX_I64 \in Nat
  /\ Epochs \subseteq Nat \X Nat /\ MaxStep \in Nat /\ MaxAge \in Nat

VARIABLES
  device,   \* the device's clock
  wall,     \* the host's
  boot,     \* the device's at first
  trip,     \* the exchange under way: when it was sent, what the device read
  mapping   \* the WallOffset the host keeps

clockVars == <<device, wall, boot, trip, mapping>>

\* WallOffset::UNKNOWN: `error` is the infinite one, None
Infinite == -1
UNKNOWN  == [offset |-> 0, error |-> Infinite, at |-> 0]
Known(m) == m.error # Infinite

\* an exchange that was not sent, and one the device has not answered
NoTrip     == [sent |-> -1, reading |-> -1]
Unanswered == -1

----------------------------------------------------------------------------
\* MUTANT of Error: half of an odd round trip is rounded down
ErrorRoundedDown(rtt) == rtt \div 2

Error(rtt) == (rtt + 1) \div 2

\* from_exchange; an offset beyond 64 bits is InvalidFormat
FromExchange(sent, reading, received) ==
  [offset |-> sent + ((received - sent) \div 2) - reading,
   error  |-> Error(received - sent),
   at     |-> reading]
InRange(m) == m.offset \in -MAX_I64 - 1 .. MAX_I64

\* MUTANT of Better: the newer mapping is kept
BetterNewer(m, other) == other

\* better
Better(m, other) ==
  IF Known(m) /\ (~Known(other) \/ m.error <= other.error) THEN m ELSE other

\* a 64-bit reading seen as a signed one
Signed64(n) == IF n > MAX_I64 THEN n - 2 * (MAX_I64 + 1) ELSE n

Clamp(n) == IF n > MAX_I64 THEN MAX_I64 ELSE IF n < 0 THEN 0 ELSE n

\* to_wall
ToWall(m, reading) == Clamp(Signed64(reading) + m.offset)

\* Micros::since, saturating
Since(later, earlier) == IF later >= earlier THEN later - earlier ELSE 0

\* error_at, its product split so that it fits in 64 bits
ErrorAt(m, reading) ==
  LET age == Since(reading, m.at)
  IN m.error + (age \div MILLION) * Ppm + ((age % MILLION) * Ppm) \div MILLION

----------------------------------------------------------------------------
\* time (external): the drift over `us` device microseconds
Drifts(us) == {d \in -MaxStep * Ppm .. MaxStep * Ppm : d * MILLION \in -us * Ppm .. us * Ppm}

Pass ==
  /\ \E us \in 1 .. MaxStep :
       /\ device + us - boot <= MaxAge
       /\ device' = device + us
       /\ \E d \in Drifts(us) : wall + us + d >= wall /\ wall' = wall + us + d
  /\ UNCHANGED <<boot, trip, mapping>>

Send ==
  /\ trip = NoTrip
  /\ trip' = [sent |-> wall, reading |-> Unanswered]
  /\ UNCHANGED <<device, wall, boot, mapping>>

ReadClock ==
  /\ trip # NoTrip /\ trip.reading = Unanswered
  /\ trip' = [trip EXCEPT !.reading = device]
  /\ UNCHANGED <<device, wall, boot, mapping>>

Receive ==
  /\ trip # NoTrip /\ trip.reading # Unanswered
  /\ LET m == FromExchange(trip.sent, trip.reading, wall)
     IN mapping' = IF InRange(m) THEN Better(mapping, m) ELSE mapping
  /\ trip' = NoTrip
  /\ UNCHANGED <<device, wall, boot>>

ClockFresh(epoch) ==
  /\ device = epoch[1] /\ wall = epoch[2] /\ boot = device
  /\ trip = NoTrip /\ mapping = UNKNOWN

ClockInit == \E epoch \in Epochs : ClockFresh(epoch)

ClockNext == Pass \/ Send \/ ReadClock \/ Receive

ClockSpec == ClockInit /\ [][ClockNext]_clockVars

----------------------------------------------------------------------------
Distance(x, y) == IF x >= y THEN x - y ELSE y - x

\* What a host reads off a mapping it measured is within the error the mapping states for
\* that instant, odd round trips and drift included (time.rs 53-67, 132-141): as long as
\* both clocks are in the signed range (wall times before the year 294000).
ErrorCovers ==
  Known(mapping) /\ device <= MAX_I64 /\ wall <= MAX_I64 =>
    Distance(ToWall(mapping, device), wall) <= ErrorAt(mapping, device)

\* A measurement once made is never given up for none or for a worse one: a late answer to a
\* slow exchange does not widen what the host knows (time.rs 143-158).
NeverWorse ==
  [][Known(mapping) => Known(mapping') /\ mapping'.error <= mapping.error]_clockVars
=============================================================================
