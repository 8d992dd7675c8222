---------------------------- MODULE ImageProofs -----------------------------
(***************************************************************************)
(* The loader of images, for every address map, every size, and whatever   *)
(* table and images flash holds: its own memory is never written, otadata  *)
(* is written for the app that starts, the app sees what was verified, the *)
(* first good image starts, and none is given up that is good.             *)
(***************************************************************************)
EXTENDS BootImage, TLAPS, WellFoundedInduction, FiniteSetTheorems, SequenceTheorems

\* what the candidates' images are made of, and what was let into RAM
LoadInv ==
  /\ \A c \in Candidate : image[c].segs \in Seq(SegmentType)
  /\ order \in Seq(Candidate) /\ tried \in Seq(Candidate)
  /\ stage \in {"header", "segment", "signature", "start"} => tried # <<>>
  /\ index \in Nat
  /\ \A seg \in written : seg \in SegmentType /\ ~TouchesLoader(seg.addr, seg.len)

----------------------------------------------------------------------------
\* A segment that reaches a byte of the loader, by the data bus or by the instruction bus, is
\* one that `load` refuses.
LEMMA AliasCaught ==
  ASSUME NEW seg \in SegmentType, HitsLoader(seg)
  PROVE  TouchesLoader(seg.addr, seg.len)
  <1>1. PICK a \in seg.addr .. seg.addr + seg.len - 1 :
          Physical(a) >= LOADER_DRAM[1] /\ Physical(a) < LOADER_DRAM[2]
    BY DEF HitsLoader, Bytes
  <1>2. /\ LOADER_DRAM[1] \in Nat /\ LOADER_DRAM[2] \in Nat /\ ALIAS \in Nat
        /\ IRAM[1] \in Nat /\ IRAM[2] \in Nat /\ DRAM[1] \in Nat
        /\ LOADER_IRAM[1] = LOADER_DRAM[1] + ALIAS /\ LOADER_IRAM[2] = LOADER_DRAM[2] + ALIAS
    BY AddressMapAssumption DEF AddressMap
  <1>3. seg.addr \in Nat /\ seg.len \in Nat /\ a \in Nat /\ seg.addr <= a /\ a < seg.addr + seg.len
    BY DEF SegmentType
  <1>4. CASE a >= IRAM[1] /\ a < IRAM[2] /\ a - ALIAS >= DRAM[1]
    BY <1>1, <1>2, <1>3, <1>4 DEF Physical, TouchesLoader, Overlaps
  <1>5. CASE ~(a >= IRAM[1] /\ a < IRAM[2] /\ a - ALIAS >= DRAM[1])
    BY <1>1, <1>2, <1>3, <1>5 DEF Physical, TouchesLoader, Overlaps
  <1> QED BY <1>4, <1>5

\* The table counts as many OTA entries as it has, at most one for each slot.
LEMMA OtaCountTyped ==
  ASSUME NEW board \in Boards
  PROVE  OtaCount(board.table) \in 0 .. MAX_OTA
  <1> DEFINE t == board.table
             S == {k \in DOMAIN t : t[k].kind = "ota"}
  <1>1. t \in Seq(TableEntry) /\ OtaCount(t) <= MAX_OTA
    BY BoardsAssumption
  <1> HIDE DEF t
  <1>2. DOMAIN t = 1 .. Len(t) /\ Len(t) \in Nat
    BY <1>1
  <1>3. IsFiniteSet(DOMAIN t)
    BY <1>2, FS_Interval
  <1>4. S \in SUBSET DOMAIN t
    OBVIOUS
  <1> HIDE DEF S
  <1>5. IsFiniteSet(S)
    BY <1>3, <1>4, FS_Subset
  <1>6. Cardinality(S) \in Nat
    BY <1>5, FS_CardinalityType
  <1>7. OtaCount(t) = Cardinality(S)
    BY DEF OtaCount, S
  <1> QED BY <1>1, <1>6, <1>7, SlotsAssumption DEF t

\* The order of candidates: each once, among them every slot that is counted and the factory app.
LEMMA EachOnce ==
  ASSUME NEW n \in 0 .. MAX_OTA, NEW first \in Candidate
  PROVE  LET o == <<first>> \o OtherSlots(n, first) \o (IF first = Factory THEN <<>> ELSE <<Factory>>)
         IN /\ o \in Seq(Candidate)
            /\ \A i, j \in DOMAIN o : o[i] = o[j] => i = j
            /\ \A c \in Candidate : c < n \/ c = Factory => \E k \in DOMAIN o : o[k] = c
  <1> DEFINE m == IF first < n THEN n - 1 ELSE n
             s == OtherSlots(n, first)
             l == IF first = Factory THEN <<>> ELSE <<Factory>>
             o == <<first>> \o s \o l
  <1>1. n \in Nat /\ MAX_OTA \in Nat /\ n <= MAX_OTA /\ first \in 0 .. MAX_OTA /\ m \in Nat
        /\ Candidate = 0 .. MAX_OTA /\ Factory = MAX_OTA
    BY SlotsAssumption DEF Candidate, Slots, Factory
  <1>2. s = [k \in 1 .. m |-> IF k <= first THEN k - 1 ELSE k]
    BY DEF OtherSlots
  <1>3. s \in Seq(Candidate) /\ Len(s) = m
    <2>1. \A k \in 1 .. m : (IF k <= first THEN k - 1 ELSE k) \in 0 .. MAX_OTA
      BY <1>1
    <2> QED BY <1>1, <1>2, <2>1
  <1>4. l \in Seq(Candidate) /\ Len(l) = (IF first = Factory THEN 0 ELSE 1) /\ (first # Factory => l[1] = Factory)
    <2>1. CASE first = Factory
      <3>1. l = <<>> /\ <<>> \in Seq(Candidate) /\ Len(<<>>) = 0
        BY <2>1
      <3> QED BY <2>1, <3>1
    <2>2. CASE first # Factory
      <3>1. l = <<Factory>> /\ Factory \in Candidate
        BY <2>2 DEF Candidate
      <3> HIDE DEF Factory
      <3>2. <<Factory>> \in Seq(Candidate) /\ Len(<<Factory>>) = 1 /\ <<Factory>>[1] = Factory
        BY <3>1
      <3> QED BY <2>2, <3>1, <3>2
    <2> QED BY <2>1, <2>2
  <1>5. \A k \in 1 .. m : s[k] = IF k <= first THEN k - 1 ELSE k
    BY <1>2
  <1> HIDE DEF s, m, l
  <1>6. o \in Seq(Candidate) /\ Len(o) = 1 + m + Len(l)
    <2>1. <<first>> \in Seq(Candidate) /\ Len(<<first>>) = 1
      OBVIOUS
    <2>2. <<first>> \o s \in Seq(Candidate) /\ Len(<<first>> \o s) = 1 + m
      BY <1>3, <2>1
    <2>3. l \in Seq(Candidate)
      BY <1>4
    <2> QED BY <2>2, <2>3
  <1>7. /\ o[1] = first
        /\ \A k \in 1 .. m : o[k + 1] = s[k]
        /\ first # Factory => o[m + 2] = Factory
    BY <1>1, <1>3, <1>4
  <1> HIDE DEF o
  <1>8. \A k \in 1 .. Len(o) : /\ k = 1 => o[k] = first
                               /\ k > 1 /\ k <= m + 1 => o[k] = IF k - 1 <= first THEN k - 2 ELSE k - 1
                               /\ k > m + 1 => k = m + 2 /\ first # Factory /\ o[k] = Factory
    <2> TAKE k \in 1 .. Len(o)
    <2>1. CASE k = 1
      BY <1>1, <1>7, <2>1
    <2>2. CASE k > 1 /\ k <= m + 1
      <3>1. k - 1 \in 1 .. m
        BY <1>1, <2>2
      <3>2. o[(k - 1) + 1] = s[k - 1] /\ s[k - 1] = IF k - 1 <= first THEN (k - 1) - 1 ELSE k - 1
        BY <1>5, <1>7, <3>1
      <3>3. (k - 1) + 1 = k /\ (k - 1) - 1 = k - 2
        BY <2>2
      <3> QED BY <1>1, <2>2, <3>2, <3>3
    <2>3. CASE k > m + 1
      BY <1>1, <1>4, <1>6, <1>7, <2>3
    <2> QED BY <1>1, <2>1, <2>2, <2>3
  <1>9. ASSUME NEW i \in 1 .. Len(o), NEW j \in 1 .. Len(o), o[i] = o[j], i < j PROVE FALSE
    <2>1. CASE i = 1 /\ j <= m + 1
      BY <1>1, <1>8, <1>9, <2>1 DEF m
    <2>2. CASE i > 1 /\ j <= m + 1
      BY <1>1, <1>8, <1>9, <2>2 DEF m
    <2>3. CASE j > m + 1
      BY <1>1, <1>8, <1>9, <2>3 DEF m
    <2> QED BY <1>1, <2>1, <2>2, <2>3
  <1>10. ASSUME NEW c \in Candidate, c < n \/ c = Factory PROVE \E k \in 1 .. Len(o) : o[k] = c
    <2>1. CASE c = first
      <3>1. 1 \in 1 .. Len(o)
        BY <1>1, <1>4, <1>6
      <3> QED BY <1>8, <2>1, <3>1
    <2>2. CASE c = Factory /\ c # first
      <3>1. m + 2 \in 1 .. Len(o)
        BY <1>1, <1>4, <1>6, <2>2
      <3> QED BY <1>7, <2>2, <3>1
    <2>3. CASE c < n /\ c < first
      <3>1. c + 1 \in 1 .. m /\ (c + 1) + 1 \in 1 .. Len(o)
        BY <1>1, <1>4, <1>6, <2>3 DEF m
      <3>2. o[(c + 1) + 1] = c
        BY <1>1, <1>5, <1>7, <2>3, <3>1
      <3> QED BY <3>1, <3>2
    <2>4. CASE c < n /\ c > first
      <3>1. c \in 1 .. m /\ c + 1 \in 1 .. Len(o)
        BY <1>1, <1>4, <1>6, <2>4 DEF m
      <3>2. o[c + 1] = c
        BY <1>1, <1>5, <1>7, <2>4, <3>1
      <3> QED BY <3>1, <3>2
    <2> QED BY <1>1, <1>10, <2>1, <2>2, <2>3, <2>4
  <1>11. DOMAIN o = 1 .. Len(o) /\ Len(o) \in Nat
    BY <1>6
  <1>12. \A i, j \in DOMAIN o : o[i] = o[j] => i = j
    <2> SUFFICES ASSUME NEW i \in 1 .. Len(o), NEW j \in 1 .. Len(o), o[i] = o[j] PROVE i = j
      BY <1>11
    <2>1. ~(i < j) /\ ~(j < i)
      BY <1>9
    <2> QED BY <2>1
  <1> QED BY <1>6, <1>10, <1>11, <1>12 DEF o, s, l

LEMMA CandidatesOnce ==
  ASSUME NEW board \in Boards, NEW first \in FirstChoices(board.table)
  PROVE  LET o == Candidates(board.table, first)
         IN /\ o \in Seq(Candidate)
            /\ \A i, j \in DOMAIN o : o[i] = o[j] => i = j
            /\ \A c \in Candidate :
                 c < OtaCount(board.table) \/ c = Factory => \E k \in DOMAIN o : o[k] = c
  <1>1. first \in Candidate
    BY DEF FirstChoices, Candidate
  <1>2. OtaCount(board.table) \in 0 .. MAX_OTA
    BY OtaCountTyped
  <1> QED BY <1>1, <1>2, EachOnce, Zenon DEF Candidates

LEMMA LoadInit == ImageInit => LoadInv
  <1> SUFFICES ASSUME ImageInit PROVE LoadInv
    OBVIOUS
  <1>1. PICK board \in Boards : PowerOn(board)
    BY DEF ImageInit
  <1>2. PICK first \in FirstChoices(table) : order = Candidates(table, first)
    BY <1>1 DEF PowerOn
  <1>3. order \in Seq(Candidate) /\ \A c \in Candidate : image[c].segs \in Seq(SegmentType)
    <2>1. table = board.table /\ image = board.image
      BY <1>1 DEF PowerOn
    <2> QED BY <1>2, <2>1, CandidatesOnce, BoardsAssumption
  <1>4. tried = <<>> /\ stage = "next" /\ written = {} /\ index = 0
    BY <1>1 DEF PowerOn
  <1> QED BY <1>3, <1>4 DEF LoadInv

LEMMA LastTried ==
  ASSUME LoadInv, tried # <<>>
  PROVE  Current \in Candidate /\ Img.segs \in Seq(SegmentType)
  <1>1. tried \in Seq(Candidate) /\ Len(tried) \in 1 .. Len(tried)
    BY DEF LoadInv
  <1>2. Current \in Candidate
    BY <1>1 DEF Current
  <1> QED BY <1>2 DEF LoadInv, Img

LEMMA BeginInv ==
  ASSUME LoadInv, BeginCandidate
  PROVE  LoadInv'
  <1>1. tried' \in Seq(Candidate) /\ tried' # <<>>
    <2>1. order \in Seq(Candidate) /\ tried \in Seq(Candidate) /\ Len(tried) < Len(order)
          /\ tried' = Append(tried, order[Len(tried) + 1])
      BY DEF LoadInv, BeginCandidate
    <2>2. order[Len(tried) + 1] \in Candidate
      BY <2>1
    <2> QED BY <2>1, <2>2
  <1>2. stage' = stage \/ stage' = "header"
    BY DEF BeginCandidate
  <1>3. stage = "next" /\ UNCHANGED <<image, order, written, index>>
    BY DEF BeginCandidate, Constant, locals
  <1> QED BY <1>1, <1>2, <1>3 DEF LoadInv, SegmentType

LEMMA SegmentWrites ==
  ASSUME Segment
  PROVE  LET seg == Img.segs[index + 1]
         IN /\ stage' \in {"next", "segment"} /\ index' \in {0, index + 1}
            /\ \/ written' = written
               \/ written' = written \cup {seg} /\ ~TouchesLoader(seg.addr, seg.len)
  BY ZenonT(60) DEF Segment, NextCandidate, Walked, Hashes

LEMMA SegmentInv ==
  ASSUME LoadInv, Segment
  PROVE  LoadInv'
  <1> DEFINE seg == Img.segs[index + 1]
  <1>1. stage = "segment" /\ index < Len(Img.segs) /\ UNCHANGED <<image, order, tried>>
    BY DEF Segment, Constant
  <1>2. index \in Nat /\ tried # <<>>
    BY <1>1 DEF LoadInv
  <1>3. seg \in SegmentType
    <2>1. Img.segs \in Seq(SegmentType)
      BY <1>2, LastTried
    <2> QED BY <1>1, <1>2, <2>1
  <1>4. stage' \in {"next", "segment"} /\ index' \in {0, index + 1}
    BY SegmentWrites
  <1>5. written' = written \/ (written' = written \cup {seg} /\ ~TouchesLoader(seg.addr, seg.len))
    BY SegmentWrites
  <1> HIDE DEF seg
  <1>6. \A s \in written' : s \in SegmentType /\ ~TouchesLoader(s.addr, s.len)
    BY <1>3, <1>5 DEF LoadInv
  <1> QED BY <1>1, <1>2, <1>4, <1>6 DEF LoadInv

\* every other step leaves RAM alone
LEMMA OtherStepsInv ==
  ASSUME LoadInv, Fatal \/ ReadHeader \/ FinishWalk \/ Verify \/ Start \/ UNCHANGED imageVars
  PROVE  LoadInv'
  <1>1. UNCHANGED <<image, order, tried, written>>
    BY DEF Fatal, ReadHeader, FinishWalk, Verify, Start, Constant, imageVars
  <1>2. tried # <<>> \/ stage' \notin {"header", "segment", "signature", "start"}
    BY DEF LoadInv, Fatal, ReadHeader, FinishWalk, Verify, Start, imageVars
  <1>3. index' = index \/ index' = 0
    BY DEF Fatal, ReadHeader, FinishWalk, Verify, Start, imageVars, locals, NextCandidate
  <1> QED BY <1>1, <1>2, <1>3 DEF LoadInv

LEMMA LoadAlways == ImageSpec => []LoadInv
  <1>1. LoadInv /\ [ImageNext]_imageVars => LoadInv'
    BY BeginInv, SegmentInv, OtherStepsInv DEF ImageNext
  <1> QED BY <1>1, LoadInit, PTL DEF ImageSpec

----------------------------------------------------------------------------
\* Loading never writes a byte of the loader's own memory, by whichever of its two addresses
\* (image.rs 25-28): in every address map, for every table and every image.
THEOREM LoaderSafe == ImageSpec => []LoaderUntouched
  <1>1. LoadInv => LoaderUntouched
    BY AliasCaught DEF LoadInv, LoaderUntouched
  <1> QED BY <1>1, LoadAlways, PTL

\* nothing is vouched for before an app starts, and one that runs was started by this power-on
StartInv == /\ stage # "app" => vouched = Nobody /\ running = Nobody
            /\ stage = "app" /\ vouched # Nobody => vouched = running

LEMMA StartAlways == ImageSpec => []StartInv
  <1>1. ImageInit => StartInv
    BY DEF ImageInit, PowerOn, StartInv
  <1>2. StartInv /\ [ImageNext]_imageVars => StartInv'
    <2> SUFFICES ASSUME StartInv, [ImageNext]_imageVars PROVE StartInv'
      OBVIOUS
    <2>1. CASE BeginCandidate \/ Fatal \/ ReadHeader \/ FinishWalk \/ Verify
      <3>1. stage # "app" /\ stage' # "app" /\ UNCHANGED <<vouched, running>>
        BY <2>1 DEF BeginCandidate, Fatal, ReadHeader, FinishWalk, Verify, NextCandidate
      <3> QED BY <3>1 DEF StartInv
    <2>2. CASE Segment
      <3>1. stage # "app" /\ stage' # "app" /\ UNCHANGED <<vouched, running>>
        BY <2>2, SegmentWrites DEF Segment
      <3> QED BY <3>1 DEF StartInv
    <2>3. CASE Start
      <3>1. stage' = "app" /\ vouched' = Vouches /\ running' = Current
        BY <2>3 DEF Start
      <3> QED BY <3>1 DEF StartInv, Vouches
    <2>4. CASE UNCHANGED imageVars
      BY <2>4 DEF StartInv, imageVars
    <2> QED BY <2>1, <2>2, <2>3, <2>4 DEF ImageNext
  <1> QED BY <1>1, <1>2, PTL DEF ImageSpec

\* otadata is never made to name an app that was refused: what is written to it is the app
\* that starts (main.rs 166-168), for every order of candidates and whatever was tried before.
THEOREM VouchedIsStarted == ImageSpec => []VouchedRuns
  <1>1. StartInv => VouchedRuns
    BY DEF StartInv, VouchedRuns
  <1> QED BY <1>1, StartAlways, PTL

----------------------------------------------------------------------------
(***************************************************************************)
(* Whole parts and remainders.                                             *)
(***************************************************************************)
\* what \div and % say of each other
LEMMA DivFloor ==
  ASSUME NEW n \in Nat, NEW m \in Nat \ {0}
  PROVE  n \div m \in Nat /\ n % m \in 0 .. m - 1 /\ n = (n \div m) * m + (n % m)
  OBVIOUS

\* and that nothing else does
LEMMA DivUnique ==
  ASSUME NEW m \in Nat \ {0}, NEW q \in Nat, NEW r \in 0 .. m - 1
  PROVE  (q * m + r) \div m = q /\ (q * m + r) % m = r
  <1> DEFINE n == q * m + r
             p == n \div m
             s == n % m
  <1>0. q * m \in Nat /\ n \in Nat
    OBVIOUS
  <1>1. p \in Nat /\ s \in 0 .. m - 1 /\ n = p * m + s
    BY <1>0, DivFloor
  <1>2. CASE p = q
    <2>1. p * m = q * m
      BY <1>2
    <2>2. r = s
      BY <1>0, <1>1, <2>1
    <2> QED BY <1>2, <2>2
  <1>3. CASE p > q
    <2>1. p * m = q * m + m + (p - q - 1) * m /\ (p - q - 1) * m \in Nat
      <3>1. p - q - 1 \in Nat
        BY <1>1, <1>3
      <3> HIDE DEF p
      <3>2. PICK k \in Nat : p = q + 1 + k
        BY <1>1, <3>1
      <3> QED BY <3>2
    <2> HIDE DEF p, s
    <2> QED BY <1>0, <1>1, <2>1
  <1>4. CASE q > p
    <2>1. q * m = p * m + m + (q - p - 1) * m /\ (q - p - 1) * m \in Nat
      <3> HIDE DEF p
      <3>1. PICK k \in Nat : q = p + 1 + k
        BY <1>1, <1>4
      <3> QED BY <3>1, <1>1
    <2> HIDE DEF p, s
    <2> QED BY <1>0, <1>1, <2>1
  <1> QED BY <1>1, <1>2, <1>3, <1>4

\* a larger number of whole parts
LEMMA ProductsGrow ==
  ASSUME NEW a \in Nat, NEW b \in Nat, a <= b, NEW s \in Nat
  PROVE  a * s \in Nat /\ b * s \in Nat /\ a * s <= b * s
  <1>1. b * s = a * s + (b - a) * s /\ (b - a) * s \in Nat /\ a * s \in Nat
    OBVIOUS
  <1> QED BY <1>1

\* The distance from one number to a later one, around a circle of `m`.
LEMMA Around ==
  ASSUME NEW m \in Nat \ {0}, NEW q \in Nat, NEW d \in Nat
  PROVE  (((q + d) % m) + m - (q % m)) % m = d % m
  <1> DEFINE t == q % m
             g == d % m
             u == q \div m
             w == d \div m
  <1>1. t \in 0 .. m - 1 /\ u \in Nat /\ q = u * m + t
    BY DivFloor
  <1>2. g \in 0 .. m - 1 /\ w \in Nat /\ d = w * m + g
    BY DivFloor
  <1> HIDE DEF t, g, u, w
  <1>3. CASE t + g < m
    <2>1. q + d = (u + w) * m + (t + g) /\ t + g \in 0 .. m - 1 /\ u + w \in Nat
      BY <1>1, <1>2, <1>3
    <2>2. (q + d) % m = t + g
      BY <2>1, DivUnique
    <2>3. ((q + d) % m) + m - t = 1 * m + g
      BY <1>1, <1>2, <2>2
    <2>4. (1 * m + g) % m = g
      BY <1>2, DivUnique
    <2>5. (((q + d) % m) + m - t) % m = g
      BY <2>3, <2>4
    <2> QED BY <2>5 DEF t, g
  <1>4. CASE t + g >= m
    <2>1. q + d = (u + w + 1) * m + (t + g - m) /\ t + g - m \in 0 .. m - 1 /\ u + w + 1 \in Nat
      BY <1>1, <1>2, <1>4
    <2>2. (q + d) % m = t + g - m
      <3> DEFINE p == u + w + 1
                 r == t + g - m
      <3>1. q + d = p * m + r /\ r \in 0 .. m - 1 /\ p \in Nat
        BY <2>1
      <3> HIDE DEF p, r
      <3>2. (q + d) % m = r
        BY <3>1, DivUnique
      <3> QED BY <3>2 DEF r
    <2>3. ((q + d) % m) + m - t = 0 * m + g
      BY <1>1, <1>2, <2>2
    <2>4. (0 * m + g) % m = g
      BY <1>2, DivUnique
    <2>5. (((q + d) % m) + m - t) % m = g
      BY <2>3, <2>4
    <2> QED BY <2>5 DEF t, g
  <1> QED BY <1>1, <1>2, <1>3, <1>4

LEMMA SmallMod ==
  ASSUME NEW m \in Nat \ {0}, NEW a \in Nat, a < m
  PROVE  a % m = a /\ a \div m = 0
  <1>1. (0 * m + a) % m = a /\ (0 * m + a) \div m = 0
    BY DivUnique
  <1> QED BY <1>1

\* Two places as far from a third are one.
LEMMA SameOffset ==
  ASSUME NEW m \in Nat \ {0}, NEW a \in 0 .. m - 1, NEW b \in 0 .. m - 1, NEW t \in 0 .. m - 1,
         (a + m - t) % m = (b + m - t) % m
  PROVE  a = b
  <1>1. \A c \in 0 .. m - 1 : (c + m - t) % m = IF c >= t THEN c - t ELSE c + m - t
    <2> TAKE c \in 0 .. m - 1
    <2>1. CASE c >= t
      <3> DEFINE g == c - t
      <3>1. g \in 0 .. m - 1 /\ c + m - t = 1 * m + g
        BY <2>1
      <3> HIDE DEF g
      <3>2. (1 * m + g) % m = g
        BY <3>1, DivUnique
      <3> QED BY <2>1, <3>1, <3>2 DEF g
    <2>2. CASE c < t
      <3>1. c + m - t \in Nat /\ c + m - t < m
        BY <2>2
      <3>2. (c + m - t) % m = c + m - t
        BY <3>1, SmallMod
      <3> QED BY <2>2, <3>2
    <2> QED BY <2>1, <2>2
  <1> QED BY <1>1

LEMMA DivMonotone ==
  ASSUME NEW a \in Nat, NEW b \in Nat, a <= b, NEW m \in Nat \ {0}
  PROVE  a \div m <= b \div m
  <1> DEFINE p == a \div m
             q == b \div m
  <1>1. p \in Nat /\ a % m \in 0 .. m - 1 /\ a = p * m + (a % m)
    BY DivFloor
  <1>2. q \in Nat /\ b % m \in 0 .. m - 1 /\ b = q * m + (b % m)
    BY DivFloor
  <1> HIDE DEF p, q
  <1>3. CASE p >= q + 1
    <2>1. (q + 1) * m <= p * m /\ p * m \in Nat /\ (q + 1) * m = q * m + m /\ q * m \in Nat
      BY <1>1, <1>2, <1>3, ProductsGrow
    <2> QED BY <1>1, <1>2, <2>1
  <1> QED BY <1>1, <1>2, <1>3 DEF p, q

----------------------------------------------------------------------------
(***************************************************************************)
(* What the MMU shows after soc::start.                                    *)
(***************************************************************************)
MapType == [flash : Nat, vaddr : Nat, len : Nat]
Entry   == 0 .. MMU_ENTRIES - 1

\* text or rodata as load accepts it
Mappable(m) == m \in MapType /\ m.len > 0 /\ m.flash % PAGE = m.vaddr % PAGE

\* The pages of a mapping are those its bytes lie in.
LEMMA PagesOfBytes ==
  ASSUME NEW vaddr \in Nat, NEW len \in Nat \ {0}
  PROVE  LET first == vaddr \div PAGE
         IN /\ Pages(vaddr, len) \in Nat
            /\ \A k \in 0 .. len - 1 : /\ (vaddr + k) \div PAGE - first \in Nat
                                       /\ (vaddr + k) \div PAGE - first < Pages(vaddr, len)
            /\ \A d \in Nat : d < Pages(vaddr, len) =>
                 \E k \in 0 .. len - 1 : (vaddr + k) \div PAGE = first + d
  <1> DEFINE first == vaddr \div PAGE
             r     == vaddr % PAGE
             final == vaddr + (len - 1)
             last  == final \div PAGE
             s     == final % PAGE
  <1>0. PAGE \in Nat \ {0}
    BY SizesAssumption
  <1>1. first \in Nat /\ r \in 0 .. PAGE - 1 /\ vaddr = first * PAGE + r
    BY <1>0, DivFloor
  <1>2. final \in Nat
    OBVIOUS
  <1> HIDE DEF final
  <1>3. last \in Nat /\ s \in 0 .. PAGE - 1 /\ final = last * PAGE + s
    BY <1>0, <1>2, DivFloor
  <1>4. first <= last
    BY <1>0, <1>2, DivMonotone DEF final
  <1> HIDE DEF first, last, r, s
  <1>5. Pages(vaddr, len) = last - first + 1
    <2> DEFINE p == last - first + 1
    <2>1. p \in Nat /\ p * PAGE = last * PAGE - first * PAGE + PAGE
      BY <1>0, <1>1, <1>3, <1>4
    <2> HIDE DEF p
    <2>2. last * PAGE \in Nat /\ first * PAGE \in Nat
      BY <1>0, <1>1, <1>3
    <2>3. r + len + PAGE - 1 = p * PAGE + s
      BY <1>0, <1>1, <1>3, <2>1, <2>2 DEF final
    <2>4. (p * PAGE + s) \div PAGE = p
      BY <1>0, <1>3, <2>1, DivUnique
    <2>5. (r + len + PAGE - 1) \div PAGE = p
      BY <2>3, <2>4
    <2> QED BY <2>5 DEF Pages, p, r
  <1>6. ASSUME NEW k \in 0 .. len - 1
        PROVE  /\ (vaddr + k) \div PAGE - first \in Nat
               /\ (vaddr + k) \div PAGE - first < Pages(vaddr, len)
    <2> DEFINE q == (vaddr + k) \div PAGE
    <2>1. vaddr + k \in Nat /\ vaddr <= vaddr + k /\ vaddr + k <= final
      BY DEF final
    <2>2. q \in Nat /\ first <= q /\ q <= last
      BY <1>0, <1>2, <2>1, DivFloor, DivMonotone DEF first, last
    <2> HIDE DEF q
    <2>3. q - first \in Nat /\ q - first < Pages(vaddr, len)
      BY <1>1, <1>3, <1>5, <2>2
    <2> QED BY <2>3 DEF q
  <1>7. ASSUME NEW d \in Nat, d < Pages(vaddr, len)
        PROVE  \E k \in 0 .. len - 1 : (vaddr + k) \div PAGE = first + d
    <2>1. CASE d = 0
      <3>1. 0 \in 0 .. len - 1 /\ (vaddr + 0) \div PAGE = first + d
        BY <1>1, <2>1 DEF first
      <3> QED BY <3>1
    <2>2. CASE d > 0
      <3> DEFINE q == first + d
      <3>1. q \in Nat /\ first + 1 <= q /\ q <= last
        BY <1>1, <1>3, <1>5, <1>7, <2>2
      <3> HIDE DEF q
      <3>2. (first + 1) * PAGE <= q * PAGE /\ q * PAGE <= last * PAGE /\ q * PAGE \in Nat
            /\ first * PAGE \in Nat /\ last * PAGE \in Nat
        BY <1>0, <1>1, <1>3, <3>1, ProductsGrow
      <3>3. (first + 1) * PAGE = first * PAGE + PAGE
        BY <1>0, <1>1
      <3> DEFINE k == q * PAGE - vaddr
      <3>4. k \in 0 .. len - 1 /\ vaddr + k = q * PAGE + 0
        BY <1>0, <1>1, <1>3, <3>2, <3>3 DEF final
      <3>5. (q * PAGE + 0) \div PAGE = q
        BY <1>0, <3>1, DivUnique
      <3>6. (vaddr + k) \div PAGE = q
        BY <3>4, <3>5
      <3> QED BY <3>4, <3>6 DEF q
    <2> QED BY <1>7, <2>1, <2>2
  <1> QED BY <1>5, <1>6, <1>7, <1>1, <1>3, <1>4 DEF first

\* An entry of the MMU is set exactly when a byte of the mapping goes through it.
LEMMA EntriesSet ==
  ASSUME NEW m, Mappable(m), NEW e \in Entry
  PROVE  e \in Entries(m) <=>
           (e + MMU_ENTRIES - EntryOf(m.vaddr)) % MMU_ENTRIES < Pages(m.vaddr, m.len)
  <1> DEFINE M     == MMU_ENTRIES
             first == m.vaddr \div PAGE
             P     == Pages(m.vaddr, m.len)
             j     == (e + M - (first % M)) % M
  <1>0. M \in Nat \ {0} /\ PAGE \in Nat \ {0} /\ m.vaddr \in Nat /\ m.len \in Nat \ {0}
    BY SizesAssumption DEF Mappable, MapType
  <1>1. first \in Nat /\ first % M \in 0 .. M - 1
    BY <1>0, DivFloor
  <1>2. /\ \A k \in 0 .. m.len - 1 : /\ (m.vaddr + k) \div PAGE - first \in Nat
                                     /\ (m.vaddr + k) \div PAGE - first < P
        /\ \A d \in Nat : d < P => \E k \in 0 .. m.len - 1 : (m.vaddr + k) \div PAGE = first + d
        /\ P \in Nat
    BY <1>0, PagesOfBytes
  <1>3. m # NoMap
    BY <1>0 DEF NoMap
  <1>4. EntryOf(m.vaddr) = first % M /\ Entries(m) = {((m.vaddr + k) \div PAGE) % M : k \in 0 .. m.len - 1}
    BY <1>3 DEF EntryOf, Entries
  <1> HIDE DEF first, P
  <1>5. ASSUME NEW k \in 0 .. m.len - 1, e = ((m.vaddr + k) \div PAGE) % M
        PROVE  j < P
    <2> DEFINE d == (m.vaddr + k) \div PAGE - first
    <2>1. d \in Nat /\ d < P
      BY <1>2
    <2>2. (m.vaddr + k) \div PAGE = first + d
      <3>1. m.vaddr + k \in Nat
        BY <1>0
      <3>2. (m.vaddr + k) \div PAGE \in Nat
        BY <1>0, <3>1, DivFloor
      <3> QED BY <1>1, <3>2
    <2> HIDE DEF d
    <2>3. (((first + d) % M) + M - (first % M)) % M = d % M
      BY <1>0, <1>1, <2>1, Around
    <2>4. j = d % M
      BY <1>5, <2>2, <2>3
    <2>5. d % M <= d
      <3>1. d \div M \in Nat /\ d % M \in 0 .. M - 1 /\ d = (d \div M) * M + (d % M)
        BY <1>0, <2>1, DivFloor
      <3>2. (d \div M) * M \in Nat
        BY <1>0, <3>1
      <3> QED BY <2>1, <3>1, <3>2
    <2> HIDE DEF j
    <2>6. j \in Nat /\ d % M \in Nat
      <3>1. d % M \in 0 .. M - 1
        BY <1>0, <2>1, DivFloor
      <3> QED BY <1>0, <2>4, <3>1
    <2> QED BY <1>2, <2>1, <2>4, <2>5, <2>6
  <1>6. ASSUME j < P
        PROVE  \E k \in 0 .. m.len - 1 : e = ((m.vaddr + k) \div PAGE) % M
    <2>1. j \in 0 .. M - 1
      <3>1. e + M - (first % M) \in Nat
        BY <1>0, <1>1 DEF Entry
      <3> QED BY <1>0, <3>1, DivFloor
    <2>2. PICK k \in 0 .. m.len - 1 : (m.vaddr + k) \div PAGE = first + j
      BY <1>2, <1>6, <2>1
    <2>9. j = (e + M - (first % M)) % M
      OBVIOUS
    <2> HIDE DEF j
    <2>3. (first + j) % M = e
      <3>1. (((first + j) % M) + M - (first % M)) % M = j % M
        <4>1. M \in Nat \ {0} /\ first \in Nat /\ j \in Nat
          BY <1>0, <1>1, <2>1
        <4> HIDE DEF M
        <4> QED BY <4>1, Around
      <3>2. j % M = j
        BY <1>0, <2>1, SmallMod
      <3> DEFINE a == (first + j) % M
                 t == first % M
      <3>3. a \in 0 .. M - 1 /\ t \in 0 .. M - 1
        <4>1. first + j \in Nat
          BY <1>0, <1>1, <2>1
        <4> QED BY <1>0, <1>1, <4>1, DivFloor
      <3>4. (a + M - t) % M = (e + M - t) % M
        BY <2>9, <3>1, <3>2
      <3> HIDE DEF a, t
      <3>5. a = e
        BY <1>0, <3>3, <3>4, SameOffset DEF Entry
      <3> QED BY <3>5 DEF a
    <2> QED BY <2>2, <2>3
  <1> QED BY <1>4, <1>5, <1>6 DEF P

\* A mapping that leaves some entry out sets no entry twice: its bytes are seen where the
\* flash has them, and every other entry is as it was.
LEMMA MapSeen ==
  ASSUME NEW m, Mappable(m), NEW x
  PROVE  LET n == MmuSet(x, m.vaddr, m.flash, Pages(m.vaddr, m.len))
         IN /\ \A e \in Entry \ Entries(m) : n[e] = x[e]
            /\ \A t \in Entry \ Entries(m) : \A k \in 0 .. m.len - 1 :
                 n[EntryOf(m.vaddr + k)] * PAGE + ((m.vaddr + k) % PAGE) = m.flash + k
  <1> DEFINE M     == MMU_ENTRIES
             first == m.vaddr \div PAGE
             r     == m.vaddr % PAGE
             f     == m.flash \div PAGE
             P     == Pages(m.vaddr, m.len)
             n     == MmuSet(x, m.vaddr, m.flash, P)
  <1>0. /\ M \in Nat \ {0} /\ PAGE \in Nat \ {0}
        /\ m.vaddr \in Nat /\ m.len \in Nat \ {0} /\ m.flash \in Nat /\ m.flash % PAGE = r
    BY SizesAssumption DEF Mappable, MapType
  <1>1. \A e \in Entry : n[e] = IF (e + M - EntryOf(m.vaddr)) % M < P
                                  THEN f + ((e + M - EntryOf(m.vaddr)) % M) ELSE x[e]
    BY DEF MmuSet, Entry
  <1>2. \A e \in Entry \ Entries(m) : n[e] = x[e]
    BY <1>1, EntriesSet
  <1>3. ASSUME NEW t \in Entry \ Entries(m), NEW k \in 0 .. m.len - 1
        PROVE  n[EntryOf(m.vaddr + k)] * PAGE + ((m.vaddr + k) % PAGE) = m.flash + k
    <2> DEFINE q == (m.vaddr + k) \div PAGE
               s == (m.vaddr + k) % PAGE
               d == q - first
               e == q % M
               j == (e + M - (first % M)) % M
    <2>1. /\ first \in Nat /\ r \in 0 .. PAGE - 1 /\ m.vaddr = first * PAGE + r
          /\ f \in Nat /\ m.flash = f * PAGE + r
          /\ q \in Nat /\ s \in 0 .. PAGE - 1 /\ m.vaddr + k = q * PAGE + s
      <3>1. m.vaddr + k \in Nat
        BY <1>0
      <3> QED BY <1>0, <3>1, DivFloor
    <2>2. d \in Nat /\ d < P /\ P \in Nat
          /\ \A i \in Nat : i < P => \E h \in 0 .. m.len - 1 : (m.vaddr + h) \div PAGE = first + i
      BY <1>0, PagesOfBytes
    <2>3. e \in Entry /\ EntryOf(m.vaddr + k) = e /\ EntryOf(m.vaddr) = first % M
      BY <1>0, <2>1, DivFloor DEF Entry, EntryOf
    <2>4. q = first + d
      BY <2>1
    <2> HIDE DEF q, first
    <2>5. j = d % M
      <3> HIDE DEF d, M
      <3>1. (((first + d) % M) + M - (first % M)) % M = d % M
        BY <1>0, <2>1, <2>2, Around
      <3> QED BY <2>4, <3>1
    <2>6. d < M
      <3> SUFFICES ASSUME d >= M PROVE FALSE
        BY <1>0, <2>2
      <3> DEFINE i == (t + M - (first % M)) % M
      <3>1. i \in 0 .. M - 1
        <4>1. first % M \in 0 .. M - 1 /\ t \in 0 .. M - 1
          BY <1>0, <2>1, DivFloor DEF Entry
        <4>2. t + M - (first % M) \in Nat
          BY <1>0, <4>1
        <4> QED BY <1>0, <4>2, DivFloor
      <3>2. ~(i < P)
        BY <2>3, EntriesSet
      <3> HIDE DEF i, d
      <3> QED BY <1>0, <2>2, <3>1, <3>2
    <2>7. j = d
      BY <1>0, <2>2, <2>5, <2>6, SmallMod
    <2>8. n[e] = f + d
      BY <1>1, <2>2, <2>3, <2>7
    <2> HIDE DEF n, e, d, f, s, r, j
    <2>9. (f + d) * PAGE = f * PAGE + d * PAGE /\ q * PAGE = first * PAGE + d * PAGE
          /\ f * PAGE \in Nat /\ d * PAGE \in Nat /\ first * PAGE \in Nat
      BY <1>0, <2>1, <2>2, <2>4
    <2>10. (f + d) * PAGE + s = m.flash + k
      <3> DEFINE A == f * PAGE
                 B == d * PAGE
                 C == first * PAGE
      <3>1. A \in Nat /\ B \in Nat /\ C \in Nat /\ (f + d) * PAGE = A + B
        BY <2>9
      <3>2. m.vaddr = C + r /\ m.flash = A + r /\ m.vaddr + k = C + B + s
        BY <2>1, <2>9
      <3> HIDE DEF A, B, C
      <3>3. r \in Nat /\ s \in Nat /\ k \in Nat
        BY <1>0, <2>1
      <3> QED BY <3>1, <3>2, <3>3
    <2> QED BY <2>3, <2>8, <2>10 DEF s
  <1> QED BY <1>2, <1>3

\* The entry that names the app to itself is one of the MMU's, and setting it sets no other.
LEMMA LastEntrySet ==
  ASSUME NEW x, NEW flash
  PROVE  /\ EntryOf(DROM_END) \in Entry
         /\ \A e \in Entry : e # EntryOf(DROM_END) => MmuSet(x, DROM_END, flash, 1)[e] = x[e]
  <1> DEFINE M == MMU_ENTRIES
             end == EntryOf(DROM_END)
  <1>1. M \in Nat \ {0} /\ PAGE \in Nat \ {0} /\ DROM[1] \in Nat
    BY SizesAssumption, AddressMapAssumption DEF AddressMap
  <1>2. (M - 1) * PAGE \in Nat
    BY <1>1
  <1>3. DROM_END \in Nat
    BY <1>1, <1>2 DEF DROM_END
  <1>4. DROM_END \div PAGE \in Nat
    BY <1>1, <1>3, DivFloor
  <1>5. end \in 0 .. M - 1
    BY <1>1, <1>4, DivFloor DEF EntryOf
  <1> HIDE DEF end
  <1>6. ASSUME NEW e \in Entry, e # end
        PROVE  MmuSet(x, DROM_END, flash, 1)[e] = x[e]
    <2>1. (end + M - end) % M = 0
      <3>1. end + M - end = 1 * M + 0
        BY <1>1, <1>5
      <3>2. (1 * M + 0) % M = 0
        BY <1>1, DivUnique
      <3> QED BY <3>1, <3>2
    <2>2. (e + M - end) % M # 0
      BY <1>1, <1>5, <1>6, <2>1, SameOffset DEF Entry
    <2>3. (e + M - end) % M \in Nat
      <3>1. e + M - end \in Nat
        BY <1>1, <1>5 DEF Entry
      <3> DEFINE d == e + M - end
      <3> HIDE DEF d
      <3>2. d % M \in 0 .. M - 1
        BY <1>1, <3>1, DivFloor DEF d
      <3>3. d % M \in Nat
        BY <1>1, <3>2
      <3> QED BY <3>3 DEF d
    <2> DEFINE j == (e + M - end) % M
    <2>4. ~(j < 1)
      <3> HIDE DEF j
      <3>1. j \in Nat /\ j # 0
        BY <2>2, <2>3 DEF j
      <3> QED BY <3>1
    <2>5. MmuSet(x, DROM_END, flash, 1)[e] = IF j < 1 THEN (flash \div PAGE) + j ELSE x[e]
      BY DEF MmuSet, Entry, end
    <2> QED BY <2>4, <2>5
  <1> QED BY <1>5, <1>6 DEF Entry, end

\* what load leaves in its two mappings
Mapped(m) == m = NoMap \/ Mappable(m)

LEMMA EntriesOfMap ==
  ASSUME NEW m, Mapped(m)
  PROVE  /\ Entries(m) \subseteq Entry
         /\ m # NoMap => \A k \in 0 .. m.len - 1 : EntryOf(m.vaddr + k) \in Entries(m)
  <1>1. CASE m = NoMap
    BY <1>1 DEF Entries
  <1>2. CASE m # NoMap
    <2>1. PAGE \in Nat \ {0} /\ MMU_ENTRIES \in Nat \ {0} /\ m.vaddr \in Nat /\ m.len \in Nat
      BY <1>2, SizesAssumption DEF Mapped, Mappable, MapType
    <2>2. \A k \in 0 .. m.len - 1 : EntryOf(m.vaddr + k) \in Entry
      <3> TAKE k \in 0 .. m.len - 1
      <3>1. m.vaddr + k \in Nat
        BY <2>1
      <3>2. (m.vaddr + k) \div PAGE \in Nat
        BY <2>1, <3>1, DivFloor
      <3> QED BY <2>1, <3>2, DivFloor DEF EntryOf, Entry
    <2> QED BY <1>2, <2>2 DEF Entries
  <1> QED BY <1>1, <1>2

\* soc::start shows the app what load verified.
LEMMA StartMaps ==
  ASSUME Mapped(drom), Mapped(irom), Start
  PROVE  MappedRight'
  <1> DEFINE end == EntryOf(DROM_END)
             A == IF drom = NoMap THEN Cleared
                  ELSE MmuSet(Cleared, drom.vaddr, drom.flash, Pages(drom.vaddr, drom.len))
             B == IF drom = NoMap THEN A ELSE MmuSet(A, DROM_END, drom.flash, 1)
             C == IF irom = NoMap THEN B
                  ELSE MmuSet(B, irom.vaddr, irom.flash, Pages(irom.vaddr, irom.len))
  <1>1. mmu' = C /\ UNCHANGED <<drom, irom>>
    BY DEF Start, locals
  <1>2. end \in Entry
    BY LastEntrySet
  <1>3. \A e \in Entry \ Entries(drom) : A[e] = Unmapped
    BY MapSeen DEF Mapped, Cleared, Entry
  <1>4. drom # NoMap =>
          \A t \in Entry \ Entries(drom) : \A k \in 0 .. drom.len - 1 :
            A[EntryOf(drom.vaddr + k)] * PAGE + ((drom.vaddr + k) % PAGE) = drom.flash + k
    BY MapSeen DEF Mapped
  <1> HIDE DEF A
  <1>5. \A e \in Entry : e # end => B[e] = A[e]
    BY LastEntrySet
  <1> HIDE DEF B
  <1>6. \A e \in Entry \ Entries(irom) : C[e] = B[e]
    BY MapSeen DEF Mapped
  <1>7. irom # NoMap =>
          \A t \in Entry \ Entries(irom) : \A k \in 0 .. irom.len - 1 :
            C[EntryOf(irom.vaddr + k)] * PAGE + ((irom.vaddr + k) % PAGE) = irom.flash + k
    BY MapSeen DEF Mapped
  <1>8. DOMAIN C = Entry
    BY DEF MmuSet, Entry, C, B, A, Cleared
  <1> HIDE DEF C
  <1> SUFFICES ASSUME Linked
               PROVE  /\ \A m \in {drom, irom} \ {NoMap} : \A k \in 0 .. m.len - 1 :
                           C[EntryOf(m.vaddr + k)] * PAGE + ((m.vaddr + k) % PAGE) = m.flash + k
                      /\ \A e \in DOMAIN C \ (Entries(drom) \cup Entries(irom) \cup {end}) :
                           C[e] = Unmapped
    BY <1>1 DEF MappedRight, Linked, Entries
  <1>9. end \notin Entries(drom) /\ end \notin Entries(irom) /\ Entries(drom) \cap Entries(irom) = {}
    BY DEF Linked
  <1>10. ASSUME drom # NoMap, NEW k \in 0 .. drom.len - 1
         PROVE  C[EntryOf(drom.vaddr + k)] * PAGE + ((drom.vaddr + k) % PAGE) = drom.flash + k
    <2> DEFINE e == EntryOf(drom.vaddr + k)
    <2>1. e \in Entries(drom) /\ e \in Entry
      BY <1>10, EntriesOfMap
    <2>2. C[e] = A[e]
      BY <1>5, <1>6, <1>9, <2>1
    <2> QED BY <1>2, <1>4, <1>9, <1>10, <2>2
  <1>11. ASSUME irom # NoMap, NEW k \in 0 .. irom.len - 1
         PROVE  C[EntryOf(irom.vaddr + k)] * PAGE + ((irom.vaddr + k) % PAGE) = irom.flash + k
    BY <1>2, <1>7, <1>9, <1>11
  <1>12. \A e \in DOMAIN C \ (Entries(drom) \cup Entries(irom) \cup {end}) : C[e] = Unmapped
    BY <1>3, <1>5, <1>6, <1>8
  <1> QED BY <1>10, <1>11, <1>12

----------------------------------------------------------------------------
(***************************************************************************)
(* The partitions, the offsets and the mappings are numbers.               *)
(***************************************************************************)
\* A set of naturals up to `n` that is not empty has a largest element.
LEMMA Largest ==
  ASSUME NEW n \in Nat, NEW S \in SUBSET (1 .. n), S # {}
  PROVE  Max(S) \in S
  <1> DEFINE D == {n - x : x \in S}
  <1>1. D \in SUBSET Nat /\ D # {}
    <2>1. \A x \in S : n - x \in Nat
      OBVIOUS
    <2> QED BY <2>1
  <1>2. IsWellFoundedOn(OpToRel(<, Nat), Nat)
    BY NatLessThanWellFounded
  <1>3. PICK d \in D : \A c \in D : ~(<<c, d>> \in OpToRel(<, Nat))
    BY <1>1, <1>2, WFMin
  <1>4. PICK x \in S : d = n - x
    BY <1>3
  <1>5. ASSUME NEW y \in S PROVE x >= y
    <2>1. n - y \in D /\ n - y \in Nat /\ d \in Nat
      BY <1>1, <1>3
    <2>2. ~(n - y < d)
      BY <1>3, <2>1 DEF OpToRel
    <2> QED BY <1>4, <2>2
  <1> QED BY <1>5 DEF Max

\* A partition the table names, or none, has an offset and a length.
LEMMA PartsTyped ==
  ASSUME NEW board \in Boards, NEW c \in Candidate
  PROVE  Parts(board.table)[c] \in PartType
  <1> DEFINE t == board.table
  <1>1. t \in Seq(TableEntry)
    BY BoardsAssumption
  <1> HIDE DEF t
  <1>2. Len(t) \in Nat /\ \A k \in 1 .. Len(t) : t[k].part \in PartType
    <2>1. Len(t) \in Nat /\ \A k \in 1 .. Len(t) : t[k] \in TableEntry
      BY <1>1
    <2>2. \A x \in TableEntry : x.part \in PartType
      BY DEF TableEntry
    <2> QED BY <2>1, <2>2
  <1>3. NoPart \in PartType
    BY SizesAssumption DEF NoPart, PartType
  <1> DEFINE S(kind, slot) == {k \in 1 .. Len(t) : t[k].kind = kind /\ t[k].slot = slot}
             last(kind, slot) == IF S(kind, slot) # {} THEN Max(S(kind, slot)) ELSE 0
             part(kind, slot) == IF last(kind, slot) = 0 THEN NoPart ELSE t[last(kind, slot)].part
  <1>4. ASSUME NEW kind, NEW slot PROVE part(kind, slot) \in PartType
    <2>1. CASE S(kind, slot) = {}
      BY <1>3, <2>1
    <2>2. CASE S(kind, slot) # {}
      <3>1. S(kind, slot) \in SUBSET (1 .. Len(t))
        OBVIOUS
      <3> HIDE DEF S
      <3>2. Max(S(kind, slot)) \in 1 .. Len(t)
        BY <1>2, <2>2, <3>1, Largest
      <3> QED BY <1>2, <1>3, <3>2
    <2> QED BY <2>1, <2>2
  <1>5. Parts(t)[c] = IF c = Factory THEN part("factory", 0) ELSE part("ota", c)
    BY DEF Parts, SelectLastInSeq
  <1> HIDE DEF part
  <1>6. Parts(t)[c] \in PartType
    BY <1>4, <1>5
  <1> QED BY <1>6 DEF t

\* how far the walk has come, and what it will map
MapInv ==
  /\ off \in Nat
  /\ \A c \in Candidate : Parts(table)[c] \in PartType
  /\ Mapped(drom) /\ Mapped(irom)
  /\ stage = "app" => MappedRight

\* A segment's mapping starts at the same place of a page in flash and in the address space.
LEMMA SegmentMaps ==
  ASSUME Segment
  PROVE  LET seg  == Img.segs[index + 1]
             flash == Part.offset + (off + 8)
             map   == [flash |-> flash, vaddr |-> seg.addr, len |-> seg.len]
             Fits(m) == m = map /\ flash % PAGE = seg.addr % PAGE /\ seg.len # 0
         IN /\ off' \in {0, off + 8, ((off + 8) + seg.len) % WIDTH}
            /\ drom' \in {drom, NoMap} \/ Fits(drom')
            /\ irom' \in {irom, NoMap} \/ Fits(irom')
            /\ stage' # "app"
  BY ZenonT(60) DEF Segment, NextCandidate

LEMMA SegmentMapInv ==
  ASSUME LoadInv, MapInv, Segment
  PROVE  MapInv'
  <1> DEFINE seg   == Img.segs[index + 1]
             flash == Part.offset + (off + 8)
             map   == [flash |-> flash, vaddr |-> seg.addr, len |-> seg.len]
  <1>1. /\ stage = "segment" /\ index < Len(Img.segs) /\ index \in Nat /\ tried # <<>>
        /\ UNCHANGED table
    BY DEF Segment, Constant, LoadInv
  <1>2. Current \in Candidate /\ Img.segs \in Seq(SegmentType)
    BY <1>1, LastTried
  <1>3. seg \in SegmentType
    BY <1>1, <1>2
  <1>4. seg.addr \in Nat /\ seg.len \in Nat
    BY <1>3 DEF SegmentType
  <1>5. off \in Nat /\ Part.offset \in Nat /\ flash \in Nat
    BY <1>2 DEF MapInv, Part, PartType
  <1>6. off' \in {0, off + 8, ((off + 8) + seg.len) % WIDTH}
    BY SegmentMaps
  <1>7. off' \in Nat
    <2>1. ((off + 8) + seg.len) % WIDTH \in 0 .. WIDTH - 1 /\ WIDTH \in Nat
      <3>1. (off + 8) + seg.len \in Nat /\ WIDTH \in Nat \ {0}
        BY <1>4, <1>5, SizesAssumption
      <3> QED BY <3>1, DivFloor
    <2> QED BY <1>5, <1>6, <2>1
  <1>8. \A m : m = map /\ flash % PAGE = seg.addr % PAGE /\ seg.len # 0 => Mapped(m)
    BY <1>4, <1>5 DEF Mapped, Mappable, MapType
  <1>9. drom' \in {drom, NoMap} \/ (drom' = map /\ flash % PAGE = seg.addr % PAGE /\ seg.len # 0)
    BY SegmentMaps
  <1>10. irom' \in {irom, NoMap} \/ (irom' = map /\ flash % PAGE = seg.addr % PAGE /\ seg.len # 0)
    BY SegmentMaps
  <1> HIDE DEF seg, flash, map
  <1>11. Mapped(drom') /\ Mapped(irom')
    BY <1>8, <1>9, <1>10 DEF MapInv, Mapped
  <1>12. stage' # "app"
    BY SegmentMaps
  <1> QED BY <1>1, <1>7, <1>11, <1>12 DEF MapInv, Mapped

\* The other steps keep the mappings or forget them.
LEMMA OtherMapInv ==
  ASSUME MapInv, BeginCandidate \/ Fatal \/ ReadHeader \/ FinishWalk \/ Verify
  PROVE  MapInv'
  <1>1. UNCHANGED table /\ stage' # "app"
    BY DEF BeginCandidate, Fatal, ReadHeader, FinishWalk, Verify, Constant, NextCandidate
  <1>2. (UNCHANGED drom \/ drom' = NoMap) /\ (UNCHANGED irom \/ irom' = NoMap)
    BY DEF BeginCandidate, Fatal, ReadHeader, FinishWalk, Verify, locals, NextCandidate
  <1>3. off' \in Nat
    <2>1. CASE FinishWalk
      <3>1. off' \in {0, TailEnd(off), TailEnd(off) + 32}
        BY <2>1 DEF FinishWalk, NextCandidate
      <3>2. TailEnd(off) \in Nat
        <4>1. off + 1 + 16 - 1 \in Nat /\ 16 \in Nat \ {0}
          BY DEF MapInv
        <4> DEFINE n == off + 1 + 16 - 1
        <4> HIDE DEF n
        <4>3. n \div 16 \in Nat
          BY <4>1, DivFloor DEF n
        <4>2. (off + 1 + 16 - 1) \div 16 \in Nat
          BY <4>3 DEF n
        <4> QED BY <4>2 DEF TailEnd, RoundUp
      <3> QED BY <3>1, <3>2
    <2>2. CASE ~FinishWalk
      <3>1. off' \in {off, 0, 24}
        BY <2>2 DEF BeginCandidate, Fatal, ReadHeader, Verify, locals, NextCandidate
      <3> QED BY <3>1 DEF MapInv
    <2> QED BY <2>1, <2>2
  <1> QED BY <1>1, <1>2, <1>3 DEF MapInv, Mapped

LEMMA MapAlways == ImageSpec => []MapInv
  <1>1. ImageInit => MapInv
    <2> SUFFICES ASSUME ImageInit PROVE MapInv
      OBVIOUS
    <2>1. PICK board \in Boards : PowerOn(board)
      BY DEF ImageInit
    <2>2. table = board.table /\ off = 0 /\ drom = NoMap /\ irom = NoMap /\ stage = "next"
      BY <2>1 DEF PowerOn
    <2> QED BY <2>2, PartsTyped DEF MapInv, Mapped
  <1>2. LoadInv /\ StartInv /\ MapInv /\ [ImageNext]_imageVars => MapInv'
    <2> SUFFICES ASSUME LoadInv, MapInv, [ImageNext]_imageVars PROVE MapInv'
      OBVIOUS
    <2>1. CASE Start
      <3>1. MappedRight'
        BY <2>1, StartMaps DEF MapInv
      <3>2. UNCHANGED <<table, off, drom, irom>>
        BY <2>1 DEF Start, Constant, locals
      <3> QED BY <3>1, <3>2 DEF MapInv, Mapped
    <2>2. CASE UNCHANGED imageVars
      <3>1. UNCHANGED <<table, off, drom, irom, stage, running, mmu>>
        BY <2>2 DEF imageVars, locals
      <3>2. MappedRight' = MappedRight
        BY <3>1 DEF MappedRight, Linked, Entries
      <3> QED BY <3>1, <3>2 DEF MapInv, Mapped
    <2> QED BY <2>1, <2>2, SegmentMapInv, OtherMapInv DEF ImageNext
  <1> QED BY <1>1, <1>2, LoadAlways, StartAlways, PTL DEF ImageSpec

\* The app sees, at every address of its text and rodata, the flash bytes that were verified,
\* and nothing of what the loader had mapped (soc.rs 395-425): for every page size, number of
\* MMU entries and address map, and for every image linked so that its two segments share no
\* entry and leave the last one free.
THEOREM MapsAreRight == ImageSpec => []MappedRight
  <1>1. StartInv /\ MapInv => MappedRight
    BY DEF StartInv, MapInv, MappedRight
  <1> QED BY <1>1, StartAlways, MapAlways, PTL

----------------------------------------------------------------------------
(***************************************************************************)
(* The checks, one by one, against what an image must be.                  *)
(***************************************************************************)
\* A range is read only if it lies in the partition: no sum wraps unseen.
LEMMA GotExact ==
  ASSUME NEW part \in PartType, NEW from \in Nat, NEW n \in 0 .. WIDTH - 1
  PROVE  Got(part, from, from + n) <=> from + n <= part.len
  <1>1. WIDTH \in Nat \ {0} /\ part.len \in 0 .. WIDTH - 1
    BY SizesAssumption DEF PartType
  <1> DEFINE to == from + n
  <1>2. to \in Nat /\ to >= from /\ to - from < WIDTH
    BY <1>1
  <1> HIDE DEF to
  <1>3. CASE to < WIDTH
    <2>1. to % WIDTH = to
      BY <1>1, <1>2, <1>3, SmallMod
    <2> QED BY <1>1, <1>2, <2>1 DEF Got, to
  <1>4. CASE ~(to < WIDTH)
    <2>1. ~(to <= part.len)
      BY <1>1, <1>2, <1>4
    <2>2. to % WIDTH \in 0 .. WIDTH - 1
      BY <1>1, <1>2, DivFloor
    <2>3. ~(from <= part.len /\ to < 2 * WIDTH /\ from <= (to % WIDTH))
      <3> SUFFICES ASSUME from <= part.len, to < 2 * WIDTH PROVE ~(from <= (to % WIDTH))
        OBVIOUS
      <3>1. to - WIDTH \in 0 .. WIDTH - 1 /\ 1 * WIDTH + (to - WIDTH) = to
        BY <1>1, <1>2, <1>4
      <3>2. (1 * WIDTH + (to - WIDTH)) % WIDTH = to - WIDTH
        BY <1>1, <3>1, DivUnique
      <3> QED BY <1>1, <1>2, <3>1, <3>2
    <2>4. from <= (to % WIDTH) /\ (to % WIDTH) <= part.len => from <= part.len /\ to < 2 * WIDTH
      BY <1>1, <1>2, <2>2
    <2> QED BY <2>1, <2>3, <2>4 DEF Got, to
  <1> QED BY <1>3, <1>4

\* A segment `load` refuses as the loader's own does reach one of its bytes.
LEMMA RefusalJust ==
  ASSUME NEW seg \in SegmentType, seg.len # 0, TouchesLoader(seg.addr, seg.len)
  PROVE  HitsLoader(seg)
  <1>1. seg.addr \in Nat /\ seg.len \in Nat
    BY SizesAssumption DEF SegmentType
  <1>2. /\ LOADER_DRAM[1] \in Nat /\ LOADER_DRAM[2] \in Nat /\ ALIAS \in Nat
        /\ IRAM[1] \in Nat /\ IRAM[2] \in Nat /\ DRAM[1] \in Nat /\ DRAM[2] \in Nat
        /\ LOADER_IRAM[1] = LOADER_DRAM[1] + ALIAS /\ LOADER_IRAM[2] = LOADER_DRAM[2] + ALIAS
        /\ IRAM[1] <= DRAM[1] + ALIAS /\ DRAM[1] <= LOADER_DRAM[1] /\ LOADER_DRAM[2] <= DRAM[2]
        /\ DRAM[2] <= IRAM[1] /\ LOADER_DRAM[1] < LOADER_DRAM[2] /\ LOADER_IRAM[2] <= IRAM[2]
    BY AddressMapAssumption DEF AddressMap
  <1>3. CASE Overlaps(LOADER_IRAM, seg.addr, seg.len)
    <2> DEFINE a == IF seg.addr < LOADER_IRAM[1] THEN LOADER_IRAM[1] ELSE seg.addr
    <2>1. a \in Bytes(seg) /\ a >= LOADER_IRAM[1] /\ a < LOADER_IRAM[2]
      BY <1>1, <1>2, <1>3 DEF Bytes, Overlaps
    <2>2. a \in Nat
      BY <1>1, <1>2
    <2> HIDE DEF a
    <2>3. Physical(a) = a - ALIAS
      BY <1>2, <2>1, <2>2 DEF Physical
    <2> QED BY <1>2, <2>1, <2>2, <2>3 DEF HitsLoader
  <1>4. CASE Overlaps(LOADER_DRAM, seg.addr, seg.len)
    <2> DEFINE a == IF seg.addr < LOADER_DRAM[1] THEN LOADER_DRAM[1] ELSE seg.addr
    <2>1. a \in Bytes(seg) /\ a >= LOADER_DRAM[1] /\ a < LOADER_DRAM[2]
      BY <1>1, <1>2, <1>4 DEF Bytes, Overlaps
    <2>2. a \in Nat
      BY <1>1, <1>2
    <2> HIDE DEF a
    <2>3. Physical(a) = a
      BY <1>2, <2>1, <2>2 DEF Physical
    <2> QED BY <2>1, <2>3 DEF HitsLoader
  <1> QED BY <1>3, <1>4 DEF TouchesLoader

\* A partition has more pages than the MMU has entries exactly if its bytes do not fit.
LEMMA WindowFits ==
  ASSUME NEW part \in PartType
  PROVE  Pages(part.offset, part.len) > MMU_ENTRIES
           <=> ~((part.offset % PAGE) + part.len <= MMU_ENTRIES * PAGE)
  <1>1. PAGE \in Nat \ {0} /\ MMU_ENTRIES \in Nat \ {0} /\ part.offset \in Nat /\ part.len \in Nat
    BY SizesAssumption DEF PartType
  <1> DEFINE a == (part.offset % PAGE) + part.len
             n == a + PAGE - 1
             q == n \div PAGE
  <1>2. a \in Nat
    BY <1>1, DivFloor
  <1> HIDE DEF a
  <1>3. n \in Nat
    BY <1>1, <1>2
  <1>4. Pages(part.offset, part.len) = q
    BY DEF Pages, a
  <1>5. q \in Nat /\ (n % PAGE) \in 0 .. PAGE - 1 /\ n = q * PAGE + (n % PAGE)
    BY <1>1, <1>3, DivFloor
  <1> HIDE DEF q
  <1>6. CASE q <= MMU_ENTRIES
    <2>1. q * PAGE <= MMU_ENTRIES * PAGE /\ q * PAGE \in Nat /\ MMU_ENTRIES * PAGE \in Nat
      BY <1>1, <1>5, <1>6, ProductsGrow
    <2> DEFINE x == q * PAGE
               y == MMU_ENTRIES * PAGE
    <2> HIDE DEF x, y
    <2>2. n = x + (n % PAGE) /\ x <= y /\ x \in Nat /\ y \in Nat
      BY <1>5, <2>1 DEF x, y
    <2>3. a <= y
      BY <1>1, <1>2, <1>5, <2>2
    <2> QED BY <1>1, <1>4, <1>5, <1>6, <2>3 DEF y, a
  <1>7. CASE ~(q <= MMU_ENTRIES)
    <2>1. (MMU_ENTRIES + 1) * PAGE <= q * PAGE /\ q * PAGE \in Nat
      BY <1>1, <1>5, <1>7, ProductsGrow
    <2>2. (MMU_ENTRIES + 1) * PAGE = MMU_ENTRIES * PAGE + PAGE /\ MMU_ENTRIES * PAGE \in Nat
      BY <1>1
    <2> DEFINE x == q * PAGE
               y == MMU_ENTRIES * PAGE
    <2> HIDE DEF x, y
    <2>3. n = x + (n % PAGE) /\ y + PAGE <= x /\ x \in Nat /\ y \in Nat
      BY <1>5, <2>1, <2>2 DEF x, y
    <2>4. ~(a <= y)
      BY <1>1, <1>2, <1>5, <2>3
    <2> QED BY <1>1, <1>4, <1>5, <1>7, <2>4 DEF y, a
  <1> QED BY <1>6, <1>7

----------------------------------------------------------------------------
(***************************************************************************)
(* Where the segments end.                                                 *)
(***************************************************************************)
\* A set of naturals that is not empty has a least element.
LEMMA LeastNat ==
  ASSUME NEW S \in SUBSET Nat, S # {}
  PROVE  \E n \in S : \A m \in S : n <= m
  <1>1. IsWellFoundedOn(OpToRel(<, Nat), Nat)
    BY NatLessThanWellFounded
  <1>2. PICK n \in S : \A m \in S : ~(<<m, n>> \in OpToRel(<, Nat))
    BY <1>1, WFMin
  <1>3. n \in Nat /\ \A m \in S : m \in Nat /\ ~(m < n)
    BY <1>2 DEF OpToRel
  <1>4. \A m \in S : n <= m
    BY <1>3
  <1> QED BY <1>4

\* A set of naturals that holds 0 and with a number its successor holds all.
LEMMA SetInduction ==
  ASSUME NEW S, 0 \in S, \A n \in Nat : n \in S => n + 1 \in S
  PROVE  Nat \subseteq S
  <1> SUFFICES ASSUME ~(Nat \subseteq S) PROVE FALSE
    OBVIOUS
  <1>1. PICK n \in Nat \ S : \A m \in Nat \ S : n <= m
    BY LeastNat
  <1>2. n # 0 /\ n - 1 \in Nat /\ n - 1 \notin Nat \ S
    BY <1>1
  <1>3. n - 1 + 1 \in S
    BY <1>2
  <1> QED BY <1>1, <1>3

EndStep(segs, f, k) == IF k = 0 THEN 24 ELSE f[k - 1] + 8 + segs[k].len

\* The ends can be computed as far as there are segments.
LEMMA EndsExist ==
  ASSUME NEW segs \in Seq(SegmentType)
  PROVE  \E f : f = [k \in 0 .. Len(segs) |-> EndStep(segs, f, k)]
  <1> DEFINE Right(f, m) == \A k \in 0 .. m : f[k] = EndStep(segs, f, k)
             N == {m \in Nat : m > Len(segs) \/ \E f \in [0 .. m -> Nat] : Right(f, m)}
  <1>1. Len(segs) \in Nat /\ \A k \in 1 .. Len(segs) : segs[k].len \in Nat
    <2>1. \A k \in 1 .. Len(segs) : segs[k] \in SegmentType
      OBVIOUS
    <2> QED BY <2>1, SizesAssumption DEF SegmentType
  <1>2. 0 \in N
    <2> DEFINE f == [k \in 0 .. 0 |-> 24]
    <2>1. f \in [0 .. 0 -> Nat] /\ Right(f, 0)
      BY DEF EndStep
    <2> QED BY <2>1
  <1>3. ASSUME NEW m \in Nat, m \in N PROVE m + 1 \in N
    <2> SUFFICES ASSUME m + 1 <= Len(segs) PROVE \E f \in [0 .. m + 1 -> Nat] : Right(f, m + 1)
      BY <1>1
    <2>1. PICK f \in [0 .. m -> Nat] : Right(f, m)
      BY <1>1, <1>3
    <2> DEFINE e == f[m] + 8 + segs[m + 1].len
               g == [k \in 0 .. m + 1 |-> IF k = m + 1 THEN e ELSE f[k]]
    <2>2. e \in Nat
      BY <1>1, <2>1
    <2>3. g \in [0 .. m + 1 -> Nat]
      BY <2>1, <2>2
    <2>4. ASSUME NEW k \in 0 .. m + 1 PROVE g[k] = EndStep(segs, g, k)
      <3>1. CASE k = m + 1
        <4>1. g[k] = e /\ k # 0 /\ k - 1 = m /\ g[m] = f[m]
          BY <3>1
        <4> QED BY <3>1, <4>1 DEF EndStep
      <3>2. CASE k # m + 1 /\ k # 0
        <4>1. k \in 0 .. m /\ k - 1 \in 0 .. m + 1 /\ k - 1 # m + 1
          BY <3>2
        <4>2. g[k] = f[k] /\ g[k - 1] = f[k - 1]
          BY <3>2, <4>1
        <4>3. f[k] = EndStep(segs, f, k)
          BY <2>1, <4>1
        <4> QED BY <3>2, <4>2, <4>3 DEF EndStep
      <3>3. CASE k # m + 1 /\ k = 0
        <4>1. g[k] = f[k] /\ f[k] = EndStep(segs, f, k)
          BY <2>1, <3>3
        <4> QED BY <3>3, <4>1 DEF EndStep
      <3> QED BY <3>1, <3>2, <3>3
    <2> QED BY <2>3, <2>4
  <1> HIDE DEF N
  <1>4. Len(segs) \in N
    BY <1>1, <1>2, <1>3, SetInduction
  <1> USE DEF N
  <1>5. PICK f \in [0 .. Len(segs) -> Nat] : Right(f, Len(segs))
    BY <1>1, <1>4
  <1>6. f = [k \in 0 .. Len(segs) |-> EndStep(segs, f, k)]
    BY <1>5
  <1> QED BY <1>6

LEMMA EndsStep ==
  ASSUME NEW segs \in Seq(SegmentType)
  PROVE  /\ SegEnds(segs)[0] = 24
         /\ \A k \in 1 .. Len(segs) : SegEnds(segs)[k] = SegEnds(segs)[k - 1] + 8 + segs[k].len
  <1> DEFINE f == CHOOSE f : f = [k \in 0 .. Len(segs) |-> EndStep(segs, f, k)]
  <1>1. SegEnds(segs) = f
    BY DEF SegEnds, EndStep
  <1>2. f = [k \in 0 .. Len(segs) |-> EndStep(segs, f, k)]
    BY EndsExist
  <1> HIDE DEF f
  <1>3. Len(segs) \in Nat
    OBVIOUS
  <1>4. \A k \in 0 .. Len(segs) : f[k] = EndStep(segs, f, k)
    BY <1>2
  <1> QED BY <1>1, <1>3, <1>4 DEF EndStep

\* Each ends where it must, and none before the one in front of it.
LEMMA EndsGrow ==
  ASSUME NEW segs \in Seq(SegmentType)
  PROVE  /\ \A k \in 0 .. Len(segs) : SegEnds(segs)[k] \in Nat /\ SegEnds(segs)[k] >= 24
         /\ \A j, k \in 0 .. Len(segs) : j <= k => SegEnds(segs)[j] <= SegEnds(segs)[k]
  <1> DEFINE E == SegEnds(segs)
             N == {m \in Nat : m <= Len(segs) =>
                     E[m] \in Nat /\ E[m] >= 24 /\ \A j \in 0 .. m : E[j] \in Nat /\ E[j] <= E[m]}
  <1>1. Len(segs) \in Nat /\ \A k \in 1 .. Len(segs) : segs[k].len \in Nat
    <2>1. \A k \in 1 .. Len(segs) : segs[k] \in SegmentType
      OBVIOUS
    <2> QED BY <2>1, SizesAssumption DEF SegmentType
  <1>2. /\ E[0] = 24
        /\ \A k \in 1 .. Len(segs) : E[k] = E[k - 1] + 8 + segs[k].len
    BY EndsStep
  <1> HIDE DEF E
  <1>3. 0 \in N
    BY <1>2
  <1>4. ASSUME NEW m \in Nat, m \in N PROVE m + 1 \in N
    <2> SUFFICES ASSUME m + 1 <= Len(segs)
                 PROVE  E[m + 1] \in Nat /\ E[m + 1] >= 24 /\ \A j \in 0 .. m + 1 : E[j] \in Nat /\ E[j] <= E[m + 1]
      OBVIOUS
    <2>1. E[m] \in Nat /\ E[m] >= 24 /\ \A j \in 0 .. m : E[j] \in Nat /\ E[j] <= E[m]
      BY <1>1, <1>4
    <2>2. m + 1 \in 1 .. Len(segs) /\ (m + 1) - 1 = m
      BY <1>1
    <2>3. E[m + 1] = E[m] + 8 + segs[m + 1].len /\ segs[m + 1].len \in Nat
      BY <1>1, <1>2, <2>2
    <2>4. \A j \in 0 .. m + 1 : j = m + 1 \/ j \in 0 .. m
      OBVIOUS
    <2>5. ASSUME NEW j \in 0 .. m + 1 PROVE E[j] \in Nat /\ E[j] <= E[m + 1]
      <3>1. CASE j = m + 1
        BY <2>1, <2>3, <3>1
      <3>2. CASE j \in 0 .. m
        <4>1. E[j] \in Nat /\ E[j] <= E[m]
          BY <2>1, <3>2
        <4> QED BY <2>1, <2>3, <4>1
      <3> QED BY <2>4, <3>1, <3>2
    <2> QED BY <2>1, <2>3, <2>5
  <1> HIDE DEF N
  <1>5. Nat \subseteq N
    BY <1>3, <1>4, SetInduction
  <1> USE DEF N
  <1>6. \A m \in 0 .. Len(segs) : E[m] \in Nat /\ E[m] >= 24 /\ \A j \in 0 .. m : E[j] \in Nat /\ E[j] <= E[m]
    BY <1>1, <1>5
  <1> QED BY <1>1, <1>6 DEF E

\* A length rounded up is the next multiple, less than one unit further.
LEMMA RoundUpRange ==
  ASSUME NEW n \in Nat, NEW u \in Nat \ {0}
  PROVE  RoundUp(n, u) \in Nat /\ n <= RoundUp(n, u) /\ RoundUp(n, u) <= n + u - 1
  <1> DEFINE m == n + u - 1
             x == (m \div u) * u
  <1>1. m \in Nat
    OBVIOUS
  <1>2. m \div u \in Nat /\ m % u \in 0 .. u - 1 /\ m = (m \div u) * u + (m % u)
    BY <1>1, DivFloor
  <1>3. x \in Nat
    BY <1>2
  <1>4. m = x + (m % u) /\ (m % u) \in Nat /\ (m % u) <= u - 1
    BY <1>2
  <1>5. RoundUp(n, u) = x
    BY DEF RoundUp
  <1> HIDE DEF x
  <1> QED BY <1>3, <1>4, <1>5

\* The checksum lies after the last segment, in the tail of at most 16 bytes.
LEMMA EndsPast ==
  ASSUME NEW img, img.segs \in Seq(SegmentType)
  PROVE  LET last == SegsEnd(img.segs)  tail == TailEnd(last)
         IN /\ last \in Nat /\ last >= 24
            /\ tail \in Nat /\ last + 1 <= tail /\ tail <= last + 16
            /\ ImageEnd(img) = IF img.hash THEN tail + 32 ELSE tail
            /\ \A k \in 0 .. Len(img.segs) : SegEnds(img.segs)[k] \in Nat /\ SegEnds(img.segs)[k] <= last
  <1> DEFINE last == SegsEnd(img.segs)
  <1>1. Len(img.segs) \in Nat
    OBVIOUS
  <1>2. last \in Nat /\ last >= 24 /\ \A k \in 0 .. Len(img.segs) : SegEnds(img.segs)[k] \in Nat /\ SegEnds(img.segs)[k] <= last
    BY <1>1, EndsGrow DEF SegsEnd
  <1>3. ImageEnd(img) = TailEnd(last) + IF img.hash THEN 32 ELSE 0
    BY DEF ImageEnd
  <1> HIDE DEF last
  <1>4. last + 1 \in Nat
    BY <1>2
  <1>5. TailEnd(last) \in Nat /\ last + 1 <= TailEnd(last) /\ TailEnd(last) <= (last + 1) + 16 - 1
    BY <1>4, RoundUpRange DEF TailEnd
  <1>6. ImageEnd(img) = IF img.hash THEN TailEnd(last) + 32 ELSE TailEnd(last)
    BY <1>3, <1>5
  <1> QED BY <1>2, <1>5, <1>6 DEF last

----------------------------------------------------------------------------
(***************************************************************************)
(* The pieces that a digest or a checksum was fed.                         *)
(***************************************************************************)
Pieces == Seq(Nat \X Nat)

LEMMA PieceAdded ==
  ASSUME NEW pieces \in Pieces, NEW from \in Nat, NEW to \in Nat
  PROVE  LET q == pieces \o Walked(from, to)
         IN /\ q \in Pieces /\ Len(q) = Len(pieces) + 1
            /\ \A k \in 1 .. Len(pieces) : q[k] = pieces[k]
            /\ q[Len(q)] = <<from, to>>
            /\ \A b \in Int : Holds(q, b) <=> Holds(pieces, b) \/ b \in from .. to - 1
  <1> DEFINE w == Walked(from, to)
             q == pieces \o w
  <1>1. w \in Pieces /\ Len(w) = 1 /\ w[1] = <<from, to>>
    BY DEF Walked, Pieces
  <1>2. pieces \in Seq(Nat \X Nat) /\ w \in Seq(Nat \X Nat) /\ Len(pieces) \in Nat
    BY <1>1 DEF Pieces
  <1> HIDE DEF w
  <1>3. q \in Pieces /\ Len(q) = Len(pieces) + 1 /\ DOMAIN q = 1 .. Len(q)
        /\ \A k \in 1 .. Len(pieces) : q[k] = pieces[k]
    <2>1. q \in Seq(Nat \X Nat) /\ Len(q) = Len(pieces) + Len(w)
      BY <1>2
    <2>2. \A k \in 1 .. Len(pieces) : q[k] = pieces[k]
      BY <1>1, <1>2
    <2> QED BY <1>1, <2>1, <2>2 DEF Pieces
  <1>4. q[Len(q)] = <<from, to>>
    BY <1>1, <1>2, <1>3
  <1> HIDE DEF q
  <1>5. ASSUME NEW b \in Int PROVE Holds(q, b) <=> Holds(pieces, b) \/ b \in from .. to - 1
    <2>1. DOMAIN pieces = 1 .. Len(pieces)
      BY <1>2
    <2>2. ASSUME Holds(q, b) PROVE Holds(pieces, b) \/ b \in from .. to - 1
      <3>1. PICK k \in 1 .. Len(q) : b >= q[k][1] /\ b < q[k][2]
        BY <1>3, <2>2 DEF Holds
      <3>2. CASE k = Len(q)
        BY <1>4, <3>1, <3>2
      <3>3. CASE k # Len(q)
        <4>1. k \in DOMAIN pieces /\ q[k] = pieces[k]
          BY <1>2, <1>3, <2>1, <3>3
        <4> QED BY <3>1, <4>1 DEF Holds
      <3> QED BY <3>2, <3>3
    <2>3. ASSUME Holds(pieces, b) PROVE Holds(q, b)
      <3>1. PICK k \in 1 .. Len(pieces) : b >= pieces[k][1] /\ b < pieces[k][2]
        BY <2>1, <2>3 DEF Holds
      <3>2. k \in DOMAIN q /\ q[k] = pieces[k]
        BY <1>2, <1>3, <3>1
      <3> QED BY <3>1, <3>2 DEF Holds
    <2>4. ASSUME b \in from .. to - 1 PROVE Holds(q, b)
      <3>1. Len(q) \in DOMAIN q
        BY <1>2, <1>3
      <3>2. b >= q[Len(q)][1] /\ b < q[Len(q)][2]
        BY <1>4, <2>4
      <3> QED BY <3>1, <3>2 DEF Holds
    <2> QED BY <2>2, <2>3, <2>4
  <1> QED BY <1>3, <1>4, <1>5 DEF q, w

\* the digest covers everything before `n`, and that in order
HashedTo(h, n) ==
  /\ h \in Pieces /\ h # <<>> /\ Contiguous(h, 0) /\ h[Len(h)][2] = n
  /\ \A b \in Int : Holds(h, b) <=> b \in 0 .. n - 1

LEMMA HashedOn ==
  ASSUME NEW h, NEW from \in Nat, NEW to \in Nat, HashedTo(h, from), from <= to
  PROVE  HashedTo(h \o Walked(from, to), to)
  <1> DEFINE q == h \o Walked(from, to)
  <1>1. h \in Pieces /\ h # <<>> /\ h[Len(h)][2] = from /\ Contiguous(h, 0)
        /\ \A b \in Int : Holds(h, b) <=> b \in 0 .. from - 1
    BY DEF HashedTo
  <1>2. Len(h) \in Nat /\ Len(h) # 0 /\ DOMAIN h = 1 .. Len(h)
    BY <1>1 DEF Pieces
  <1>3. /\ q \in Pieces /\ Len(q) = Len(h) + 1
        /\ \A k \in 1 .. Len(h) : q[k] = h[k]
        /\ q[Len(q)] = <<from, to>>
        /\ \A b \in Int : Holds(q, b) <=> Holds(h, b) \/ b \in from .. to - 1
    BY <1>1, PieceAdded
  <1> HIDE DEF q
  <1>4. DOMAIN q = 1 .. Len(q) /\ q # <<>>
    BY <1>2, <1>3 DEF Pieces
  <1>5. ASSUME NEW k \in 1 .. Len(q) PROVE q[k][1] = IF k = 1 THEN 0 ELSE q[k - 1][2]
    <2>1. CASE k = Len(q)
      <3>1. k # 1 /\ k - 1 = Len(h) /\ k - 1 \in 1 .. Len(h)
        BY <1>2, <1>3, <2>1
      <3> QED BY <1>1, <1>3, <2>1, <3>1
    <2>2. CASE k # Len(q)
      <3>1. k \in 1 .. Len(h) /\ (k # 1 => k - 1 \in 1 .. Len(h))
        BY <1>2, <1>3, <2>2
      <3>2. h[k][1] = IF k = 1 THEN 0 ELSE h[k - 1][2]
        BY <1>1, <1>2, <3>1 DEF Contiguous
      <3> QED BY <1>3, <3>1, <3>2
    <2> QED BY <2>1, <2>2
  <1>6. Contiguous(q, 0)
    BY <1>4, <1>5 DEF Contiguous
  <1>7. \A b \in Int : Holds(q, b) <=> b \in 0 .. to - 1
    BY <1>1, <1>3
  <1>8. q[Len(q)][2] = to
    BY <1>3
  <1> QED BY <1>3, <1>4, <1>6, <1>7, <1>8 DEF HashedTo, q

\* Two pieces are fed as well at once as one after the other.
LEMMA TwoPieces ==
  ASSUME NEW h \in Pieces, NEW a \in Nat, NEW b \in Nat, NEW c \in Nat
  PROVE  h \o (Walked(a, b) \o Walked(b, c)) = (h \o Walked(a, b)) \o Walked(b, c)
  <1>1. /\ Walked(a, b) \in Seq(Nat \X Nat) /\ Walked(b, c) \in Seq(Nat \X Nat) /\ h \in Seq(Nat \X Nat)
    BY DEF Walked, Pieces
  <1>2. \A P : \A s, t, u \in Seq(P) : s \o (t \o u) = (s \o t) \o u
    BY ConcatAssociative
  <1> DEFINE P == Nat \X Nat
             s == Walked(a, b)
             t == Walked(b, c)
  <1>3. h \in Seq(P) /\ s \in Seq(P) /\ t \in Seq(P)
    BY <1>1
  <1> HIDE DEF P, s, t
  <1>4. h \o (s \o t) = (h \o s) \o t
    BY <1>2, <1>3
  <1> QED BY <1>4 DEF s, t

----------------------------------------------------------------------------
(***************************************************************************)
(* Segments, one by one.                                                   *)
(***************************************************************************)
OneAtMost(S) == \A j, k \in S : j = k

LEMMA CountedOnce ==
  ASSUME NEW S, IsFiniteSet(S)
  PROVE  Cardinality(S) <= 1 <=> OneAtMost(S)
  <1>1. Cardinality(S) \in Nat /\ (Cardinality(S) = 0 <=> S = {}) /\ (Cardinality(S) = 1 <=> \E x : S = {x})
    BY FS_CardinalityType, FS_EmptySet, FS_Singleton
  <1>2. ASSUME OneAtMost(S) PROVE S = {} \/ \E x : S = {x}
    <2> SUFFICES ASSUME S # {} PROVE \E x : S = {x}
      OBVIOUS
    <2>1. PICK x : x \in S
      OBVIOUS
    <2>2. S = {x}
      BY <1>2, <2>1 DEF OneAtMost
    <2> QED BY <2>2
  <1>3. ASSUME S = {} \/ \E x : S = {x} PROVE OneAtMost(S)
    BY <1>3 DEF OneAtMost
  <1>4. Cardinality(S) <= 1 <=> (S = {} \/ \E x : S = {x})
    BY <1>1
  <1> QED BY <1>2, <1>3, <1>4

\* what is asked of one segment
SegmentRight(part, segs, k) ==
  segs[k].len # 0 =>
    /\ segs[k].addr % 4 = 0 /\ segs[k].len % 4 = 0 /\ Kind(segs[k].addr, segs[k].len) # "none"
    /\ Kind(segs[k].addr, segs[k].len) = "ram" => ~HitsLoader(segs[k])
    /\ Kind(segs[k].addr, segs[k].len) \in {"drom", "irom"} =>
         (part.offset + DataAt(segs, k)) % PAGE = segs[k].addr % PAGE

LEMMA UsedSegments ==
  ASSUME NEW segs \in Seq(SegmentType), NEW kind
  PROVE  /\ Used(segs, kind) = {k \in 1 .. Len(segs) : segs[k].len # 0
                                                       /\ Kind(segs[k].addr, segs[k].len) = kind}
         /\ IsFiniteSet(Used(segs, kind))
  <1>1. DOMAIN segs = 1 .. Len(segs) /\ Len(segs) \in Nat /\ \A k \in 1 .. Len(segs) : segs[k] \in SegmentType
    OBVIOUS
  <1>2. \A k \in 1 .. Len(segs) : segs[k].len > 0 <=> segs[k].len # 0
    BY <1>1, SizesAssumption DEF SegmentType
  <1>3. Used(segs, kind) = {k \in 1 .. Len(segs) : segs[k].len # 0 /\ Kind(segs[k].addr, segs[k].len) = kind}
    BY <1>1, <1>2 DEF Used
  <1>4. IsFiniteSet(1 .. Len(segs)) /\ Used(segs, kind) \in SUBSET (1 .. Len(segs))
    BY <1>1, <1>3, FS_Interval
  <1>5. IsFiniteSet(Used(segs, kind))
    BY <1>4, FS_Subset
  <1> QED BY <1>3, <1>5

\* An image's segments are as they must be exactly if each is, and one is rodata and one text at
\* most.
LEMMA OneByOne ==
  ASSUME NEW segs \in Seq(SegmentType), NEW part
  PROVE  SegmentsOk(part, segs) <=>
           /\ \A k \in 1 .. Len(segs) : SegmentRight(part, segs, k)
           /\ OneAtMost(Used(segs, "drom")) /\ OneAtMost(Used(segs, "irom"))
  <1>1. DOMAIN segs = 1 .. Len(segs) /\ Len(segs) \in Nat /\ \A k \in 1 .. Len(segs) : segs[k] \in SegmentType
    OBVIOUS
  <1>2. \A k \in 1 .. Len(segs) : segs[k].len > 0 <=> segs[k].len # 0
    BY <1>1, SizesAssumption DEF SegmentType
  <1>3. \A kind : /\ Cardinality(Used(segs, kind)) <= 1 <=> OneAtMost(Used(segs, kind))
                  /\ \A k : k \in Used(segs, kind) <=>
                              k \in 1 .. Len(segs) /\ segs[k].len # 0 /\ Kind(segs[k].addr, segs[k].len) = kind
    BY UsedSegments, CountedOnce
  <1> DEFINE R(k) == SegmentRight(part, segs, k)
             A(k) == segs[k].addr % 4 = 0 /\ segs[k].len % 4 = 0 /\ Kind(segs[k].addr, segs[k].len) # "none"
             B(k) == (part.offset + DataAt(segs, k)) % PAGE = segs[k].addr % PAGE
  <1>4. \A k \in 1 .. Len(segs) : R(k) <=>
          /\ segs[k].len # 0 => A(k)
          /\ k \in Used(segs, "ram") => ~HitsLoader(segs[k])
          /\ k \in Used(segs, "drom") \cup Used(segs, "irom") => B(k)
    BY <1>3, Zenon DEF SegmentRight
  <1>5. SegmentsOk(part, segs) <=>
          /\ \A k \in 1 .. Len(segs) : segs[k].len # 0 => A(k)
          /\ \A k \in Used(segs, "ram") : ~HitsLoader(segs[k])
          /\ \A k \in Used(segs, "drom") \cup Used(segs, "irom") : B(k)
          /\ OneAtMost(Used(segs, "drom")) /\ OneAtMost(Used(segs, "irom"))
    BY <1>1, <1>2, <1>3, Zenon DEF SegmentsOk
  <1> HIDE DEF R, A, B
  <1>6. \A kind : Used(segs, kind) \subseteq 1 .. Len(segs)
    BY <1>3
  <1> QED BY <1>4, <1>5, <1>6, Zenon DEF R

LEMMA KindRange ==
  ASSUME NEW addr, NEW len
  PROVE  Kind(addr, len) \in {"skipped", "ram", "drom", "irom", "none"}
  BY DEF Kind

----------------------------------------------------------------------------
(***************************************************************************)
(* The walk over one image.                                                *)
(***************************************************************************)
WindowOk(c) ==
  /\ Parts(table)[c] # NoPart
  /\ (Parts(table)[c].offset % PAGE) + Parts(table)[c].len <= MMU_ENTRIES * PAGE

\* text or rodata is kept as soon as a segment that is one was met, and only one was
Kept(m, kind) ==
  LET met == {k \in Used(Img.segs, kind) : k <= index}
  IN (m # NoMap <=> met # {}) /\ OneAtMost(met)

\* the segments so far are right, and exactly what they hold was hashed and summed
Walk ==
  /\ index \in 0 .. Len(Img.segs) /\ off = SegEnds(Img.segs)[index] /\ off <= Part.len
  /\ \A k \in 1 .. index : SegmentRight(Part, Img.segs, k)
  /\ Kept(drom, "drom") /\ Kept(irom, "irom")
  /\ HashedTo(hashed, off)
  /\ summed \in Pieces
  /\ \A b \in Int : Holds(summed, b) <=>
       \E k \in 1 .. index : b \in DataAt(Img.segs, k) .. DataAt(Img.segs, k) + Img.segs[k].len - 1

\* the candidates that would start
Goods == {c \in Candidate : Good(c)}

\* what is known of the candidate at each stage of its turn
TurnInv ==
  /\ stage \in {"next", "header"} =>
       index = 0 /\ drom = NoMap /\ irom = NoMap /\ hashed = <<>> /\ summed = <<>>
  /\ stage \in {"header", "segment", "signature"} => WindowOk(Current)
  /\ stage \in {"segment", "signature"} => HeaderOk(Img)
  /\ stage = "segment" => Walk
  /\ stage = "signature" => /\ off = ImageEnd(Img) /\ off <= Part.len
                            /\ SegmentsOk(Part, Img.segs) /\ Undamaged(Img)
  /\ stage \in {"start", "app"} => Current \in Goods

\* the facts about the images that the assumption gives
ImagesTyped ==
  \A c \in Candidate : image[c].hash \in BOOLEAN /\ image[c].bad \in {NoByte} \cup Nat

\* an image that does not fit its partition is not good
LEMMA TooLong ==
  ASSUME NEW c \in Candidate, ~(ImageEnd(image[c]) <= Parts(table)[c].len)
  PROVE  ~Good(c)
  BY DEF Good

LEMMA NotRight ==
  ASSUME NEW c \in Candidate, ~SegmentsOk(Parts(table)[c], image[c].segs)
  PROVE  ~Good(c)
  BY DEF Good

\* Which are good does not change.
LEMMA GoodsStay ==
  ASSUME Constant
  PROVE  Goods' = Goods
  <1>1. UNCHANGED <<table, image, policy>>
    BY DEF Constant
  <1> QED BY <1>1 DEF Goods, Good

----------------------------------------------------------------------------
\* why a segment is refused
RefusesSegment ==
  LET seg == Img.segs[index + 1]
      kind == Kind(seg.addr, seg.len)
  IN \/ ~Got(Part, off, off + 8)
     \/ /\ seg.len # 0
        /\ \/ seg.addr % 4 # 0 \/ seg.len % 4 # 0
           \/ ~Got(Part, off + 8, (off + 8) + seg.len)
           \/ kind = "none"
           \/ kind = "ram" /\ TouchesLoader(seg.addr, seg.len)
           \/ /\ kind \in {"drom", "irom"}
              /\ \/ (Part.offset + (off + 8)) % PAGE # seg.addr % PAGE
                 \/ (IF kind = "drom" THEN drom ELSE irom) # NoMap

\* what is done about one that is not
TakesEmpty ==
  LET seg == Img.segs[index + 1]
  IN /\ Got(Part, off, off + 8) /\ seg.len = 0
     /\ off' = off + 8 /\ index' = index + 1 /\ hashed' = hashed \o Walked(off, off + 8)
     /\ UNCHANGED <<stage, drom, irom, summed>>

TakesSegment ==
  LET seg == Img.segs[index + 1]
      kind == Kind(seg.addr, seg.len)
      end == ((off + 8) + seg.len) % WIDTH
      map == [flash |-> Part.offset + (off + 8), vaddr |-> seg.addr, len |-> seg.len]
  IN /\ Got(Part, off, off + 8) /\ seg.len # 0
     /\ seg.addr % 4 = 0 /\ seg.len % 4 = 0 /\ Got(Part, off + 8, (off + 8) + seg.len)
     /\ kind # "none" /\ (kind = "ram" => ~TouchesLoader(seg.addr, seg.len))
     /\ kind \in {"drom", "irom"} =>
          /\ (Part.offset + (off + 8)) % PAGE = seg.addr % PAGE
          /\ (IF kind = "drom" THEN drom ELSE irom) = NoMap
     /\ off' = end /\ index' = index + 1
     /\ hashed' = hashed \o (Walked(off, off + 8) \o Walked(off + 8, end))
     /\ summed' = summed \o Walked(off + 8, end)
     /\ drom' = (IF kind = "drom" THEN map ELSE drom)
     /\ irom' = (IF kind = "irom" THEN map ELSE irom)
     /\ UNCHANGED stage

LEMMA SegmentTurns ==
  ASSUME Segment
  PROVE  \/ NextCandidate /\ RefusesSegment
         \/ TakesEmpty
         \/ TakesSegment
  <1> DEFINE seg == Img.segs[index + 1]
             kind == Kind(seg.addr, seg.len)
  <1>1. kind \in {"skipped", "ram", "drom", "irom", "none"}
    BY KindRange
  <1> HIDE DEF kind
  <1>2. CASE ~Got(Part, off, off + 8)
    BY <1>2, Zenon DEF Segment, RefusesSegment
  <1>3. CASE Got(Part, off, off + 8) /\ seg.len = 0
    BY <1>3, Zenon DEF Segment, TakesEmpty, HashesHeader, Hashes
  <1>4. CASE Got(Part, off, off + 8) /\ seg.len # 0
             /\ (seg.addr % 4 # 0 \/ seg.len % 4 # 0 \/ ~Got(Part, off + 8, (off + 8) + seg.len))
    BY <1>4, Zenon DEF Segment, RefusesSegment
  <1> DEFINE Fine == /\ Got(Part, off, off + 8) /\ seg.len # 0 /\ seg.addr % 4 = 0
                     /\ seg.len % 4 = 0 /\ Got(Part, off + 8, (off + 8) + seg.len)
  <1>5. CASE Fine /\ kind = "none"
    BY <1>5, Zenon DEF Segment, RefusesSegment, kind
  <1>6. CASE Fine /\ kind = "skipped"
    BY <1>6, Zenon DEF Segment, TakesSegment, HashesHeader, Hashes, kind
  <1>7. CASE Fine /\ kind = "ram"
    BY <1>7, Zenon DEF Segment, TakesSegment, RefusesSegment, HashesHeader, Hashes, kind
  <1>8. CASE Fine /\ kind \in {"drom", "irom"}
    BY <1>8, Zenon DEF Segment, TakesSegment, RefusesSegment, HashesHeader, Hashes, kind
  <1> QED BY <1>1, <1>2, <1>3, <1>4, <1>5, <1>6, <1>7, <1>8

\* what the walk stands on
LEMMA WalkGround ==
  ASSUME LoadInv, MapInv, ImagesTyped, tried # <<>>
  PROVE  /\ Current \in Candidate /\ Part \in PartType /\ Part.len \in 0 .. WIDTH - 1
         /\ Part.offset \in Nat /\ WIDTH \in Nat /\ off \in Nat
         /\ Img = image[Current] /\ Part = Parts(table)[Current]
         /\ Img.segs \in Seq(SegmentType) /\ Len(Img.segs) \in Nat
         /\ \A k \in 1 .. Len(Img.segs) : /\ Img.segs[k] \in SegmentType
                                          /\ Img.segs[k].addr \in Nat /\ Img.segs[k].len \in 0 .. WIDTH - 1
         /\ Img.hash \in BOOLEAN /\ Img.bad \in {NoByte} \cup Nat
  <1>1. Current \in Candidate /\ Img.segs \in Seq(SegmentType)
    BY LastTried
  <1>2. Part \in PartType /\ off \in Nat
    BY <1>1 DEF MapInv, Part
  <1>3. \A k \in 1 .. Len(Img.segs) : Img.segs[k] \in SegmentType
    BY <1>1
  <1>4. Img.hash \in BOOLEAN /\ Img.bad \in {NoByte} \cup Nat
    BY <1>1 DEF ImagesTyped, Img
  <1>5. Len(Img.segs) \in Nat
    BY <1>1
  <1> QED BY <1>1, <1>2, <1>3, <1>4, <1>5, SizesAssumption DEF PartType, SegmentType, Part, Img

\* the next segment
LEMMA NextSegment ==
  ASSUME LoadInv, MapInv, ImagesTyped, tried # <<>>, Walk, index < Len(Img.segs)
  PROVE  LET k == index + 1  segs == Img.segs
         IN /\ k \in 1 .. Len(segs) /\ index \in Nat /\ k - 1 = index
            /\ DataAt(segs, k) = off + 8
            /\ SegEnds(segs)[k] = (off + 8) + segs[k].len
            /\ SegEnds(segs)[k] \in Nat /\ SegEnds(segs)[k] <= SegsEnd(segs)
            /\ SegsEnd(segs) \in Nat /\ SegsEnd(segs) < ImageEnd(Img) /\ ImageEnd(Img) \in Nat
  <1> DEFINE segs == Img.segs
             k == index + 1
  <1>1. segs \in Seq(SegmentType) /\ Len(segs) \in Nat /\ off \in Nat /\ index \in 0 .. Len(segs)
        /\ off = SegEnds(segs)[index]
    BY WalkGround DEF Walk
  <1>2. k \in 1 .. Len(segs) /\ index \in Nat /\ k - 1 = index
    BY <1>1
  <1>3. SegEnds(segs)[k] = SegEnds(segs)[k - 1] + 8 + segs[k].len
    BY <1>1, <1>2, EndsStep
  <1>4. DataAt(segs, k) = off + 8
    BY <1>1, <1>2 DEF DataAt
  <1>5. /\ SegsEnd(segs) \in Nat /\ SegEnds(segs)[k] \in Nat /\ SegEnds(segs)[k] <= SegsEnd(segs)
        /\ TailEnd(SegsEnd(segs)) \in Nat /\ SegsEnd(segs) + 1 <= TailEnd(SegsEnd(segs))
        /\ ImageEnd(Img) = IF Img.hash THEN TailEnd(SegsEnd(segs)) + 32 ELSE TailEnd(SegsEnd(segs))
    BY <1>1, <1>2, EndsPast
  <1>6. SegsEnd(segs) < ImageEnd(Img) /\ ImageEnd(Img) \in Nat
    BY <1>5
  <1> QED BY <1>1, <1>2, <1>3, <1>4, <1>5, <1>6

\* A segment is refused only in an image that is not good.
LEMMA RefusedForCause ==
  ASSUME LoadInv, MapInv, ImagesTyped, tried # <<>>, Walk, index < Len(Img.segs), RefusesSegment
  PROVE  ~Good(Current)
  <1> DEFINE segs == Img.segs
             k == index + 1
             seg == segs[k]
             kind == Kind(seg.addr, seg.len)
  <1>1. /\ Current \in Candidate /\ Part \in PartType /\ off \in Nat /\ Part.len \in Nat
        /\ segs \in Seq(SegmentType) /\ Len(segs) \in Nat
        /\ Img = image[Current] /\ Part = Parts(table)[Current]
    BY WalkGround
  <1>2. /\ k \in 1 .. Len(segs) /\ DataAt(segs, k) = off + 8 /\ index \in Nat
        /\ SegEnds(segs)[k] = (off + 8) + seg.len /\ SegEnds(segs)[k] <= SegsEnd(segs)
        /\ SegsEnd(segs) \in Nat /\ SegsEnd(segs) < ImageEnd(Img) /\ ImageEnd(Img) \in Nat
    BY NextSegment
  <1>3. seg \in SegmentType /\ seg.addr \in Nat /\ seg.len \in Nat /\ seg.len \in 0 .. WIDTH - 1
        /\ WIDTH \in Nat /\ 32 < WIDTH
    <2>1. WIDTH \in Nat /\ 32 < WIDTH
      BY SizesAssumption
    <2>2. seg \in SegmentType /\ seg.addr \in Nat /\ seg.len \in 0 .. WIDTH - 1
      <3>1. k \in 1 .. Len(Img.segs)
        BY <1>2
      <3> HIDE DEF k
      <3> QED BY <3>1, WalkGround
    <2> QED BY <2>1, <2>2
  <1> HIDE DEF seg, k
  <1>4. CASE ~Got(Part, off, off + 8)
    <2>1. ~(off + 8 <= Part.len)
      BY <1>1, <1>3, <1>4, GotExact
    <2>2. ~(ImageEnd(Img) <= Part.len)
      BY <1>1, <1>2, <1>3, <2>1
    <2> QED BY <1>1, <2>2, TooLong
  <1>5. CASE seg.len # 0 /\ ~Got(Part, off + 8, (off + 8) + seg.len)
    <2>1. ~((off + 8) + seg.len <= Part.len)
      <3>1. off + 8 \in Nat
        BY <1>1
      <3> QED BY <1>1, <1>3, <1>5, <3>1, GotExact
    <2>2. ~(ImageEnd(Img) <= Part.len)
      BY <1>1, <1>2, <1>3, <2>1
    <2> QED BY <1>1, <2>2, TooLong
  <1>6. CASE /\ seg.len # 0
             /\ \/ seg.addr % 4 # 0 \/ seg.len % 4 # 0 \/ kind = "none"
                \/ kind = "ram" /\ TouchesLoader(seg.addr, seg.len)
                \/ kind \in {"drom", "irom"} /\ (Part.offset + (off + 8)) % PAGE # seg.addr % PAGE
    <2>1. ~SegmentRight(Part, segs, k)
      BY <1>2, <1>3, <1>6, RefusalJust DEF SegmentRight, seg
    <2>2. ~SegmentsOk(Part, segs)
      BY <1>1, <1>2, <2>1, OneByOne
    <2> QED BY <1>1, <2>2, NotRight
  <1>7. CASE seg.len # 0 /\ kind \in {"drom", "irom"} /\ (IF kind = "drom" THEN drom ELSE irom) # NoMap
    <2>1. {j \in Used(segs, kind) : j <= index} # {}
      BY <1>7 DEF Walk, Kept
    <2>2. PICK j \in Used(segs, kind) : j <= index
      BY <2>1
    <2>3. k \in Used(segs, kind)
      BY <1>1, <1>2, <1>7, UsedSegments DEF seg
    <2>4. j # k
      <3>1. k = index + 1
        BY DEF k
      <3> QED BY <1>2, <2>2, <3>1
    <2>5. ~OneAtMost(Used(segs, kind))
      BY <2>2, <2>3, <2>4 DEF OneAtMost
    <2>6. ~SegmentsOk(Part, segs)
      BY <1>1, <1>7, <2>5, OneByOne
    <2> QED BY <1>1, <2>6, NotRight
  <1> QED BY <1>4, <1>5, <1>6, <1>7 DEF RefusesSegment, seg, k

\* A map of a segment is one, and no other segment so far was met.
LEMMA KeptOn ==
  ASSUME NEW segs \in Seq(SegmentType), NEW n \in 0 .. Len(segs) - 1, NEW kind, NEW m, NEW map,
         map.len = segs[n + 1].len,
         m # NoMap <=> {k \in Used(segs, kind) : k <= n} # {},
         OneAtMost({k \in Used(segs, kind) : k <= n}),
         n + 1 \in Used(segs, kind) => m = NoMap
  PROVE  LET met == {k \in Used(segs, kind) : k <= n + 1}
         IN /\ (IF n + 1 \in Used(segs, kind) THEN map ELSE m) # NoMap <=> met # {}
            /\ OneAtMost(met)
  <1> DEFINE U == Used(segs, kind)
             old == {k \in U : k <= n}
             met == {k \in U : k <= n + 1}
  <1>1. Len(segs) \in Nat /\ n \in Nat /\ U = {k \in 1 .. Len(segs) : segs[k].len # 0 /\ Kind(segs[k].addr, segs[k].len) = kind}
    BY UsedSegments
  <1>2. U \subseteq Nat
    BY <1>1
  <1>3. n + 1 \in U => map # NoMap
    BY <1>1 DEF NoMap
  <1> HIDE DEF U
  <1>4. CASE n + 1 \in U
    <2>1. old = {}
      BY <1>4 DEF U
    <2>2. met = {n + 1}
      BY <1>1, <1>2, <1>4, <2>1
    <2> QED BY <1>3, <1>4, <2>2 DEF OneAtMost, U
  <1>5. CASE n + 1 \notin U
    <2>1. met = old
      BY <1>1, <1>2, <1>5
    <2> QED BY <1>5, <2>1 DEF U
  <1> QED BY <1>4, <1>5

\* An empty segment adds its header, to the digest only.
LEMMA EmptyTaken ==
  ASSUME LoadInv, MapInv, ImagesTyped, tried # <<>>, Walk, index < Len(Img.segs), TakesEmpty,
         UNCHANGED <<table, image, tried>>
  PROVE  Walk'
  <1> DEFINE segs == Img.segs
             k == index + 1
  <1>1. /\ Part \in PartType /\ off \in Nat /\ Part.len \in Nat /\ 8 \in 0 .. WIDTH - 1
        /\ segs \in Seq(SegmentType) /\ Len(segs) \in Nat
    BY WalkGround, SizesAssumption
  <1>2. /\ k \in 1 .. Len(segs) /\ DataAt(segs, k) = off + 8 /\ index \in Nat
        /\ SegEnds(segs)[k] = (off + 8) + segs[k].len
    BY NextSegment
  <1>3. segs[k].len = 0 /\ Got(Part, off, off + 8) /\ off' = off + 8 /\ index' = k
        /\ hashed' = hashed \o Walked(off, off + 8) /\ UNCHANGED <<drom, irom, summed>>
    BY DEF TakesEmpty
  <1>4. UNCHANGED <<Img, Part>>
    BY DEF Img, Part, Current
  <1> HIDE DEF k
  <1>5. index' \in 0 .. Len(segs) /\ off' = SegEnds(segs)[index'] /\ off' <= Part.len
    <2>1. off + 8 <= Part.len
      BY <1>1, <1>3, GotExact
    <2> QED BY <1>1, <1>2, <1>3, <2>1
  <1>6. \A j \in 1 .. k : j = k \/ j \in 1 .. index
    BY <1>2 DEF k
  <1>7. ASSUME NEW j \in 1 .. k PROVE SegmentRight(Part, segs, j)
    <2>1. CASE j = k
      BY <1>3, <2>1 DEF SegmentRight
    <2>2. CASE j \in 1 .. index
      BY <2>2 DEF Walk
    <2> QED BY <1>6, <2>1, <2>2
  <1>8. \A kind : {j \in Used(segs, kind) : j <= k} = {j \in Used(segs, kind) : j <= index}
    <2> TAKE kind
    <2>1. k \notin Used(segs, kind) /\ \A j \in Used(segs, kind) : j \in Nat
      BY <1>1, <1>3, UsedSegments
    <2>2. \A j \in Used(segs, kind) : j <= k <=> j <= index
      BY <1>2, <2>1 DEF k
    <2> QED BY <2>2
  <1>9. Kept(drom, "drom")' /\ Kept(irom, "irom")'
    BY <1>3, <1>4, <1>8 DEF Kept, Walk
  <1>10. HashedTo(hashed', off')
    <2>1. off + 8 \in Nat /\ off <= off + 8
      BY <1>1
    <2> QED BY <1>1, <1>3, <2>1, HashedOn DEF Walk
  <1>11. ASSUME NEW b \in Int
         PROVE  Holds(summed', b) <=>
                  \E j \in 1 .. k : b \in DataAt(segs, j) .. DataAt(segs, j) + segs[j].len - 1
    <2>1. Holds(summed, b) <=>
            \E j \in 1 .. index : b \in DataAt(segs, j) .. DataAt(segs, j) + segs[j].len - 1
      BY DEF Walk
    <2>2. ~(b \in DataAt(segs, k) .. DataAt(segs, k) + segs[k].len - 1)
      BY <1>1, <1>2, <1>3
    <2>3. \A j \in 1 .. index : j \in 1 .. k
      BY <1>2 DEF k
    <2> QED BY <1>3, <1>6, <2>1, <2>2, <2>3, Zenon
  <1>12. summed' \in Pieces
    BY <1>3 DEF Walk
  <1> QED BY <1>3, <1>4, <1>5, <1>7, <1>9, <1>10, <1>11, <1>12 DEF Walk

\* A segment that passes every check adds its header and data, the data also to the checksum.
LEMMA SegmentTaken ==
  ASSUME LoadInv, MapInv, ImagesTyped, tried # <<>>, Walk, index < Len(Img.segs), TakesSegment,
         UNCHANGED <<table, image, tried>>
  PROVE  Walk'
  <1> DEFINE segs == Img.segs
             k == index + 1
             seg == segs[k]
             kind == Kind(seg.addr, seg.len)
             data == off + 8
             end == data + seg.len
             map == [flash |-> Part.offset + data, vaddr |-> seg.addr, len |-> seg.len]
  <1>1. /\ Part \in PartType /\ off \in Nat /\ Part.len \in 0 .. WIDTH - 1 /\ 8 \in 0 .. WIDTH - 1
        /\ segs \in Seq(SegmentType) /\ Len(segs) \in Nat /\ WIDTH \in Nat \ {0}
    BY WalkGround, SizesAssumption
  <1>2. /\ k \in 1 .. Len(segs) /\ DataAt(segs, k) = data /\ index \in Nat
        /\ SegEnds(segs)[k] = end
    BY NextSegment
  <1>3. /\ seg.len # 0 /\ Got(Part, off, data) /\ Got(Part, data, end)
        /\ seg.addr % 4 = 0 /\ seg.len % 4 = 0
        /\ kind # "none" /\ (kind = "ram" => ~TouchesLoader(seg.addr, seg.len))
        /\ kind \in {"drom", "irom"} =>
             /\ (Part.offset + data) % PAGE = seg.addr % PAGE
             /\ (IF kind = "drom" THEN drom ELSE irom) = NoMap
        /\ off' = end % WIDTH /\ index' = k
        /\ hashed' = hashed \o (Walked(off, data) \o Walked(data, end % WIDTH))
        /\ summed' = summed \o Walked(data, end % WIDTH)
        /\ drom' = (IF kind = "drom" THEN map ELSE drom)
        /\ irom' = (IF kind = "irom" THEN map ELSE irom)
    BY Zenon DEF TakesSegment
  <1>4. UNCHANGED <<Img, Part>>
    BY DEF Img, Part, Current
  <1>5. seg \in SegmentType /\ seg.addr \in Nat /\ seg.len \in 0 .. WIDTH - 1
    <2> HIDE DEF k
    <2> QED BY <1>2, WalkGround
  <1>6. k = index + 1 /\ map.len = segs[k].len
    OBVIOUS
  <1> HIDE DEF k, seg, map
  <1>7. data \in Nat /\ end \in Nat /\ end <= Part.len /\ end % WIDTH = end
    <2>1. data \in Nat /\ end \in Nat
      BY <1>1, <1>5
    <2>2. end <= Part.len
      BY <1>1, <1>3, <1>5, <2>1, GotExact
    <2>3. end < WIDTH
      BY <1>1, <2>1, <2>2
    <2> QED BY <1>1, <2>1, <2>2, <2>3, SmallMod
  <1> HIDE DEF end, data
  <1>8. index' \in 0 .. Len(segs) /\ off' = SegEnds(segs)[index'] /\ off' <= Part.len
    <2>1. index' = k /\ off' = end
      BY <1>3, <1>7
    <2> QED BY <1>1, <1>2, <1>7, <2>1
  <1>9. \A j \in 1 .. k : j = k \/ j \in 1 .. index
    BY <1>2, <1>6
  <1>10. ASSUME NEW j \in 1 .. k PROVE SegmentRight(Part, segs, j)
    <2>1. CASE j = k
      BY <1>2, <1>3, <1>5, <2>1, AliasCaught DEF SegmentRight, seg
    <2>2. CASE j \in 1 .. index
      BY <2>2 DEF Walk
    <2> QED BY <1>9, <2>1, <2>2
  <1>11. Kept(drom, "drom")' /\ Kept(irom, "irom")'
    <2>1. \A c : k \in Used(segs, c) <=> kind = c
      BY <1>1, <1>2, <1>3, UsedSegments DEF seg
    <2>2. index \in 0 .. Len(segs) - 1
      BY <1>1, <1>2, <1>6
    <2>3. /\ drom # NoMap <=> {j \in Used(segs, "drom") : j <= index} # {}
          /\ OneAtMost({j \in Used(segs, "drom") : j <= index})
          /\ irom # NoMap <=> {j \in Used(segs, "irom") : j <= index} # {}
          /\ OneAtMost({j \in Used(segs, "irom") : j <= index})
      BY DEF Walk, Kept
    <2>4. /\ drom' # NoMap <=> {j \in Used(segs, "drom") : j <= k} # {}
          /\ OneAtMost({j \in Used(segs, "drom") : j <= k})
      <3>1. k \in Used(segs, "drom") => drom = NoMap
        BY <1>3, <2>1
      <3>2. drom' = IF k \in Used(segs, "drom") THEN map ELSE drom
        BY <1>3, <2>1
      <3>3. LET met == {j \in Used(segs, "drom") : j <= index + 1}
            IN /\ (IF index + 1 \in Used(segs, "drom") THEN map ELSE drom) # NoMap <=> met # {}
               /\ OneAtMost(met)
        <4>1. map.len = segs[index + 1].len /\ (index + 1 \in Used(segs, "drom") => drom = NoMap)
          BY <1>6, <3>1
        <4>2. /\ drom # NoMap <=> {j \in Used(segs, "drom") : j <= index} # {}
              /\ OneAtMost({j \in Used(segs, "drom") : j <= index})
          BY <2>3
        <4>3. segs \in Seq(SegmentType)
          BY <1>1
        <4> QED BY <2>2, <4>1, <4>2, <4>3, KeptOn
      <3> QED BY <1>6, <3>2, <3>3
    <2>5. /\ irom' # NoMap <=> {j \in Used(segs, "irom") : j <= k} # {}
          /\ OneAtMost({j \in Used(segs, "irom") : j <= k})
      <3>1. k \in Used(segs, "irom") => irom = NoMap
        BY <1>3, <2>1
      <3>2. irom' = IF k \in Used(segs, "irom") THEN map ELSE irom
        BY <1>3, <2>1
      <3>3. LET met == {j \in Used(segs, "irom") : j <= index + 1}
            IN /\ (IF index + 1 \in Used(segs, "irom") THEN map ELSE irom) # NoMap <=> met # {}
               /\ OneAtMost(met)
        <4>1. map.len = segs[index + 1].len /\ (index + 1 \in Used(segs, "irom") => irom = NoMap)
          BY <1>6, <3>1
        <4>2. /\ irom # NoMap <=> {j \in Used(segs, "irom") : j <= index} # {}
              /\ OneAtMost({j \in Used(segs, "irom") : j <= index})
          BY <2>3
        <4>3. segs \in Seq(SegmentType)
          BY <1>1
        <4> QED BY <2>2, <4>1, <4>2, <4>3, KeptOn
      <3> QED BY <1>6, <3>2, <3>3
    <2> QED BY <1>3, <1>4, <2>4, <2>5 DEF Kept
  <1>12. HashedTo(hashed', off')
    <2>1. off <= data /\ data <= end
      BY <1>1, <1>5 DEF data, end
    <2>2. HashedTo(hashed, off) /\ hashed \in Pieces
      BY DEF Walk, HashedTo
    <2>3. hashed' = (hashed \o Walked(off, data)) \o Walked(data, end)
      <3>1. hashed' = hashed \o (Walked(off, data) \o Walked(data, end))
        BY <1>3, <1>7
      <3> QED BY <1>1, <1>7, <2>2, <3>1, TwoPieces
    <2>4. HashedTo(hashed \o Walked(off, data), data)
      BY <1>1, <1>7, <2>1, <2>2, HashedOn
    <2> QED BY <1>3, <1>7, <2>1, <2>3, <2>4, HashedOn
  <1>13. summed \in Pieces /\ summed' = summed \o Walked(data, end)
    BY <1>3, <1>7 DEF Walk
  <1>14. summed' \in Pieces /\ \A b \in Int : Holds(summed', b) <=> Holds(summed, b) \/ b \in data .. end - 1
    BY <1>7, <1>13, PieceAdded
  <1>15. ASSUME NEW b \in Int
         PROVE  Holds(summed', b) <=>
                  \E j \in 1 .. k : b \in DataAt(segs, j) .. DataAt(segs, j) + segs[j].len - 1
    <2>1. Holds(summed, b) <=>
            \E j \in 1 .. index : b \in DataAt(segs, j) .. DataAt(segs, j) + segs[j].len - 1
      BY DEF Walk
    <2>2. b \in data .. end - 1 <=> b \in DataAt(segs, k) .. DataAt(segs, k) + segs[k].len - 1
      <3>1. DataAt(segs, k) = data /\ data + segs[k].len = end
        BY <1>2 DEF end, seg
      <3>2. DataAt(segs, k) + segs[k].len - 1 = end - 1
        <4>1. data \in Nat /\ segs[k].len \in Nat
          BY <1>1, <1>5, <1>7 DEF seg
        <4> QED BY <3>1, <4>1
      <3> QED BY <3>1, <3>2
    <2>3. (\A j \in 1 .. index : j \in 1 .. k) /\ k \in 1 .. k
      BY <1>2, <1>6
    <2> QED BY <1>9, <1>14, <2>1, <2>2, <2>3, Zenon
  <1> QED BY <1>3, <1>4, <1>8, <1>10, <1>11, <1>12, <1>14, <1>15 DEF Walk

----------------------------------------------------------------------------
(***************************************************************************)
(* The end of the walk, and the signature.                                 *)
(***************************************************************************)
\* why an image is refused once its segments were walked
RefusesTail ==
  LET end == TailEnd(off)
  IN \/ ~Got(Part, off, end) \/ ~ChecksumMatches(end)
     \/ Img.hash /\ ~(Got(Part, end, end + 32) /\ DigestMatches(hashed \o Walked(off, end), end))

\* A byte that went into the checksum is a byte of a segment's data.
LEMMA SummedInside ==
  ASSUME LoadInv, MapInv, ImagesTyped, tried # <<>>, Walk, index = Len(Img.segs), Holds(summed, Img.bad)
  PROVE  /\ \E k \in DOMAIN Img.segs :
              Img.bad \in DataAt(Img.segs, k) .. DataAt(Img.segs, k) + Img.segs[k].len - 1
         /\ Img.bad \in 0 .. SegsEnd(Img.segs) - 1
  <1> DEFINE segs == Img.segs
  <1>1. segs \in Seq(SegmentType) /\ Len(segs) \in Nat /\ DOMAIN segs = 1 .. Len(segs)
        /\ Img.bad \in {NoByte} \cup Nat /\ \A k \in 1 .. Len(segs) : segs[k].len \in 0 .. WIDTH - 1
    BY WalkGround
  <1>2. Img.bad \in Int
    BY <1>1 DEF NoByte
  <1>3. PICK k \in 1 .. Len(segs) : Img.bad \in DataAt(segs, k) .. DataAt(segs, k) + segs[k].len - 1
    BY <1>2 DEF Walk
  <1>4. SegEnds(segs)[k] = SegEnds(segs)[k - 1] + 8 + segs[k].len /\ k - 1 \in 0 .. Len(segs) /\ k \in 0 .. Len(segs)
    BY <1>1, EndsStep
  <1>5. SegEnds(segs)[k - 1] \in Nat /\ SegEnds(segs)[k] <= SegsEnd(segs) /\ SegsEnd(segs) \in Nat
        /\ SegEnds(segs)[k] \in Nat
    BY <1>1, <1>4, EndsPast
  <1>6. segs[k].len \in Nat
    BY <1>1, SizesAssumption
  <1>7. Img.bad \in 0 .. SegsEnd(segs) - 1
    <2> DEFINE e == SegEnds(segs)[k - 1]
               n == segs[k].len
    <2>1. Img.bad \in e + 8 .. e + 8 + n - 1
      BY <1>3 DEF DataAt
    <2>2. e \in Nat /\ n \in Nat /\ e + 8 + n <= SegsEnd(segs)
      BY <1>4, <1>5, <1>6
    <2> HIDE DEF e, n
    <2> QED BY <1>2, <1>5, <2>1, <2>2
  <1> QED BY <1>1, <1>3, <1>7

LEMMA TailGround ==
  ASSUME LoadInv, MapInv, ImagesTyped, tried # <<>>, Walk, index = Len(Img.segs)
  PROVE  LET last == SegsEnd(Img.segs)  tail == TailEnd(last)
         IN /\ off = last /\ last \in Nat /\ tail \in Nat /\ last < tail /\ tail <= last + 16
            /\ ImageEnd(Img) = IF Img.hash THEN tail + 32 ELSE tail
            /\ (Got(Part, off, tail) <=> tail <= Part.len)
            /\ (Got(Part, tail, tail + 32) <=> tail + 32 <= Part.len)
            /\ HashedTo(hashed \o Walked(off, tail), tail)
  <1> DEFINE last == SegsEnd(Img.segs)
             tail == TailEnd(last)
  <1>1. Img.segs \in Seq(SegmentType) /\ Part \in PartType /\ off \in Nat /\ WIDTH \in Nat /\ 32 < WIDTH
    BY WalkGround, SizesAssumption
  <1>2. off = last
    BY DEF Walk, SegsEnd
  <1>3. /\ last \in Nat /\ tail \in Nat /\ last + 1 <= tail /\ tail <= last + 16
        /\ ImageEnd(Img) = IF Img.hash THEN tail + 32 ELSE tail
    BY <1>1, EndsPast
  <1> HIDE DEF last, tail
  <1>4. Got(Part, off, tail) <=> tail <= Part.len
    <2>1. tail - off \in 0 .. WIDTH - 1 /\ off + (tail - off) = tail
      BY <1>1, <1>2, <1>3
    <2>2. Got(Part, off, off + (tail - off)) <=> off + (tail - off) <= Part.len
      BY <1>1, <2>1, GotExact
    <2> QED BY <2>1, <2>2
  <1>5. Got(Part, tail, tail + 32) <=> tail + 32 <= Part.len
    <2>1. 32 \in 0 .. WIDTH - 1
      BY <1>1
    <2> QED BY <1>1, <1>3, <2>1, GotExact
  <1>6. HashedTo(hashed \o Walked(off, tail), tail)
    <2>1. off <= tail
      BY <1>2, <1>3
    <2> QED BY <1>1, <1>3, <2>1, HashedOn DEF Walk
  <1>7. last < tail
    BY <1>3
  <1> QED BY <1>2, <1>3, <1>4, <1>5, <1>6, <1>7 DEF last, tail

\* A tail is refused only in an image that is not good.
LEMMA TailForCause ==
  ASSUME LoadInv, MapInv, ImagesTyped, tried # <<>>, Walk, index = Len(Img.segs), RefusesTail
  PROVE  ~Good(Current)
  <1> DEFINE last == SegsEnd(Img.segs)
             tail == TailEnd(last)
  <1>1. /\ off = last /\ last \in Nat /\ tail \in Nat /\ last < tail /\ tail <= last + 16
        /\ ImageEnd(Img) = (IF Img.hash THEN tail + 32 ELSE tail)
        /\ (Got(Part, off, tail) <=> tail <= Part.len)
        /\ (Got(Part, tail, tail + 32) <=> tail + 32 <= Part.len)
        /\ HashedTo(hashed \o Walked(off, tail), tail)
    BY TailGround
  <1>2. /\ Current \in Candidate /\ Img = image[Current] /\ Part = Parts(table)[Current]
        /\ Img.hash \in BOOLEAN /\ Img.bad \in Int /\ Part.len \in Nat
    BY WalkGround DEF NoByte
  <1>3. Good(Current) => ImageEnd(Img) <= Part.len /\ Undamaged(Img)
    BY <1>2 DEF Good
  <1> SUFFICES ASSUME ImageEnd(Img) <= Part.len, Undamaged(Img) PROVE FALSE
    BY <1>3
  <1>4. IF Img.hash THEN Img.bad \notin 0 .. ImageEnd(Img) - 1
        ELSE /\ Img.bad # tail - 1
             /\ \A k \in DOMAIN Img.segs :
                  Img.bad \notin DataAt(Img.segs, k) .. DataAt(Img.segs, k) + Img.segs[k].len - 1
    BY DEF Undamaged
  <1> HIDE DEF last, tail
  <1>5. tail <= Part.len /\ (Img.hash => tail + 32 <= Part.len)
    BY <1>1, <1>2
  <1>6. ChecksumMatches(tail)
    <2>1. ~Holds(summed, Img.bad)
      <3> SUFFICES ASSUME Holds(summed, Img.bad) PROVE FALSE
        OBVIOUS
      <3>1. /\ \E k \in DOMAIN Img.segs :
                 Img.bad \in DataAt(Img.segs, k) .. DataAt(Img.segs, k) + Img.segs[k].len - 1
            /\ Img.bad \in 0 .. last - 1
        BY SummedInside DEF last
      <3>2. ImageEnd(Img) >= last
        BY <1>1
      <3> QED BY <1>1, <1>2, <1>4, <3>1, <3>2
    <2>2. Img.bad # tail - 1
      BY <1>1, <1>2, <1>4
    <2> QED BY <2>1, <2>2 DEF ChecksumMatches
  <1>7. Img.hash => DigestMatches(hashed \o Walked(off, tail), tail)
    <2> SUFFICES ASSUME Img.hash PROVE DigestMatches(hashed \o Walked(off, tail), tail)
      OBVIOUS
    <2> DEFINE q == hashed \o Walked(off, tail)
    <2>1. Contiguous(q, 0) /\ q[Len(q)][2] = tail /\ (Holds(q, Img.bad) <=> Img.bad \in 0 .. tail - 1)
      BY <1>1, <1>2 DEF HashedTo
    <2>2. Img.bad \notin 0 .. (tail + 32) - 1
      BY <1>1, <1>4
    <2> HIDE DEF q
    <2> QED BY <1>1, <1>2, <2>1, <2>2 DEF DigestMatches, q
  <1>8. TailEnd(off) = tail
    BY <1>1 DEF tail
  <1> QED BY <1>1, <1>5, <1>6, <1>7, <1>8 DEF RefusesTail

\* What is let through is undamaged wherever something was there to tell.
LEMMA TailPasses ==
  ASSUME LoadInv, MapInv, ImagesTyped, tried # <<>>, Walk, index = Len(Img.segs), ~RefusesTail
  PROVE  /\ (IF Img.hash THEN TailEnd(off) + 32 ELSE TailEnd(off)) = ImageEnd(Img)
         /\ ImageEnd(Img) <= Part.len
         /\ SegmentsOk(Part, Img.segs) /\ Undamaged(Img)
  <1> DEFINE last == SegsEnd(Img.segs)
             tail == TailEnd(last)
             q == hashed \o Walked(off, tail)
  <1>1. /\ off = last /\ last \in Nat /\ tail \in Nat /\ last < tail /\ tail <= last + 16
        /\ ImageEnd(Img) = (IF Img.hash THEN tail + 32 ELSE tail)
        /\ (Got(Part, off, tail) <=> tail <= Part.len)
        /\ (Got(Part, tail, tail + 32) <=> tail + 32 <= Part.len)
        /\ HashedTo(q, tail)
    BY TailGround
  <1>2. /\ Img.segs \in Seq(SegmentType) /\ Len(Img.segs) \in Nat /\ Img.hash \in BOOLEAN /\ Img.bad \in Int
    BY WalkGround DEF NoByte
  <1>3. /\ Got(Part, off, tail) /\ ChecksumMatches(tail)
        /\ Img.hash => Got(Part, tail, tail + 32) /\ DigestMatches(q, tail)
    BY <1>1 DEF RefusesTail
  <1>4. Undamaged(Img)
    <2>1. CASE Img.hash
      <3>1. Holds(q, Img.bad) <=> Img.bad \in 0 .. tail - 1
        BY <1>1, <1>2 DEF HashedTo
      <3> HIDE DEF q
      <3>2. ~Holds(q, Img.bad) /\ Img.bad \notin tail .. tail + 31
        BY <1>3, <2>1 DEF DigestMatches
      <3> HIDE DEF tail
      <3>3. Img.bad \notin 0 .. ImageEnd(Img) - 1
        BY <1>1, <1>2, <2>1, <3>1, <3>2
      <3> QED BY <2>1, <3>3 DEF Undamaged
    <2>2. CASE ~Img.hash
      <3>1. ~Holds(summed, Img.bad) /\ Img.bad # tail - 1
        BY <1>3 DEF ChecksumMatches
      <3>2. \A k \in 1 .. Len(Img.segs) :
              Img.bad \notin DataAt(Img.segs, k) .. DataAt(Img.segs, k) + Img.segs[k].len - 1
        BY <1>2, <3>1 DEF Walk
      <3>3. DOMAIN Img.segs = 1 .. Len(Img.segs)
        BY <1>2
      <3> QED BY <2>2, <3>1, <3>2, <3>3 DEF Undamaged
    <2> QED BY <2>1, <2>2
  <1>5. SegmentsOk(Part, Img.segs)
    <2>1. \A kind : {k \in Used(Img.segs, kind) : k <= index} = Used(Img.segs, kind)
      <3> TAKE kind
      <3>1. \A k \in Used(Img.segs, kind) : k \in 1 .. Len(Img.segs)
        BY <1>2, UsedSegments
      <3> QED BY <1>2, <3>1
    <2>2. OneAtMost(Used(Img.segs, "drom")) /\ OneAtMost(Used(Img.segs, "irom"))
      BY <2>1 DEF Walk, Kept
    <2>3. \A k \in 1 .. Len(Img.segs) : SegmentRight(Part, Img.segs, k)
      BY DEF Walk
    <2> QED BY <1>2, <2>2, <2>3, OneByOne
  <1> HIDE DEF tail
  <1>6. TailEnd(off) = tail
    BY <1>1 DEF tail
  <1>7. ImageEnd(Img) <= Part.len
    BY <1>1, <1>2, <1>3
  <1> QED BY <1>1, <1>4, <1>5, <1>6, <1>7

\* A signature that is found covers everything before it, and one that is there is found.
LEMMA SignatureExact ==
  ASSUME LoadInv, MapInv, ImagesTyped, tried # <<>>, off = ImageEnd(Img)
  PROVE  Signed(off) <=> SignatureOk(Part, Img)
  <1> DEFINE padded == RoundUp(off, SECTOR)
  <1>1. /\ Part \in PartType /\ off \in Nat /\ WIDTH \in Nat /\ SECTOR \in Nat \ {0} /\ SECTOR < WIDTH
        /\ Img.bad \in {NoByte} \cup Nat
    BY WalkGround, SizesAssumption
  <1>2. padded \in Nat
    BY <1>1, RoundUpRange
  <1> HIDE DEF padded
  <1>3. Got(Part, padded, padded + SECTOR) <=> padded + SECTOR <= Part.len
    <2>1. SECTOR \in 0 .. WIDTH - 1
      BY <1>1
    <2> QED BY <1>1, <1>2, <2>1, GotExact
  <1>4. (Img.bad = NoByte \/ Img.bad >= padded) <=> Img.bad \notin 0 .. padded - 1
    BY <1>1, <1>2 DEF NoByte
  <1> QED BY <1>3, <1>4 DEF Signed, SignatureOk, padded

----------------------------------------------------------------------------
(***************************************************************************)
(* The candidates, one after the other.                                    *)
(***************************************************************************)
\* those the loader left behind are not good, and the app that runs is the one it was at
RefusedInv ==
  /\ \A k \in 1 .. Len(tried) : k < Len(tried) \/ stage \in {"next", "fatal"} => tried[k] \notin Goods
  /\ stage = "app" => running = Current

\* the candidates are tried in their order
OrderInv ==
  /\ \E board \in Boards : table = board.table /\ \E first \in FirstChoices(table) : order = Candidates(table, first)
  /\ Len(tried) <= Len(order) /\ \A k \in 1 .. Len(tried) : tried[k] = order[k]
  /\ stage = "fatal" => Len(tried) = Len(order)

ChoiceInv == ImagesTyped /\ TurnInv /\ RefusedInv /\ OrderInv

LEMMA ChoiceInit == ImageInit => ChoiceInv
  <1> SUFFICES ASSUME ImageInit PROVE ChoiceInv
    OBVIOUS
  <1>1. PICK board \in Boards : PowerOn(board)
    BY DEF ImageInit
  <1>2. /\ table = board.table /\ image = board.image /\ tried = <<>> /\ stage = "next"
        /\ index = 0 /\ drom = NoMap /\ irom = NoMap /\ hashed = <<>> /\ summed = <<>>
        /\ \E first \in FirstChoices(table) : order = Candidates(table, first)
    BY <1>1 DEF PowerOn
  <1>3. ImagesTyped
    BY <1>2, BoardsAssumption DEF ImagesTyped
  <1>4. order \in Seq(Candidate) /\ Len(order) \in Nat /\ Len(tried) = 0
    <2>1. order \in Seq(Candidate)
      BY <1>2, CandidatesOnce
    <2> QED BY <1>2, <2>1
  <1>5. TurnInv
    BY <1>2 DEF TurnInv
  <1>6. RefusedInv
    BY <1>2, <1>4 DEF RefusedInv
  <1>7. OrderInv
    BY <1>2, <1>4 DEF OrderInv
  <1> QED BY <1>3, <1>5, <1>6, <1>7 DEF ChoiceInv

\* A partition is passed over only if its image is not good.
LEMMA BeginChoice ==
  ASSUME LoadInv, MapInv, ChoiceInv, BeginCandidate
  PROVE  ChoiceInv'
  <1> DEFINE c == order[Len(tried) + 1]
             part == Parts(table)[c]
  <1>1. /\ stage = "next" /\ Len(tried) < Len(order) /\ tried' = Append(tried, c)
        /\ Constant /\ UNCHANGED <<table, image, order>>
        /\ UNCHANGED <<off, index, drom, irom, hashed, summed>>
        /\ \/ stage' = stage /\ (part = NoPart \/ Pages(part.offset, part.len) > MMU_ENTRIES)
           \/ stage' = "header" /\ part # NoPart /\ ~(Pages(part.offset, part.len) > MMU_ENTRIES)
    BY DEF BeginCandidate, Constant, locals
  <1>2. order \in Seq(Candidate) /\ tried \in Seq(Candidate)
    BY DEF LoadInv
  <1>3. c \in Candidate /\ Len(tried) \in Nat /\ Len(order) \in Nat
    BY <1>1, <1>2
  <1>4. part \in PartType
    BY <1>3 DEF MapInv
  <1> HIDE DEF c, part
  <1>5. /\ Len(tried') = Len(tried) + 1 /\ tried'[Len(tried) + 1] = c
        /\ \A k \in 1 .. Len(tried) : tried'[k] = tried[k]
    BY <1>1, <1>2, <1>3
  <1>6. Current' = c
    BY <1>5 DEF Current
  <1>7. part # NoPart /\ ~(Pages(part.offset, part.len) > MMU_ENTRIES) <=> WindowOk(c)
    BY <1>4, WindowFits DEF WindowOk, part
  <1>9. c \in Goods => WindowOk(c)
    BY DEF Goods, Good, WindowOk
  <1>10. Goods' = Goods
    BY <1>1, GoodsStay
  <1>11. stage' \in {"next", "header"} /\ (stage' = "next" => ~WindowOk(c)) /\ (stage' = "header" => WindowOk(c))
    BY <1>1, <1>7
  <1>12. ImagesTyped'
    BY <1>1 DEF ChoiceInv, ImagesTyped
  <1>13. TurnInv'
    <2>1. index' = 0 /\ drom' = NoMap /\ irom' = NoMap /\ hashed' = <<>> /\ summed' = <<>>
      BY <1>1 DEF ChoiceInv, TurnInv
    <2>2. stage' = "header" => WindowOk(Current)'
      <3> SUFFICES ASSUME stage' = "header" PROVE WindowOk(Current)'
        OBVIOUS
      <3>1. Parts(table)[c] # NoPart /\ (Parts(table)[c].offset % PAGE) + Parts(table)[c].len <= MMU_ENTRIES * PAGE
        BY <1>11 DEF WindowOk
      <3> QED BY <1>1, <1>6, <3>1 DEF WindowOk
    <2> QED BY <1>11, <2>1, <2>2 DEF TurnInv
  <1>14. RefusedInv'
    <2>1. ASSUME NEW k \in 1 .. Len(tried'), k < Len(tried') \/ stage' = "next" PROVE tried'[k] \notin Goods
      <3>1. CASE k \in 1 .. Len(tried)
        BY <1>1, <1>5, <3>1 DEF ChoiceInv, RefusedInv
      <3>2. CASE k = Len(tried) + 1
        BY <1>3, <1>5, <1>9, <1>11, <2>1, <3>2
      <3> QED BY <1>3, <1>5, <3>1, <3>2
    <2> QED BY <1>10, <1>11, <2>1 DEF RefusedInv
  <1>15. OrderInv'
    <2>1. ASSUME NEW k \in 1 .. Len(tried') PROVE tried'[k] = order[k]
      <3>1. CASE k \in 1 .. Len(tried)
        BY <1>5, <3>1 DEF ChoiceInv, OrderInv
      <3>2. CASE k = Len(tried) + 1
        BY <1>5, <3>2 DEF c
      <3> QED BY <1>3, <1>5, <3>1, <3>2
    <2>2. \E board \in Boards : table = board.table /\ \E first \in FirstChoices(table) : order = Candidates(table, first)
      BY DEF ChoiceInv, OrderInv
    <2>3. Len(tried') <= Len(order)
      BY <1>1, <1>3, <1>5
    <2> QED BY <1>1, <1>11, <2>1, <2>2, <2>3 DEF OrderInv
  <1> QED BY <1>12, <1>13, <1>14, <1>15 DEF ChoiceInv

\* A step inside a candidate's turn keeps what was tried; only a candidate that is not good is
\* left.
LEMMA TurnGoesOn ==
  ASSUME LoadInv, ChoiceInv, Constant, UNCHANGED <<tried, running>>,
         stage \in {"header", "segment", "signature"},
         stage' \in {"next", "segment", "signature", "start"},
         stage' = "next" => Current \notin Goods
  PROVE  ImagesTyped' /\ RefusedInv' /\ OrderInv'
  <1>1. UNCHANGED <<table, image, order>> /\ Goods' = Goods
    BY GoodsStay DEF Constant
  <1>2. ImagesTyped'
    BY <1>1 DEF ChoiceInv, ImagesTyped
  <1>3. RefusedInv'
    <2>1. Len(tried) \in Nat
      BY DEF LoadInv
    <2>2. ASSUME NEW k \in 1 .. Len(tried), k < Len(tried) \/ stage' = "next" PROVE tried[k] \notin Goods
      <3>1. CASE k < Len(tried)
        BY <3>1 DEF ChoiceInv, RefusedInv
      <3>2. CASE ~(k < Len(tried))
        <4>1. k = Len(tried)
          BY <2>1, <3>2
        <4> QED BY <2>2, <3>2, <4>1 DEF Current
      <3> QED BY <3>1, <3>2
    <2> QED BY <1>1, <2>2 DEF RefusedInv
  <1>4. OrderInv'
    BY <1>1 DEF ChoiceInv, OrderInv
  <1> QED BY <1>2, <1>3, <1>4

\* The places of the loop that stay where they are.
LEMMA PlacesStay ==
  ASSUME Constant, UNCHANGED tried
  PROVE  /\ UNCHANGED <<Current, Img, Part>>
         /\ WindowOk(Current)' = WindowOk(Current)
         /\ Goods' = Goods
  <1>1. UNCHANGED <<table, image, policy>>
    BY DEF Constant
  <1> QED BY <1>1, GoodsStay DEF Current, Img, Part, WindowOk

LEMMA HeaderChoice ==
  ASSUME LoadInv, MapInv, ChoiceInv, ReadHeader
  PROVE  ChoiceInv'
  <1>1. /\ stage = "header" /\ Constant /\ UNCHANGED <<tried, running>>
        /\ \/ (~Got(Part, 0, 24) \/ ~HeaderOk(Img)) /\ NextCandidate
           \/ /\ Got(Part, 0, 24) /\ HeaderOk(Img) /\ stage' = "segment" /\ off' = 24
              /\ hashed' = <<<<0, 24>>>> /\ UNCHANGED <<index, drom, irom, summed>>
    BY DEF ReadHeader
  <1>2. tried # <<>> /\ ImagesTyped
    BY <1>1 DEF LoadInv, ChoiceInv
  <1>3. /\ UNCHANGED <<Current, Img, Part>> /\ WindowOk(Current)' = WindowOk(Current) /\ Goods' = Goods
        /\ UNCHANGED <<table, image>>
    BY <1>1, PlacesStay DEF Constant
  <1>4. /\ Current \in Candidate /\ Img = image[Current] /\ Part = Parts(table)[Current]
        /\ Img.segs \in Seq(SegmentType) /\ Len(Img.segs) \in Nat /\ Part \in PartType /\ Part.len \in Nat
    BY <1>2, WalkGround
  <1>5. Got(Part, 0, 24) <=> 24 <= Part.len
    <2>1. 24 \in 0 .. WIDTH - 1 /\ 0 + 24 = 24
      BY SizesAssumption
    <2> QED BY <1>4, <2>1, GotExact
  <1>6. CASE (~Got(Part, 0, 24) \/ ~HeaderOk(Img)) /\ NextCandidate
    <2>1. Current \notin Goods
      <3>1. CASE ~HeaderOk(Img)
        BY <1>4, <3>1 DEF Goods, Good
      <3>2. CASE ~Got(Part, 0, 24)
        <4>1. /\ SegsEnd(Img.segs) \in Nat /\ SegsEnd(Img.segs) >= 24
              /\ TailEnd(SegsEnd(Img.segs)) \in Nat /\ SegsEnd(Img.segs) + 1 <= TailEnd(SegsEnd(Img.segs))
              /\ ImageEnd(Img) = IF Img.hash THEN TailEnd(SegsEnd(Img.segs)) + 32 ELSE TailEnd(SegsEnd(Img.segs))
          BY <1>4, EndsPast
        <4>2. ~(ImageEnd(Img) <= Part.len)
          BY <1>4, <1>5, <3>2, <4>1
        <4> QED BY <1>4, <4>2, TooLong DEF Goods
      <3> QED BY <1>6, <3>1, <3>2
    <2>2. stage' = "next" /\ index' = 0 /\ drom' = NoMap /\ irom' = NoMap /\ hashed' = <<>> /\ summed' = <<>>
      BY <1>6 DEF NextCandidate
    <2>3. TurnInv'
      BY <2>2 DEF TurnInv
    <2> QED BY <1>1, <2>1, <2>2, <2>3, TurnGoesOn DEF ChoiceInv
  <1>7. CASE /\ Got(Part, 0, 24) /\ HeaderOk(Img) /\ stage' = "segment" /\ off' = 24
             /\ hashed' = <<<<0, 24>>>> /\ UNCHANGED <<index, drom, irom, summed>>
    <2>1. index' = 0 /\ drom' = NoMap /\ irom' = NoMap /\ summed' = <<>> /\ WindowOk(Current)
      BY <1>1, <1>7 DEF ChoiceInv, TurnInv
    <2>2. HashedTo(hashed', 24)
      <3> DEFINE h == <<<<0, 24>>>>
      <3>1. h \in Pieces /\ Len(h) = 1 /\ DOMAIN h = 1 .. 1 /\ h[1] = <<0, 24>> /\ h # <<>>
        BY DEF Pieces
      <3> HIDE DEF h
      <3>2. Contiguous(h, 0) /\ h[Len(h)][2] = 24
        BY <3>1 DEF Contiguous
      <3>3. \A b \in Int : Holds(h, b) <=> b \in 0 .. 24 - 1
        BY <3>1 DEF Holds
      <3>4. HashedTo(h, 24)
        BY <3>1, <3>2, <3>3 DEF HashedTo
      <3> QED BY <1>7, <3>4 DEF h
    <2>3. SegEnds(Img.segs)[0] = 24
      BY <1>4, EndsStep
    <2>4. \A kind : {k \in Used(Img.segs, kind) : k <= 0} = {}
      <3> TAKE kind
      <3>1. \A k \in Used(Img.segs, kind) : k \in 1 .. Len(Img.segs)
        BY <1>4, UsedSegments
      <3> QED BY <3>1
    <2>5. Kept(drom, "drom")' /\ Kept(irom, "irom")'
      BY <1>3, <2>1, <2>4 DEF Kept, OneAtMost
    <2>6. summed' \in Pieces /\ \A b : ~Holds(summed', b)
      BY <2>1 DEF Pieces, Holds
    <2>7. Walk'
      <3>1. index' \in 0 .. Len(Img.segs) /\ off' = SegEnds(Img.segs)[index'] /\ off' <= Part.len
        BY <1>4, <1>5, <1>7, <2>1, <2>3
      <3>2. 1 .. index' = {}
        BY <2>1
      <3> QED BY <1>3, <1>7, <2>2, <2>5, <2>6, <3>1, <3>2 DEF Walk
    <2>8. TurnInv'
      BY <1>3, <1>7, <2>1, <2>7 DEF TurnInv
    <2> QED BY <1>1, <1>7, <2>8, TurnGoesOn DEF ChoiceInv
  <1> QED BY <1>1, <1>6, <1>7

LEMMA SegmentChoice ==
  ASSUME LoadInv, MapInv, ChoiceInv, Segment
  PROVE  ChoiceInv'
  <1>1. /\ stage = "segment" /\ index < Len(Img.segs) /\ Constant /\ UNCHANGED <<tried, running>>
    BY DEF Segment
  <1>2. tried # <<>> /\ ImagesTyped /\ Walk /\ WindowOk(Current) /\ HeaderOk(Img)
    BY <1>1 DEF LoadInv, ChoiceInv, TurnInv
  <1>3. /\ UNCHANGED <<Current, Img, Part>> /\ WindowOk(Current)' = WindowOk(Current) /\ Goods' = Goods
        /\ UNCHANGED <<table, image>>
    BY <1>1, PlacesStay DEF Constant
  <1>4. CASE NextCandidate /\ RefusesSegment
    <2>1. Current \notin Goods
      BY <1>1, <1>2, <1>4, RefusedForCause DEF Goods
    <2>2. stage' = "next" /\ index' = 0 /\ drom' = NoMap /\ irom' = NoMap /\ hashed' = <<>> /\ summed' = <<>>
      BY <1>4 DEF NextCandidate
    <2>3. TurnInv'
      BY <2>2 DEF TurnInv
    <2> QED BY <1>1, <2>1, <2>2, <2>3, TurnGoesOn DEF ChoiceInv
  <1>5. CASE TakesEmpty \/ TakesSegment
    <2>1. Walk'
      BY <1>1, <1>2, <1>3, <1>5, EmptyTaken, SegmentTaken
    <2>2. stage' = "segment"
      BY <1>1, <1>5 DEF TakesEmpty, TakesSegment
    <2>3. TurnInv'
      BY <1>2, <1>3, <2>1, <2>2 DEF TurnInv
    <2> QED BY <1>1, <2>2, <2>3, TurnGoesOn DEF ChoiceInv
  <1> QED BY <1>4, <1>5, SegmentTurns

LEMMA TailChoice ==
  ASSUME LoadInv, MapInv, ChoiceInv, FinishWalk
  PROVE  ChoiceInv'
  <1>1. /\ stage = "segment" /\ index = Len(Img.segs) /\ Constant /\ UNCHANGED <<tried, running>>
        /\ \/ RefusesTail /\ NextCandidate
           \/ /\ ~RefusesTail /\ stage' = "signature"
              /\ off' = (IF Img.hash THEN TailEnd(off) + 32 ELSE TailEnd(off))
    BY DEF FinishWalk, RefusesTail
  <1>2. tried # <<>> /\ ImagesTyped /\ Walk /\ WindowOk(Current) /\ HeaderOk(Img)
    BY <1>1 DEF LoadInv, ChoiceInv, TurnInv
  <1>3. /\ UNCHANGED <<Current, Img, Part>> /\ WindowOk(Current)' = WindowOk(Current) /\ Goods' = Goods
    BY <1>1, PlacesStay
  <1>4. CASE RefusesTail /\ NextCandidate
    <2>1. Current \notin Goods
      BY <1>1, <1>2, <1>4, TailForCause DEF Goods
    <2>2. stage' = "next" /\ index' = 0 /\ drom' = NoMap /\ irom' = NoMap /\ hashed' = <<>> /\ summed' = <<>>
      BY <1>4 DEF NextCandidate
    <2>3. TurnInv'
      BY <2>2 DEF TurnInv
    <2> QED BY <1>1, <2>1, <2>2, <2>3, TurnGoesOn DEF ChoiceInv
  <1>5. CASE /\ ~RefusesTail /\ stage' = "signature"
             /\ off' = (IF Img.hash THEN TailEnd(off) + 32 ELSE TailEnd(off))
    <2>1. off' = ImageEnd(Img) /\ ImageEnd(Img) <= Part.len /\ SegmentsOk(Part, Img.segs) /\ Undamaged(Img)
      BY <1>1, <1>2, <1>5, TailPasses
    <2>2. TurnInv'
      BY <1>2, <1>3, <1>5, <2>1 DEF TurnInv
    <2> QED BY <1>1, <1>5, <2>2, TurnGoesOn DEF ChoiceInv
  <1> QED BY <1>1, <1>4, <1>5

LEMMA VerifyChoice ==
  ASSUME LoadInv, MapInv, ChoiceInv, Verify
  PROVE  ChoiceInv'
  <1>1. /\ stage = "signature" /\ Constant /\ UNCHANGED <<tried, running>>
        /\ \/ policy # "open" /\ ~Signed(off) /\ NextCandidate
           \/ (policy # "open" => Signed(off)) /\ stage' = "start"
    BY DEF Verify
  <1>2. /\ tried # <<>> /\ ImagesTyped /\ WindowOk(Current) /\ HeaderOk(Img)
        /\ off = ImageEnd(Img) /\ off <= Part.len /\ SegmentsOk(Part, Img.segs) /\ Undamaged(Img)
    BY <1>1 DEF LoadInv, ChoiceInv, TurnInv
  <1>3. /\ UNCHANGED <<Current, Img, Part>> /\ Goods' = Goods
    BY <1>1, PlacesStay
  <1>4. Current \in Candidate /\ Img = image[Current] /\ Part = Parts(table)[Current]
    BY <1>2, WalkGround
  <1>5. Signed(off) <=> SignatureOk(Part, Img)
    BY <1>2, SignatureExact
  <1>6. Current \in Goods <=> (policy # "open" => Signed(off))
    BY <1>2, <1>4, <1>5 DEF Goods, Good, WindowOk
  <1>7. CASE policy # "open" /\ ~Signed(off) /\ NextCandidate
    <2>1. stage' = "next" /\ index' = 0 /\ drom' = NoMap /\ irom' = NoMap /\ hashed' = <<>> /\ summed' = <<>>
      BY <1>7 DEF NextCandidate
    <2>2. TurnInv'
      BY <2>1 DEF TurnInv
    <2> QED BY <1>1, <1>6, <1>7, <2>1, <2>2, TurnGoesOn DEF ChoiceInv
  <1>8. CASE (policy # "open" => Signed(off)) /\ stage' = "start"
    <2>1. TurnInv'
      BY <1>3, <1>6, <1>8 DEF TurnInv
    <2> QED BY <1>1, <1>8, <2>1, TurnGoesOn DEF ChoiceInv
  <1> QED BY <1>1, <1>7, <1>8

\* The app starts, or none is left.
LEMMA LastChoice ==
  ASSUME LoadInv, ChoiceInv, Start \/ Fatal
  PROVE  ChoiceInv'
  <1>1. Constant /\ UNCHANGED <<table, image, order, tried>>
    BY DEF Start, Fatal, Constant
  <1>2. /\ UNCHANGED <<Current, Img, Part>> /\ Goods' = Goods
    BY <1>1, PlacesStay
  <1>3. \/ stage = "start" /\ stage' = "app" /\ running' = Current
        \/ stage = "next" /\ stage' = "fatal" /\ Len(tried) = Len(order)
    BY DEF Start, Fatal
  <1>4. ImagesTyped' /\ OrderInv'
    BY <1>1, <1>3 DEF ChoiceInv, ImagesTyped, OrderInv
  <1>5. RefusedInv'
    BY <1>1, <1>2, <1>3 DEF ChoiceInv, RefusedInv
  <1>6. TurnInv'
    BY <1>1, <1>2, <1>3 DEF ChoiceInv, TurnInv
  <1> QED BY <1>4, <1>5, <1>6 DEF ChoiceInv

LEMMA StutterChoice ==
  ASSUME ChoiceInv, UNCHANGED imageVars
  PROVE  ChoiceInv'
  <1>1. UNCHANGED <<table, image, policy, order, tried, stage, off, index, drom, irom, hashed, summed, running>>
    BY DEF imageVars, locals
  <1>2. UNCHANGED <<Current, Img, Part, Goods>> /\ WindowOk(Current)' = WindowOk(Current)
    BY <1>1, PlacesStay DEF Constant, imageVars
  <1>3. Walk' = Walk
    BY <1>1, <1>2 DEF Walk, Kept
  <1>4. TurnInv'
    BY <1>1, <1>2, <1>3 DEF ChoiceInv, TurnInv
  <1> QED BY <1>1, <1>2, <1>4 DEF ChoiceInv, ImagesTyped, RefusedInv, OrderInv

LEMMA ChoiceAlways == ImageSpec => []ChoiceInv
  <1>1. LoadInv /\ MapInv /\ ChoiceInv /\ [ImageNext]_imageVars => ChoiceInv'
    BY BeginChoice, HeaderChoice, SegmentChoice, TailChoice, VerifyChoice, LastChoice, StutterChoice
       DEF ImageNext
  <1> QED BY <1>1, ChoiceInit, LoadAlways, MapAlways, PTL DEF ImageSpec

\* The app that starts is the first in the loader's order whose every check passes (main.rs
\* 14-16, 132-211): what is checked piece by piece, with sums that could wrap, decides exactly
\* whether the image is what it must be, for every table, set of images and sizes.
THEOREM TheFirstGoodStarts == ImageSpec => []FirstGoodStarts
  <1>1. LoadInv /\ StartInv /\ ChoiceInv => FirstGoodStarts
    <2> SUFFICES ASSUME LoadInv, StartInv, ChoiceInv, running # Nobody
                 PROVE  Good(running) /\ \A k \in 1 .. Len(tried) - 1 : tried[k] # running /\ ~Good(tried[k])
      BY DEF FirstGoodStarts
    <2>1. stage = "app"
      BY DEF StartInv
    <2>2. running = Current /\ running \in Goods
      BY <2>1 DEF ChoiceInv, RefusedInv, TurnInv
    <2>3. Len(tried) \in Nat /\ \A k \in 1 .. Len(tried) : tried[k] \in Candidate
      BY DEF LoadInv
    <2>4. \A k \in 1 .. Len(tried) - 1 : k \in 1 .. Len(tried) /\ k < Len(tried)
      BY <2>3
    <2>5. \A k \in 1 .. Len(tried) - 1 : tried[k] \notin Goods /\ tried[k] \in Candidate
      BY <2>3, <2>4 DEF ChoiceInv, RefusedInv
    <2> QED BY <2>2, <2>5 DEF Goods
  <1> QED BY <1>1, LoadAlways, StartAlways, ChoiceAlways, PTL

\* The loader gives up only when no app of the table would have started, and it tries none
\* twice (main.rs 132, 211-223), in every table whose OTA slots have no gap.
THEOREM GivingUpIsLast == ImageSpec => []GivesUpLast
  <1>1. LoadInv /\ ChoiceInv => GivesUpLast
    <2> SUFFICES ASSUME LoadInv, ChoiceInv PROVE GivesUpLast
      OBVIOUS
    <2>1. PICK board \in Boards : table = board.table /\ \E first \in FirstChoices(table) : order = Candidates(table, first)
      BY DEF ChoiceInv, OrderInv
    <2>2. /\ \A i, j \in DOMAIN order : order[i] = order[j] => i = j
          /\ \A c \in Candidate : c < OtaCount(table) \/ c = Factory => \E k \in DOMAIN order : order[k] = c
      <3>1. PICK first \in FirstChoices(board.table) : order = Candidates(board.table, first)
        BY <2>1
      <3> QED BY <2>1, <3>1, CandidatesOnce
    <2>3. /\ Len(tried) \in Nat /\ Len(order) \in Nat /\ DOMAIN tried = 1 .. Len(tried) /\ DOMAIN order = 1 .. Len(order)
          /\ Len(tried) <= Len(order) /\ \A k \in 1 .. Len(tried) : tried[k] = order[k]
      BY DEF LoadInv, ChoiceInv, OrderInv
    <2>4. \A i, j \in DOMAIN tried : tried[i] = tried[j] => i = j
      <3>1. \A i \in DOMAIN tried : i \in DOMAIN order /\ tried[i] = order[i]
        BY <2>3
      <3> QED BY <2>2, <3>1
    <2>5. ASSUME stage = "fatal", NoGap, NEW c \in Candidate PROVE ~Good(c)
      <3>1. CASE c < OtaCount(table) \/ c = Factory
        <4>1. PICK k \in DOMAIN order : order[k] = c
          BY <2>2, <3>1
        <4>2. Len(tried) = Len(order)
          BY <2>5 DEF ChoiceInv, OrderInv
        <4>3. k \in 1 .. Len(tried) /\ tried[k] = c
          BY <2>3, <4>1, <4>2
        <4>4. tried[k] \notin Goods
          BY <2>5, <4>3 DEF ChoiceInv, RefusedInv
        <4> QED BY <4>3, <4>4 DEF Goods
      <3>2. CASE ~(c < OtaCount(table) \/ c = Factory)
        <4>1. c \in Slots
          BY <3>2 DEF Candidate
        <4>2. Parts(table)[c] = NoPart
          BY <2>5, <3>2, <4>1 DEF NoGap
        <4> QED BY <4>2 DEF Good
      <3> QED BY <3>1, <3>2
    <2> QED BY <2>4, <2>5 DEF GivesUpLast
  <1> QED BY <1>1, LoadAlways, ChoiceAlways, PTL
=============================================================================
