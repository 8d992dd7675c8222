----------------------------- MODULE BootImage -----------------------------
(***************************************************************************)
(* How the second-stage bootloader finds, verifies, loads and starts an    *)
(* app (firmware/esp32s3-boot/src): table.rs `read`, the candidate loop of *)
(* main.rs, flash.rs `map`, image.rs `load`, secure.rs `verify`, soc.rs    *)
(* `start`.  Which candidate comes first is select's choice, modelled in   *)
(* OtaBoot; here it is any choice that select can make.                    *)
(*                                                                         *)
(* An image is its header's facts, its segments and which of its bytes, if *)
(* any, is not the one its maker hashed and signed.  A digest and the XOR  *)
(* checksum are the bytes that went into them.                             *)
(***************************************************************************)
EXTENDS Naturals, Integers, Sequences, SequencesExt, FiniteSets

CONSTANTS
  DRAM, IRAM, RTC, DROM, IROM,  \* the address map: pairs of bounds
  LOADER_DRAM, LOADER_IRAM,     \* the loader's own memory, as either bus names it
  ALIAS,                        \* what IRAM adds to the DRAM address of the same byte
  LOADS_FROM,                   \* below this address a segment is carried, not loaded
  WIDTH,                        \* usize is arithmetic modulo this
  PAGE, MMU_ENTRIES,            \* the cache MMU
  SECTOR,                       \* of a signature
  MAX_SEGMENTS, MAX_OTA,
  Boards                        \* what flash may hold: a partition table, and its images

AddressMap ==
  /\ {DRAM, IRAM, RTC, DROM, IROM, LOADER_DRAM, LOADER_IRAM} \subseteq Nat \X Nat
  /\ ALIAS \in Nat
  /\ LOADER_IRAM = <<LOADER_DRAM[1] + ALIAS, LOADER_DRAM[2] + ALIAS>>
  /\ IRAM[1] <= DRAM[1] + ALIAS /\ DRAM[1] <= LOADER_DRAM[1] /\ LOADER_DRAM[2] <= DRAM[2]
  /\ DRAM[2] <= IRAM[1] /\ IRAM[2] <= RTC[1]
  /\ LOADER_DRAM[1] < LOADER_DRAM[2] /\ LOADER_IRAM[2] <= IRAM[2]

ASSUME AddressMapAssumption == AddressMap

\* none of the sizes that are divided by is zero; a digest and a sector are less than usize holds
ASSUME SizesAssumption ==
  {WIDTH, PAGE, MMU_ENTRIES, SECTOR} \subseteq Nat \ {0} /\ 32 < WIDTH /\ SECTOR < WIDTH
ASSUME SlotsAssumption == MAX_OTA \in Nat

NoByte    == -1                  \* no byte of an image is damaged
Factory   == MAX_OTA
Slots     == 0 .. MAX_OTA - 1
Nobody    == MAX_OTA + 1
Candidate == Slots \cup {Factory}
NoPart    == [offset |-> 0, len |-> 0]
NoMap     == [flash |-> 0, vaddr |-> 0, len |-> 0]
Unmapped  == -1

VARIABLES
  table,    \* the partition table in flash, a sequence of entries
  image,    \* image[c]: what lies in the partition of candidate c
  policy,   \* secure::Policy
  initial,  \* Selection.initial
  order,    \* the candidates, in the order they are tried
  tried,    \* those the loop has come to
  stage,    \* where in one candidate's turn the loader stands
  off, index, drom, irom,  \* locals of load
  hashed,   \* the pieces the digest was fed, as pairs of offsets
  summed,   \* the pieces that went into the checksum
  written,  \* every piece of RAM that was written since reset
  mmu,      \* the cache MMU, entry by entry: a flash page or Unmapped
  vouched,  \* the slot write_initial wrote to otadata, or Nobody
  running   \* the app that was started, or Nobody

locals    == <<off, index, drom, irom, hashed, summed>>
imageVars == <<table, image, policy, initial, order, tried, stage, locals, written, mmu,
               vouched, running>>

----------------------------------------------------------------------------
\* table::read.  An entry is [kind, slot, part]; the rest of the sector is blank.

PartType   == [offset : Nat, len : 0 .. WIDTH - 1]
TableEntry == [kind : {"factory", "ota", "data"}, slot : Nat, part : PartType]

Parts(t) ==
  LET last(kind, slot) == SelectLastInSeq(t, LAMBDA x : x.kind = kind /\ x.slot = slot)
      part(kind, slot) == IF last(kind, slot) = 0 THEN NoPart ELSE t[last(kind, slot)].part
  IN [c \in Candidate |-> IF c = Factory THEN part("factory", 0) ELSE part("ota", c)]

\* counts entries, not slots
OtaCount(t) == Cardinality({k \in DOMAIN t : t[k].kind = "ota"})

\* candidates(): the selected one, the other OTA slots in order, the factory app
OtherSlots(n, first) ==
  [k \in 1 .. IF first < n THEN n - 1 ELSE n |-> IF k <= first THEN k - 1 ELSE k]

Candidates(t, first) ==
  <<first>> \o OtherSlots(OtaCount(t), first) \o (IF first = Factory THEN <<>> ELSE <<Factory>>)

\* what select can choose
FirstChoices(t) ==
  {Factory} \cup {c \in Slots : c < OtaCount(t) \/ (c = 0 /\ Parts(t)[Factory] = NoPart)}

\* the lengths in a table and in an image are 32-bit words, as usize is
SegmentType == [addr : Nat, len : 0 .. WIDTH - 1]

\* no table has more OTA entries than there are slots
ASSUME BoardsAssumption ==
  \A board \in Boards :
    /\ board.table \in Seq(TableEntry) /\ OtaCount(board.table) <= MAX_OTA
    /\ \A c \in Candidate :
         LET img == board.image[c]
         IN img.segs \in Seq(SegmentType) /\ img.hash \in BOOLEAN /\ img.bad \in {NoByte} \cup Nat

\* and when it finds otadata blank
MayBeInitial(t, first) == first = 0 /\ Parts(t)[Factory] = NoPart

----------------------------------------------------------------------------
\* `within`, `overlaps` (64-bit sums), `classify`

Within(range, addr, len)   == addr >= range[1] /\ addr + len <= range[2]
Overlaps(range, addr, len) == addr < range[2] /\ range[1] < addr + len

Kind(addr, len) ==
  IF addr < LOADS_FROM THEN "skipped"
  ELSE IF \E r \in {DRAM, IRAM, RTC} : Within(r, addr, len) THEN "ram"
  ELSE IF Within(DROM, addr, len) THEN "drom"
  ELSE IF Within(IROM, addr, len) THEN "irom"
  ELSE "none"

\* MUTANT of TouchesLoader: the loader's memory as the data bus names it is forgotten
TouchesLoaderCode(addr, len) == Overlaps(LOADER_IRAM, addr, len)

TouchesLoader(addr, len) == Overlaps(LOADER_IRAM, addr, len) \/ Overlaps(LOADER_DRAM, addr, len)

\* slice::get(from .. to), its end computed in usize
Got(part, from, to) == from <= (to % WIDTH) /\ (to % WIDTH) <= part.len

----------------------------------------------------------------------------
Current == tried[Len(tried)]
Part    == Parts(table)[Current]
Img     == image[Current]

NextCandidate ==
  /\ stage' = "next"
  /\ off' = 0 /\ index' = 0 /\ drom' = NoMap /\ irom' = NoMap
  /\ hashed' = <<>> /\ summed' = <<>>

Constant == UNCHANGED <<table, image, policy, initial, order>>

\* MUTANT of Pages: the first page's offset is not counted
PagesOfLen(addr, len) == (len + PAGE - 1) \div PAGE

\* the 64 KB pages that hold addr .. addr + len - 1
Pages(addr, len) == ((addr % PAGE) + len + PAGE - 1) \div PAGE

\* Cache_Dbus_MMU_Set, Cache_Ibus_MMU_Set (ROM): both buses share the entries
EntryOf(vaddr) == (vaddr \div PAGE) % MMU_ENTRIES
MmuSet(m, vaddr, flash, pages) ==
  [e \in 0 .. MMU_ENTRIES - 1 |->
     LET k == (e + MMU_ENTRIES - EntryOf(vaddr)) % MMU_ENTRIES
     IN IF k < pages THEN (flash \div PAGE) + k ELSE m[e]]

\* flash::map: the whole partition into the loader's window
BeginCandidate ==
  /\ stage = "next" /\ Len(tried) < Len(order)
  /\ tried' = Append(tried, order[Len(tried) + 1])
  /\ LET part == Parts(table)[order[Len(tried) + 1]]
         pages == Pages(part.offset, part.len)
     IN IF part = NoPart \/ pages > MMU_ENTRIES
        THEN UNCHANGED <<stage, mmu>>
        ELSE stage' = "header" /\ mmu' = MmuSet(mmu, DROM[1], part.offset, pages)
  /\ Constant /\ UNCHANGED <<locals, written, vouched, running>>

\* no candidate is left: the loader says so and resets the chip
Fatal ==
  /\ stage = "next" /\ Len(tried) = Len(order)
  /\ stage' = "fatal"
  /\ Constant /\ UNCHANGED <<tried, locals, written, mmu, vouched, running>>

HeaderOk(img) == img.header /\ Len(img.segs) \in 1 .. MAX_SEGMENTS
                 /\ (Within(IRAM, img.entry, 4) \/ Within(IROM, img.entry, 4))

\* magic, segment count, chip and entry
ReadHeader ==
  /\ stage = "header"
  /\ IF ~Got(Part, 0, 24) \/ ~HeaderOk(Img)
     THEN NextCandidate
     ELSE /\ stage' = "segment" /\ off' = 24
          /\ hashed' = <<<<0, 24>>>>
          /\ UNCHANGED <<index, drom, irom, summed>>
  /\ Constant /\ UNCHANGED <<tried, written, mmu, vouched, running>>

\* MUTANT of HashesHeader: the header of an empty segment is not hashed
HashesFullHeaders(seg) == seg.len # 0

HashesHeader(seg) == TRUE

Hashes(pieces) == hashed' = hashed \o pieces

Walked(from, to) == <<<<from, to>>>>

\* one segment of load's loop, its data at `data`
Segment ==
  /\ stage = "segment" /\ index < Len(Img.segs)
  /\ LET seg  == Img.segs[index + 1]
         data == off + 8
         end  == (data + seg.len) % WIDTH
         kind == Kind(seg.addr, seg.len)
         flash == Part.offset + data
         map  == [flash |-> flash, vaddr |-> seg.addr, len |-> seg.len]
         head == IF HashesHeader(seg) THEN Walked(off, data) ELSE <<>>
         Ok   == /\ off' = end /\ index' = index + 1
                 /\ Hashes(head \o Walked(data, end))
                 /\ summed' = summed \o Walked(data, end)
                 /\ UNCHANGED stage
     IN IF ~Got(Part, off, data)
        THEN NextCandidate /\ UNCHANGED written
        ELSE IF seg.len = 0
        THEN /\ off' = data /\ index' = index + 1
             /\ Hashes(head)
             /\ UNCHANGED <<stage, drom, irom, summed, written>>
        ELSE IF seg.addr % 4 # 0 \/ seg.len % 4 # 0 \/ ~Got(Part, data, data + seg.len)
        THEN NextCandidate /\ UNCHANGED written
        ELSE CASE kind = "none" -> NextCandidate /\ UNCHANGED written
               [] kind = "skipped" -> Ok /\ UNCHANGED <<drom, irom, written>>
               [] kind = "ram" ->
                    IF TouchesLoader(seg.addr, seg.len)
                    THEN NextCandidate /\ UNCHANGED written
                    ELSE Ok /\ written' = written \cup {seg} /\ UNCHANGED <<drom, irom>>
               [] OTHER ->
                    IF flash % PAGE # seg.addr % PAGE
                       \/ (IF kind = "drom" THEN drom ELSE irom) # NoMap
                    THEN NextCandidate /\ UNCHANGED written
                    ELSE /\ Ok /\ UNCHANGED written
                         /\ drom' = IF kind = "drom" THEN map ELSE drom
                         /\ irom' = IF kind = "irom" THEN map ELSE irom
  /\ Constant /\ UNCHANGED <<tried, mmu, vouched, running>>

RoundUp(n, unit) == ((n + unit - 1) \div unit) * unit
TailEnd(n)       == RoundUp(n + 1, 16)

\* the digest and the checksum the maker stored are those of the whole image as it was made
Contiguous(pieces, from) ==
  \A k \in DOMAIN pieces : pieces[k][1] = IF k = 1 THEN from ELSE pieces[k - 1][2]
Holds(pieces, byte) == \E k \in DOMAIN pieces : byte >= pieces[k][1] /\ byte < pieces[k][2]

ChecksumMatches(end) == ~Holds(summed, Img.bad) /\ Img.bad # end - 1
DigestMatches(pieces, end) ==
  /\ Contiguous(pieces, 0) /\ pieces[Len(pieces)][2] = end
  /\ ~Holds(pieces, Img.bad)
  /\ Img.bad \notin end .. end + 31

\* the tail, the checksum, the appended hash
FinishWalk ==
  /\ stage = "segment" /\ index = Len(Img.segs)
  /\ LET end == TailEnd(off)
         len == IF Img.hash THEN end + 32 ELSE end
     IN IF \/ ~Got(Part, off, end) \/ ~ChecksumMatches(end)
           \/ Img.hash /\ ~(Got(Part, end, end + 32)
                            /\ DigestMatches(hashed \o Walked(off, end), end))
        THEN NextCandidate
        ELSE stage' = "signature" /\ off' = len /\ UNCHANGED <<index, drom, irom, hashed, summed>>
  /\ Constant /\ UNCHANGED <<tried, written, mmu, vouched, running>>

\* MUTANT of Signed: the signature is looked for right after the image
SignedUnpadded(len) ==
  /\ Got(Part, len, len + SECTOR)
  /\ Img.signature = "trusted" /\ (Img.bad = NoByte \/ Img.bad >= len)

\* secure::verify: the sector after the image padded to a sector signs all of what is before
Signed(len) ==
  /\ Got(Part, RoundUp(len, SECTOR), RoundUp(len, SECTOR) + SECTOR)
  /\ Img.signature = "trusted" /\ (Img.bad = NoByte \/ Img.bad >= RoundUp(len, SECTOR))

Verify ==
  /\ stage = "signature"
  /\ IF policy # "open" /\ ~Signed(off)
     THEN NextCandidate
     ELSE stage' = "start" /\ UNCHANGED locals
  /\ Constant /\ UNCHANGED <<tried, written, mmu, vouched, running>>

\* MUTANT of Vouches: otadata gets the slot that was selected first
VouchesForFirst == IF initial /\ order[1] # Factory THEN order[1] ELSE Nobody

\* a board whose otadata was blank: the slot that boots is written to it
Vouches == IF initial /\ Current # Factory THEN Current ELSE Nobody

Cleared == [e \in 0 .. MMU_ENTRIES - 1 |-> Unmapped]

DROM_END == DROM[1] + (MMU_ENTRIES - 1) * PAGE

\* soc::start
Start ==
  /\ stage = "start"
  /\ vouched' = Vouches
  /\ LET first == IF drom = NoMap THEN Cleared
                  ELSE MmuSet(MmuSet(Cleared, drom.vaddr, drom.flash,
                                     Pages(drom.vaddr, drom.len)), DROM_END, drom.flash, 1)
     IN mmu' = IF irom = NoMap THEN first
               ELSE MmuSet(first, irom.vaddr, irom.flash, Pages(irom.vaddr, irom.len))
  /\ running' = Current /\ stage' = "app"
  /\ Constant /\ UNCHANGED <<tried, locals, written>>

PowerOn(board) ==
  /\ table = board.table /\ image = board.image
  /\ policy \in {"open", "compiled"}
  /\ initial \in BOOLEAN
  /\ \E first \in FirstChoices(table) :
       /\ order = Candidates(table, first)
       /\ initial => MayBeInitial(table, first)
  /\ tried = <<>> /\ stage = "next"
  /\ off = 0 /\ index = 0 /\ drom = NoMap /\ irom = NoMap /\ hashed = <<>> /\ summed = <<>>
  /\ written = {}
  /\ mmu = [e \in 0 .. MMU_ENTRIES - 1 |-> Unmapped]
  /\ vouched = Nobody /\ running = Nobody

ImageInit == \E board \in Boards : PowerOn(board)

ImageNext == BeginCandidate \/ Fatal \/ ReadHeader \/ Segment \/ FinishWalk \/ Verify \/ Start

ImageSpec == ImageInit /\ [][ImageNext]_imageVars

----------------------------------------------------------------------------
\* What an image must be, said without walking it: sizes are sums, addresses are bytes.

\* where the header, then each segment ends, were all of them there
SegEnds(segs) ==
  LET end[k \in 0 .. Len(segs)] == IF k = 0 THEN 24 ELSE end[k - 1] + 8 + segs[k].len IN end
DataAt(segs, k) == SegEnds(segs)[k - 1] + 8
SegsEnd(segs) == SegEnds(segs)[Len(segs)]
ImageEnd(img) == TailEnd(SegsEnd(img.segs)) + (IF img.hash THEN 32 ELSE 0)

Bytes(seg) == seg.addr .. seg.addr + seg.len - 1

\* IRAM names the bytes of DRAM a second time
Physical(a) == IF a >= IRAM[1] /\ a < IRAM[2] /\ a - ALIAS >= DRAM[1] THEN a - ALIAS ELSE a
HitsLoader(seg) ==
  \E a \in Bytes(seg) : Physical(a) >= LOADER_DRAM[1] /\ Physical(a) < LOADER_DRAM[2]

Used(segs, kind) == {k \in DOMAIN segs : segs[k].len > 0 /\ Kind(segs[k].addr, segs[k].len) = kind}

SegmentsOk(part, segs) ==
  /\ \A k \in DOMAIN segs : segs[k].len > 0 =>
       segs[k].addr % 4 = 0 /\ segs[k].len % 4 = 0 /\ Kind(segs[k].addr, segs[k].len) # "none"
  /\ \A k \in Used(segs, "ram") : ~HitsLoader(segs[k])
  /\ \A k \in Used(segs, "drom") \cup Used(segs, "irom") :
       (part.offset + DataAt(segs, k)) % PAGE = segs[k].addr % PAGE
  /\ Cardinality(Used(segs, "drom")) <= 1 /\ Cardinality(Used(segs, "irom")) <= 1

\* No damage where the checks look: everywhere, when a digest is appended; otherwise only in
\* the segments' data and the checksum.
Undamaged(img) ==
  LET tail == TailEnd(SegsEnd(img.segs))
  IN IF img.hash THEN img.bad \notin 0 .. ImageEnd(img) - 1
     ELSE img.bad # tail - 1 /\ \A k \in DOMAIN img.segs :
            img.bad \notin DataAt(img.segs, k) .. DataAt(img.segs, k) + img.segs[k].len - 1

SignatureOk(part, img) ==
  LET padded == RoundUp(ImageEnd(img), SECTOR)
  IN img.signature = "trusted" /\ padded + SECTOR <= part.len /\ img.bad \notin 0 .. padded - 1

Good(c) ==
  LET part == Parts(table)[c]  img == image[c]
  IN /\ part # NoPart /\ (part.offset % PAGE) + part.len <= MMU_ENTRIES * PAGE
     /\ HeaderOk(img) /\ SegmentsOk(part, img.segs)
     /\ ImageEnd(img) <= part.len /\ Undamaged(img)
     /\ policy # "open" => SignatureOk(part, img)

----------------------------------------------------------------------------
\* The app that starts is the first in the loader's order whose every check passes: no byte a
\* digest or a signature covers may differ, no sum may wrap (main.rs 14-16, 132-211).
FirstGoodStarts ==
  running # Nobody =>
    Good(running) /\ \A k \in 1 .. Len(tried) - 1 : tried[k] # running /\ ~Good(tried[k])

\* The loader gives up only when no app of the table would have started, and it tries none
\* twice (main.rs 132, 211-223).  A table with a gap in its OTA slots is left out: its last slots
\* are beyond ota_count.
NoGap == \A c \in Slots : (c < OtaCount(table)) <=> Parts(table)[c] # NoPart
GivesUpLast ==
  /\ \A i, j \in DOMAIN tried : tried[i] = tried[j] => i = j
  /\ stage = "fatal" /\ NoGap => \A c \in Candidate : ~Good(c)

\* Loading never writes a byte of the loader's own memory, by whichever of its two addresses
\* (image.rs 25-28), in whatever images are tried before one is refused.
LoaderUntouched == \A seg \in written : ~HitsLoader(seg)

\* Linked for this MMU, as no check of the loader's says: text and rodata share no entry, and
\* neither reaches the one that names the app to itself.
Entries(m) == IF m = NoMap THEN {} ELSE {EntryOf(m.vaddr + k) : k \in 0 .. m.len - 1}
Linked == /\ Entries(drom) \cap Entries(irom) = {}
          /\ EntryOf(DROM_END) \notin Entries(drom) \cup Entries(irom)

\* The app sees, at every address of its text and rodata, the flash bytes that were verified,
\* and through no other entry anything of what the loader had mapped (soc.rs 395-425).
MappedRight ==
  running # Nobody /\ Linked =>
    /\ \A m \in {drom, irom} \ {NoMap} : \A k \in 0 .. m.len - 1 :
         mmu[EntryOf(m.vaddr + k)] * PAGE + ((m.vaddr + k) % PAGE) = m.flash + k
    /\ \A e \in DOMAIN mmu \ (Entries(drom) \cup Entries(irom) \cup {EntryOf(DROM_END)}) :
         mmu[e] = Unmapped

\* otadata is never made to name an app that was refused (table.rs 172-173, main.rs 166-168).
VouchedRuns == vouched # Nobody => vouched = running
=============================================================================
