------------------------------ MODULE NvsFormat ------------------------------
(***************************************************************************)
(* The Espressif NVS partition as it lies in flash, and what a reader of   *)
(* it answers: crates/rusty_esp_core/src/nvs.rs, the format constants, the *)
(* `Flash` contract, `scan` and everything that only reads.                *)
(*                                                                         *)
(* A slot is one 32-byte entry.  A value is a model value whose length is  *)
(* counted in slots (Size), its bytes named by their place in it.  A CRC   *)
(* is what it covers: it fails exactly when the bytes differ.              *)
(***************************************************************************)
EXTENDS Naturals, FiniteSets

CONSTANTS
  NPages,      \* pages of the partition
  Slots,       \* ENTRIES_PER_PAGE
  Namespaces,  \* namespace names
  Names,       \* key names within a namespace
  Values,      \* values callers store
  Size,        \* Size[v]: data entries a value takes
  MaxNamespaces, \* 254: the largest namespace index
  MaxChunks,   \* 127: chunks a value may be split into
  None         \* the answer of a get that finds nothing

ASSUME FormatAssumption ==
  /\ NPages \in Nat /\ NPages >= 2
  /\ Slots \in Nat /\ Slots >= 2
  /\ MaxNamespaces \in Nat /\ MaxChunks \in Nat
  /\ \A v \in Values : Size[v] \in Nat \ {0}
  /\ None \notin Values

Page == 0 .. NPages - 1
Slot == 0 .. Slots - 1
Place == {<<p, s>> : p \in Page, s \in Slot}

VARIABLES
  hdr,   \* hdr[p]: the page header, its state word and sequence number
  bits,  \* bits[p][s]: the entry-state bitmap
  cell   \* cell[p][s]: the 32 bytes of a slot

flash == <<hdr, bits, cell>>

(***************************************************************************)
(* The contents of a slot.  "garbage" is bytes that are no entry header    *)
(* and no data of a value: what programming a slot twice leaves.           *)
(***************************************************************************)
Blank   == [kind |-> "blank"]
Garbage == [kind |-> "garbage"]
Data(v, i) == [kind |-> "data", value |-> v, part |-> i]

NamespaceCells == [kind : {"ns"}, name : Namespaces, index : 1 .. MaxNamespaces]
ChunkCells == [kind : {"chunk"}, ns : 1 .. MaxNamespaces, name : Names, start : {0, 1},
               number : Nat, size : Nat, value : Values, offset : Nat]
IndexCells == [kind : {"idx"}, ns : 1 .. MaxNamespaces, name : Names, start : {0, 1},
               count : Nat, size : Nat]
\* a primitive (size 0), a string or a single-page blob, as ESP-IDF writes them
SingleCells == [kind : {"single"}, ns : 1 .. MaxNamespaces, name : Names, size : Nat,
                value : Values]
DataCells == [kind : {"data"}, value : Values, part : Nat]
Cell == {Blank, Garbage} \cup DataCells \cup NamespaceCells \cup ChunkCells
          \cup IndexCells \cup SingleCells

PageStates == {"uninit", "active", "full", "other"}
EntryStates == {"empty", "written", "erased"}

FlashTypeOK ==
  /\ hdr \in [Page -> [state : PageStates, seq : Nat]]
  /\ bits \in [Page -> [Slot -> EntryStates]]
  /\ cell \in [Page -> [Slot -> Cell]]

ErasedHeader == [state |-> "uninit", seq |-> 0]
ErasedBits   == [s \in Slot |-> "empty"]
ErasedCells  == [s \in Slot |-> Blank]

(***************************************************************************)
(* The flash: a write only clears bits, an erase sets a whole page.        *)
(* States go 11 (empty), 10 (written), 00 (erased), so a mark never brings *)
(* an erased entry back.  Two different contents leave neither.            *)
(***************************************************************************)
ProgramCell(p, s, c) ==
  cell' = [cell EXCEPT ![p][s] = IF @ = Blank \/ @ = c THEN c ELSE Garbage]

Mark(p, s, state) ==
  bits' = [bits EXCEPT ![p][s] = IF @ = "erased" THEN @ ELSE state]

ErasePage(p) ==
  /\ hdr'  = [hdr EXCEPT ![p] = ErasedHeader]
  /\ bits' = [bits EXCEPT ![p] = ErasedBits]
  /\ cell' = [cell EXCEPT ![p] = ErasedCells]

MarkFull(p) == hdr' = [hdr EXCEPT ![p].state = "full"]

(***************************************************************************)
(* Pages.  `order` is the data pages by sequence number; index_pages is    *)
(* run after every header change, so it is a function of the headers.      *)
(***************************************************************************)
DataPages   == {p \in Page : hdr[p].state \in {"active", "full"}}
ActivePages == {p \in Page : hdr[p].state = "active"}
FreePages   == Page \ DataPages

Older(p, q) == hdr[p].seq < hdr[q].seq \/ (hdr[p].seq = hdr[q].seq /\ p < q)

FirstEmpty(p, s) == bits[p][s] = "empty" /\ \A t \in 0 .. s - 1 : bits[p][t] # "empty"
Room(p, s, n) == FirstEmpty(p, s) /\ Slots - s >= n
HasRoom(p, n) == \E s \in Slot : Room(p, s, n)

ErasedSlots(p) == {s \in Slot : bits[p][s] = "erased"}

\* mutant of NextSeqs: the data pages are counted instead
SeqsByCount == {Cardinality(DataPages)}

\* the next sequence number: one more than the largest in use, 0 on a blank partition
NextSeqs ==
  IF DataPages = {}
    THEN {0}
    ELSE {hdr[p].seq + 1 : p \in {q \in DataPages :
                                    \A r \in DataPages : hdr[r].seq <= hdr[q].seq}}

(***************************************************************************)
(* scan: the headers visited, oldest page first.  `b` is the bitmap read.  *)
(* A written slot that holds no header fails its CRC and ends the scan; an *)
(* empty slot ends the page.                                               *)
(***************************************************************************)
IsHeader(c) == c.kind \in {"ns", "chunk", "idx", "single"}
SpanOf(c) == IF c.kind \in {"chunk", "single"} THEN c.size + 1 ELSE 1

Visited(b, p) ==
  LET from[s \in Nat] ==
        IF s >= Slots \/ b[p][s] = "empty" THEN {}
        ELSE IF b[p][s] = "erased" THEN from[s + 1]
        ELSE {s} \cup (IF IsHeader(cell[p][s]) THEN from[s + SpanOf(cell[p][s])] ELSE {})
  IN  from[0]

Headers(b) ==
  LET seen == [p \in DataPages |-> Visited(b, p)]
  IN  {x \in Place : x[1] \in DataPages /\ x[2] \in seen[x[1]]}
CellAt(x) == cell[x[1]][x[2]]

Before(x, y) == Older(x[1], y[1]) \/ (x[1] = y[1] /\ x[2] < y[2])

\* `place` is meaningful when the status is "found"
Absent == [status |-> "none", place |-> <<0, 0>>]
Failed == [status |-> "corrupt", place |-> <<0, 0>>]
Found(x) == [status |-> "found", place |-> x]

\* The lookups are functions of the headers visited, `hs`, so that a scan is evaluated
\* once wherever its answer is used.
Visits == SUBSET Place

Earliest[S \in Visits] == {x \in S : \A y \in S : x = y \/ Before(x, y)}

\* the answer of a scan for the first header in `wanted`, a subset of `hs`
FirstOf[hs \in Visits] ==
  [wanted \in Visits |->
     LET first == Earliest[{x \in hs : x \in wanted \/ ~IsHeader(CellAt(x))}]
     IN  IF first = {} THEN Absent
         ELSE IF first \subseteq wanted THEN Found(CHOOSE x \in first : TRUE) ELSE Failed]

FindNamespace[hs \in Visits] ==
  [n \in Namespaces |->
     FirstOf[hs][{x \in hs : CellAt(x).kind = "ns" /\ CellAt(x).name = n}]]

\* `k` is a namespace index and a key name, `c` a chunk's version and number
FindNotChunk[hs \in Visits] ==
  [k \in Nat \X Names |->
     FirstOf[hs][{x \in hs : CellAt(x).kind \in {"idx", "single"}
                              /\ <<CellAt(x).ns, CellAt(x).name>> = k}]]

FindChunk[hs \in Visits] ==
  [k \in Nat \X Names |-> [c \in {0, 1} \X Nat |->
     FirstOf[hs][{x \in hs : CellAt(x).kind = "chunk"
                              /\ <<CellAt(x).ns, CellAt(x).name>> = k
                              /\ <<CellAt(x).start, CellAt(x).number>> = c}]]]

\* mutant of UsedIndices: the bitmap kept from 0 and read from 1
UsedFromZero(hs) == {CellAt(x).index - 1 : x \in {y \in hs : CellAt(y).kind = "ns"}}

UsedIndices(hs) == {CellAt(x).index : x \in {y \in hs : CellAt(y).kind = "ns"}}

\* mutant of FreeIndices: index 0, which is the namespace of namespaces, is given away
FreeFromZero(hs) ==
  {i \in 0 .. MaxNamespaces : i \notin UsedIndices(hs) /\ 0 .. i - 1 \subseteq UsedIndices(hs)}

FreeIndices(hs) ==
  {i \in 1 .. MaxNamespaces : i \notin UsedIndices(hs) /\ 1 .. i - 1 \subseteq UsedIndices(hs)}

(***************************************************************************)
(* get.  read_data copies the slots after a header whatever the bitmap     *)
(* says of them, and checks their CRC.                                     *)
(***************************************************************************)
Corrupt == "corrupt"
Mixed   == "mixed"

\* an error is told from every value, and from there being none
ASSUME AnswersAssumption == {Corrupt, Mixed} \cap (Values \cup {None}) = {}

DataIntact(x, v, offset, size) ==
  \A i \in 0 .. size - 1 :
    x[2] + 1 + i < Slots /\ cell[x[1]][x[2] + 1 + i] = Data(v, offset + i)

\* the value in the chunks whose headers are at `places`, `size` entries in all
Content(places, size) ==
  LET chunk(c) == CellAt(places[c])
      count == Cardinality(DOMAIN places)
      done[c \in 0 .. count] == IF c = 0 THEN 0 ELSE done[c - 1] + chunk(c - 1).size
      intact(c) == DataIntact(places[c], chunk(c).value, chunk(c).offset, chunk(c).size)
      whole == {v \in Values : /\ Size[v] = size
                               /\ \A c \in DOMAIN places : /\ chunk(c).value = v
                                                           /\ chunk(c).offset = done[c]}
  IN  IF done[count] # size \/ \E c \in DOMAIN places : ~intact(c)
        THEN Corrupt
      ELSE IF whole = {} THEN Mixed ELSE CHOOSE v \in whole : TRUE

Assemble(hs, e) ==
  LET found == [c \in 0 .. e.count - 1 |-> FindChunk[hs][<<e.ns, e.name>>][<<e.start, c>>]]
  IN  IF \E c \in DOMAIN found : found[c].status # "found" THEN Corrupt
      ELSE Content([c \in DOMAIN found |-> found[c].place], e.size)

ReadEntry[hs \in Visits] ==
  [x \in Place |->
    LET e == CellAt(x)
    IN  IF e.kind = "idx" THEN Assemble(hs, e)
        ELSE IF DataIntact(x, e.value, 0, e.size) THEN e.value ELSE Corrupt]

Keys == Namespaces \X Names

\* what get answers for every key
Reads[hs \in Visits] ==
  [key \in Keys |->
     LET i == FindNamespace[hs][key[1]]
         x == FindNotChunk[hs][<<CellAt(i.place).index, key[2]>>]
     IN  IF i.status = "corrupt" THEN Corrupt
         ELSE IF i.status = "none" THEN None
         ELSE IF x.status = "corrupt" THEN Corrupt
         ELSE IF x.status = "none" THEN None
         ELSE ReadEntry[hs][x.place]]

Get(n, name) == Reads[Headers(bits)][<<n, name>>]
=============================================================================
