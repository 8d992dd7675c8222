-------------------------------- MODULE Nvs --------------------------------
(***************************************************************************)
(* The writer of an NVS partition (crates/rusty_esp_core/src/nvs.rs):      *)
(* put_blob, remove and scrub, with page activation and compaction.        *)
(*                                                                         *)
(* One action per flash operation (program a slot, mark it, write a page   *)
(* header, mark a page full, erase a page) and per decision between them,  *)
(* so that power may be cut, or a flash operation fail, at every point the *)
(* program has.  `pc` names the point; `l` is the locals of the call.      *)
(***************************************************************************)
EXTENDS NvsFormat

CONSTANTS
  Images,      \* the partitions a device may start with
  MaxCalls,    \* bound: calls made
  MaxCrashes,  \* bound: power cuts
  MaxFaults    \* bound: flash operations that return an error

VARIABLES
  pc,      \* where the open call stands, "idle" between calls
  op,      \* the call open, or the last one answered
  result,  \* its answer; "busy" while open, "lost" when power was cut
  l,       \* its locals
  bound    \* calls, crashes and faults so far

vars == <<hdr, bits, cell, pc, op, result, l, bound>>

\* what ESP-IDF and this code leave in flash: the newest data page is the only one
\* that may be active
ImageOK(f) ==
  /\ f.hdr  \in [Page -> [state : PageStates, seq : Nat]]
  /\ f.bits \in [Page -> [Slot -> EntryStates]]
  /\ f.cell \in [Page -> [Slot -> Cell]]
  /\ \A p, q \in Page :
       (f.hdr[p].state \in {"active", "full"} /\ f.hdr[q].state \in {"active", "full"}) =>
         /\ f.hdr[p].seq = f.hdr[q].seq => p = q
         /\ f.hdr[p].state = "active" => f.hdr[q].seq <= f.hdr[p].seq

ASSUME ImagesAssumption == \A f \in Images : ImageOK(f)

BlankImage ==
  [hdr  |-> [p \in Page |-> ErasedHeader],
   bits |-> [p \in Page |-> ErasedBits],
   cell |-> [p \in Page |-> ErasedCells]]

(***************************************************************************)
(* Locals                                                                  *)
(***************************************************************************)
Locals ==
  [ns      : 0 .. MaxNamespaces,                  \* the namespace index
   old     : [status : {"none", "found"}, place : (0 .. NPages) \X (0 .. Slots)],
   oldCell : Cell,                                \* put_blob's `old`, entry and place
   start   : {0, 1},                              \* chunk version: 0 or 0x80
   offset  : Nat, written : Nat,                  \* write_blob's progress
   want    : {"ns", "chunk", "idx"},              \* who asked page_with_room
   tries   : 0 .. 2,                              \* its loop
   at      : (0 .. NPages) \X (0 .. Slots), k : Nat, span : Nat, \* the entry in hand
   target  : 0 .. NPages, compacting : BOOLEAN,   \* start_page and compact
   victim  : 0 .. NPages, from : Nat, to : Nat,
   sweep   : [start : {0, 1}, count : Nat, done : Nat], \* the chunks being erased
   outcome : {"open", "Ok", "BufferTooSmall", "InvalidFormat", "Flash"}]

NoLocals ==
  [ns |-> 0, old |-> Absent, oldCell |-> Blank, start |-> 0, offset |-> 0, written |-> 0,
   want |-> "ns", tries |-> 0, at |-> <<0, 0>>, k |-> 0, span |-> 0,
   target |-> 0, compacting |-> FALSE, victim |-> 0, from |-> 0, to |-> 0,
   sweep |-> [start |-> 0, count |-> 0, done |-> 0], outcome |-> "open"]

Calls ==
       [call : {"put"}, ns : Namespaces, name : Names, value : Values]
  \cup [call : {"remove"}, ns : Namespaces, name : Names]
  \cup [call : {"scrub"}]

Results == {"busy", "lost", "Ok", "Absent", "BufferTooSmall", "InvalidFormat", "Corrupt",
            "Flash"}

Points == {"idle", "begin", "old", "chunk", "room", "check", "activate", "start",
           "copy", "copymark", "reclaim", "data", "datamark", "entry", "entrymark",
           "fill", "erasespan", "sweep", "scrub"}

Goto(point) == pc' = point
Keep == UNCHANGED <<op, result>>

\* the call returns: its locals are gone
Answer(a) ==
  /\ result' = a /\ Goto("idle") /\ l' = NoLocals
  /\ UNCHANGED op

\* mutant of Fail: the chunks written before the error stay
FailWithoutRollback(e) == Answer(e)

\* an error inside write_blob erases the chunks written so far, then returns it;
\* an error anywhere else returns at once
Fail(e) ==
  IF op.call = "put" /\ l.want # "ns" /\ l.outcome = "open"
    THEN /\ l' = [l EXCEPT !.outcome = e,
                           !.sweep = [start |-> l.start, count |-> l.written, done |-> 0]]
         /\ Goto("sweep") /\ Keep
    ELSE Answer(e)

(***************************************************************************)
(* A call                                                                  *)
(***************************************************************************)
Call(c) ==
  /\ pc = "idle" /\ bound.calls < MaxCalls
  /\ op' = c /\ result' = "busy"
  /\ Goto(IF c.call = "scrub" THEN "scrub" ELSE "begin")
  /\ bound' = [bound EXCEPT !.calls = @ + 1]
  /\ UNCHANGED <<flash, l>>

\* put_blob: namespace_index_or_create
PutBegin ==
  /\ pc = "begin" /\ op.call = "put"
  /\ UNCHANGED flash
  /\ LET found == FindNamespace[Headers(bits)][op.ns]
     IN  \/ found.status = "corrupt" /\ Answer("Corrupt")
         \/ /\ found.status = "found"
            /\ l' = [l EXCEPT !.ns = CellAt(found.place).index]
            /\ Goto("old") /\ Keep
         \/ /\ found.status = "none" /\ FreeIndices(Headers(bits)) = {}
            /\ Answer("BufferTooSmall")
         \/ /\ found.status = "none"
            /\ \E i \in FreeIndices(Headers(bits)) : l' = [l EXCEPT !.ns = i]
            /\ Goto("room") /\ Keep

\* mutant of PutFindOld: the new chunks take the version of the old
PutFindOldSameVersion ==
  /\ pc = "old"
  /\ UNCHANGED flash
  /\ LET old == FindNotChunk[Headers(bits)][<<l.ns, op.name>>]
         e   == CellAt(old.place)
     IN  IF old.status = "found"
           THEN /\ l' = [l EXCEPT !.old = old, !.oldCell = e,
                                  !.start = IF e.kind = "idx" THEN e.start ELSE 0]
                /\ Goto("chunk") /\ Keep
           ELSE Goto("chunk") /\ Keep /\ UNCHANGED l

\* put_blob: the value there now, whose version the new one alternates with
PutFindOld ==
  /\ pc = "old"
  /\ UNCHANGED flash
  /\ LET old == FindNotChunk[Headers(bits)][<<l.ns, op.name>>]
         e   == CellAt(old.place)
     IN  \/ old.status = "corrupt" /\ Answer("Corrupt")
         \/ /\ old.status = "none"
            /\ Goto("chunk") /\ Keep /\ UNCHANGED l
         \/ /\ old.status = "found"
            /\ l' = [l EXCEPT !.old = old, !.oldCell = e,
                              !.start = IF e.kind = "idx" THEN 1 - e.start ELSE 0]
            /\ Goto("chunk") /\ Keep

\* mutant of Retire: the last chunk of the value is left
RetireAllButLast(i, place, e) ==
  /\ l' = [l EXCEPT !.ns = i, !.at = place, !.k = 0, !.span = SpanOf(e), !.outcome = "Ok",
                    !.sweep = [start |-> IF e.kind = "idx" THEN e.start ELSE 0,
                               count |-> IF e.kind = "idx" THEN e.count - 1 ELSE 0, done |-> 0]]
  /\ Goto("erasespan") /\ Keep

\* erase the entry `e` at `place` in namespace `i`, a blob's index before its chunks
Retire(i, place, e) ==
  /\ l' = [l EXCEPT !.ns = i, !.at = place, !.k = 0, !.span = SpanOf(e), !.outcome = "Ok",
                    !.sweep = IF e.kind = "idx"
                                THEN [start |-> e.start, count |-> e.count, done |-> 0]
                                ELSE [start |-> 0, count |-> 0, done |-> 0]]
  /\ Goto("erasespan") /\ Keep

\* remove, remove_in
RemoveBegin ==
  /\ pc = "begin" /\ op.call = "remove"
  /\ UNCHANGED flash
  /\ LET found == FindNamespace[Headers(bits)][op.ns]
         i     == CellAt(found.place).index
         x     == FindNotChunk[Headers(bits)][<<i, op.name>>]
     IN  \/ found.status = "corrupt" /\ Answer("Corrupt")
         \/ found.status = "none" /\ Answer("Absent")
         \/ /\ found.status = "found"
            /\ \/ x.status = "corrupt" /\ Answer("Corrupt")
               \/ x.status = "none" /\ Answer("Absent")
               \/ x.status = "found" /\ Retire(i, x.place, CellAt(x.place))

(***************************************************************************)
(* page_with_room                                                          *)
(***************************************************************************)
WantedRoom == IF l.want = "chunk" THEN 2 ELSE 1

\* the slot is found: write the entry wanted there, a chunk's data first
Deliver(p) ==
  \E s \in Slot :
    /\ Room(p, s, WantedRoom)
    /\ l' = [l EXCEPT !.at = <<p, s>>, !.k = 0]
    /\ Goto(IF l.want = "chunk" THEN "data" ELSE "entry")
    /\ UNCHANGED flash /\ Keep

FillPage(p) == MarkFull(p) /\ UNCHANGED <<bits, cell>>

PageWithRoom ==
  /\ pc = "room"
  /\ \/ \E p \in ActivePages : Deliver(p)
     \/ \E p \in ActivePages :
          /\ ~HasRoom(p, WantedRoom)
          /\ FillPage(p)
          /\ l' = [l EXCEPT !.tries = 2] /\ Goto("activate") /\ Keep
     \/ /\ ActivePages = {}
        /\ l' = [l EXCEPT !.tries = 2] /\ Goto("activate") /\ Keep
        /\ UNCHANGED flash

\* the page activate_page returned: take it, or mark it full and try again
CheckRoom ==
  /\ pc = "check"
  /\ \/ Deliver(l.target)
     \/ /\ ~HasRoom(l.target, WantedRoom)
        /\ FillPage(l.target)
        /\ Goto("activate") /\ Keep /\ UNCHANGED l

\* the full page with the most erased entries, the first of them
Victims == {p \in Page : hdr[p].state = "full" /\ ErasedSlots(p) # {}}
IsVictim(v) ==
  /\ v \in Victims
  /\ \A p \in Victims :
       \/ Cardinality(ErasedSlots(p)) < Cardinality(ErasedSlots(v))
       \/ Cardinality(ErasedSlots(p)) = Cardinality(ErasedSlots(v)) /\ v <= p
IsFirstFree(p) == p \in FreePages /\ \A q \in FreePages : p <= q

\* compact: copy the victim's live entries into the free page `t`
Compact(t, tries) ==
  \E v \in Page :
    /\ IsVictim(v)
    /\ l' = [l EXCEPT !.target = t, !.compacting = TRUE, !.victim = v,
                      !.from = 0, !.to = 0, !.k = 0, !.tries = tries]
    /\ Goto("start") /\ UNCHANGED flash /\ Keep

\* mutant of LastFree: the reserve page is taken like any other
NoneFree == Cardinality(FreePages) < 1

LastFree == Cardinality(FreePages) < 2

ActivatePage ==
  /\ pc = "activate"
  /\ \/ /\ l.tries = 0 \/ FreePages = {} \/ (LastFree /\ Victims = {})
        /\ Fail("BufferTooSmall") /\ UNCHANGED flash
     \/ /\ l.tries > 0 /\ LastFree
        /\ \E t \in FreePages : Compact(t, l.tries - 1)
     \/ /\ l.tries > 0 /\ ~LastFree
        /\ \E t \in FreePages :
             /\ IsFirstFree(t)
             /\ l' = [l EXCEPT !.target = t, !.compacting = FALSE, !.tries = @ - 1]
        /\ Goto("start") /\ UNCHANGED flash /\ Keep

\* start_page: erase the page unless it is blank, then write its header
StartErase ==
  /\ pc = "start" /\ hdr[l.target].state # "uninit"
  /\ ErasePage(l.target)
  /\ Keep /\ UNCHANGED <<pc, l>>

StartHeader ==
  /\ pc = "start" /\ hdr[l.target].state = "uninit"
  /\ \E n \in NextSeqs :
       hdr' = [hdr EXCEPT ![l.target] = [state |-> "active", seq |-> n]]
  /\ Goto(IF l.compacting THEN "copy" ELSE "check")
  /\ Keep /\ UNCHANGED <<bits, cell, l>>

(***************************************************************************)
(* compact                                                                 *)
(***************************************************************************)
\* the slots the entry at `s` occupies as compact reads it: a data entry or
\* garbage met where a header should be names any span
SpansAt(p, s) ==
  IF IsHeader(cell[p][s])
    THEN {IF SpanOf(cell[p][s]) > Slots - s THEN Slots - s ELSE SpanOf(cell[p][s])}
    ELSE 1 .. Slots - s

\* mutant of NextWritten: erased entries are copied too
NextUsed(s) ==
  /\ s >= l.from /\ bits[l.victim][s] # "empty"
  /\ \A t \in l.from .. s - 1 : bits[l.victim][t] = "empty"

NextWritten(s) ==
  /\ s >= l.from /\ bits[l.victim][s] = "written"
  /\ \A t \in l.from .. s - 1 : bits[l.victim][t] # "written"

\* mutant of CopyCell: an entry keeps its slot in the new page
CopyCellInPlace ==
  /\ pc = "copy"
  /\ \E s \in Slot :
       /\ IF l.k = 0
            THEN /\ NextWritten(s)
                 /\ \E n \in SpansAt(l.victim, s) :
                      l' = [l EXCEPT !.from = s, !.to = s, !.span = n]
            ELSE s = l.from /\ UNCHANGED l
       /\ ProgramCell(l.target, s + l.k, cell[l.victim][s + l.k])
  /\ Goto("copymark") /\ Keep /\ UNCHANGED <<hdr, bits>>

\* program the next slot of the entry at `from`, picking the entry when k = 0
CopyCell ==
  /\ pc = "copy"
  /\ \E s \in Slot :
       /\ IF l.k = 0
            THEN /\ NextWritten(s)
                 /\ \E n \in SpansAt(l.victim, s) : l' = [l EXCEPT !.from = s, !.span = n]
            ELSE s = l.from /\ UNCHANGED l
       /\ ProgramCell(l.target, l.to + l.k, cell[l.victim][s + l.k])
  /\ Goto("copymark") /\ Keep /\ UNCHANGED <<hdr, bits>>

CopyMark ==
  /\ pc = "copymark"
  /\ Mark(l.target, l.to + l.k, "written")
  /\ l' = IF l.k + 1 < l.span
            THEN [l EXCEPT !.k = @ + 1]
            ELSE [l EXCEPT !.k = 0, !.from = @ + l.span, !.to = @ + l.span]
  /\ Goto("copy") /\ Keep /\ UNCHANGED <<hdr, cell>>

CopyDone ==
  /\ pc = "copy" /\ l.k = 0 /\ \A s \in Slot : ~NextWritten(s)
  /\ Goto("reclaim") /\ Keep /\ UNCHANGED <<flash, l>>

Reclaim ==
  /\ pc = "reclaim"
  /\ ErasePage(l.victim)
  /\ Goto(IF op.call = "scrub" THEN "scrub" ELSE "check")
  /\ Keep /\ UNCHANGED l

(***************************************************************************)
(* write_blob, write_data, write_entry                                     *)
(***************************************************************************)
Smaller(m, n) == IF m <= n THEN m ELSE n

ChunkLoop ==
  /\ pc = "chunk"
  /\ UNCHANGED flash
  /\ \/ /\ l.written < MaxChunks
        /\ l' = [l EXCEPT !.want = "chunk"] /\ Goto("room") /\ Keep
     \/ l.written >= MaxChunks /\ Fail("InvalidFormat")

Remaining == Size[op.value] - l.offset
TailRoom      == Slots - l.at[2] - 1
ChunkSize == Smaller(Remaining, TailRoom)

DataWrite ==
  /\ pc = "data"
  /\ ProgramCell(l.at[1], l.at[2] + 1 + l.k, Data(op.value, l.offset + l.k))
  /\ Goto("datamark") /\ Keep /\ UNCHANGED <<hdr, bits, l>>

DataMark ==
  /\ pc = "datamark"
  /\ Mark(l.at[1], l.at[2] + 1 + l.k, "written")
  /\ l' = [l EXCEPT !.k = @ + 1]
  /\ Goto(IF l.k + 1 < ChunkSize THEN "data" ELSE "entry")
  /\ Keep /\ UNCHANGED <<hdr, cell>>

EntryCell ==
  CASE l.want = "ns" ->
         [kind |-> "ns", name |-> op.ns, index |-> l.ns]
    [] l.want = "chunk" ->
         [kind |-> "chunk", ns |-> l.ns, name |-> op.name, start |-> l.start,
          number |-> l.written, size |-> ChunkSize, value |-> op.value, offset |-> l.offset]
    [] l.want = "idx" ->
         [kind |-> "idx", ns |-> l.ns, name |-> op.name, start |-> l.start,
          count |-> l.written, size |-> Size[op.value]]

EntryWrite ==
  /\ pc = "entry"
  /\ ProgramCell(l.at[1], l.at[2], EntryCell)
  /\ Goto("entrymark") /\ Keep /\ UNCHANGED <<hdr, bits, l>>

\* the entry counts from here on
EntryMark ==
  /\ pc = "entrymark"
  /\ Mark(l.at[1], l.at[2], "written") /\ UNCHANGED <<hdr, cell>>
  /\ \/ l.want = "ns" /\ Goto("old") /\ Keep /\ UNCHANGED l
     \/ /\ l.want = "chunk"
        /\ l' = [l EXCEPT !.written = @ + 1, !.offset = @ + ChunkSize,
                          !.want = IF Remaining > ChunkSize THEN "chunk" ELSE "idx"]
        /\ Goto(IF ChunkSize = TailRoom THEN "fill" ELSE "room") /\ Keep
     \/ /\ l.want = "idx" /\ l.old.status = "none"
        /\ l' = [l EXCEPT !.outcome = "Ok"] /\ Goto("sweep") /\ Keep
     \/ /\ l.want = "idx" /\ l.old.status = "found"
        /\ Retire(l.ns, l.old.place, l.oldCell)

\* a chunk that used the page's tail closes the page
Fill ==
  /\ pc = "fill"
  /\ FillPage(l.at[1])
  /\ Goto(IF l.want = "chunk" THEN "chunk" ELSE "room") /\ Keep /\ UNCHANGED l

(***************************************************************************)
(* erase_span, and the chunks of a value one after another                 *)
(***************************************************************************)
\* mutant of EraseMark: a record's header is erased and its data left
EraseHeader ==
  /\ pc = "erasespan"
  /\ Mark(l.at[1], l.at[2], "erased")
  /\ l' = [l EXCEPT !.k = l.span]
  /\ Goto("sweep") /\ Keep /\ UNCHANGED <<hdr, cell>>

EraseMark ==
  /\ pc = "erasespan"
  /\ Mark(l.at[1], l.at[2] + l.k, "erased")
  /\ l' = [l EXCEPT !.k = @ + 1]
  /\ Goto(IF l.k + 1 < l.span THEN "erasespan" ELSE "sweep")
  /\ Keep /\ UNCHANGED <<hdr, cell>>

Sweep ==
  /\ pc = "sweep"
  /\ UNCHANGED flash
  /\ LET chunks == FindChunk[Headers(bits)][<<l.ns, op.name>>]
         x      == chunks[<<l.sweep.start, l.sweep.done>>]
     IN  \/ l.sweep.done >= l.sweep.count /\ Answer(l.outcome)
         \/ /\ l.sweep.done < l.sweep.count
            /\ \/ x.status = "corrupt" /\ Answer("Corrupt")
               \/ /\ x.status = "none"
                  /\ l' = [l EXCEPT !.sweep.done = @ + 1]
                  /\ Keep /\ UNCHANGED pc
               \/ /\ x.status = "found"
                  /\ l' = [l EXCEPT !.sweep.done = @ + 1, !.at = x.place, !.k = 0,
                                    !.span = SpanOf(CellAt(x.place))]
                  /\ Goto("erasespan") /\ Keep

(***************************************************************************)
(* scrub: one compaction after another while a data page holds an erased   *)
(* entry, the active page marked full so that it can be a victim           *)
(***************************************************************************)
\* mutant of StalePages: the active page is passed over
StaleFullPages == Victims

StalePages == {p \in DataPages : ErasedSlots(p) # {}}

\* mutant of Scrub: with no page left to compact into, it looks again
ScrubTriesOn ==
  /\ pc = "scrub"
  /\ \/ StalePages = {} /\ Answer("Ok") /\ UNCHANGED flash
     \/ /\ StalePages # {}
        /\ \E p \in ActivePages : FillPage(p)
        /\ Keep /\ UNCHANGED <<pc, l>>
     \/ /\ StalePages # {} /\ ActivePages = {} /\ (FreePages = {} \/ Victims = {})
        /\ Keep /\ UNCHANGED <<flash, pc, l>>
     \/ /\ StalePages # {} /\ ActivePages = {}
        /\ \E t \in Page : IsFirstFree(t) /\ Compact(t, 0)

Scrub ==
  /\ pc = "scrub"
  /\ \/ StalePages = {} /\ Answer("Ok") /\ UNCHANGED flash
     \/ /\ StalePages # {}
        /\ \E p \in ActivePages : FillPage(p)
        /\ Keep /\ UNCHANGED <<pc, l>>
     \/ /\ StalePages # {} /\ ActivePages = {} /\ (FreePages = {} \/ Victims = {})
        /\ Answer("BufferTooSmall") /\ UNCHANGED flash
     \/ /\ StalePages # {} /\ ActivePages = {}
        /\ \E t \in Page : IsFirstFree(t) /\ Compact(t, 0)

(***************************************************************************)
(* The environment: power is cut, or a flash operation returns an error    *)
(* and leaves the flash as it was.                                         *)
(***************************************************************************)
Crash ==
  /\ pc # "idle" /\ bound.crashes < MaxCrashes
  /\ result' = "lost" /\ Goto("idle") /\ l' = NoLocals
  /\ bound' = [bound EXCEPT !.crashes = @ + 1]
  /\ UNCHANGED <<flash, op>>

AtFlashOperation ==
  \/ pc \in {"start", "copymark", "reclaim", "data", "datamark", "entry", "entrymark",
             "fill", "erasespan"}
  \/ pc = "copy" /\ (l.k > 0 \/ \E s \in Slot : NextWritten(s))
  \/ pc = "room" /\ \E p \in ActivePages : ~HasRoom(p, WantedRoom)
  \/ pc = "check" /\ ~HasRoom(l.target, WantedRoom)
  \/ pc = "scrub" /\ StalePages # {} /\ ActivePages # {}

Fault ==
  /\ bound.faults < MaxFaults /\ AtFlashOperation
  /\ Fail("Flash") /\ UNCHANGED flash
  /\ bound' = [bound EXCEPT !.faults = @ + 1]

----------------------------------------------------------------------------
Init ==
  /\ \E f \in Images : hdr = f.hdr /\ bits = f.bits /\ cell = f.cell
  /\ pc = "idle" /\ op = [call |-> "scrub"] /\ result = "Ok" /\ l = NoLocals
  /\ bound = [calls |-> 0, crashes |-> 0, faults |-> 0]

Writer ==
  \/ PutBegin \/ PutFindOld \/ RemoveBegin
  \/ PageWithRoom \/ CheckRoom \/ ActivatePage \/ StartErase \/ StartHeader
  \/ CopyCell \/ CopyMark \/ CopyDone \/ Reclaim
  \/ ChunkLoop \/ DataWrite \/ DataMark \/ EntryWrite \/ EntryMark \/ Fill
  \/ EraseMark \/ Sweep \/ Scrub

Next == (Writer /\ UNCHANGED bound) \/ (\E c \in Calls : Call(c)) \/ Crash \/ Fault

Spec == Init /\ [][Next]_vars

\* a call that is open runs on: the caller's thread is in it
FairSpec == Spec /\ WF_vars(Writer /\ UNCHANGED bound)

TypeOK ==
  /\ FlashTypeOK
  /\ pc \in Points
  /\ op \in Calls
  /\ result \in Results
  /\ l \in Locals
  /\ bound \in [calls : Nat, crashes : Nat, faults : Nat]
=============================================================================
