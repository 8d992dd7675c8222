------------------------------- MODULE NvsSeam -------------------------------
(***************************************************************************)
(* What the NVS writer owes: the properties of Nvs, and the map it         *)
(* implements (KvSeam).                                                    *)
(***************************************************************************)
EXTENDS Nvs

\* the bitmap once the erase_span in hand is through: between its first mark and
\* its last the data entries of an erased header are taken for headers
SettledBits ==
  IF pc = "erasespan" /\ l.k > 0
    THEN [bits EXCEPT ![l.at[1]] =
            [s \in Slot |-> IF s \in l.at[2] .. l.at[2] + l.span - 1 THEN "erased" ELSE @[s]]]
    ELSE bits

\* the map a reader opening the partition now would find
View == Reads[Headers(SettledBits)]

SeamOp ==
  CASE op.call = "put"    -> [call |-> "put", key |-> <<op.ns, op.name>>, value |-> op.value]
    [] op.call = "remove" -> [call |-> "remove", key |-> <<op.ns, op.name>>]
    [] op.call = "scrub"  -> op

\* the open call has taken effect: its index is down and no older one is left, or the
\* index it removes is erased
Applied ==
  /\ l.outcome = "Ok"
  /\ pc = "sweep" \/ (pc = "erasespan" /\ (l.k > 0 \/ l.sweep.done > 0))

Seam == INSTANCE KvSeam WITH kv <- View, op <- SeamOp, applied <- Applied

\* Every behaviour of the writer is one of the map: a put or a remove takes effect
\* whole, at one instant, on its own key only; no compaction and no scrub changes what
\* any key reads; a call that answers an error changed nothing (put_blob,
\* nvs.rs:950-957; compact, nvs.rs:726-731; scrub, nvs.rs:785-796).
ImplementsSeam == Seam!Spec

\* Sequence numbers order the data pages, and the active page is the newest of them:
\* at most one page takes entries, and what it takes is found after all that is older
\* (active_page, start_page, scrub's "one active page at a time", nvs.rs:815-816).
PageDiscipline ==
  /\ \A p, q \in DataPages : hdr[p].seq = hdr[q].seq => p = q
  /\ \A p \in ActivePages, q \in DataPages : hdr[q].seq <= hdr[p].seq

\* Between calls one page is free, the reserve a compaction needs (nvs.rs:28-29).
ReserveKept == pc = "idle" => FreePages # {}

SameBlob(c, e) == c.ns = e.ns /\ c.name = e.name /\ c.start = e.start /\ c.number < e.count

\* Between calls a chunk belongs to exactly one index and an index has each of its
\* chunks exactly once: a put that failed erased what it wrote, a value replaced or
\* removed left nothing behind (nvs.rs:952-954, 979-986, 989-999).
ChunksOwned ==
  pc = "idle" =>
    LET hs      == Headers(bits)
        chunks  == {x \in hs : CellAt(x).kind = "chunk"}
        indices == {x \in hs : CellAt(x).kind = "idx"}
    IN  /\ \A x \in chunks :
             Cardinality({y \in indices : SameBlob(CellAt(x), CellAt(y))}) = 1
        /\ \A y \in indices : \A c \in 0 .. CellAt(y).count - 1 :
             Cardinality({x \in chunks : /\ SameBlob(CellAt(x), CellAt(y))
                                         /\ CellAt(x).number = c}) = 1

IsEntry(c) == c.kind \in {"idx", "single"}
SameKey(c, d) == c.ns = d.ns /\ c.name = d.name

\* Between calls a key has one entry, a namespace name one, and every key's entry stands in a
\* namespace that has a name: put_blob erases the entry it replaced, and an index is given to
\* one namespace (nvs.rs:950-957, 434-446).
OneEntryEach ==
  pc = "idle" =>
    LET hs      == Headers(bits)
        entries == {x \in hs : IsEntry(CellAt(x))}
        named   == {x \in hs : CellAt(x).kind = "ns"}
    IN  /\ \A x, y \in entries : SameKey(CellAt(x), CellAt(y)) => x = y
        /\ \A x, y \in named : CellAt(x).name = CellAt(y).name => x = y
        /\ \A x \in entries : \E y \in named : CellAt(y).index = CellAt(x).ns

\* After a scrub the flash holds nothing but what a reader can reach: no slot of any
\* page keeps bytes that are not a written entry of a data page (nvs.rs:785-795).
ScrubLeavesOnlyLive ==
  (pc = "idle" /\ bound.calls > 0 /\ op.call = "scrub" /\ result = "Ok") =>
    \A p \in Page, s \in Slot :
      cell[p][s] # Blank => p \in DataPages /\ bits[p][s] = "written"

\* No two namespaces share an index, or a name in one would read the other's value, as
\* long as no compaction was cut or failed (free_namespace_index, nvs.rs:434-446).
NamespacesApart ==
  \A p, q \in DataPages : \A s, t \in Slot :
    LET c == cell[p][s] d == cell[q][t]
    IN  (/\ bits[p][s] = "written" /\ bits[q][t] = "written"
         /\ c.kind = "ns" /\ d.kind = "ns" /\ c.index = d.index) => c.name = d.name

(***************************************************************************)
(* A partition in order, as ESP-IDF and this code leave it when nothing    *)
(* fails.                                                                  *)
(***************************************************************************)
WrittenHeader(p, s) == bits[p][s] = "written" /\ IsHeader(cell[p][s])

\* all of the entry at `s` lies in the page, with its data after it
Whole(p, s) ==
  /\ s + SpanOf(cell[p][s]) <= Slots
  /\ \A i \in 1 .. SpanOf(cell[p][s]) - 1 : bits[p][s + i] # "empty" /\ ~IsHeader(cell[p][s + i])

\* slot `t` belongs to the entry at some `s`
Owned(p, t) == \E s \in Slot : WrittenHeader(p, s) /\ s <= t /\ t < s + SpanOf(cell[p][s])

\* a page is free, and free pages are blank; an empty slot is blank, and so are those after it;
\* every entry is whole and every written slot belongs to one; no index is shared
TidyFlash ==
  /\ FreePages # {}
  /\ \A p \in FreePages : \A s \in Slot :
       cell[p][s] = Blank /\ (hdr[p].state = "uninit" => bits[p][s] = "empty")
  /\ \A p \in DataPages : \A s \in Slot :
       /\ bits[p][s] = "empty" => cell[p][s] = Blank /\ \A t \in s .. Slots - 1 : bits[p][t] = "empty"
       /\ bits[p][s] = "written" => Owned(p, s)
       /\ WrittenHeader(p, s) => Whole(p, s)
  /\ NamespacesApart

\* As long as nothing fails and no value is moved while a put replaces it, a call leaves the
\* partition in the order the next one relies on: what a scan may skip, where a compaction may
\* cut, which index is free (scan, nvs.rs:377-399; compact, nvs.rs:726-781).
TidyBetweenCalls == pc = "idle" => TidyFlash

\* Every call returns: page_with_room tries twice, a scrub runs out of stale pages
\* (nvs.rs:848-867, 797-836).
CallsReturn == (pc # "idle") ~> (pc = "idle")

----------------------------------------------------------------------------
(***************************************************************************)
(* What the documentation says and the code does not keep.                 *)
(***************************************************************************)

\* "a reader sees the old value or the new one and never a mix" (nvs.rs:953-954):
\* between calls every key reads a value or nothing.
ReaderSeesAValue ==
  pc = "idle" =>
    \A key \in Keys : Get(key[1], key[2]) \in Values \cup {None}

\* "Store `value` under `key`, replacing any prior value" (hal.rs:41): a put that
\* answered Ok is what a get answers next.
PutSticks ==
  (pc = "idle" /\ op.call = "put" /\ result = "Ok") => Get(op.ns, op.name) = op.value

\* "Remove `key` from `ns`, whatever its type" (nvs.rs:917): after a remove that answered
\* Ok no value can be read under the key.
RemoveSticks ==
  (pc = "idle" /\ op.call = "remove" /\ result = "Ok") => Get(op.ns, op.name) \notin Values

\* "The smallest namespace index not in use" (nvs.rs:434): the index about to be written
\* for a new namespace stands in no entry of another.
NewIndexUnused ==
  (pc = "room" /\ l.want = "ns") =>
    \A p \in DataPages : \A s \in Slot :
      (bits[p][s] = "written" /\ cell[p][s].kind = "ns") => cell[p][s].index # l.ns

\* "A power loss between the two loses the key" (nvs.rs:40): a reader after a cut at
\* any point still reads every key but the one of the call it cut.
OtherKeysReadable ==
  result = "lost" =>
    \A key \in Keys :
      (op.call = "scrub" \/ key # <<op.ns, op.name>>) => Get(key[1], key[2]) # Corrupt
=============================================================================
