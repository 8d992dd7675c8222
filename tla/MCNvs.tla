-------------------------------- MODULE MCNvs --------------------------------
(***************************************************************************)
(* Instances of the NVS writer for TLC.                                    *)
(***************************************************************************)
EXTENDS NvsSeam, Sequences, TLC

CONSTANTS v1, v2, v3, a, n1, n2

MCSize == v1 :> 1 @@ v2 :> 2 @@ v3 :> 6

\* a page in hand: its state, the entries from its first slot on, and which are erased
PageOf(state, seq, cells, erased) ==
  LET written == {s \in Slot : s < Len(cells)}
  IN  [hdr  |-> [state |-> state, seq |-> seq],
       bits |-> [s \in Slot |-> IF s \in erased THEN "erased"
                                ELSE IF s \in written THEN "written" ELSE "empty"],
       cell |-> [s \in Slot |-> IF s \in written THEN cells[s + 1] ELSE Blank]]

ImageOf(pages) == [hdr  |-> [p \in Page |-> pages[p + 1].hdr],
                   bits |-> [p \in Page |-> pages[p + 1].bits],
                   cell |-> [p \in Page |-> pages[p + 1].cell]]

Namespace(n, i) == [kind |-> "ns", name |-> n, index |-> i]
Single(i) == [kind |-> "single", ns |-> i, name |-> a, size |-> 1, value |-> v1]
ErasedPage == PageOf("uninit", 0, <<>>, {})

\* a partition ESP-IDF wrote: one namespace with a string under `a`, and in the last
\* page a page state this code does not use (freeing, corrupt)
ForeignImage ==
  ImageOf(<<PageOf("active", 0, <<Namespace(n1, 1), Single(1), Data(v1, 0)>>, {}),
            ErasedPage, PageOf("other", 0, <<>>, {})>>)

\* a worn one of five slots a page: a blob under `a` in a full page with one erased
\* entry, and two slots left before the next compaction
WornImage ==
  ImageOf(<<PageOf("full", 0,
              <<Namespace(n1, 1),
                [kind |-> "chunk", ns |-> 1, name |-> a, start |-> 0, number |-> 0,
                 size |-> 1, value |-> v1, offset |-> 0],
                Data(v1, 0),
                [kind |-> "idx", ns |-> 1, name |-> a, start |-> 0, count |-> 1, size |-> 1],
                [kind |-> "single", ns |-> 1, name |-> a, size |-> 0, value |-> v1]>>, {4}),
            PageOf("active", 1, <<Namespace(n2, 2), Single(2), Data(v1, 0)>>, {}),
            ErasedPage>>)

\* a full page to compact: an erased entry in front of a namespace and a blob of one chunk
CompactableImage ==
  ImageOf(<<PageOf("full", 0,
              <<[kind |-> "single", ns |-> 1, name |-> a, size |-> 0, value |-> v1],
                Namespace(n1, 1),
                [kind |-> "chunk", ns |-> 1, name |-> a, start |-> 0, number |-> 0,
                 size |-> 1, value |-> v1, offset |-> 0],
                Data(v1, 0),
                [kind |-> "idx", ns |-> 1, name |-> a, start |-> 0, count |-> 1, size |-> 1]>>,
              {0}),
            ErasedPage, ErasedPage>>)

CompactableOnly == {CompactableImage}
BlankOnly == {BlankImage}
BlankOrForeign == {BlankImage, ForeignImage}
BlankOrWorn == {BlankImage, WornImage}

\* nothing fails, and power stays
UndisturbedNext == (Writer /\ UNCHANGED bound) \/ \E c \in Calls : Call(c)
UndisturbedSpec == Init /\ [][UndisturbedNext]_vars /\ WF_vars(Writer /\ UNCHANGED bound)

\* callers put a key only when it is absent
FirstPuts ==
  (result # "busy" /\ result' = "busy" /\ op'.call = "put")
     => Get(op'.ns, op'.name) = None
SetNext == Next /\ FirstPuts
SetSpec == Init /\ [][SetNext]_vars /\ WF_vars(Writer /\ UNCHANGED bound)
=============================================================================
