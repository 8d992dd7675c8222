------------------------------ MODULE NvsCache ------------------------------
(***************************************************************************)
(* The two caches of an open NVS partition (crates/rusty_esp_core/src/     *)
(* nvs.rs): the namespace resolved last, and the entry headers whose CRC   *)
(* needs no second check.  Nvs reads the flash itself; this module adds    *)
(* what is kept of those reads, the reader that comes between the calls,   *)
(* and where each is dropped.                                              *)
(***************************************************************************)
EXTENDS NvsSeam

CONSTANT VerifiedPages   \* VERIFIED_PAGES: the pages whose headers are remembered

ASSUME CacheAssumption == VerifiedPages \in Nat

VARIABLES
  nsCache,  \* ns_cache: {<<name, index>>}, or {} when nothing is cached
  verified  \* the places of the headers checked

cache == <<nsCache, verified>>

Forget == nsCache' = {} /\ verified' = {}

----------------------------------------------------------------------------
(***************************************************************************)
(* What a scan leaves behind                                               *)
(***************************************************************************)
Broken(hs) == {x \in hs : ~IsHeader(CellAt(x))}

\* the headers a scan has checked when it gives the answer `found`: it stops there, and at the
\* first header whose CRC fails (RememberedStands: no check it leaves out would)
Passed(hs, found) ==
  {x \in hs : /\ \A y \in Broken(hs) : Before(x, y)
              /\ found.status = "found" => x = found.place \/ Before(x, found.place)}

Remember(checked) == verified' = verified \cup {x \in checked : x[1] < VerifiedPages}

ScanNamespace(n) == FindNamespace[Headers(bits)][n]
ScanEntry(i, name) == FindNotChunk[Headers(bits)][<<i, name>>]
ScanChunk(i, name, start, c) == FindChunk[Headers(bits)][<<i, name>>][<<start, c>>]

\* ns_cache after a scan for the namespace `n`
Resolved(n, found) ==
  IF found.status = "found" THEN {<<n, CellAt(found.place).index>>} ELSE nsCache

----------------------------------------------------------------------------
(***************************************************************************)
(* get, between the calls that write                                       *)
(***************************************************************************)
\* what is checked on the way to the value of `name` in namespace `i`: the scan for its entry,
\* and those for its chunks in turn, as far as the first that is not there; sooner when `out` is
\* short, a chunk is broken or a read fails
CheckedFor(i, name) ==
  LET hs       == Headers(bits)
      entry    == ScanEntry(i, name)
      e        == CellAt(entry.place)
      chunk(c) == ScanChunk(i, name, e.start, c)
      goesOn(n) == \A c \in 0 .. n - 2 : chunk(c).status = "found"
  IN  IF entry.status = "found" /\ e.kind = "idx"
        THEN {Passed(hs, entry) \cup UNION {Passed(hs, chunk(c)) : c \in 0 .. n - 1} :
                n \in {m \in 0 .. e.count : goesOn(m)}}
        ELSE {Passed(hs, entry)}

\* namespace_index answers from ns_cache: nothing is scanned for the namespace
ReadCached(n, name) ==
  /\ \E c \in nsCache : c[1] = n /\ \E checked \in CheckedFor(c[2], name) : Remember(checked)
  /\ UNCHANGED nsCache

ReadScanning(n, name) ==
  LET found == ScanNamespace(n)
      there == found.status = "found"
      after == IF there THEN CheckedFor(CellAt(found.place).index, name) ELSE {{}}
  IN  /\ \A c \in nsCache : c[1] # n
      /\ nsCache' = Resolved(n, found)
      /\ \E checked \in after : Remember(Passed(Headers(bits), found) \cup checked)

Read ==
  /\ pc = "idle"
  /\ \E n \in Namespaces, name \in Names : ReadCached(n, name) \/ ReadScanning(n, name)
  /\ UNCHANGED vars

----------------------------------------------------------------------------
(***************************************************************************)
(* The writer                                                              *)
(***************************************************************************)
\* put_blob and remove drop both caches before anything else; scrub does not
Open(c) ==
  /\ Call(c)
  /\ IF c.call = "scrub" THEN UNCHANGED cache ELSE Forget

\* mutant of LookUpNamespace: the index a new namespace is to have is cached before its entry
\* is written
LookUpOrName ==
  /\ PutBegin
  /\ LET hs    == Headers(bits)
         found == ScanNamespace(op.ns)
     IN  /\ nsCache' = IF found.status = "none" THEN {<<op.ns, i>> : i \in FreeIndices(hs)}
                                               ELSE Resolved(op.ns, found)
         /\ Remember(Passed(hs, found))

\* the namespace is scanned for; a new one is not cached before a scan has found it
LookUpNamespace ==
  /\ PutBegin
  /\ LET found == ScanNamespace(op.ns)
     IN  nsCache' = Resolved(op.ns, found) /\ Remember(Passed(Headers(bits), found))

LookUpOld ==
  /\ PutFindOld
  /\ Remember(Passed(Headers(bits), ScanEntry(l.ns, op.name)))
  /\ UNCHANGED nsCache

LookUpBoth ==
  /\ RemoveBegin
  /\ LET hs    == Headers(bits)
         found == ScanNamespace(op.ns)
         entry == ScanEntry(CellAt(found.place).index, op.name)
     IN  /\ nsCache' = Resolved(op.ns, found)
         /\ Remember(Passed(hs, found)
                       \cup IF found.status = "found" THEN Passed(hs, entry) ELSE {})

LookUpChunk ==
  /\ Sweep
  /\ IF l.sweep.done < l.sweep.count
       THEN Remember(Passed(Headers(bits),
                            ScanChunk(l.ns, op.name, l.sweep.start, l.sweep.done)))
       ELSE UNCHANGED verified
  /\ UNCHANGED nsCache

\* mutant of DropAfterErase: a compaction leaves the caches to the call that runs it
KeepAfterErase == UNCHANGED cache

\* compact, once the victim is erased
DropAfterErase == Forget

Move ==
  \/ PageWithRoom \/ CheckRoom \/ ActivatePage \/ StartErase \/ StartHeader
  \/ CopyCell \/ CopyMark \/ CopyDone
  \/ ChunkLoop \/ DataWrite \/ DataMark \/ EntryWrite \/ EntryMark \/ Fill
  \/ EraseMark \/ Scrub

CachingWriter ==
  \/ LookUpNamespace \/ LookUpOld \/ LookUpBoth \/ LookUpChunk
  \/ Reclaim /\ DropAfterErase
  \/ Move /\ UNCHANGED cache

CacheInit == Init /\ nsCache = {} /\ verified = {}

\* a partition opened after a power cut remembers nothing; a failed operation drops nothing
CacheNext ==
  \/ CachingWriter /\ UNCHANGED bound
  \/ \E c \in Calls : Open(c)
  \/ Crash /\ Forget
  \/ Fault /\ UNCHANGED cache
  \/ Read

CacheSpec == CacheInit /\ [][CacheNext]_<<vars, cache>>

\* as FairSpec: a call that is open runs on, whatever is remembered
CacheFairSpec == CacheSpec /\ WF_vars(Writer /\ UNCHANGED bound)

----------------------------------------------------------------------------
\* A header whose CRC is not checked again is one that would pass: at every instant, calls
\* under way, power cuts and failed operations included, what is remembered stands where it was
\* checked, in a page that still holds data (nvs.rs:376-387).
RememberedStands ==
  \A x \in verified :
    x[1] \in DataPages /\ bits[x[1]][x[2]] # "empty" /\ IsHeader(CellAt(x))

\* A namespace answered from memory is what a scan would answer now, unless the scan fails:
\* "What a scan would answer while the partition is unchanged; every method that writes clears
\* it" (nvs.rs:250-252, 404-409).
CachedIsScanned ==
  pc = "idle" =>
    \A c \in nsCache :
      LET found == ScanNamespace(c[1])
      IN  /\ found.status # "none"
          /\ found.status = "found" => CellAt(found.place).index = c[2]
=============================================================================
