------------------------------ MODULE OtaBoot ------------------------------
(***************************************************************************)
(* Which app image the second-stage bootloader starts                      *)
(* (firmware/esp32s3-boot/src/table.rs `select`, `write_initial`,          *)
(* `write_entry`; main.rs, the candidate loop), on a board that may lose   *)
(* power at any instant.  Between boots an app runs: it may confirm        *)
(* itself, download an image into another slot, and name a slot to boot    *)
(* next.  The app is ESP-IDF's OTA code, outside this repository: its      *)
(* steps are those the loader's rule is written against.                   *)
(***************************************************************************)
EXTENDS Naturals, FiniteSets

CONSTANTS
  OtaCount,      \* table.ota_count: the OTA slots, subtypes 0 .. OtaCount - 1
  MaxResets,     \* bound: resets and power cuts
  MaxFaults,     \* bound: flash erases or writes that return an error
  MaxUpdates     \* bound: downloads, and slots named by the app

ASSUME OtaAssumption == OtaCount \in Nat \ {0}

Slot      == 0 .. OtaCount - 1
Factory   == OtaCount            \* Choice::Factory: the last candidate tried
Candidate == Slot \cup {Factory}
Nobody    == OtaCount + 1        \* no app runs

VARIABLES
  factory,  \* whether the partition table has a factory app
  otadata,  \* otadata[0], otadata[1] as they lie in flash
  image,    \* image[c]: the app in a partition, and what became of it
  pc,       \* where the loader or the app stands
  e,        \* select's copies of the two entries
  w,        \* the write_entry in hand: which entry, its new value, what follows
  first,    \* the candidate select chose
  choice,   \* the candidate being started
  initial,  \* Selection.initial
  running,  \* the app that runs, or Nobody
  bound

vars == <<factory, otadata, image, pc, e, w, first, choice, initial, running, bound>>

(***************************************************************************)
(* An otadata entry.  Blank stands for the sequence 0xFFFF_FFFF of an      *)
(* erased sector.  `crc` is whether the CRC covers the sequence.           *)
(***************************************************************************)
Blank  == 0
States == {"New", "Pending", "Valid", "Invalid", "Aborted", "Undefined"}
Entry  == {x \in [seq : Nat, state : States, crc : BOOLEAN] : x.crc => x.seq # Blank}

BlankEntry == [seq |-> Blank, state |-> "Undefined", crc |-> FALSE]

\* MUTANT of Fresh: the slot's number is taken for its sequence
FreshFromZero(slot) == [seq |-> slot, state |-> "Valid", crc |-> TRUE]

\* Entry::fresh
Fresh(slot) == [seq |-> slot + 1, state |-> "Valid", crc |-> TRUE]

Invalid(x) == x.seq = Blank \/ x.state \in {"Invalid", "Aborted"}
Valid(x)   == ~Invalid(x) /\ x.crc
Initial(x) == x.seq = Blank \/ ~x.crc

\* the slot an entry picks
Named(x) == (x.seq - 1) % OtaCount

\* the usable entry with the higher sequence, otadata[0] when they tie
IsActive(d, i) ==
  /\ Valid(d[i])
  /\ Valid(d[1 - i]) => d[i].seq > d[1 - i].seq \/ (d[i].seq = d[1 - i].seq /\ i = 0)

Points == {"select", "rollback", "choose", "try", "jump", "run", "restart",
           "erase", "write"}

\* what an image is worth: `good` passes the loader's checks; `trusted` confirmed itself, or
\* was there when write_initial vouched for its slot (the factory app is trusted as shipped);
\* `boots` since its slot was last named
Image == [good : BOOLEAN, trusted : BOOLEAN, boots : 0 .. 2]
UntriedImage(good) == [good |-> good, trusted |-> FALSE, boots |-> 0]

NoWrite == [entry |-> 0, value |-> BlankEntry, then |-> "select"]

----------------------------------------------------------------------------
(***************************************************************************)
(* write_entry: unlock and erase the sector, then write it.  The loader    *)
(* reports an error on the console and goes on.                            *)
(***************************************************************************)
Rewrite(i, x, then) ==
  /\ w' = [entry |-> i, value |-> x, then |-> then]
  /\ pc' = "erase"

EraseEntry ==
  /\ pc = "erase"
  /\ otadata' = [otadata EXCEPT ![w.entry] = BlankEntry]
  /\ pc' = "write"
  /\ UNCHANGED <<factory, image, e, w, first, choice, initial, running, bound>>

\* a Valid entry vouches for the image in the slot it names
Vouch(x) ==
  image' = IF x.state = "Valid" THEN [image EXCEPT ![Named(x)].trusted = TRUE] ELSE image

WriteEntry ==
  /\ pc = "write"
  /\ otadata' = [otadata EXCEPT ![w.entry] = w.value]
  /\ Vouch(w.value)
  /\ pc' = w.then
  /\ UNCHANGED <<factory, e, w, first, choice, initial, running, bound>>

FlashFault ==
  /\ pc \in {"erase", "write"} /\ bound.faults < MaxFaults
  /\ pc' = w.then
  /\ bound' = [bound EXCEPT !.faults = @ + 1]
  /\ UNCHANGED <<factory, otadata, image, e, w, first, choice, initial, running>>

(***************************************************************************)
(* select                                                                  *)
(***************************************************************************)
ReadOtadata ==
  /\ pc = "select"
  /\ e' = otadata /\ pc' = "rollback"
  /\ UNCHANGED <<factory, otadata, image, w, first, choice, initial, running, bound>>

\* an entry still Pending is Aborted, otadata[0] first
IsFirstPending(i) == e[i].state = "Pending" /\ (i = 1 => e[0].state # "Pending")

\* MUTANT of Rollback: the Aborted entry is written to the first sector
RollbackFirstSector ==
  /\ pc = "rollback"
  /\ \/ \E i \in {0, 1} :
          /\ IsFirstPending(i)
          /\ e' = [e EXCEPT ![i].state = "Aborted"]
          /\ Rewrite(0, [e[i] EXCEPT !.state = "Aborted"], "rollback")
     \/ /\ \A i \in {0, 1} : e[i].state # "Pending"
        /\ pc' = "choose" /\ UNCHANGED <<e, w>>
  /\ UNCHANGED <<factory, otadata, image, first, choice, initial, running, bound>>

Rollback ==
  /\ pc = "rollback"
  /\ \/ \E i \in {0, 1} :
          /\ IsFirstPending(i)
          /\ e' = [e EXCEPT ![i].state = "Aborted"]
          /\ Rewrite(i, [e[i] EXCEPT !.state = "Aborted"], "rollback")
     \/ /\ \A i \in {0, 1} : e[i].state # "Pending"
        /\ pc' = "choose" /\ UNCHANGED <<e, w>>
  /\ UNCHANGED <<factory, otadata, image, first, choice, initial, running, bound>>

BothInvalid == Invalid(e[0]) /\ Invalid(e[1])

\* no entry chooses: the factory app, or ota_0 when the table has none
ChooseNone ==
  /\ pc = "choose"
  /\ \/ /\ BothInvalid
        /\ first' = IF factory THEN Factory ELSE 0
        /\ initial' = (~factory /\ Initial(e[0]) /\ Initial(e[1]))
     \/ /\ ~BothInvalid /\ \A i \in {0, 1} : ~Valid(e[i])
        /\ first' = Factory /\ initial' = FALSE
  /\ pc' = "try"
  /\ UNCHANGED <<factory, otadata, image, e, w, choice, running, bound>>

\* MUTANT of ChooseActive: a New image is started without being marked Pending
ChooseUnmarked ==
  /\ pc = "choose"
  /\ \E i \in {0, 1} :
       /\ IsActive(e, i)
       /\ first' = Named(e[i]) /\ initial' = FALSE
  /\ pc' = "try"
  /\ UNCHANGED <<factory, otadata, image, e, w, choice, running, bound>>

\* the active entry chooses, and a New image is marked Pending for its one try
ChooseActive ==
  /\ pc = "choose"
  /\ \E i \in {0, 1} :
       /\ IsActive(e, i)
       /\ first' = Named(e[i]) /\ initial' = FALSE
       /\ IF e[i].state = "New"
            THEN /\ e' = [e EXCEPT ![i].state = "Pending"]
                 /\ Rewrite(i, [e[i] EXCEPT !.state = "Pending"], "try")
            ELSE pc' = "try" /\ UNCHANGED <<e, w>>
  /\ UNCHANGED <<factory, otadata, image, choice, running, bound>>

(***************************************************************************)
(* main: the candidates in order, the chosen one, every OTA slot, factory  *)
(***************************************************************************)
\* MUTANT of Starts: the chosen candidate is the only one
StartsChosen(c) == image[c].good /\ c = first

Starts(c) ==
  /\ image[c].good
  /\ c = first \/ (~image[first].good /\ \A d \in 0 .. c - 1 : ~image[d].good)

TryCandidates ==
  /\ pc = "try"
  /\ \/ \E c \in Candidate :
          /\ Starts(c)
          /\ choice' = c
          /\ IF initial /\ c \in Slot
               THEN Rewrite(0, Fresh(c), "jump")
               ELSE pc' = "jump" /\ UNCHANGED w
     \/ \* fatal!: no bootable app image, reset and start over
        /\ \A c \in Candidate : ~Starts(c)
        /\ pc' = "select" /\ UNCHANGED <<choice, w>>
  /\ UNCHANGED <<factory, otadata, image, e, first, initial, running, bound>>

Jump ==
  /\ pc = "jump"
  /\ running' = choice
  /\ image' = [image EXCEPT ![choice].boots = IF @ < 2 THEN @ + 1 ELSE @]
  /\ pc' = "run"
  /\ UNCHANGED <<factory, otadata, e, w, first, choice, initial, bound>>

Loader ==
  \/ EraseEntry \/ WriteEntry \/ ReadOtadata \/ Rollback \/ ChooseNone \/ ChooseActive
  \/ TryCandidates \/ Jump

----------------------------------------------------------------------------
(***************************************************************************)
(* The app that runs (ESP-IDF).                                            *)
(***************************************************************************)
\* it marks itself valid
Confirm ==
  /\ pc = "run" /\ running \in Slot
  /\ \E i \in {0, 1} :
       /\ IsActive(otadata, i) /\ Named(otadata[i]) = running /\ otadata[i].state = "Pending"
       /\ Rewrite(i, [otadata[i] EXCEPT !.state = "Valid"], "run")
  /\ image' = [image EXCEPT ![running].trusted = TRUE]
  /\ UNCHANGED <<factory, otadata, e, first, choice, initial, running, bound>>

\* the app updates the board when it is trusted itself and, in an OTA slot, the active entry
\* names it as Valid: not while it only runs because the loader refused another image
Updates ==
  /\ pc = "run" /\ bound.updates < MaxUpdates
  /\ image[running].trusted
  /\ running # Factory =>
       \A i \in {0, 1} :
         IsActive(otadata, i) => Named(otadata[i]) = running /\ otadata[i].state = "Valid"

\* it downloads an image into a slot other than its own, once it is confirmed itself
Download(c) ==
  /\ Updates /\ c # running
  /\ \E good \in BOOLEAN : image' = [image EXCEPT ![c] = UntriedImage(good)]
  /\ bound' = [bound EXCEPT !.updates = @ + 1]
  /\ UNCHANGED <<factory, otadata, pc, e, w, first, choice, initial, running>>

\* the least sequence above `s` that names slot `c`
IsNextSeq(n, s, c) == n > s /\ (n - 1) % OtaCount = c /\ n <= s + OtaCount

\* it names a slot to boot next, in the entry that is not the active one, and restarts
SetBoot(c) ==
  /\ Updates /\ c # running
  /\ \/ \E i \in {0, 1} :
          /\ IsActive(otadata, i)
          /\ \E n \in otadata[i].seq + 1 .. otadata[i].seq + OtaCount :
               /\ IsNextSeq(n, otadata[i].seq, c)
               /\ Rewrite(1 - i, [seq |-> n, state |-> "New", crc |-> TRUE], "restart")
     \/ /\ \A i \in {0, 1} : ~Valid(otadata[i])
        /\ Rewrite(0, [seq |-> c + 1, state |-> "New", crc |-> TRUE], "restart")
  /\ image' = [image EXCEPT ![c] = UntriedImage(@.good)]
  /\ bound' = [bound EXCEPT !.updates = @ + 1]
  /\ UNCHANGED <<factory, otadata, e, first, choice, initial, running>>

Restart ==
  /\ pc = "restart"
  /\ pc' = "select" /\ running' = Nobody
  /\ UNCHANGED <<factory, otadata, image, e, w, first, choice, initial, bound>>

(***************************************************************************)
(* A reset or a power cut.  A write cut short leaves its words from the    *)
(* first on: the sequence comes before the state, the state before the CRC.*)
(***************************************************************************)
CutShort(x) ==
  {BlankEntry, [x EXCEPT !.state = "Undefined", !.crc = FALSE], [x EXCEPT !.crc = FALSE]}

Reset ==
  /\ bound.resets < MaxResets
  /\ IF pc = "write"
       THEN \E x \in CutShort(w.value) : otadata' = [otadata EXCEPT ![w.entry] = x]
       ELSE UNCHANGED otadata
  /\ pc' = "select" /\ running' = Nobody
  /\ bound' = [bound EXCEPT !.resets = @ + 1]
  /\ UNCHANGED <<factory, image, e, w, first, choice, initial>>

----------------------------------------------------------------------------
\* a freshly flashed board
Init ==
  /\ factory \in BOOLEAN
  /\ otadata = [i \in {0, 1} |-> BlankEntry] /\ e = otadata
  /\ \E good \in [Candidate -> BOOLEAN] :
       /\ good[Factory] => factory
       /\ image = [c \in Candidate |->
                     [UntriedImage(good[c]) EXCEPT !.trusted = (c = Factory /\ factory)]]
  /\ pc = "select" /\ w = NoWrite
  /\ first = 0 /\ choice = 0 /\ initial = FALSE /\ running = Nobody
  /\ bound = [resets |-> 0, faults |-> 0, updates |-> 0]

App == Confirm \/ Restart \/ \E c \in Slot : Download(c) \/ SetBoot(c)

Next == Loader \/ App \/ FlashFault \/ Reset

Spec == Init /\ [][Next]_vars

\* the loader runs to the jump, unless the power is cut
FairSpec == Spec /\ WF_vars(Loader)

TypeOK ==
  /\ factory \in BOOLEAN
  /\ otadata \in [{0, 1} -> Entry] /\ e \in [{0, 1} -> Entry]
  /\ image \in [Candidate -> Image]
  /\ pc \in Points
  /\ w \in [entry : {0, 1}, value : Entry, then : Points]
  /\ first \in Candidate /\ choice \in Candidate /\ running \in Candidate \cup {Nobody}
  /\ initial \in BOOLEAN
  /\ bound \in [resets : Nat, faults : Nat, updates : Nat]

----------------------------------------------------------------------------
OtherTrusted(c) == \E d \in Candidate \ {c} : image[d].good /\ image[d].trusted

\* the app that runs had its try before and never confirmed itself, and the board has another
RunsTried ==
  /\ running \in Slot /\ OtherTrusted(running)
  /\ ~image[running].trusted /\ image[running].boots > 1

\* The rollback rule: an image that had its one try and did not confirm itself is not
\* chosen again while the board has a good image that did, at whatever instants the power is
\* cut, as long as no erase or write of otadata fails (table.rs, select).
OneTry == RunsTried => running # first \/ bound.faults > 0

\* An update never costs the board the image it can return to: once some slot's image is
\* trusted, at every instant an entry in flash names a trusted image, or there is the
\* factory app to fall back on (table.rs, write_entry between its erase and its write).
TrustedEntryKept ==
  (\E c \in Slot : image[c].trusted) =>
    \/ factory
    \/ \E i \in {0, 1} : Valid(otadata[i]) /\ image[Named(otadata[i])].trusted

\* A board with a good image gets an app running, whatever its otadata holds and however
\* often its power was cut before (main.rs, the candidate loop).
BoardBoots == (\E c \in Candidate : image[c].good) ~> (running # Nobody)

=============================================================================
