----------------------------- MODULE OtaProofs ------------------------------
(***************************************************************************)
(* Over-the-air updates for every number of slots, every number of updates,*)
(* resets and failed flash operations: otadata keeps its shape, and it     *)
(* always names an image the board can return to.  For every number of     *)
(* updates and resets with a flash that does as it is told, an image is    *)
(* chosen once until it confirms itself.                                   *)
(***************************************************************************)
EXTENDS OtaBoot, TLAPS

Index == {0, 1}

LEMMA Slots ==
  /\ OtaCount \in Nat \ {0} /\ Factory \in Candidate /\ Slot \subseteq Candidate
  /\ Nobody \notin Candidate /\ Factory \notin Slot /\ 0 \in Slot
  /\ \A c \in Candidate : c \in Slot \/ c = Factory
  BY OtaAssumption DEF Slot, Candidate, Factory, Nobody

LEMMA Entries ==
  /\ BlankEntry \in Entry /\ ~BlankEntry.crc /\ BlankEntry.state = "Undefined"
  /\ \A slot \in Slot : Fresh(slot) \in Entry /\ Fresh(slot).crc /\ Fresh(slot).state = "Valid"
  <1>1. BlankEntry \in Entry /\ ~BlankEntry.crc /\ BlankEntry.state = "Undefined"
    BY DEF BlankEntry, Entry, States, Blank
  <1>2. ASSUME NEW slot \in Slot
        PROVE  Fresh(slot) \in Entry /\ Fresh(slot).crc /\ Fresh(slot).state = "Valid"
    BY OtaAssumption DEF Fresh, Entry, States, Blank, Slot
  <1> QED BY <1>1, <1>2

LEMMA Restated ==
  ASSUME NEW x \in Entry, NEW s \in States
  PROVE  /\ [x EXCEPT !.state = s] \in Entry
         /\ [x EXCEPT !.state = s].state = s
         /\ [x EXCEPT !.state = s].crc = x.crc /\ [x EXCEPT !.state = s].seq = x.seq
  BY DEF Entry

LEMMA TornEntries ==
  ASSUME NEW x \in Entry, NEW y \in CutShort(x)
  PROVE  /\ y \in Entry /\ y.crc = FALSE
         /\ y.state = x.state \/ y.state = "Undefined"
  <1>1. CASE y = BlankEntry
    BY <1>1, Entries
  <1>2. CASE y = [x EXCEPT !.state = "Undefined", !.crc = FALSE]
    BY <1>2 DEF Entry, States
  <1>3. CASE y = [x EXCEPT !.crc = FALSE]
    BY <1>3 DEF Entry
  <1> QED BY <1>1, <1>2, <1>3 DEF CutShort

LEMMA NamedIsSlot ==
  ASSUME NEW x \in Entry, x.crc
  PROVE  Named(x) \in Slot
  <1>1. x.seq \in Nat /\ x.seq # 0
    BY DEF Entry, Blank
  <1>2. x.seq - 1 \in Nat
    BY <1>1
  <1> QED BY <1>2, OtaAssumption DEF Named, Slot

----------------------------------------------------------------------------
(***************************************************************************)
(* Types.                                                                  *)
(***************************************************************************)
Pending == [entry : {0, 1}, value : Entry, then : Points]

LEMMA RewriteType ==
  ASSUME NEW i \in Index, NEW x \in Entry, NEW then \in Points, Rewrite(i, x, then)
  PROVE  w' \in Pending /\ pc' \in Points
         /\ pc' = "erase" /\ w'.entry = i /\ w'.value = x /\ w'.then = then
  <1>1. w' = [entry |-> i, value |-> x, then |-> then] /\ pc' = "erase"
    BY DEF Rewrite
  <1>2. w' \in Pending
    BY <1>1 DEF Pending, Index
  <1>3. pc' \in Points
    BY <1>1 DEF Points
  <1> QED BY <1>1, <1>2, <1>3

LEMMA InitType == Init => TypeOK
  <1> SUFFICES ASSUME Init PROVE TypeOK
    OBVIOUS
  <1>1. PICK good \in [Candidate -> BOOLEAN] :
          image = [c \in Candidate |->
                     [UntriedImage(good[c]) EXCEPT !.trusted = (c = Factory /\ factory)]]
    BY DEF Init
  <1>2. factory \in BOOLEAN
    BY DEF Init
  <1>3. image \in [Candidate -> Image]
    <2>1. ASSUME NEW c \in Candidate, NEW t \in BOOLEAN
          PROVE  [UntriedImage(good[c]) EXCEPT !.trusted = t] \in Image
      BY DEF UntriedImage, Image
    <2>2. \A c \in Candidate : (c = Factory /\ factory) \in BOOLEAN
      BY <1>2
    <2>3. \A c \in Candidate :
             [UntriedImage(good[c]) EXCEPT !.trusted = (c = Factory /\ factory)] \in Image
      BY <2>1, <2>2
    <2> QED BY <1>1, <2>3
  <1>4. otadata = [i \in Index |-> BlankEntry] /\ e = otadata
    BY DEF Init, Index
  <1>5. otadata \in [Index -> Entry] /\ e \in [Index -> Entry]
    BY <1>4, Entries
  <1>6. w = NoWrite /\ pc = "select" /\ first = 0 /\ choice = 0 /\ initial = FALSE
        /\ running = Nobody /\ bound = [resets |-> 0, faults |-> 0, updates |-> 0]
    BY DEF Init
  <1>7. w \in [entry : {0, 1}, value : Entry, then : Points]
    BY <1>6, Entries DEF NoWrite, Points
  <1>8. first \in Candidate /\ choice \in Candidate /\ running \in Candidate \cup {Nobody}
    BY <1>6, Slots
  <1>9. pc \in Points /\ initial \in BOOLEAN
        /\ bound \in [resets : Nat, faults : Nat, updates : Nat]
    BY <1>6 DEF Points
  <1> QED BY <1>2, <1>3, <1>5, <1>7, <1>8, <1>9 DEF TypeOK, Index

LEMMA ActiveType ==
  ASSUME NEW d \in [Index -> Entry], NEW i \in Index, IsActive(d, i)
  PROVE  d[i] \in Entry /\ d[i].crc /\ Named(d[i]) \in Slot
  <1>1. d[i] \in Entry /\ d[i].crc
    BY DEF IsActive, Valid
  <1> QED BY <1>1, NamedIsSlot

LEMMA VouchType ==
  ASSUME image \in [Candidate -> Image], NEW x \in Entry, Vouch(x)
  PROVE  image' \in [Candidate -> Image]
  <1>1. CASE x.state = "Valid"
    BY <1>1 DEF Vouch, Image
  <1>2. CASE x.state # "Valid"
    BY <1>2 DEF Vouch
  <1> QED BY <1>1, <1>2

LEMMA LoaderType == TypeOK /\ Loader => TypeOK'
  <1> SUFFICES ASSUME TypeOK, Loader PROVE TypeOK'
    OBVIOUS
  <1> USE DEF Index
  <1>1. CASE EraseEntry
    <2>1. otadata' \in [Index -> Entry]
      BY <1>1, Entries DEF EraseEntry, TypeOK
    <2>2. pc' \in Points
      BY <1>1 DEF EraseEntry, Points
    <2> QED BY <1>1, <2>1, <2>2 DEF EraseEntry, TypeOK
  <1>2. CASE WriteEntry
    <2>1. w \in Pending /\ w.value \in Entry /\ w.then \in Points
      BY DEF TypeOK, Pending
    <2>2. otadata' \in [Index -> Entry] /\ pc' \in Points
      BY <1>2, <2>1 DEF WriteEntry, TypeOK
    <2>3. image' \in [Candidate -> Image]
      BY <1>2, <2>1, VouchType DEF WriteEntry, TypeOK
    <2> QED BY <1>2, <2>2, <2>3 DEF WriteEntry, TypeOK
  <1>3. CASE ReadOtadata
    BY <1>3 DEF ReadOtadata, TypeOK, Points
  <1>4. CASE Rollback
    <2>1. CASE \E i \in Index : e' = [e EXCEPT ![i].state = "Aborted"]
                 /\ Rewrite(i, [e[i] EXCEPT !.state = "Aborted"], "rollback")
      <3>1. PICK i \in Index : e' = [e EXCEPT ![i].state = "Aborted"]
                 /\ Rewrite(i, [e[i] EXCEPT !.state = "Aborted"], "rollback")
        BY <2>1
      <3>2. e[i] \in Entry /\ "Aborted" \in States /\ "rollback" \in Points
        BY DEF TypeOK, States, Points
      <3>3. [e[i] EXCEPT !.state = "Aborted"] \in Entry
        BY <3>2, Restated
      <3>4. e' = [e EXCEPT ![i] = [e[i] EXCEPT !.state = "Aborted"]]
        BY <3>1 DEF TypeOK
      <3>5. e' \in [Index -> Entry]
        BY <3>3, <3>4 DEF TypeOK
      <3>6. w' \in Pending /\ pc' \in Points
        BY <3>1, <3>2, <3>3, RewriteType
      <3> QED BY <1>4, <3>5, <3>6 DEF Rollback, TypeOK, Pending
    <2>2. CASE pc' = "choose" /\ UNCHANGED <<e, w>>
      BY <1>4, <2>2 DEF Rollback, TypeOK, Points
    <2> QED BY <1>4, <2>1, <2>2 DEF Rollback
  <1>5. CASE ChooseNone
    <2>1. first' \in Candidate /\ initial' \in BOOLEAN
      BY <1>5, Slots DEF ChooseNone
    <2>2. pc' \in Points
      BY <1>5 DEF ChooseNone, Points
    <2> QED BY <1>5, <2>1, <2>2 DEF ChooseNone, TypeOK
  <1>6. CASE ChooseActive
    <2>1. PICK i \in Index :
             /\ IsActive(e, i)
             /\ first' = Named(e[i]) /\ initial' = FALSE
             /\ IF e[i].state = "New"
                  THEN /\ e' = [e EXCEPT ![i].state = "Pending"]
                       /\ Rewrite(i, [e[i] EXCEPT !.state = "Pending"], "try")
                  ELSE pc' = "try" /\ UNCHANGED <<e, w>>
      BY <1>6 DEF ChooseActive
    <2>2. e[i] \in Entry /\ first' \in Candidate /\ initial' \in BOOLEAN
      BY <2>1, ActiveType, Slots DEF TypeOK
    <2>3. CASE e[i].state = "New"
      <3>1. [e[i] EXCEPT !.state = "Pending"] \in Entry
        BY <2>2, Restated DEF States
      <3>2. e' = [e EXCEPT ![i] = [e[i] EXCEPT !.state = "Pending"]]
        BY <2>1, <2>3 DEF TypeOK
      <3>3. e' \in [Index -> Entry]
        BY <3>1, <3>2 DEF TypeOK
      <3>4. "try" \in Points
        BY DEF Points
      <3>5. w' \in Pending /\ pc' \in Points
        BY <2>1, <2>3, <3>1, <3>4, RewriteType
      <3> QED BY <1>6, <2>2, <3>3, <3>5 DEF ChooseActive, TypeOK, Pending
    <2>4. CASE e[i].state # "New"
      <3>1. pc' \in Points /\ UNCHANGED <<e, w>>
        BY <2>1, <2>4 DEF Points
      <3> QED BY <1>6, <2>2, <3>1 DEF ChooseActive, TypeOK
    <2> QED BY <2>3, <2>4
  <1>7. CASE TryCandidates
    <2>1. CASE \E c \in Candidate : choice' = c /\
                 IF initial /\ c \in Slot
                   THEN Rewrite(0, Fresh(c), "jump") ELSE pc' = "jump" /\ UNCHANGED w
      <3>1. PICK c \in Candidate : choice' = c /\
                 IF initial /\ c \in Slot
                   THEN Rewrite(0, Fresh(c), "jump") ELSE pc' = "jump" /\ UNCHANGED w
        BY <2>1
      <3>2. "jump" \in Points
        BY DEF Points
      <3>3. w' \in Pending /\ pc' \in Points
        BY <3>1, <3>2, Entries, RewriteType DEF TypeOK, Pending
      <3> QED BY <1>7, <3>1, <3>3 DEF TryCandidates, TypeOK, Pending
    <2>2. CASE pc' = "select" /\ UNCHANGED <<choice, w>>
      BY <1>7, <2>2 DEF TryCandidates, TypeOK, Points
    <2> QED BY <1>7, <2>1, <2>2 DEF TryCandidates
  <1>8. CASE Jump
    <2>1. running' \in Candidate /\ pc' \in Points
      BY <1>8 DEF Jump, TypeOK, Points
    <2>2. image' \in [Candidate -> Image]
      <3>1. image[choice] \in Image /\ image[choice].boots \in 0 .. 2
        BY DEF TypeOK, Image
      <3>2. (IF image[choice].boots < 2 THEN image[choice].boots + 1 ELSE image[choice].boots)
              \in 0 .. 2
        BY <3>1
      <3>3. PICK n \in 0 .. 2 :
               image' = [image EXCEPT ![choice] = [image[choice] EXCEPT !.boots = n]]
        BY <1>8, <3>2 DEF Jump, TypeOK
      <3>4. [image[choice] EXCEPT !.boots = n] \in Image
        BY <3>1 DEF Image
      <3> QED BY <3>3, <3>4 DEF TypeOK
    <2> QED BY <1>8, <2>1, <2>2 DEF Jump, TypeOK
  <1> QED BY <1>1, <1>2, <1>3, <1>4, <1>5, <1>6, <1>7, <1>8 DEF Loader

LEMMA AppType == TypeOK /\ (App \/ FlashFault \/ Reset) => TypeOK'
  <1> SUFFICES ASSUME TypeOK, App \/ FlashFault \/ Reset PROVE TypeOK'
    OBVIOUS
  <1> USE DEF Index
  <1>1. CASE Confirm
    <2>1. PICK i \in Index : /\ IsActive(otadata, i)
                             /\ Rewrite(i, [otadata[i] EXCEPT !.state = "Valid"], "run")
      BY <1>1 DEF Confirm
    <2>2. [otadata[i] EXCEPT !.state = "Valid"] \in Entry /\ "run" \in Points
      BY Restated DEF TypeOK, States, Points
    <2>3. w' \in Pending /\ pc' \in Points
      BY <2>1, <2>2, RewriteType
    <2>4. image' \in [Candidate -> Image]
      BY <1>1 DEF Confirm, TypeOK, Image
    <2> QED BY <1>1, <2>3, <2>4 DEF Confirm, TypeOK, Pending
  <1>2. ASSUME NEW c \in Slot, Download(c)
        PROVE  TypeOK'
    <2>1. PICK good \in BOOLEAN : image' = [image EXCEPT ![c] = UntriedImage(good)]
      BY <1>2 DEF Download
    <2>2. UntriedImage(good) \in Image
      BY DEF UntriedImage, Image
    <2>3. image' \in [Candidate -> Image]
      BY <2>1, <2>2 DEF TypeOK
    <2> QED BY <1>2, <2>3 DEF Download, TypeOK
  <1>3. ASSUME NEW c \in Slot, SetBoot(c)
        PROVE  TypeOK'
    <2>1. c \in Nat /\ "restart" \in Points
      BY OtaAssumption DEF Slot, Points
    <2>2. w' \in Pending /\ pc' \in Points
      <3>1. CASE \E i \in Index :
                   \E n \in otadata[i].seq + 1 .. otadata[i].seq + OtaCount :
                     Rewrite(1 - i, [seq |-> n, state |-> "New", crc |-> TRUE], "restart")
        <4>1. PICK i \in Index : \E n \in otadata[i].seq + 1 .. otadata[i].seq + OtaCount :
                     Rewrite(1 - i, [seq |-> n, state |-> "New", crc |-> TRUE], "restart")
          BY <3>1
        <4>2. otadata[i].seq \in Nat /\ 1 - i \in Index
          BY DEF TypeOK, Entry
        <4>3. PICK n \in otadata[i].seq + 1 .. otadata[i].seq + OtaCount :
                     Rewrite(1 - i, [seq |-> n, state |-> "New", crc |-> TRUE], "restart")
          BY <4>1
        <4>4. n \in Nat /\ n # 0
          BY <4>2
        <4>5. [seq |-> n, state |-> "New", crc |-> TRUE] \in Entry
          BY <4>4 DEF Entry, States, Blank
        <4> QED BY <4>3, <4>2, <4>5, <2>1, RewriteType
      <3>2. CASE Rewrite(0, [seq |-> c + 1, state |-> "New", crc |-> TRUE], "restart")
        <4>1. [seq |-> c + 1, state |-> "New", crc |-> TRUE] \in Entry
          BY <2>1 DEF Entry, States, Blank
        <4> QED BY <3>2, <4>1, <2>1, RewriteType
      <3> QED BY <1>3, <3>1, <3>2 DEF SetBoot
    <2>3. image' \in [Candidate -> Image]
      <3>1. c \in Candidate /\ image[c].good \in BOOLEAN
        BY Slots DEF TypeOK, Image
      <3>2. UntriedImage(image[c].good) \in Image
        BY <3>1 DEF UntriedImage, Image
      <3> QED BY <1>3, <3>1, <3>2 DEF SetBoot, TypeOK
    <2> QED BY <1>3, <2>2, <2>3 DEF SetBoot, TypeOK, Pending
  <1>4. CASE Restart
    BY <1>4 DEF Restart, TypeOK, Points
  <1>5. CASE FlashFault
    BY <1>5 DEF FlashFault, TypeOK
  <1>6. CASE Reset
    <2>1. otadata' \in [Index -> Entry]
      <3>1. w.value \in Entry /\ w.entry \in Index
        BY DEF TypeOK
      <3>2. CASE pc = "write"
        <4>1. PICK x \in CutShort(w.value) : otadata' = [otadata EXCEPT ![w.entry] = x]
          BY <1>6, <3>2 DEF Reset
        <4> QED BY <4>1, <3>1, TornEntries DEF TypeOK
      <3>3. CASE pc # "write"
        BY <1>6, <3>3 DEF Reset, TypeOK
      <3> QED BY <3>2, <3>3
    <2>2. pc' \in Points
      BY <1>6 DEF Reset, Points
    <2> QED BY <1>6, <2>1, <2>2 DEF Reset, TypeOK
  <1> QED BY <1>1, <1>2, <1>3, <1>4, <1>5, <1>6 DEF App

\* Whatever is cut short, refused or updated, and in whichever order, otadata holds two
\* entries that either name a slot of the table or fail their CRC, and the loader's and the
\* app's pending write is of such an entry (table.rs, select and write_entry).
THEOREM OtaTyped == Spec => []TypeOK
  <1>1. TypeOK /\ [Next]_vars => TypeOK'
    <2> SUFFICES ASSUME TypeOK, [Next]_vars PROVE TypeOK'
      OBVIOUS
    <2>1. CASE Next
      BY <2>1, LoaderType, AppType DEF Next
    <2>2. CASE UNCHANGED vars
      BY <2>2 DEF vars, TypeOK
    <2> QED BY <2>1, <2>2
  <1> QED BY <1>1, InitType, PTL DEF Spec

----------------------------------------------------------------------------
(***************************************************************************)
(* The image to return to, on a board without a factory app.  While a slot *)
(* holds a trusted image, an anchor entry names one as Valid, no erase or  *)
(* write in hand is of that entry, and the loader's copy of it is true;    *)
(* while none does, no entry passes its CRC, so no app confirms itself or  *)
(* updates the board, and the only write is the first start's.             *)
(***************************************************************************)
SlotTrusted == \E c \in Slot : image[c].trusted
Writing     == pc \in {"erase", "write"}
Reading     == \/ pc \in {"rollback", "choose", "try"}
               \/ Writing /\ w.then \in {"rollback", "try"}

Vouched(x) == x.state = "Valid" /\ x.crc = TRUE /\ image[Named(x)].trusted = TRUE
Dark(x)    == x.crc = FALSE /\ x.state \in {"Valid", "Undefined"}

Anchor(i) ==
  /\ Vouched(otadata[i])
  /\ Writing => w.entry = 1 - i
  /\ Reading => e[i] = otadata[i]

NoFactory ==
  /\ image[Factory].good = FALSE
  /\ choice \in Slot
  /\ pc = "run" \/ (Writing /\ w.then = "run") => running \in Slot
  /\ Writing => w.then \in {"rollback", "try", "jump", "run", "restart"}

Anchored ==
  SlotTrusted =>
    /\ \E i \in Index : Anchor(i)
    /\ pc = "try" \/ (Writing /\ w.then = "try") => initial = FALSE

Unvouched ==
  ~SlotTrusted =>
    /\ \A i \in Index : Dark(otadata[i]) /\ Dark(e[i])
    /\ Writing => w.then = "jump" /\ w.value.crc = TRUE /\ w.value.state = "Valid"

KeptInv == TypeOK /\ (factory = FALSE => NoFactory /\ Anchored /\ Unvouched)

LEMMA SameTrust ==
  ASSUME \A c \in Candidate : image'[c].trusted = image[c].trusted
  PROVE  SlotTrusted' <=> SlotTrusted
  BY Slots DEF SlotTrusted

LEMMA VouchedIsValid ==
  ASSUME NEW x \in Entry, x.state = "Valid", x.crc = TRUE
  PROVE  Valid(x)
  BY DEF Entry, Valid, Invalid

LEMMA OneIsActive ==
  ASSUME NEW d \in [Index -> Entry], NEW i \in Index, Valid(d[i])
  PROVE  \E j \in Index : IsActive(d, j)
  <1>1. d[0] \in Entry /\ d[1] \in Entry
    BY DEF Index
  <1>2. d[0].seq \in Nat /\ d[1].seq \in Nat
    BY <1>1 DEF Entry
  <1>3. i = 0 \/ i = 1
    BY DEF Index
  <1>4. CASE Valid(d[0]) /\ Valid(d[1])
    BY <1>2, <1>4 DEF IsActive, Index
  <1>5. CASE Valid(d[0]) /\ ~Valid(d[1])
    BY <1>5 DEF IsActive, Index
  <1>6. CASE ~Valid(d[0]) /\ Valid(d[1])
    BY <1>6 DEF IsActive, Index
  <1> QED BY <1>3, <1>4, <1>5, <1>6

LEMMA InitKept == Init => KeptInv
  <1> SUFFICES ASSUME Init PROVE KeptInv
    OBVIOUS
  <1>1. TypeOK
    BY InitType
  <1>2. ASSUME factory = FALSE
        PROVE  NoFactory /\ Anchored /\ Unvouched
    <2>1. PICK good \in [Candidate -> BOOLEAN] :
             /\ good[Factory] => factory
             /\ image = [c \in Candidate |->
                           [UntriedImage(good[c]) EXCEPT !.trusted = (c = Factory /\ factory)]]
      BY DEF Init
    <2>2. good[Factory] = FALSE
      BY <1>2, <2>1, Slots
    <2>3. \A c \in Candidate : image[c] = [UntriedImage(good[c]) EXCEPT
                                              !.trusted = (c = Factory /\ factory)]
      BY <2>1
    <2>4. \A c \in Candidate :
             image[c] = [UntriedImage(good[c]) EXCEPT !.trusted = FALSE]
      BY <1>2, <2>3
    <2>5. \A c \in Candidate : image[c].trusted = FALSE /\ image[c].good = good[c]
      BY <2>4 DEF UntriedImage
    <2>6. ~SlotTrusted
      BY <2>5, Slots DEF SlotTrusted
    <2>7. pc = "select" /\ choice = 0
          /\ otadata = [i \in Index |-> BlankEntry] /\ e = otadata
      BY DEF Init, Index
    <2>8. \A i \in Index : Dark(otadata[i]) /\ Dark(e[i])
      BY <2>7, Entries DEF Dark
    <2>9. NoFactory
      BY <2>2, <2>5, <2>7, Slots DEF NoFactory, Writing
    <2> QED BY <2>6, <2>7, <2>8, <2>9 DEF Anchored, Unvouched, Writing
  <1> QED BY <1>1, <1>2 DEF KeptInv

LEMMA KeptByErase ==
  ASSUME TypeOK, TypeOK', factory = FALSE, NoFactory, Anchored, Unvouched, EraseEntry
  PROVE  NoFactory' /\ Anchored' /\ Unvouched'
  <1> DEFINE j == w.entry
  <1>1. pc = "erase" /\ pc' = "write" /\ w' = w /\ e' = e /\ image' = image
        /\ choice' = choice /\ running' = running /\ initial' = initial
        /\ otadata' = [otadata EXCEPT ![j] = BlankEntry] /\ j \in Index
    BY DEF EraseEntry, TypeOK, Index
  <1>2. Writing /\ Writing' /\ (Reading' <=> Reading)
    BY <1>1 DEF Writing, Reading
  <1>3. SlotTrusted' <=> SlotTrusted
    BY <1>1, SameTrust
  <1>4. NoFactory'
    BY <1>1, <1>2 DEF NoFactory
  <1>5. ASSUME SlotTrusted
        PROVE  (\E i \in Index : Anchor(i))' /\ (w'.then = "try" => initial' = FALSE)
    <2>1. PICK i \in Index : Anchor(i)
      BY <1>5 DEF Anchored
    <2>2. j = 1 - i /\ i # j
      BY <2>1, <1>2 DEF Anchor, Index
    <2>3. otadata'[i] = otadata[i]
      BY <1>1, <2>2 DEF TypeOK, Index
    <2>4. Anchor(i)'
      BY <1>1, <1>2, <2>1, <2>3 DEF Anchor, Vouched
    <2> QED BY <1>1, <1>2, <1>5, <2>4 DEF Anchored
  <1>6. ASSUME ~SlotTrusted
        PROVE  /\ \A i \in Index : Dark(otadata'[i]) /\ Dark(e'[i])
               /\ w'.then = "jump" /\ w'.value.crc = TRUE /\ w'.value.state = "Valid"
    <2>1. \A i \in Index : Dark(otadata[i]) /\ Dark(e[i])
      BY <1>6 DEF Unvouched
    <2>2. Dark(BlankEntry)
      BY Entries DEF Dark
    <2>3. \A i \in Index : Dark(otadata'[i])
      BY <1>1, <2>1, <2>2 DEF TypeOK, Index
    <2> QED BY <1>1, <1>2, <1>6, <2>1, <2>3 DEF Unvouched
  <1> QED BY <1>1, <1>3, <1>4, <1>5, <1>6 DEF Anchored, Unvouched

LEMMA KeptByWrite ==
  ASSUME TypeOK, TypeOK', factory = FALSE, NoFactory, Anchored, Unvouched, WriteEntry
  PROVE  NoFactory' /\ Anchored' /\ Unvouched'
  <1> DEFINE j == w.entry
             v == w.value
  <1>1. pc = "write" /\ pc' = w.then /\ w' = w /\ e' = e
        /\ choice' = choice /\ running' = running /\ initial' = initial
        /\ otadata' = [otadata EXCEPT ![j] = v] /\ j \in Index /\ v \in Entry
    BY DEF WriteEntry, TypeOK, Index
  <1>2. Writing /\ w.then \in {"rollback", "try", "jump", "run", "restart"}
    BY <1>1 DEF Writing, NoFactory
  <1>3. ~Writing' /\ (Reading' => Reading)
    BY <1>1, <1>2 DEF Writing, Reading
  <1>4. Vouch(v)
    BY DEF WriteEntry
  <1>5. \A c \in Candidate : /\ image'[c].good = image[c].good
                             /\ image[c].trusted = TRUE => image'[c].trusted = TRUE
    <2>1. CASE v.state = "Valid"
      BY <1>4, <2>1 DEF Vouch, TypeOK, Image
    <2>2. CASE v.state # "Valid"
      BY <1>4, <2>2 DEF Vouch
    <2> QED BY <2>1, <2>2
  <1>6. NoFactory'
    <2>1. pc' = "run" => running' \in Slot
      BY <1>1, <1>2 DEF NoFactory
    <2>2. image'[Factory].good = FALSE /\ choice' \in Slot
      BY <1>1, <1>5, Slots DEF NoFactory
    <2> QED BY <1>3, <2>1, <2>2 DEF NoFactory
  <1>7. ASSUME SlotTrusted
        PROVE  SlotTrusted' /\ (\E i \in Index : Anchor(i))' /\ (pc' = "try" => initial' = FALSE)
    <2>1. PICK i \in Index : Anchor(i)
      BY <1>7 DEF Anchored
    <2>2. j = 1 - i /\ i # j
      BY <2>1, <1>2 DEF Anchor, Index
    <2>3. otadata'[i] = otadata[i] /\ otadata[i] \in Entry
      BY <1>1, <2>2 DEF TypeOK, Index
    <2>4. Named(otadata[i]) \in Slot /\ image[Named(otadata[i])].trusted = TRUE
      BY <2>1, <2>3, NamedIsSlot DEF Anchor, Vouched
    <2>5. image'[Named(otadata[i])].trusted = TRUE
      BY <2>4, <1>5, Slots
    <2>6. Vouched(otadata[i])'
      BY <2>1, <2>3, <2>5 DEF Anchor, Vouched, Named
    <2>7. Anchor(i)'
      BY <1>1, <1>3, <2>1, <2>3, <2>6 DEF Anchor
    <2>8. SlotTrusted'
      BY <2>4, <2>5 DEF SlotTrusted
    <2>9. pc' = "try" => initial' = FALSE
      BY <1>1, <1>2, <1>7 DEF Anchored
    <2> QED BY <2>7, <2>8, <2>9
  <1>8. ASSUME ~SlotTrusted
        PROVE  SlotTrusted' /\ (\E i \in Index : Anchor(i))' /\ pc' # "try"
    <2>1. pc' = "jump" /\ v.crc = TRUE /\ v.state = "Valid"
      BY <1>1, <1>2, <1>8 DEF Unvouched
    <2>2. Named(v) \in Slot /\ otadata'[j] = v
      BY <1>1, <2>1, NamedIsSlot DEF TypeOK, Index
    <2>3. image'[Named(v)].trusted = TRUE
      BY <1>4, <2>1, <2>2, Slots DEF Vouch, TypeOK, Image
    <2>4. SlotTrusted'
      BY <2>2, <2>3 DEF SlotTrusted
    <2>5. Vouched(otadata[j])'
      BY <1>1, <2>1, <2>2, <2>3 DEF Vouched, Named
    <2>6. ~Reading'
      BY <1>3, <2>1 DEF Reading
    <2>7. Anchor(j)'
      BY <1>1, <1>3, <2>5, <2>6 DEF Anchor
    <2> QED BY <1>1, <2>1, <2>4, <2>7
  <1> QED BY <1>3, <1>6, <1>7, <1>8 DEF Anchored, Unvouched

LEMMA KeptByRead ==
  ASSUME TypeOK, TypeOK', factory = FALSE, NoFactory, Anchored, Unvouched, ReadOtadata
  PROVE  NoFactory' /\ Anchored' /\ Unvouched'
  <1>1. e' = otadata /\ pc' = "rollback" /\ otadata' = otadata /\ image' = image
        /\ choice' = choice
    BY DEF ReadOtadata
  <1>2. ~Writing'
    BY <1>1 DEF Writing
  <1>3. SlotTrusted' <=> SlotTrusted
    BY <1>1, SameTrust
  <1>4. NoFactory'
    BY <1>1, <1>2 DEF NoFactory
  <1>5. SlotTrusted => (\E i \in Index : Anchor(i))'
    BY <1>1, <1>2 DEF Anchored, Anchor, Vouched
  <1>6. ~SlotTrusted => \A i \in Index : Dark(otadata'[i]) /\ Dark(e'[i])
    BY <1>1 DEF Unvouched
  <1> QED BY <1>1, <1>2, <1>3, <1>4, <1>5, <1>6 DEF Anchored, Unvouched

LEMMA KeptByRollback ==
  ASSUME TypeOK, TypeOK', factory = FALSE, NoFactory, Anchored, Unvouched, Rollback
  PROVE  NoFactory' /\ Anchored' /\ Unvouched'
  <1>1. pc = "rollback" /\ otadata' = otadata /\ image' = image /\ choice' = choice
        /\ initial' = initial
    BY DEF Rollback
  <1>2. Reading /\ ~Writing
    BY <1>1 DEF Reading, Writing
  <1>3. SlotTrusted' <=> SlotTrusted
    BY <1>1, SameTrust
  <1>4. CASE \E i \in Index : /\ IsFirstPending(i) /\ e' = [e EXCEPT ![i].state = "Aborted"]
                             /\ Rewrite(i, [e[i] EXCEPT !.state = "Aborted"], "rollback")
    <2>1. PICK k \in Index : /\ IsFirstPending(k) /\ e' = [e EXCEPT ![k].state = "Aborted"]
                             /\ Rewrite(k, [e[k] EXCEPT !.state = "Aborted"], "rollback")
      BY <1>4
    <2>2. e[k].state = "Pending"
      BY <2>1 DEF IsFirstPending
    <2>3. pc' = "erase" /\ w'.entry = k /\ w'.then = "rollback"
      BY <2>1 DEF Rewrite
    <2>4. SlotTrusted
      BY <2>2 DEF Unvouched, Dark
    <2>5. PICK i \in Index : Anchor(i)
      BY <2>4 DEF Anchored
    <2>6. e[i] = otadata[i] /\ e[i].state = "Valid"
      BY <1>2, <2>5 DEF Anchor, Vouched
    <2>7. i # k /\ k = 1 - i
      BY <2>2, <2>6 DEF Index
    <2>8. e'[i] = e[i]
      BY <2>1, <2>7 DEF TypeOK, Index
    <2>9. Anchor(i)'
      BY <1>1, <2>3, <2>5, <2>6, <2>7, <2>8 DEF Anchor, Vouched
    <2>10. NoFactory'
      BY <1>1, <2>3 DEF NoFactory
    <2> QED BY <1>3, <2>3, <2>4, <2>9, <2>10 DEF Anchored, Unvouched
  <1>5. CASE pc' = "choose" /\ UNCHANGED <<e, w>>
    <2>1. ~Writing' /\ Reading'
      BY <1>5 DEF Writing, Reading
    <2>2. NoFactory'
      BY <1>1, <1>5, <2>1 DEF NoFactory
    <2>3. SlotTrusted => (\E i \in Index : Anchor(i))'
      BY <1>1, <1>2, <1>5, <2>1 DEF Anchored, Anchor, Vouched
    <2>4. ~SlotTrusted => \A i \in Index : Dark(otadata'[i]) /\ Dark(e'[i])
      BY <1>1, <1>5 DEF Unvouched
    <2> QED BY <1>3, <1>5, <2>1, <2>2, <2>3, <2>4 DEF Anchored, Unvouched
  <1> QED BY <1>4, <1>5 DEF Rollback, Index

LEMMA KeptByChooseNone ==
  ASSUME TypeOK, TypeOK', factory = FALSE, NoFactory, Anchored, Unvouched, ChooseNone
  PROVE  NoFactory' /\ Anchored' /\ Unvouched'
  <1>1. pc = "choose" /\ pc' = "try" /\ otadata' = otadata /\ image' = image /\ e' = e
        /\ choice' = choice /\ \A i \in Index : ~Valid(e[i])
    BY DEF ChooseNone, BothInvalid, Valid, Index
  <1>2. Reading /\ ~Writing'
    BY <1>1 DEF Reading, Writing
  <1>3. SlotTrusted' <=> SlotTrusted
    BY <1>1, SameTrust
  <1>4. ~SlotTrusted
    <2>1. SUFFICES ASSUME SlotTrusted PROVE FALSE
      OBVIOUS
    <2>2. PICK i \in Index : Anchor(i)
      BY <2>1 DEF Anchored
    <2>3. e[i] \in Entry /\ e[i].state = "Valid" /\ e[i].crc = TRUE
      BY <1>2, <2>2 DEF Anchor, Vouched, TypeOK, Index
    <2> QED BY <1>1, <2>3, VouchedIsValid
  <1>5. NoFactory'
    BY <1>1, <1>2 DEF NoFactory
  <1> QED BY <1>1, <1>2, <1>3, <1>4, <1>5 DEF Anchored, Unvouched

LEMMA KeptByChooseActive ==
  ASSUME TypeOK, TypeOK', factory = FALSE, NoFactory, Anchored, Unvouched, ChooseActive
  PROVE  NoFactory' /\ Anchored' /\ Unvouched'
  <1>1. pc = "choose" /\ otadata' = otadata /\ image' = image /\ choice' = choice
    BY DEF ChooseActive
  <1>2. PICK k \in Index :
           /\ IsActive(e, k)
           /\ initial' = FALSE
           /\ IF e[k].state = "New"
                THEN /\ e' = [e EXCEPT ![k].state = "Pending"]
                     /\ Rewrite(k, [e[k] EXCEPT !.state = "Pending"], "try")
                ELSE pc' = "try" /\ UNCHANGED <<e, w>>
    BY DEF ChooseActive, Index
  <1>3. Reading
    BY <1>1 DEF Reading
  <1>4. SlotTrusted' <=> SlotTrusted
    BY <1>1, SameTrust
  <1>5. e[k].crc
    BY <1>2 DEF IsActive, Valid
  <1>6. SlotTrusted
    BY <1>5 DEF Unvouched, Dark
  <1>7. PICK i \in Index : Anchor(i)
    BY <1>6 DEF Anchored
  <1>8. e[i] = otadata[i] /\ e[i].state = "Valid"
    BY <1>3, <1>7 DEF Anchor, Vouched
  <1>9. CASE e[k].state = "New"
    <2>1. i # k /\ k = 1 - i
      BY <1>8, <1>9 DEF Index
    <2>2. pc' = "erase" /\ w'.entry = k /\ w'.then = "try"
      BY <1>2, <1>9 DEF Rewrite
    <2>3. e'[i] = e[i]
      BY <1>2, <1>9, <2>1 DEF TypeOK, Index
    <2>4. Anchor(i)'
      BY <1>1, <1>7, <1>8, <2>1, <2>2, <2>3 DEF Anchor, Vouched
    <2>5. NoFactory'
      BY <1>1, <2>2 DEF NoFactory
    <2> QED BY <1>2, <1>4, <1>6, <2>4, <2>5 DEF Anchored, Unvouched
  <1>10. CASE e[k].state # "New"
    <2>1. pc' = "try" /\ e' = e
      BY <1>2, <1>10
    <2>2. ~Writing'
      BY <2>1 DEF Writing
    <2>3. Anchor(i)'
      BY <1>1, <1>7, <1>8, <2>1, <2>2 DEF Anchor, Vouched
    <2>4. NoFactory'
      BY <1>1, <2>1, <2>2 DEF NoFactory
    <2> QED BY <1>2, <1>4, <1>6, <2>3, <2>4 DEF Anchored, Unvouched
  <1> QED BY <1>9, <1>10

LEMMA KeptByTry ==
  ASSUME TypeOK, TypeOK', factory = FALSE, NoFactory, Anchored, Unvouched, TryCandidates
  PROVE  NoFactory' /\ Anchored' /\ Unvouched'
  <1>1. pc = "try" /\ otadata' = otadata /\ image' = image /\ e' = e /\ initial' = initial
    BY DEF TryCandidates
  <1>2. SlotTrusted' <=> SlotTrusted
    BY <1>1, SameTrust
  <1>3. CASE \E c \in Candidate : /\ Starts(c) /\ choice' = c
                 /\ IF initial /\ c \in Slot
                      THEN Rewrite(0, Fresh(c), "jump") ELSE pc' = "jump" /\ UNCHANGED w
    <2>1. PICK c \in Candidate : /\ Starts(c) /\ choice' = c
                 /\ IF initial /\ c \in Slot
                      THEN Rewrite(0, Fresh(c), "jump") ELSE pc' = "jump" /\ UNCHANGED w
      BY <1>3
    <2>2. c \in Slot
      BY <2>1, Slots DEF Starts, NoFactory
    <2>3. CASE initial
      <3>1. ~SlotTrusted
        BY <1>1, <2>3 DEF Anchored
      <3>2. pc' = "erase" /\ w'.value = Fresh(c) /\ w'.then = "jump"
        BY <2>1, <2>2, <2>3 DEF Rewrite
      <3>3. w'.value.crc = TRUE /\ w'.value.state = "Valid"
        BY <2>2, <3>2 DEF Fresh
      <3>4. NoFactory'
        BY <1>1, <2>1, <2>2, <3>2 DEF NoFactory
      <3> QED BY <1>1, <1>2, <3>1, <3>2, <3>3, <3>4 DEF Anchored, Unvouched
    <2>4. CASE ~initial
      <3>1. pc' = "jump"
        BY <2>1, <2>4
      <3>2. ~Writing' /\ ~Reading'
        BY <3>1 DEF Writing, Reading
      <3>3. NoFactory'
        BY <1>1, <2>1, <2>2, <3>1, <3>2 DEF NoFactory
      <3>4. SlotTrusted => (\E i \in Index : Anchor(i))'
        BY <1>1, <3>2 DEF Anchored, Anchor, Vouched
      <3> QED BY <1>1, <1>2, <3>1, <3>2, <3>3, <3>4 DEF Anchored, Unvouched
    <2> QED BY <2>3, <2>4
  <1>4. CASE pc' = "select" /\ UNCHANGED <<choice, w>>
    <2>1. ~Writing' /\ ~Reading'
      BY <1>4 DEF Writing, Reading
    <2>2. NoFactory'
      BY <1>1, <1>4, <2>1 DEF NoFactory
    <2>3. SlotTrusted => (\E i \in Index : Anchor(i))'
      BY <1>1, <2>1 DEF Anchored, Anchor, Vouched
    <2> QED BY <1>1, <1>2, <1>4, <2>1, <2>2, <2>3 DEF Anchored, Unvouched
  <1> QED BY <1>3, <1>4 DEF TryCandidates

LEMMA KeptByJump ==
  ASSUME TypeOK, TypeOK', factory = FALSE, NoFactory, Anchored, Unvouched, Jump
  PROVE  NoFactory' /\ Anchored' /\ Unvouched'
  <1>1. pc = "jump" /\ pc' = "run" /\ otadata' = otadata /\ e' = e /\ choice' = choice
        /\ running' = choice
        /\ image' = [image EXCEPT ![choice].boots =
                        IF image[choice].boots < 2 THEN image[choice].boots + 1
                                                   ELSE image[choice].boots]
    BY DEF Jump
  <1>2. \A c \in Candidate : /\ image'[c].trusted = image[c].trusted
                             /\ image'[c].good = image[c].good
    BY <1>1 DEF TypeOK, Image
  <1>3. SlotTrusted' <=> SlotTrusted
    BY <1>2, SameTrust
  <1>4. ~Writing' /\ ~Reading'
    BY <1>1 DEF Writing, Reading
  <1>5. NoFactory'
    BY <1>1, <1>2, <1>4, Slots DEF NoFactory
  <1>6. SlotTrusted => (\E i \in Index : Anchor(i))'
    <2>1. SUFFICES ASSUME SlotTrusted PROVE (\E i \in Index : Anchor(i))'
      OBVIOUS
    <2>2. PICK i \in Index : Anchor(i)
      BY <2>1 DEF Anchored
    <2>3. otadata[i] \in Entry /\ otadata[i].state = "Valid" /\ otadata[i].crc = TRUE
          /\ image[Named(otadata[i])].trusted = TRUE
      BY <2>2 DEF Anchor, Vouched, TypeOK, Index
    <2>4. image'[Named(otadata[i])].trusted = TRUE
      BY <1>2, <2>3, NamedIsSlot, Slots
    <2>5. Anchor(i)'
      BY <1>1, <1>4, <2>3, <2>4 DEF Anchor, Vouched, Named
    <2> QED BY <2>5
  <1> QED BY <1>1, <1>3, <1>4, <1>5, <1>6 DEF Anchored, Unvouched

LEMMA KeptByConfirm ==
  ASSUME TypeOK, TypeOK', factory = FALSE, NoFactory, Anchored, Unvouched, Confirm
  PROVE  NoFactory' /\ Anchored' /\ Unvouched'
  <1>1. pc = "run" /\ running \in Slot /\ otadata' = otadata /\ e' = e /\ choice' = choice
        /\ running' = running /\ initial' = initial
        /\ image' = [image EXCEPT ![running].trusted = TRUE]
    BY DEF Confirm
  <1>2. PICK k \in Index : /\ IsActive(otadata, k) /\ otadata[k].state = "Pending"
                           /\ Rewrite(k, [otadata[k] EXCEPT !.state = "Valid"], "run")
    BY DEF Confirm, Index
  <1>3. otadata[k].crc
    BY <1>2 DEF IsActive, Valid
  <1>4. SlotTrusted
    BY <1>3 DEF Unvouched, Dark
  <1>5. PICK i \in Index : Anchor(i)
    BY <1>4 DEF Anchored
  <1>6. otadata[i] \in Entry /\ otadata[i].state = "Valid" /\ otadata[i].crc = TRUE
        /\ image[Named(otadata[i])].trusted = TRUE
    BY <1>5 DEF Anchor, Vouched, TypeOK, Index
  <1>7. i # k /\ k = 1 - i
    BY <1>2, <1>6 DEF Index
  <1>8. pc' = "erase" /\ w'.entry = k /\ w'.then = "run"
    BY <1>2 DEF Rewrite
  <1>9. \A c \in Candidate : /\ image'[c].good = image[c].good
                             /\ image[c].trusted = TRUE => image'[c].trusted = TRUE
    BY <1>1 DEF TypeOK, Image
  <1>10. image'[running].trusted = TRUE
    BY <1>1, Slots DEF TypeOK, Image
  <1>11. SlotTrusted'
    BY <1>1, <1>10 DEF SlotTrusted
  <1>12. image'[Named(otadata[i])].trusted = TRUE
    BY <1>6, <1>9, NamedIsSlot, Slots
  <1>13. ~Reading'
    BY <1>8 DEF Reading
  <1>14. Anchor(i)'
    BY <1>1, <1>6, <1>7, <1>8, <1>12, <1>13 DEF Anchor, Vouched, Named
  <1>15. NoFactory'
    BY <1>1, <1>8, <1>9, Slots DEF NoFactory
  <1> QED BY <1>8, <1>11, <1>14, <1>15 DEF Anchored, Unvouched

\* an app that may update the board runs from the slot an anchor names, so what it does to
\* another slot and to the other entry leaves that anchor
LEMMA UpdaterIsAnchored ==
  ASSUME TypeOK, factory = FALSE, NoFactory, Anchored, Updates
  PROVE  /\ pc = "run" /\ running \in Slot /\ image[running].trusted = TRUE
         /\ \E i \in Index : /\ IsActive(otadata, i) /\ Vouched(otadata[i])
                             /\ Named(otadata[i]) = running
  <1>1. pc = "run"
    BY DEF Updates
  <1>2. running \in Slot /\ running # Factory
    BY <1>1, Slots DEF NoFactory
  <1>3. image[running].trusted = TRUE
    <2>1. image[running].trusted
      BY DEF Updates
    <2>2. image[running].trusted \in BOOLEAN
      BY <1>2, Slots DEF TypeOK, Image
    <2> QED BY <2>1, <2>2
  <1>4. SlotTrusted
    BY <1>2, <1>3 DEF SlotTrusted
  <1>5. PICK k \in Index : Anchor(k)
    BY <1>4 DEF Anchored
  <1>6. otadata[k] \in Entry /\ otadata[k].state = "Valid" /\ otadata[k].crc = TRUE
        /\ otadata \in [Index -> Entry]
    BY <1>5 DEF Anchor, Vouched, TypeOK, Index
  <1>7. PICK i \in Index : IsActive(otadata, i)
    BY <1>6, VouchedIsValid, OneIsActive
  <1>8. Named(otadata[i]) = running /\ otadata[i].state = "Valid"
    BY <1>2, <1>7 DEF Updates, Index
  <1>9. otadata[i].crc = TRUE
    BY <1>6, <1>7 DEF IsActive, Valid, Entry
  <1>10. Vouched(otadata[i])
    BY <1>3, <1>8, <1>9 DEF Vouched
  <1> QED BY <1>1, <1>2, <1>3, <1>7, <1>8, <1>10

LEMMA OthersAsTheyWere ==
  ASSUME TypeOK, NEW c \in Slot, NEW good \in BOOLEAN,
         image' = [image EXCEPT ![c] = UntriedImage(good)]
  PROVE  /\ image'[Factory].good = image[Factory].good
         /\ \A d \in Candidate : d # c => image'[d] = image[d]
  <1>1. \A d \in Candidate : d # c => image'[d] = image[d]
    BY DEF TypeOK
  <1> QED BY <1>1, Slots

LEMMA KeptByDownload ==
  ASSUME TypeOK, TypeOK', factory = FALSE, NoFactory, Anchored, Unvouched, NEW c \in Slot, Download(c)
  PROVE  NoFactory' /\ Anchored' /\ Unvouched'
  <1>1. pc' = pc /\ otadata' = otadata /\ e' = e /\ w' = w /\ choice' = choice
        /\ running' = running /\ initial' = initial /\ Updates /\ c # running
    BY DEF Download
  <1>2. PICK good \in BOOLEAN : image' = [image EXCEPT ![c] = UntriedImage(good)]
    BY DEF Download
  <1>3. pc = "run" /\ running \in Slot /\ image[running].trusted = TRUE
        /\ \E i \in Index : IsActive(otadata, i) /\ Vouched(otadata[i])
                             /\ Named(otadata[i]) = running
    BY <1>1, UpdaterIsAnchored
  <1>4. image'[Factory].good = FALSE /\ image'[running].trusted = TRUE
    BY <1>1, <1>2, <1>3, OthersAsTheyWere, Slots DEF NoFactory
  <1>5. ~Writing' /\ ~Reading'
    BY <1>1, <1>3 DEF Writing, Reading
  <1>6. PICK i \in Index : Vouched(otadata[i]) /\ Named(otadata[i]) = running
    BY <1>3
  <1>7. Anchor(i)'
    BY <1>1, <1>4, <1>5, <1>6 DEF Anchor, Vouched, Named
  <1>8. SlotTrusted'
    BY <1>3, <1>4 DEF SlotTrusted
  <1>9. NoFactory'
    BY <1>1, <1>3, <1>4, <1>5 DEF NoFactory
  <1> QED BY <1>1, <1>3, <1>5, <1>7, <1>8, <1>9 DEF Anchored, Unvouched

LEMMA KeptBySetBoot ==
  ASSUME TypeOK, TypeOK', factory = FALSE, NoFactory, Anchored, Unvouched, NEW c \in Slot, SetBoot(c)
  PROVE  NoFactory' /\ Anchored' /\ Unvouched'
  <1>1. otadata' = otadata /\ e' = e /\ choice' = choice /\ running' = running
        /\ Updates /\ c # running /\ image' = [image EXCEPT ![c] = UntriedImage(image[c].good)]
    BY DEF SetBoot
  <1>2. pc = "run" /\ running \in Slot /\ image[running].trusted = TRUE
        /\ \E i \in Index : IsActive(otadata, i) /\ Vouched(otadata[i])
                             /\ Named(otadata[i]) = running
    BY <1>1, UpdaterIsAnchored
  <1>3. image[c].good \in BOOLEAN
    BY Slots DEF TypeOK, Image
  <1>4. image'[Factory].good = FALSE /\ image'[running].trusted = TRUE
    BY <1>1, <1>2, <1>3, OthersAsTheyWere, Slots DEF NoFactory
  <1>5. PICK a \in Index : IsActive(otadata, a)
    BY <1>2
  <1>6. Valid(otadata[a])
    BY <1>5 DEF IsActive
  <1>7. PICK i \in Index : /\ IsActive(otadata, i) /\ pc' = "erase" /\ w'.entry = 1 - i
                           /\ w'.then = "restart"
    BY <1>6 DEF SetBoot, Rewrite, Index
  <1>8. Vouched(otadata[i]) /\ Named(otadata[i]) = running
    <2>1. PICK k \in Index : /\ IsActive(otadata, k) /\ Vouched(otadata[k])
                             /\ Named(otadata[k]) = running
      BY <1>2
    <2>2. otadata[0].seq \in Nat /\ otadata[1].seq \in Nat
      <3>1. otadata[0] \in Entry /\ otadata[1] \in Entry
        BY DEF TypeOK
      <3> QED BY <3>1 DEF Entry
    <2>3. k = i
      BY <1>7, <2>1, <2>2 DEF IsActive, Index
    <2> QED BY <2>1, <2>3
  <1>9. ~Reading'
    BY <1>7 DEF Reading
  <1>10. Anchor(i)'
    BY <1>1, <1>4, <1>7, <1>8, <1>9 DEF Anchor, Vouched, Named
  <1>11. SlotTrusted'
    BY <1>1, <1>2, <1>4 DEF SlotTrusted
  <1>12. NoFactory'
    BY <1>1, <1>4, <1>7 DEF NoFactory
  <1> QED BY <1>7, <1>10, <1>11, <1>12 DEF Anchored, Unvouched

LEMMA KeptByRestart ==
  ASSUME TypeOK, TypeOK', factory = FALSE, NoFactory, Anchored, Unvouched, Restart
  PROVE  NoFactory' /\ Anchored' /\ Unvouched'
  <1>1. pc' = "select" /\ otadata' = otadata /\ e' = e /\ choice' = choice /\ image' = image
    BY DEF Restart
  <1>2. ~Writing' /\ ~Reading'
    BY <1>1 DEF Writing, Reading
  <1>3. SlotTrusted' <=> SlotTrusted
    BY <1>1, SameTrust
  <1>4. NoFactory'
    BY <1>1, <1>2 DEF NoFactory
  <1>5. SlotTrusted => (\E i \in Index : Anchor(i))'
    BY <1>1, <1>2 DEF Anchored, Anchor, Vouched
  <1> QED BY <1>1, <1>2, <1>3, <1>4, <1>5 DEF Anchored, Unvouched

LEMMA KeptByFault ==
  ASSUME TypeOK, TypeOK', factory = FALSE, NoFactory, Anchored, Unvouched, FlashFault
  PROVE  NoFactory' /\ Anchored' /\ Unvouched'
  <1>1. pc' = w.then /\ otadata' = otadata /\ e' = e /\ w' = w /\ choice' = choice
        /\ image' = image /\ running' = running /\ initial' = initial
        /\ pc \in {"erase", "write"}
    BY DEF FlashFault
  <1>2. Writing /\ w.then \in {"rollback", "try", "jump", "run", "restart"}
    BY <1>1 DEF Writing, NoFactory
  <1>3. ~Writing' /\ (Reading' => Reading)
    BY <1>1, <1>2 DEF Writing, Reading
  <1>4. SlotTrusted' <=> SlotTrusted
    BY <1>1, SameTrust
  <1>5. NoFactory'
    BY <1>1, <1>2, <1>3 DEF NoFactory
  <1>6. SlotTrusted => (\E i \in Index : Anchor(i))'
    BY <1>1, <1>3 DEF Anchored, Anchor, Vouched
  <1>7. SlotTrusted => (pc' = "try" => initial' = FALSE)
    BY <1>1, <1>2 DEF Anchored
  <1> QED BY <1>1, <1>3, <1>4, <1>5, <1>6, <1>7 DEF Anchored, Unvouched

LEMMA KeptByReset ==
  ASSUME TypeOK, TypeOK', factory = FALSE, NoFactory, Anchored, Unvouched, Reset
  PROVE  NoFactory' /\ Anchored' /\ Unvouched'
  <1> DEFINE j == w.entry
  <1>1. pc' = "select" /\ e' = e /\ choice' = choice /\ image' = image
        /\ j \in Index /\ w.value \in Entry
    BY DEF Reset, TypeOK, Index
  <1>2. ~Writing' /\ ~Reading'
    BY <1>1 DEF Writing, Reading
  <1>3. SlotTrusted' <=> SlotTrusted
    BY <1>1, SameTrust
  <1>4. NoFactory'
    BY <1>1, <1>2 DEF NoFactory
  <1>5. CASE pc = "write"
    <2>1. PICK x \in CutShort(w.value) : otadata' = [otadata EXCEPT ![j] = x]
      BY <1>5 DEF Reset
    <2>2. x.crc = FALSE /\ (x.state = w.value.state \/ x.state = "Undefined")
      BY <1>1, TornEntries
    <2>3. Writing
      BY <1>5 DEF Writing
    <2>4. ASSUME SlotTrusted
          PROVE  (\E i \in Index : Anchor(i))'
      <3>1. PICK i \in Index : Anchor(i)
        BY <2>4 DEF Anchored
      <3>2. i # j
        BY <2>3, <3>1 DEF Anchor, Index
      <3>3. otadata'[i] = otadata[i]
        BY <2>1, <3>2 DEF TypeOK, Index
      <3>4. Anchor(i)'
        BY <1>1, <1>2, <3>1, <3>3 DEF Anchor, Vouched
      <3> QED BY <3>4
    <2>5. ASSUME ~SlotTrusted
          PROVE  \A i \in Index : Dark(otadata'[i]) /\ Dark(e'[i])
      <3>1. (\A i \in Index : Dark(otadata[i]) /\ Dark(e[i])) /\ w.value.state = "Valid"
        BY <2>3, <2>5 DEF Unvouched
      <3>2. Dark(x)
        BY <2>2, <3>1 DEF Dark
      <3> QED BY <1>1, <2>1, <3>1, <3>2 DEF TypeOK, Index
    <2> QED BY <1>1, <1>2, <1>3, <1>4, <2>4, <2>5 DEF Anchored, Unvouched
  <1>6. CASE pc # "write"
    <2>1. otadata' = otadata
      BY <1>6 DEF Reset
    <2>2. SlotTrusted => (\E i \in Index : Anchor(i))'
      BY <1>1, <1>2, <2>1 DEF Anchored, Anchor, Vouched
    <2> QED BY <1>1, <1>2, <1>3, <1>4, <2>1, <2>2 DEF Anchored, Unvouched
  <1> QED BY <1>5, <1>6

\* Both the shape of otadata and the way back hold through every interleaving of loader and
\* app steps, power cuts and failed flash operations (table.rs, main.rs).
THEOREM OtaInductive == Spec => []KeptInv
  <1>1. KeptInv /\ [Next]_vars => KeptInv'
    <2> SUFFICES ASSUME KeptInv, [Next]_vars PROVE KeptInv'
      OBVIOUS
    <2>1. TypeOK /\ TypeOK'
      <3>1. TypeOK
        BY DEF KeptInv
      <3>2. CASE Next
        BY <3>1, <3>2, LoaderType, AppType DEF Next
      <3>3. CASE UNCHANGED vars
        BY <3>1, <3>3 DEF vars, TypeOK
      <3> QED BY <3>1, <3>2, <3>3
    <2>2. CASE Next
      <3>1. factory' = factory
        BY <2>2 DEF Next, Loader, App, EraseEntry, WriteEntry, ReadOtadata, Rollback, ChooseNone,
             ChooseActive, TryCandidates, Jump, Confirm, Restart, Download, SetBoot, FlashFault,
             Reset
      <3>2. ASSUME factory = FALSE
            PROVE  NoFactory' /\ Anchored' /\ Unvouched'
        <4>1. NoFactory /\ Anchored /\ Unvouched
          BY <3>2 DEF KeptInv
        <4>2. CASE Loader
          BY <2>1, <3>2, <4>1, <4>2, KeptByErase, KeptByWrite, KeptByRead, KeptByRollback,
             KeptByChooseNone, KeptByChooseActive, KeptByTry, KeptByJump DEF Loader
        <4>3. CASE App
          BY <2>1, <3>2, <4>1, <4>3, KeptByConfirm, KeptByRestart, KeptByDownload, KeptBySetBoot
             DEF App
        <4>4. CASE FlashFault \/ Reset
          BY <2>1, <3>2, <4>1, <4>4, KeptByFault, KeptByReset
        <4> QED BY <2>2, <4>2, <4>3, <4>4 DEF Next
      <3> QED BY <2>1, <3>1, <3>2 DEF KeptInv
    <2>3. CASE UNCHANGED vars
      <3>1. KeptInv' <=> KeptInv
        BY <2>3 DEF vars, KeptInv, TypeOK, NoFactory, Anchored, Unvouched, SlotTrusted, Anchor,
             Vouched, Dark, Writing, Reading
      <3> QED BY <3>1
    <2> QED BY <2>2, <2>3
  <1> QED BY <1>1, InitKept, PTL DEF Spec

\* An update never costs the board the image it can return to, for any number of OTA slots and
\* of updates, and whichever erases and writes of otadata fail or are cut short (table.rs,
\* write_entry between its erase and its write).
THEOREM WayBackKept == Spec => []TrustedEntryKept
  <1>1. KeptInv => TrustedEntryKept
    <2> SUFFICES ASSUME KeptInv, \E c \in Slot : image[c].trusted, ~factory
                 PROVE  \E i \in Index : Valid(otadata[i]) /\ image[Named(otadata[i])].trusted
      BY DEF TrustedEntryKept, Index
    <2>1. factory = FALSE
      BY DEF KeptInv, TypeOK
    <2>2. PICK i \in Index : Anchor(i)
      BY <2>1 DEF KeptInv, Anchored, SlotTrusted
    <2>3. otadata[i] \in Entry
      BY DEF KeptInv, TypeOK, Index
    <2> QED BY <2>2, <2>3, VouchedIsValid DEF Anchor, Vouched
  <1> QED BY <1>1, OtaInductive, PTL

----------------------------------------------------------------------------
(***************************************************************************)
(* An image gets one try.  While no flash operation fails, otadata knows   *)
(* every image that was named and never started: its entry is New, newer   *)
(* than the other, and select marks it Pending before anything is started; *)
(* the next boot aborts a Pending entry, so the slot it names is not       *)
(* chosen twice.  An image replaced after it was confirmed leaves a Valid  *)
(* entry behind that names what was never tried (a stale one): it stays    *)
(* covered by the newer entry of the app that replaced it, and it is the   *)
(* one that is rewritten.                                                  *)
(***************************************************************************)
Opposite(i) == 1 - i

\* nothing runs but the loader
Loading == \/ pc \in {"select", "rollback", "choose", "try", "jump"}
           \/ Writing /\ w.then \in {"rollback", "try", "jump"}

Fresher(x, y) == Valid(y) => y.seq < x.seq

\* a complete entry that names its image for a first try
Offers(x) == Valid(x) /\ x.state = "New"

\* a complete entry whose image was replaced after it was confirmed
Stale(x) == Valid(x) /\ x.state = "Valid" /\ image[Named(x)].trusted = FALSE

\* the loader's copies are what flash holds, or will hold when the write in hand is done
CopiesTrue ==
  /\ pc \in {"rollback", "choose"} => e = otadata
  /\ Writing /\ w.then \in {"rollback", "try"} =>
       e[w.entry] = w.value /\ e[Opposite(w.entry)] = otadata[Opposite(w.entry)]
  /\ pc = "choose" => \A i \in Index : e[i].state # "Pending"
  /\ pc = "try" /\ initial => \A i \in Index : ~Valid(otadata[i])
  /\ Writing /\ w.then = "try" => initial = FALSE

\* what a write in hand is for
WriteMeans ==
  /\ \A i \in Index : Valid(otadata[i]) => otadata[i].state # "Undefined"
  /\ Writing =>
       /\ w.then \in {"rollback", "try", "jump", "run", "restart"}
       /\ w.then = "rollback" => w.value.state = "Aborted"
       /\ w.then = "try" => w.value.state = "Pending"
       /\ w.then = "jump" => choice \in Slot /\ w.value = Fresh(choice)
                             /\ \A i \in Index : ~Valid(otadata[i])
       /\ w.then = "run" => /\ w.value.state = "Valid" /\ w.value.crc = TRUE
                            /\ Named(w.value) = running /\ running \in Slot
                            /\ image[running].trusted = TRUE /\ image[running].good = TRUE
       /\ w.then = "restart" =>
            /\ Offers(w.value) /\ image[Named(w.value)].boots = 0
            /\ Fresher(w.value, otadata[Opposite(w.entry)])

\* an image on offer was never booted, its entry is the newest, and the offer is taken up
\* before anything is started
OffersUntried ==
  \A i \in Index : Offers(otadata[i]) =>
    /\ image[Named(otadata[i])].boots = 0
    /\ Fresher(otadata[i], otadata[Opposite(i)])
    /\ \/ pc \in {"restart", "select", "rollback", "choose"}
       \/ Writing /\ w.then = "rollback"
       \/ Writing /\ w.then = "try" /\ w.entry = i

\* a stale entry is covered by a newer one that names a trusted image, and is the one rewritten
StaleCovered ==
  \A i \in Index : Stale(otadata[i]) =>
    /\ Vouched(otadata[Opposite(i)]) /\ IsActive(otadata, Opposite(i))
    /\ Writing => w.entry = i

\* what an entry vouches for starts, so the factory app runs only when none does
VouchedStarts ==
  /\ \A i \in Index : Vouched(otadata[i]) =>
       /\ image[Named(otadata[i])].good = TRUE
       /\ pc = "try" \/ (Writing /\ w.then = "try") => first \in Slot
       /\ pc = "jump" => choice \in Slot
       /\ pc = "run" \/ (Writing /\ w.then = "run") => running \in Slot
  /\ pc = "jump" \/ (Writing /\ w.then = "jump") => image[choice].good = TRUE
  /\ pc = "run" => running \in Candidate /\ image[running].good = TRUE

\* `c` was started at most `n` times since it was named, or is confirmed, or is all there is
Due(c, n) == c \in Slot /\ image[c].trusted = FALSE /\ OtherTrusted(c) => image[c].boots <= n

\* what was chosen is untried, confirmed, or all there is
ChosenOnce ==
  /\ Loading => running = Nobody
  /\ pc = "try" \/ (Writing /\ w.then = "try") => Due(first, 0)
  /\ pc = "jump" \/ (Writing /\ w.then = "jump") => (choice = first => Due(first, 0))
  /\ ~Loading => (running = first => Due(first, 1))

TryInv == CopiesTrue /\ WriteMeans /\ OffersUntried /\ StaleCovered /\ VouchedStarts /\ ChosenOnce
TrySafe == bound.faults = 0 => TryInv

\* A blank entry says nothing, and neither does a torn or an aborted one.
LEMMA Silent ==
  /\ ~Valid(BlankEntry) /\ ~Vouched(BlankEntry)
  /\ \A x \in Entry : x.crc = FALSE \/ x.state = "Aborted" => ~Valid(x)
  /\ \A x \in Entry : Vouched(x) => Valid(x) /\ Named(x) \in Slot
  /\ \A x \in Entry : Valid(x) => x.crc = TRUE /\ Named(x) \in Slot
  /\ \A x \in Entry : Valid(x) => x.state \in {"New", "Pending", "Valid", "Undefined"}
  <1>1. ~Valid(BlankEntry) /\ ~Vouched(BlankEntry)
    BY DEF Valid, Vouched, BlankEntry, Blank
  <1>2. \A x \in Entry : x.crc \in BOOLEAN /\ x.state \in States
    BY DEF Entry
  <1>3. \A x \in Entry : Vouched(x) => Valid(x)
    BY VouchedIsValid DEF Vouched
  <1> QED BY <1>1, <1>2, <1>3, NamedIsSlot DEF Valid, Invalid, States

LEMMA TwoEntries == \A i \in Index : Opposite(i) \in Index /\ Opposite(i) # i /\ Opposite(Opposite(i)) = i
                                     /\ \A k \in Index : k = i \/ k = Opposite(i)
  BY DEF Index, Opposite

\* Of two entries that are both newer than the other there is none.
LEMMA NotBothActive ==
  ASSUME NEW d \in [Index -> Entry], NEW i \in Index, IsActive(d, i)
  PROVE  ~IsActive(d, Opposite(i)) /\ ~(Valid(d[Opposite(i)]) /\ Fresher(d[Opposite(i)], d[i]))
  <1>1. d[0] \in Entry /\ d[1] \in Entry
    BY DEF Index
  <1>2. d[0].seq \in Nat /\ d[1].seq \in Nat
    BY <1>1 DEF Entry
  <1> QED BY <1>2 DEF IsActive, Index, Opposite, Fresher

LEMMA InitTry == Init => TryInv
  <1> SUFFICES ASSUME Init PROVE TryInv
    OBVIOUS
  <1>1. /\ pc = "select" /\ running = Nobody
        /\ \A i \in Index : otadata[i] = BlankEntry
    BY DEF Init, Index
  <1>2. ~Writing /\ Loading
    BY <1>1 DEF Writing, Loading
  <1> QED BY <1>1, <1>2, Silent DEF TryInv, CopiesTrue, WriteMeans, OffersUntried, StaleCovered,
             VouchedStarts, ChosenOnce, Offers, Stale

LEMMA TryByErase ==
  ASSUME TypeOK, TryInv, EraseEntry
  PROVE  TryInv'
  <1> DEFINE j == w.entry
  <1>1. /\ pc = "erase" /\ pc' = "write" /\ UNCHANGED <<image, e, w, first, choice, initial, running>>
        /\ j \in Index /\ otadata' = [otadata EXCEPT ![j] = BlankEntry]
    BY DEF EraseEntry, TypeOK, Index
  <1>2. Writing /\ Writing' /\ (Loading' <=> Loading)
    BY <1>1 DEF Writing, Loading
  <1>3. otadata'[j] = BlankEntry /\ otadata'[Opposite(j)] = otadata[Opposite(j)]
    BY <1>1, TwoEntries DEF TypeOK, Index
  <1>4. \A i \in Index : otadata'[i] = BlankEntry \/ (i = Opposite(j) /\ otadata'[i] = otadata[i])
    BY <1>1, <1>3, TwoEntries
  <1>5. CopiesTrue'
    BY <1>1, <1>2, <1>3, <1>4, Silent DEF TryInv, CopiesTrue, Opposite
  <1>6. WriteMeans'
    BY <1>1, <1>2, <1>3, <1>4, Silent DEF TryInv, WriteMeans, Opposite, Offers, Fresher
  <1>7. OffersUntried'
    <2> SUFFICES ASSUME NEW i \in Index, Offers(otadata'[i])
                 PROVE  (/\ image[Named(otadata[i])].boots = 0
                         /\ Fresher(otadata[i], otadata[Opposite(i)])
                         /\ \/ pc \in {"restart", "select", "rollback", "choose"}
                            \/ Writing /\ w.then = "rollback"
                            \/ Writing /\ w.then = "try" /\ w.entry = i)'
      BY DEF OffersUntried, Offers
    <2>1. i = Opposite(j) /\ otadata'[i] = otadata[i] /\ Opposite(i) = j
      BY <1>1, <1>4, Silent, TwoEntries DEF Offers
    <2> QED BY <1>1, <1>2, <1>3, <2>1, Silent DEF TryInv, OffersUntried, Offers, Fresher
  <1>8. StaleCovered'
    <2> SUFFICES ASSUME NEW i \in Index, Stale(otadata[i])' PROVE FALSE
      BY DEF StaleCovered
    <2>1. i = Opposite(j) /\ Stale(otadata[i])
      BY <1>1, <1>4, Silent DEF Stale
    <2> QED BY <1>1, <1>2, <2>1, TwoEntries DEF TryInv, StaleCovered
  <1>9. VouchedStarts'
    BY <1>1, <1>2, <1>4, Silent DEF TryInv, VouchedStarts, Vouched
  <1>10. ChosenOnce'
    BY <1>1, <1>2 DEF TryInv, ChosenOnce, Due, OtherTrusted
  <1> QED BY <1>5, <1>6, <1>7, <1>8, <1>9, <1>10 DEF TryInv

LEMMA TryByRead ==
  ASSUME TypeOK, TryInv, ReadOtadata
  PROVE  TryInv'
  <1>1. /\ pc = "select" /\ pc' = "rollback" /\ e' = otadata
        /\ UNCHANGED <<otadata, image, w, first, choice, initial, running>>
    BY DEF ReadOtadata
  <1>2. ~Writing /\ ~Writing' /\ Loading /\ Loading'
    BY <1>1 DEF Writing, Loading
  <1>3. CopiesTrue' /\ WriteMeans'
    BY <1>1, <1>2 DEF TryInv, CopiesTrue, WriteMeans
  <1>4. OffersUntried' /\ StaleCovered'
    BY <1>1, <1>2 DEF TryInv, OffersUntried, Offers, StaleCovered, Stale, Vouched
  <1>5. VouchedStarts' /\ ChosenOnce'
    BY <1>1, <1>2 DEF TryInv, VouchedStarts, ChosenOnce, Vouched
  <1> QED BY <1>3, <1>4, <1>5 DEF TryInv

LEMMA TryByRestart ==
  ASSUME TypeOK, TryInv, Restart
  PROVE  TryInv'
  <1>1. /\ pc = "restart" /\ pc' = "select" /\ running' = Nobody
        /\ UNCHANGED <<otadata, image, e, w, first, choice, initial>>
    BY DEF Restart
  <1>2. ~Writing /\ ~Writing' /\ Loading'
    BY <1>1 DEF Writing, Loading
  <1>3. CopiesTrue' /\ WriteMeans'
    BY <1>1, <1>2 DEF TryInv, CopiesTrue, WriteMeans
  <1>4. OffersUntried' /\ StaleCovered'
    BY <1>1, <1>2 DEF TryInv, OffersUntried, Offers, StaleCovered, Stale, Vouched
  <1>5. VouchedStarts' /\ ChosenOnce'
    BY <1>1, <1>2 DEF TryInv, VouchedStarts, ChosenOnce, Vouched
  <1> QED BY <1>3, <1>4, <1>5 DEF TryInv

\* A fresh entry names the slot it was made for.
LEMMA FreshNames ==
  ASSUME NEW slot \in Slot
  PROVE  Named(Fresh(slot)) = slot
  <1>1. slot \in Nat /\ OtaCount \in Nat \ {0} /\ slot < OtaCount
    BY Slots DEF Slot
  <1>2. slot % OtaCount = slot
    BY <1>1
  <1>3. Fresh(slot).seq - 1 = slot
    BY <1>1 DEF Fresh
  <1> QED BY <1>2, <1>3 DEF Named

\* What the write in hand will have done, the image it vouches for included.
LEMMA WrittenBy ==
  ASSUME TypeOK, TryInv, WriteEntry
  PROVE  /\ pc = "write" /\ pc' = w.then /\ Writing /\ ~Writing'
         /\ w.entry \in Index /\ w.value \in Entry
         /\ otadata'[w.entry] = w.value
         /\ otadata'[Opposite(w.entry)] = otadata[Opposite(w.entry)]
         /\ UNCHANGED <<e, w, first, choice, initial, running>>
         /\ w.then # "jump" => image' = image
         /\ w.then = "jump" => image' = [image EXCEPT ![choice].trusted = TRUE]
  <1>1. /\ pc = "write" /\ pc' = w.then /\ UNCHANGED <<e, w, first, choice, initial, running>>
        /\ w.entry \in Index /\ w.value \in Entry /\ Vouch(w.value)
        /\ otadata' = [otadata EXCEPT ![w.entry] = w.value]
    BY DEF WriteEntry, TypeOK, Index
  <1>2. Writing
    BY <1>1 DEF Writing
  <1>3. w.then \in {"rollback", "try", "jump", "run", "restart"}
    BY <1>2 DEF TryInv, WriteMeans
  <1>4. ~Writing'
    BY <1>1, <1>3 DEF Writing
  <1>5. /\ otadata'[w.entry] = w.value
        /\ otadata'[Opposite(w.entry)] = otadata[Opposite(w.entry)]
    BY <1>1, TwoEntries DEF TypeOK, Index
  <1>6. CASE w.then \in {"rollback", "try", "restart"}
    <2>1. w.value.state \in {"Aborted", "Pending", "New"}
      BY <1>2, <1>6 DEF TryInv, WriteMeans, Offers
    <2> QED BY <1>1, <1>2, <1>4, <1>5, <1>6, <2>1 DEF Vouch
  <1>7. CASE w.then = "run"
    <2>1. w.value.state = "Valid" /\ Named(w.value) = running /\ running \in Slot
          /\ image[running].trusted = TRUE
      BY <1>2, <1>7 DEF TryInv, WriteMeans
    <2>2. image' = [image EXCEPT ![running].trusted = TRUE]
      BY <1>1, <2>1 DEF Vouch
    <2>3. image[running] \in Image
      BY <2>1, Slots DEF TypeOK
    <2>4. [image[running] EXCEPT !.trusted = TRUE] = image[running]
      BY <2>1, <2>3 DEF Image
    <2>5. image' = image
      BY <2>2, <2>4 DEF TypeOK
    <2> QED BY <1>1, <1>2, <1>4, <1>5, <1>7, <2>5
  <1>8. CASE w.then = "jump"
    <2>1. choice \in Slot /\ w.value = Fresh(choice)
      BY <1>2, <1>8 DEF TryInv, WriteMeans
    <2>2. Named(w.value) = choice /\ w.value.state = "Valid"
      BY <2>1, FreshNames, Entries
    <2> QED BY <1>1, <1>2, <1>4, <1>5, <1>8, <2>2 DEF Vouch
  <1> QED BY <1>3, <1>6, <1>7, <1>8

LEMMA TryByWrite ==
  ASSUME TypeOK, TryInv, WriteEntry
  PROVE  TryInv'
  <1> DEFINE j == w.entry
             v == w.value
             o == Opposite(j)
  <1>1. /\ pc = "write" /\ pc' = w.then /\ Writing /\ ~Writing'
        /\ j \in Index /\ v \in Entry /\ o \in Index /\ o # j /\ Opposite(o) = j
        /\ otadata'[j] = v /\ otadata'[o] = otadata[o]
        /\ UNCHANGED <<e, w, first, choice, initial, running>>
    BY WrittenBy, TwoEntries
  <1>2. \A i \in Index : i = j \/ i = o
    BY <1>1, TwoEntries
  <1>3. w.then # "jump" => image' = image
    BY WrittenBy
  <1>4. w.then \in {"rollback", "try", "jump", "run", "restart"}
    BY <1>1 DEF TryInv, WriteMeans
  <1>5. ~Stale(otadata[o]) /\ (Offers(otadata[o]) => w.then = "rollback")
    BY <1>1 DEF TryInv, StaleCovered, OffersUntried
  <1>6. /\ Valid(otadata[o]) => otadata[o].state # "Undefined"
        /\ Vouched(otadata[o]) => image[Named(otadata[o])].good = TRUE
    BY <1>1 DEF TryInv, WriteMeans, VouchedStarts
  <1>7. CASE w.then = "rollback"
    <2>1. v.state = "Aborted" /\ ~Valid(v) /\ ~Vouched(v)
      BY <1>1, <1>7, Silent DEF TryInv, WriteMeans, Vouched
    <2>2. Loading /\ Loading'
      BY <1>1, <1>7 DEF Loading
    <2>3. CopiesTrue'
      <3>1. e[j] = v /\ e[o] = otadata[o]
        BY <1>1, <1>7 DEF TryInv, CopiesTrue
      <3>2. e = otadata'
        BY <1>1, <3>1, <1>2, WrittenBy DEF TypeOK, Index, WriteEntry
      <3> QED BY <1>1, <1>7, <3>2 DEF CopiesTrue
    <2>4. WriteMeans'
      BY <1>1, <1>2, <1>6, <2>1 DEF WriteMeans
    <2>5. OffersUntried'
      BY <1>1, <1>2, <1>3, <1>7, <2>1 DEF OffersUntried, Offers, Fresher, TryInv
    <2>6. StaleCovered'
      BY <1>1, <1>2, <1>3, <1>5, <1>7, <2>1 DEF StaleCovered, Stale
    <2>7. VouchedStarts'
      BY <1>1, <1>2, <1>3, <1>6, <1>7, <2>1 DEF VouchedStarts, Vouched
    <2>8. ChosenOnce'
      BY <1>1, <1>7, <2>2 DEF ChosenOnce, TryInv
    <2> QED BY <2>3, <2>4, <2>5, <2>6, <2>7, <2>8 DEF TryInv
  <1>8. CASE w.then = "try"
    <2>1. v.state = "Pending"
      BY <1>1, <1>8 DEF TryInv, WriteMeans
    <2>2. Loading /\ Loading'
      BY <1>1, <1>8 DEF Loading
    <2>3. CopiesTrue' /\ WriteMeans'
      BY <1>1, <1>2, <1>6, <1>8, <2>1 DEF CopiesTrue, WriteMeans, TryInv
    <2>4. OffersUntried' /\ StaleCovered'
      BY <1>1, <1>2, <1>3, <1>5, <1>8, <2>1 DEF OffersUntried, Offers, StaleCovered, Stale
    <2>5. VouchedStarts'
      BY <1>1, <1>2, <1>3, <1>8, <2>1 DEF VouchedStarts, Vouched, TryInv
    <2>6. ChosenOnce'
      BY <1>1, <1>3, <1>8, <2>2 DEF ChosenOnce, TryInv, Due, OtherTrusted
    <2> QED BY <2>3, <2>4, <2>5, <2>6 DEF TryInv
  <1>9. CASE w.then = "jump"
    <2>1. choice \in Slot /\ v = Fresh(choice) /\ ~Valid(otadata[o]) /\ image[choice].good = TRUE
      BY <1>1, <1>9 DEF TryInv, WriteMeans, VouchedStarts
    <2>2. v.state = "Valid" /\ Named(v) = choice
      BY <2>1, FreshNames, Entries
    <2>3. image' = [image EXCEPT ![choice].trusted = TRUE]
      BY <1>9, WrittenBy
    <2>4. image'[choice].trusted = TRUE /\ image'[choice].good = TRUE
      BY <2>1, <2>3, Slots DEF TypeOK, Image
    <2>5. Loading /\ Loading'
      BY <1>1, <1>9 DEF Loading
    <2>6. CopiesTrue' /\ WriteMeans'
      BY <1>1, <1>2, <1>9, <2>1, <2>2 DEF CopiesTrue, WriteMeans
    <2>7. OffersUntried' /\ StaleCovered'
      BY <1>1, <1>2, <2>1, <2>2, <2>4 DEF OffersUntried, Offers, StaleCovered, Stale
    <2>8. \A i \in Index : Vouched(otadata[i])' => i = j
      <3>1. otadata[o] \in Entry
        BY <1>1 DEF TypeOK, Index
      <3>2. ~(otadata[o].state = "Valid" /\ otadata[o].crc = TRUE)
        BY <2>1, <3>1, VouchedIsValid
      <3> QED BY <1>1, <1>2, <3>2 DEF Vouched
    <2>9. VouchedStarts'
      BY <1>1, <1>9, <2>1, <2>2, <2>4, <2>8 DEF VouchedStarts
    <2>10. ChosenOnce'
      BY <1>1, <1>9, <2>4, <2>5 DEF ChosenOnce, TryInv, Due
    <2> QED BY <2>6, <2>7, <2>9, <2>10 DEF TryInv
  <1>10. CASE w.then = "run"
    <2>1. /\ v.state = "Valid" /\ Named(v) = running /\ running \in Slot
          /\ image[running].trusted = TRUE /\ image[running].good = TRUE
      BY <1>1, <1>10 DEF TryInv, WriteMeans
    <2>2. ~Loading /\ ~Loading'
      BY <1>1, <1>10 DEF Loading
    <2>3. CopiesTrue' /\ WriteMeans'
      BY <1>1, <1>2, <1>6, <1>10, <2>1 DEF CopiesTrue, WriteMeans
    <2>4. OffersUntried' /\ StaleCovered'
      BY <1>1, <1>2, <1>3, <1>5, <1>10, <2>1 DEF OffersUntried, Offers, StaleCovered, Stale
    <2>5. VouchedStarts'
      BY <1>1, <1>2, <1>3, <1>6, <1>10, <2>1, Slots DEF VouchedStarts, Vouched
    <2>6. ChosenOnce'
      BY <1>1, <1>3, <1>10, <2>2 DEF ChosenOnce, TryInv, Due, OtherTrusted
    <2> QED BY <2>3, <2>4, <2>5, <2>6 DEF TryInv
  <1>11. CASE w.then = "restart"
    <2>1. Offers(v) /\ image[Named(v)].boots = 0 /\ Fresher(v, otadata[o])
      BY <1>1, <1>11 DEF TryInv, WriteMeans
    <2>2. ~Loading /\ ~Loading'
      BY <1>1, <1>11 DEF Loading
    <2>3. CopiesTrue' /\ WriteMeans'
      BY <1>1, <1>2, <1>6, <1>11, <2>1 DEF CopiesTrue, WriteMeans, Offers
    <2>4. OffersUntried' /\ StaleCovered'
      BY <1>1, <1>2, <1>3, <1>5, <1>11, <2>1
         DEF OffersUntried, Offers, StaleCovered, Stale, Fresher
    <2>5. VouchedStarts'
      BY <1>1, <1>2, <1>3, <1>6, <1>11, <2>1 DEF VouchedStarts, Vouched, Offers
    <2>6. ChosenOnce'
      BY <1>1, <1>3, <1>11, <2>2 DEF ChosenOnce, TryInv, Due, OtherTrusted
    <2> QED BY <2>3, <2>4, <2>5, <2>6 DEF TryInv
  <1> QED BY <1>4, <1>7, <1>8, <1>9, <1>10, <1>11

LEMMA TryByRollback ==
  ASSUME TypeOK, TryInv, Rollback
  PROVE  TryInv'
  <1>1. /\ pc = "rollback" /\ e = otadata
        /\ UNCHANGED <<otadata, image, first, choice, initial, running>>
    BY DEF Rollback, TryInv, CopiesTrue
  <1>2. ~Writing /\ Loading
    BY <1>1 DEF Writing, Loading
  <1>3. CASE /\ \A i \in Index : e[i].state # "Pending"
             /\ pc' = "choose" /\ UNCHANGED <<e, w>>
    <2>1. ~Writing' /\ Loading'
      BY <1>3 DEF Writing, Loading
    <2>2. CopiesTrue' /\ WriteMeans'
      BY <1>1, <1>2, <1>3, <2>1 DEF TryInv, CopiesTrue, WriteMeans
    <2>3. OffersUntried' /\ StaleCovered'
      BY <1>1, <1>2, <1>3, <2>1 DEF TryInv, OffersUntried, Offers, StaleCovered, Stale, Vouched
    <2>4. VouchedStarts' /\ ChosenOnce'
      BY <1>1, <1>2, <1>3, <2>1 DEF TryInv, VouchedStarts, ChosenOnce, Vouched
    <2> QED BY <2>2, <2>3, <2>4 DEF TryInv
  <1>4. CASE \E i \in Index :
               /\ e[i].state = "Pending"
               /\ e' = [e EXCEPT ![i].state = "Aborted"]
               /\ Rewrite(i, [e[i] EXCEPT !.state = "Aborted"], "rollback")
    <2>1. PICK i \in Index :
             /\ e[i].state = "Pending"
             /\ e' = [e EXCEPT ![i].state = "Aborted"]
             /\ Rewrite(i, [e[i] EXCEPT !.state = "Aborted"], "rollback")
      BY <1>4
    <2>2. e[i] \in Entry /\ e \in [Index -> Entry]
      BY DEF TypeOK, Index
    <2>3. /\ pc' = "erase" /\ w'.entry = i /\ w'.then = "rollback"
          /\ w'.value = [e[i] EXCEPT !.state = "Aborted"] /\ w'.value.state = "Aborted"
      BY <2>1, <2>2 DEF Rewrite, Entry
    <2>4. Writing' /\ Loading'
      BY <2>3 DEF Writing, Loading
    <2>5. e'[i] = w'.value /\ e'[Opposite(i)] = otadata'[Opposite(i)]
      BY <1>1, <2>1, <2>2, <2>3, TwoEntries
    <2>6. CopiesTrue' /\ WriteMeans'
      BY <1>1, <2>3, <2>4, <2>5 DEF TryInv, CopiesTrue, WriteMeans
    <2>7. OffersUntried'
      BY <1>1, <1>2, <2>3, <2>4 DEF TryInv, OffersUntried, Offers
    <2>8. \A k \in Index : ~Stale(otadata[k])
      BY <1>1, <2>1, TwoEntries DEF TryInv, StaleCovered, Stale, Vouched
    <2>9. StaleCovered'
      BY <1>1, <2>8 DEF StaleCovered, Stale
    <2>10. VouchedStarts' /\ ChosenOnce'
      BY <1>1, <1>2, <2>3, <2>4 DEF TryInv, VouchedStarts, ChosenOnce, Vouched
    <2> QED BY <2>6, <2>7, <2>9, <2>10 DEF TryInv
  <1> QED BY <1>3, <1>4 DEF Rollback, IsFirstPending, Index

LEMMA TryByChooseNone ==
  ASSUME KeptInv, TryInv, ChooseNone
  PROVE  TryInv'
  <1>1. /\ pc = "choose" /\ pc' = "try" /\ e = otadata
        /\ UNCHANGED <<otadata, image, e, w, choice, running>>
    BY DEF ChooseNone, TryInv, CopiesTrue
  <1>2. ~Writing /\ ~Writing' /\ Loading /\ Loading'
    BY <1>1 DEF Writing, Loading
  <1>3. \A i \in Index : ~Valid(otadata[i])
    BY <1>1 DEF ChooseNone, BothInvalid, Valid, Index
  <1>4. CopiesTrue' /\ WriteMeans'
    BY <1>1, <1>2, <1>3 DEF CopiesTrue, WriteMeans
  <1>5. OffersUntried' /\ StaleCovered'
    BY <1>1, <1>3 DEF OffersUntried, Offers, StaleCovered, Stale
  <1>6. otadata[0] \in Entry /\ otadata[1] \in Entry
    BY DEF KeptInv, TypeOK
  <1>7. \A i \in Index : ~Vouched(otadata[i])
    BY <1>3, <1>6, VouchedIsValid DEF Vouched, Index
  <1>8. VouchedStarts'
    BY <1>1, <1>2, <1>7 DEF VouchedStarts, Vouched
  <1>9. Due(first, 0)'
    <2>1. CASE first' = Factory
      BY <2>1, Slots DEF Due
    <2>2. CASE factory = FALSE
      <3>1. image[Factory].good = FALSE /\ ~SlotTrusted
        BY <1>7, <2>2 DEF KeptInv, NoFactory, Anchored, Anchor
      <3>2. \A d \in Candidate : image[d].trusted \in BOOLEAN
        BY DEF KeptInv, TypeOK, Image
      <3>3. ~OtherTrusted(first)'
        BY <1>1, <3>1, <3>2, Slots DEF OtherTrusted, SlotTrusted
      <3> QED BY <3>3 DEF Due
    <2>3. first' = Factory \/ factory = FALSE
      BY DEF ChooseNone, KeptInv, TypeOK
    <2> QED BY <2>1, <2>2, <2>3
  <1>10. ChosenOnce'
    BY <1>1, <1>2, <1>9 DEF TryInv, ChosenOnce
  <1> QED BY <1>4, <1>5, <1>8, <1>10 DEF TryInv

LEMMA TryByChooseActive ==
  ASSUME TypeOK, TryInv, ChooseActive
  PROVE  TryInv'
  <1>1. /\ pc = "choose" /\ e = otadata /\ otadata \in [Index -> Entry]
        /\ UNCHANGED <<otadata, image, choice, running>>
    BY DEF ChooseActive, TryInv, CopiesTrue, TypeOK, Index
  <1>2. ~Writing /\ Loading
    BY <1>1 DEF Writing, Loading
  <1>3. PICK i \in Index :
          /\ IsActive(otadata, i) /\ first' = Named(otadata[i]) /\ initial' = FALSE
          /\ IF otadata[i].state = "New"
               THEN /\ e' = [e EXCEPT ![i].state = "Pending"]
                    /\ Rewrite(i, [e[i] EXCEPT !.state = "Pending"], "try")
               ELSE pc' = "try" /\ UNCHANGED <<e, w>>
    BY <1>1 DEF ChooseActive, Index
  <1> DEFINE o == Opposite(i)
  <1>4. o \in Index /\ Opposite(o) = i /\ \A k \in Index : k = i \/ k = o
    BY TwoEntries
  <1>5. Valid(otadata[i]) /\ otadata[i] \in Entry /\ first' \in Slot
    BY <1>1, <1>3, Silent DEF IsActive
  <1>6. ~IsActive(otadata, o) /\ ~Offers(otadata[o])
    BY <1>1, <1>3, <1>4, <1>5, NotBothActive DEF TryInv, OffersUntried, Offers
  <1>7. ~Stale(otadata[i])
    BY <1>6 DEF TryInv, StaleCovered
  <1>8. CASE otadata[i].state = "New"
    <2>1. /\ pc' = "erase" /\ w'.entry = i /\ w'.then = "try"
          /\ w'.value = [e[i] EXCEPT !.state = "Pending"] /\ w'.value.state = "Pending"
          /\ e' = [e EXCEPT ![i].state = "Pending"]
      BY <1>1, <1>3, <1>5, <1>8 DEF Rewrite, Entry
    <2>2. Writing' /\ Loading'
      BY <2>1 DEF Writing, Loading
    <2>3. e'[i] = w'.value /\ e'[o] = otadata'[o]
      BY <1>1, <1>4, <2>1, TwoEntries
    <2>4. CopiesTrue' /\ WriteMeans'
      BY <1>1, <1>3, <2>1, <2>2, <2>3 DEF TryInv, CopiesTrue, WriteMeans
    <2>5. Offers(otadata[i]) /\ image[first'].boots = 0 /\ Fresher(otadata[i], otadata[o])
      BY <1>3, <1>5, <1>8 DEF TryInv, OffersUntried, Offers
    <2>6. OffersUntried'
      BY <1>1, <1>3, <1>4, <1>6, <2>1, <2>2, <2>5 DEF OffersUntried, Offers, Fresher
    <2>7. \A k \in Index : ~Stale(otadata[k])
      BY <1>4, <1>7, <1>8 DEF TryInv, StaleCovered, Vouched
    <2>8. StaleCovered'
      BY <1>1, <2>7 DEF StaleCovered, Stale
    <2>9. VouchedStarts'
      BY <1>1, <1>2, <1>5, <2>1, <2>2 DEF TryInv, VouchedStarts, Vouched
    <2>10. ChosenOnce'
      BY <1>1, <1>2, <2>1, <2>2, <2>5 DEF TryInv, ChosenOnce, Due, OtherTrusted
    <2> QED BY <2>4, <2>6, <2>8, <2>9, <2>10 DEF TryInv
  <1>9. CASE otadata[i].state # "New"
    <2>1. pc' = "try" /\ UNCHANGED <<e, w>>
      BY <1>3, <1>9
    <2>2. ~Writing' /\ Loading'
      BY <2>1 DEF Writing, Loading
    <2>3. otadata[i].state = "Valid"
      BY <1>1, <1>5, <1>9, Silent DEF TryInv, CopiesTrue, WriteMeans
    <2>4. image[first'].trusted # FALSE
      BY <1>3, <1>5, <1>7, <2>3 DEF Stale
    <2>5. CopiesTrue' /\ WriteMeans'
      BY <1>1, <1>3, <2>1, <2>2 DEF TryInv, CopiesTrue, WriteMeans
    <2>6. OffersUntried'
      BY <1>1, <1>4, <1>6, <1>9 DEF OffersUntried, Offers
    <2>7. StaleCovered'
      BY <1>1, <2>2 DEF TryInv, StaleCovered, Stale, Vouched
    <2>8. VouchedStarts'
      BY <1>1, <1>2, <1>5, <2>1, <2>2 DEF TryInv, VouchedStarts, Vouched
    <2>9. ChosenOnce'
      BY <1>1, <1>2, <2>1, <2>2, <2>4 DEF TryInv, ChosenOnce, Due
    <2> QED BY <2>5, <2>6, <2>7, <2>8, <2>9 DEF TryInv
  <1> QED BY <1>8, <1>9

LEMMA TryByTry ==
  ASSUME TypeOK, TryInv, TryCandidates
  PROVE  TryInv'
  <1>1. pc = "try" /\ UNCHANGED <<otadata, image, e, first, initial, running>>
    BY DEF TryCandidates
  <1>2. ~Writing /\ Loading /\ running = Nobody /\ Due(first, 0)
    BY <1>1 DEF Writing, Loading, TryInv, ChosenOnce
  <1>3. \A i \in Index : ~Offers(otadata[i])
    BY <1>1, <1>2 DEF TryInv, OffersUntried
  <1>4. OffersUntried'
    BY <1>1, <1>3 DEF OffersUntried, Offers
  <1>5. CASE pc' = "select" /\ UNCHANGED <<choice, w>>
    <2>1. ~Writing' /\ Loading'
      BY <1>5 DEF Writing, Loading
    <2>2. CopiesTrue' /\ WriteMeans' /\ StaleCovered'
      BY <1>1, <1>5, <2>1 DEF TryInv, CopiesTrue, WriteMeans, StaleCovered, Stale, Vouched
    <2>3. VouchedStarts' /\ ChosenOnce'
      BY <1>1, <1>2, <1>5, <2>1 DEF TryInv, VouchedStarts, ChosenOnce, Vouched
    <2> QED BY <1>4, <2>2, <2>3 DEF TryInv
  <1>6. CASE \E c \in Candidate :
               /\ Starts(c) /\ choice' = c
               /\ IF initial /\ c \in Slot
                    THEN Rewrite(0, Fresh(c), "jump")
                    ELSE pc' = "jump" /\ UNCHANGED w
    <2>1. PICK c \in Candidate :
             /\ Starts(c) /\ choice' = c
             /\ IF initial /\ c \in Slot
                  THEN Rewrite(0, Fresh(c), "jump")
                  ELSE pc' = "jump" /\ UNCHANGED w
      BY <1>6
    <2>2. image[c].good = TRUE
      BY <2>1 DEF Starts, TypeOK, Image
    <2>3. \A i \in Index : Vouched(otadata[i]) => c \in Slot /\ image[Named(otadata[i])].good = TRUE
      <3> SUFFICES ASSUME NEW i \in Index, Vouched(otadata[i])
                   PROVE  c \in Slot /\ image[Named(otadata[i])].good = TRUE
        OBVIOUS
      <3>1. first \in Slot /\ image[Named(otadata[i])].good = TRUE
        BY <1>1 DEF TryInv, VouchedStarts
      <3>2. Named(otadata[i]) \in Slot
        BY Silent DEF TypeOK, Index
      <3>3. CASE c = first
        BY <3>1, <3>3
      <3>4. CASE c # first
        <4>1. \A d \in 0 .. c - 1 : ~image[d].good
          BY <2>1, <3>4 DEF Starts
        <4>2. c # Factory
          BY <3>1, <3>2, <4>1 DEF Slot, Factory
        <4> QED BY <3>1, <4>2, Slots
      <3> QED BY <3>3, <3>4
    <2>4. Writing' => w'.then = "jump" /\ w'.entry = 0 /\ w'.value = Fresh(c) /\ c \in Slot /\ initial = TRUE
      BY <2>1 DEF Rewrite, Writing, TypeOK
    <2>5. pc' = "jump" \/ (pc' = "erase" /\ w'.then = "jump")
      BY <2>1 DEF Rewrite
    <2>6. Loading' /\ (pc' = "erase" => Writing') /\ (pc' = "jump" => ~Writing')
      BY <2>5 DEF Loading, Writing
    <2>7. CopiesTrue' /\ WriteMeans'
      BY <1>1, <2>1, <2>4, <2>5, <2>6 DEF TryInv, CopiesTrue, WriteMeans
    <2>8. StaleCovered'
      BY <1>1, <1>2, <2>4 DEF TryInv, StaleCovered, CopiesTrue, Stale, Vouched
    <2>9. VouchedStarts'
      BY <1>1, <2>1, <2>2, <2>3, <2>4, <2>5, <2>6 DEF VouchedStarts, Vouched
    <2>10. ChosenOnce'
      BY <1>1, <1>2, <2>1, <2>5, <2>6 DEF ChosenOnce, Due, OtherTrusted
    <2> QED BY <1>4, <2>7, <2>8, <2>9, <2>10 DEF TryInv
  <1> QED BY <1>5, <1>6 DEF TryCandidates

LEMMA TryByJump ==
  ASSUME TypeOK, TryInv, Jump
  PROVE  TryInv'
  <1>1. /\ pc = "jump" /\ pc' = "run" /\ running' = choice /\ choice \in Candidate
        /\ image' = [image EXCEPT ![choice].boots = IF @ < 2 THEN @ + 1 ELSE @]
        /\ UNCHANGED <<otadata, e, w, first, choice, initial>>
    BY DEF Jump, TypeOK
  <1>2. ~Writing /\ ~Writing' /\ Loading /\ ~Loading'
    BY <1>1 DEF Writing, Loading
  <1>3. \A d \in Candidate : image'[d].good = image[d].good /\ image'[d].trusted = image[d].trusted
    BY <1>1 DEF TypeOK, Image
  <1>4. \A i \in Index : ~Offers(otadata[i])
    BY <1>1, <1>2 DEF TryInv, OffersUntried
  <1>5. OffersUntried' /\ CopiesTrue' /\ WriteMeans'
    BY <1>1, <1>2, <1>4 DEF TryInv, OffersUntried, CopiesTrue, WriteMeans, Offers
  <1>6. \A i \in Index : Valid(otadata[i]) => Named(otadata[i]) \in Candidate
    BY Silent, Slots DEF TypeOK, Index
  <1>7. \A i \in Index : /\ Stale(otadata[i])' <=> Stale(otadata[i])
                         /\ Vouched(otadata[i])' <=> Vouched(otadata[i])
    <2> SUFFICES ASSUME NEW i \in Index
                 PROVE  /\ Stale(otadata[i])' <=> Stale(otadata[i])
                        /\ Vouched(otadata[i])' <=> Vouched(otadata[i])
      OBVIOUS
    <2>1. otadata[i] \in Entry
      BY DEF TypeOK, Index
    <2>2. otadata[i].state = "Valid" /\ otadata[i].crc = TRUE => Valid(otadata[i])
      BY <2>1, VouchedIsValid
    <2> QED BY <1>1, <1>3, <1>6, <2>2 DEF Stale, Vouched
  <1>8. StaleCovered'
    BY <1>1, <1>2, <1>7, TwoEntries DEF TryInv, StaleCovered
  <1>9. VouchedStarts'
    <2>1. \A i \in Index : Vouched(otadata[i]) => choice \in Slot
      BY <1>1 DEF TryInv, VouchedStarts
    <2>2. \A i \in Index : Vouched(otadata[i]) => image'[Named(otadata[i])].good = TRUE
      BY <1>3, Silent, Slots DEF TryInv, VouchedStarts, TypeOK, Index
    <2>3. image'[running'].good = TRUE
      BY <1>1, <1>3 DEF TryInv, VouchedStarts
    <2> QED BY <1>1, <1>2, <1>7, <2>1, <2>2, <2>3 DEF VouchedStarts
  <1>10. ChosenOnce'
    <2> SUFFICES ASSUME choice = first PROVE Due(first, 1)'
      BY <1>1, <1>2 DEF ChosenOnce
    <2>1. Due(first, 0)
      BY <1>1 DEF TryInv, ChosenOnce
    <2>2. OtherTrusted(first)' => OtherTrusted(first)
      BY <1>1, <1>3 DEF OtherTrusted
    <2>3. image[first].boots = 0 => image'[first].boots = 1
      BY <1>1 DEF TypeOK, Image
    <2>4. image[first].boots \in 0 .. 2 /\ first \in Candidate
      BY DEF TypeOK, Image
    <2> QED BY <1>1, <1>3, <2>1, <2>2, <2>3, <2>4 DEF Due
  <1> QED BY <1>5, <1>8, <1>9, <1>10 DEF TryInv

LEMMA TryByConfirm ==
  ASSUME TypeOK, TryInv, Confirm
  PROVE  TryInv'
  <1>1. /\ pc = "run" /\ running \in Slot /\ otadata \in [Index -> Entry]
        /\ image' = [image EXCEPT ![running].trusted = TRUE]
        /\ UNCHANGED <<otadata, e, first, choice, initial, running>>
    BY DEF Confirm, TypeOK, Index
  <1>2. PICK i \in Index :
          /\ IsActive(otadata, i) /\ Named(otadata[i]) = running /\ otadata[i].state = "Pending"
          /\ Rewrite(i, [otadata[i] EXCEPT !.state = "Valid"], "run")
    BY DEF Confirm, Index
  <1>3. Valid(otadata[i]) /\ otadata[i] \in Entry /\ otadata[i].crc = TRUE
    BY <1>1, <1>2, Silent DEF IsActive
  <1>4. /\ pc' = "erase" /\ w'.entry = i /\ w'.then = "run"
        /\ w'.value.state = "Valid" /\ w'.value.crc = TRUE /\ Named(w'.value) = running
    BY <1>2, <1>3 DEF Rewrite, Entry, Named
  <1>5. ~Writing /\ Writing' /\ ~Loading /\ ~Loading'
    BY <1>1, <1>4 DEF Writing, Loading
  <1>6. /\ \A d \in Candidate : /\ image'[d].good = image[d].good
                                /\ d # running => image'[d] = image[d]
        /\ image'[running].trusted = TRUE /\ image'[running].good = TRUE
    BY <1>1, Slots DEF TypeOK, Image, TryInv, VouchedStarts
  <1>7. OffersUntried' /\ CopiesTrue' /\ WriteMeans'
    BY <1>1, <1>4, <1>5, <1>6 DEF TryInv, OffersUntried, CopiesTrue, WriteMeans, Offers
  <1>8. StaleCovered'
    <2> SUFFICES ASSUME NEW k \in Index, Stale(otadata[k])' PROVE FALSE
      BY DEF StaleCovered
    <2>1. k # i /\ i = Opposite(k)
      BY <1>1, <1>2, TwoEntries DEF Stale
    <2>2. Named(otadata[k]) # running /\ Named(otadata[k]) \in Candidate
      BY <1>1, <1>6, Silent, Slots DEF Stale
    <2>3. Stale(otadata[k])
      BY <1>1, <1>6, <2>2 DEF Stale
    <2> QED BY <1>2, <2>1, <2>3 DEF TryInv, StaleCovered, Vouched
  <1>9. VouchedStarts'
    <2>1. ASSUME NEW k \in Index, Vouched(otadata[k])'
          PROVE  image'[Named(otadata[k])].good = TRUE
      <3>1. Named(otadata[k]) \in Candidate
        BY <1>1, <2>1, NamedIsSlot, Slots DEF Vouched
      <3>2. CASE Named(otadata[k]) = running
        BY <1>6, <3>2
      <3>3. CASE Named(otadata[k]) # running
        BY <1>1, <1>6, <2>1, <3>1, <3>3 DEF TryInv, VouchedStarts, Vouched
      <3> QED BY <3>2, <3>3
    <2> QED BY <1>1, <1>4, <1>5, <2>1 DEF VouchedStarts
  <1>10. ChosenOnce'
    BY <1>1, <1>5, <1>4, <1>6 DEF ChosenOnce, Due
  <1> QED BY <1>7, <1>8, <1>9, <1>10 DEF TryInv

\* An update leaves every entry covered: the one that chose the updater is newer than any
\* whose image it replaces.
LEMMA UpdateCovered ==
  ASSUME TypeOK, TryInv, Updates, NEW c \in Slot, c # running, NEW good \in BOOLEAN,
         image' = [image EXCEPT ![c] = UntriedImage(good)],
         otadata' = otadata, running' = running, first' = first
  PROVE  /\ pc = "run" /\ running \in Candidate /\ image'[running] = image[running]
         /\ image'[c].boots = 0 /\ \A i \in Index : ~Offers(otadata[i])
         /\ \A k \in Index : Stale(otadata[k])' => /\ Vouched(otadata[Opposite(k)])'
                                                  /\ IsActive(otadata, Opposite(k))
         /\ \A k \in Index : Vouched(otadata[k])' => /\ Vouched(otadata[k])
                                                    /\ image'[Named(otadata[k])].good = TRUE
         /\ running = first => Due(first, 1)'
  <1>1. /\ pc = "run" /\ ~Writing /\ ~Loading /\ running \in Candidate
        /\ otadata \in [Index -> Entry] /\ image[running].trusted = TRUE
    <2>1. pc = "run" /\ image[running].trusted
      BY DEF Updates
    <2>2. ~Writing /\ ~Loading /\ running \in Candidate
      BY <2>1 DEF Writing, Loading, TryInv, VouchedStarts
    <2>3. image[running].trusted \in BOOLEAN
      BY <2>2 DEF TypeOK, Image
    <2> QED BY <2>1, <2>2, <2>3 DEF TypeOK, Index
  <1>2. /\ \A d \in Candidate : d # c => image'[d] = image[d]
        /\ image'[c].trusted = FALSE /\ image'[c].boots = 0
    BY Slots DEF TypeOK, UntriedImage
  <1>3. \A i \in Index : ~Offers(otadata[i])
    BY <1>1 DEF TryInv, OffersUntried
  <1>4. ASSUME NEW k \in Index, Vouched(otadata[k])'
        PROVE  Vouched(otadata[k]) /\ image'[Named(otadata[k])].good = TRUE
    <2>1. Named(otadata[k]) \in Candidate /\ Named(otadata[k]) # c
      BY <1>1, <1>2, <1>4, NamedIsSlot, Slots DEF Vouched
    <2>2. Vouched(otadata[k])
      BY <1>2, <1>4, <2>1 DEF Vouched
    <2> QED BY <1>2, <2>1, <2>2 DEF TryInv, VouchedStarts
  <1>5. ASSUME NEW k \in Index, Stale(otadata[k])'
        PROVE  Vouched(otadata[Opposite(k)])' /\ IsActive(otadata, Opposite(k))
    <2> DEFINE o == Opposite(k)
    <2>1. /\ Valid(otadata[k]) /\ otadata[k].state = "Valid" /\ otadata[k].crc = TRUE
          /\ Named(otadata[k]) \in Candidate
      BY <1>1, <1>5, Silent, Slots DEF Stale
    <2>2. PICK a \in Index : IsActive(otadata, a)
      BY <1>1, <2>1, OneIsActive
    <2>3. otadata[a] \in Entry /\ Valid(otadata[a]) /\ otadata[a].crc = TRUE /\ Named(otadata[a]) \in Slot
      BY <1>1, <2>2, Silent DEF IsActive
    <2>4. CASE running # Factory
      <3>1. Named(otadata[a]) = running /\ otadata[a].state = "Valid"
        BY <2>2, <2>4 DEF Updates, Index
      <3>2. Vouched(otadata[a])'
        BY <1>1, <1>2, <2>3, <3>1 DEF Vouched
      <3>3. ~Stale(otadata[a])'
        BY <1>1, <1>2, <3>1 DEF Stale
      <3>4. a = o
        BY <1>5, <3>3, TwoEntries
      <3> QED BY <2>2, <3>2, <3>4
    <2>5. CASE running = Factory
      <3>1. \A i \in Index : ~Vouched(otadata[i])
        BY <1>1, <2>5, Slots DEF TryInv, VouchedStarts
      <3>2. image[Named(otadata[k])].trusted \in BOOLEAN
        BY <2>1 DEF TypeOK, Image
      <3>3. Stale(otadata[k])
        BY <2>1, <3>1, <3>2 DEF Stale, Vouched
      <3> QED BY <3>1, <3>3, TwoEntries DEF TryInv, StaleCovered
    <2> QED BY <2>4, <2>5
  <1>6. ASSUME running = first PROVE Due(first, 1)'
    <2>1. Due(first, 1)
      BY <1>1, <1>6 DEF TryInv, ChosenOnce
    <2>2. image'[first] = image[first]
      BY <1>1, <1>2, <1>6
    <2>3. OtherTrusted(first)' => OtherTrusted(first)
      BY <1>2 DEF OtherTrusted
    <2> QED BY <2>1, <2>2, <2>3 DEF Due
  <1> QED BY <1>1, <1>2, <1>3, <1>4, <1>5, <1>6

LEMMA TryByDownload ==
  ASSUME TypeOK, TryInv, NEW c \in Slot, Download(c)
  PROVE  TryInv'
  <1>1. Updates /\ c # running /\ UNCHANGED <<otadata, pc, e, w, first, choice, initial, running>>
    BY DEF Download
  <1>2. PICK good \in BOOLEAN : image' = [image EXCEPT ![c] = UntriedImage(good)]
    BY DEF Download
  <1>3. /\ pc = "run" /\ running \in Candidate /\ image'[running] = image[running]
        /\ \A i \in Index : ~Offers(otadata[i])
        /\ \A k \in Index : Stale(otadata[k])' => /\ Vouched(otadata[Opposite(k)])'
                                                 /\ IsActive(otadata, Opposite(k))
        /\ \A k \in Index : Vouched(otadata[k])' => /\ Vouched(otadata[k])
                                                   /\ image'[Named(otadata[k])].good = TRUE
        /\ running = first => Due(first, 1)'
    BY <1>1, <1>2, UpdateCovered
  <1>4. ~Writing /\ ~Writing' /\ ~Loading /\ ~Loading'
    BY <1>1, <1>3 DEF Writing, Loading
  <1>5. CopiesTrue' /\ WriteMeans' /\ OffersUntried'
    BY <1>1, <1>3, <1>4 DEF TryInv, CopiesTrue, WriteMeans, OffersUntried, Offers
  <1>6. StaleCovered'
    BY <1>1, <1>3, <1>4 DEF StaleCovered
  <1>7. VouchedStarts'
    BY <1>1, <1>3, <1>4 DEF TryInv, VouchedStarts
  <1>8. ChosenOnce'
    BY <1>1, <1>3, <1>4 DEF ChosenOnce
  <1> QED BY <1>5, <1>6, <1>7, <1>8 DEF TryInv

LEMMA TryBySetBoot ==
  ASSUME TypeOK, TryInv, NEW c \in Slot, SetBoot(c)
  PROVE  TryInv'
  <1>1. /\ Updates /\ c # running /\ UNCHANGED <<otadata, e, first, choice, initial, running>>
        /\ image' = [image EXCEPT ![c] = UntriedImage(image[c].good)]
        /\ otadata \in [Index -> Entry]
    BY DEF SetBoot, TypeOK, Index
  <1>2. image[c].good \in BOOLEAN
    BY Slots DEF TypeOK, Image
  <1>3. /\ pc = "run" /\ running \in Candidate /\ image'[c].boots = 0
        /\ \A i \in Index : ~Offers(otadata[i])
        /\ \A k \in Index : Stale(otadata[k])' => /\ Vouched(otadata[Opposite(k)])'
                                                 /\ IsActive(otadata, Opposite(k))
        /\ \A k \in Index : Vouched(otadata[k])' => /\ Vouched(otadata[k])
                                                   /\ image'[Named(otadata[k])].good = TRUE
        /\ running = first => Due(first, 1)'
    BY <1>1, <1>2, UpdateCovered
  <1>4. c \in Nat /\ OtaCount \in Nat \ {0} /\ c < OtaCount
    BY Slots DEF Slot
  <1>5. PICK j \in Index, v \in Entry :
          /\ Rewrite(j, v, "restart") /\ v.state = "New" /\ Valid(v) /\ Named(v) = c
          /\ Fresher(v, otadata[Opposite(j)])
          /\ \A k \in Index : IsActive(otadata, Opposite(k)) => k = j
    <2>1. CASE \E i \in Index :
                 /\ IsActive(otadata, i)
                 /\ \E n \in otadata[i].seq + 1 .. otadata[i].seq + OtaCount :
                      /\ IsNextSeq(n, otadata[i].seq, c)
                      /\ Rewrite(1 - i, [seq |-> n, state |-> "New", crc |-> TRUE], "restart")
      <3>1. PICK i \in Index :
              /\ IsActive(otadata, i)
              /\ \E n \in otadata[i].seq + 1 .. otadata[i].seq + OtaCount :
                   /\ IsNextSeq(n, otadata[i].seq, c)
                   /\ Rewrite(1 - i, [seq |-> n, state |-> "New", crc |-> TRUE], "restart")
        BY <2>1
      <3>2. PICK n \in otadata[i].seq + 1 .. otadata[i].seq + OtaCount :
              /\ IsNextSeq(n, otadata[i].seq, c)
              /\ Rewrite(1 - i, [seq |-> n, state |-> "New", crc |-> TRUE], "restart")
        BY <3>1
      <3> DEFINE v == [seq |-> n, state |-> "New", crc |-> TRUE]
                 j == Opposite(i)
      <3>3. otadata[i].seq \in Nat
        BY <1>1 DEF Entry
      <3>4. n \in Nat /\ n > otadata[i].seq /\ n # 0 /\ (n - 1) % OtaCount = c
        BY <1>4, <3>2, <3>3 DEF IsNextSeq
      <3>5. v \in Entry /\ v.state = "New" /\ v.seq = n /\ v.crc = TRUE
        BY <3>4 DEF Entry, States, Blank
      <3>6. Valid(v) /\ Named(v) = c
        BY <3>4, <3>5 DEF Valid, Invalid, Named, Blank
      <3>7. j \in Index /\ Opposite(j) = i /\ Rewrite(j, v, "restart")
        BY <3>2, TwoEntries DEF Opposite
      <3>8. Fresher(v, otadata[Opposite(j)])
        BY <3>4, <3>5, <3>7 DEF Fresher
      <3>9. \A k \in Index : IsActive(otadata, Opposite(k)) => k = j
        BY <1>1, <3>1, NotBothActive, TwoEntries
      <3> QED BY <3>5, <3>6, <3>7, <3>8, <3>9
    <2>2. CASE /\ \A i \in Index : ~Valid(otadata[i])
               /\ Rewrite(0, [seq |-> c + 1, state |-> "New", crc |-> TRUE], "restart")
      <3> DEFINE v == [seq |-> c + 1, state |-> "New", crc |-> TRUE]
      <3>1. v \in Entry /\ v.state = "New" /\ v.seq = c + 1 /\ v.crc = TRUE
        BY <1>4 DEF Entry, States, Blank
      <3>2. c % OtaCount = c /\ v.seq - 1 = c /\ v.seq # 0
        BY <1>4, <3>1
      <3>3. Valid(v) /\ Named(v) = c
        BY <3>1, <3>2 DEF Valid, Invalid, Named, Blank
      <3>4. 0 \in Index /\ Fresher(v, otadata[Opposite(0)])
        BY <2>2, TwoEntries DEF Fresher, Index
      <3>5. \A k \in Index : ~IsActive(otadata, Opposite(k))
        BY <2>2, TwoEntries DEF IsActive
      <3> QED BY <2>2, <3>1, <3>3, <3>4, <3>5
    <2> QED BY <2>1, <2>2 DEF SetBoot, Index
  <1>6. pc' = "erase" /\ w'.entry = j /\ w'.value = v /\ w'.then = "restart"
    BY <1>5 DEF Rewrite
  <1>7. ~Writing /\ Writing' /\ ~Loading /\ ~Loading'
    BY <1>3, <1>6 DEF Writing, Loading
  <1>8. CopiesTrue' /\ WriteMeans' /\ OffersUntried'
    BY <1>1, <1>3, <1>5, <1>6, <1>7
       DEF TryInv, CopiesTrue, WriteMeans, OffersUntried, Offers, Fresher
  <1>9. StaleCovered'
    BY <1>1, <1>3, <1>5, <1>6 DEF StaleCovered
  <1>10. VouchedStarts'
    BY <1>1, <1>3, <1>6 DEF TryInv, VouchedStarts
  <1>11. ChosenOnce'
    BY <1>1, <1>3, <1>6, <1>7 DEF ChosenOnce
  <1> QED BY <1>8, <1>9, <1>10, <1>11 DEF TryInv

LEMMA TryByReset ==
  ASSUME TypeOK, TryInv, Reset
  PROVE  TryInv'
  <1>1. pc' = "select" /\ running' = Nobody /\ UNCHANGED <<image, e, w, first, choice, initial>>
        /\ w.entry \in Index /\ w.value \in Entry
    BY DEF Reset, TypeOK, Index
  <1>2. ~Writing' /\ Loading'
    BY <1>1 DEF Writing, Loading
  <1>3. \A i \in Index : otadata'[i] = otadata[i] \/ ~Valid(otadata'[i])
    <2>1. CASE pc = "write"
      <3>1. PICK x \in CutShort(w.value) : otadata' = [otadata EXCEPT ![w.entry] = x]
        BY <2>1 DEF Reset
      <3>2. ~Valid(x)
        BY <1>1, TornEntries, Silent
      <3> QED BY <3>1, <3>2 DEF TypeOK, Index
    <2>2. CASE pc # "write"
      BY <2>2 DEF Reset
    <2> QED BY <2>1, <2>2
  <1>4. CopiesTrue' /\ WriteMeans'
    BY <1>1, <1>2, <1>3 DEF TryInv, CopiesTrue, WriteMeans
  <1>5. OffersUntried'
    BY <1>1, <1>3, TwoEntries DEF TryInv, OffersUntried, Offers, Fresher
  <1>6. StaleCovered'
    <2> SUFFICES ASSUME NEW k \in Index, Stale(otadata[k])'
                 PROVE  Vouched(otadata[Opposite(k)])' /\ IsActive(otadata, Opposite(k))'
      BY <1>2 DEF StaleCovered
    <2> DEFINE o == Opposite(k)
    <2>1. Stale(otadata[k]) /\ otadata'[k] = otadata[k]
      BY <1>1, <1>3 DEF Stale
    <2>2. Vouched(otadata[o]) /\ IsActive(otadata, o) /\ (Writing => w.entry = k)
      BY <2>1 DEF TryInv, StaleCovered
    <2>3. otadata' = otadata \/ (pc = "write" /\ \E x \in CutShort(w.value) :
                                                    otadata' = [otadata EXCEPT ![w.entry] = x])
      BY DEF Reset
    <2>4. otadata'[o] = otadata[o]
      BY <2>2, <2>3, TwoEntries DEF Writing, TypeOK, Index
    <2> QED BY <1>1, <2>1, <2>2, <2>4, TwoEntries DEF Vouched, IsActive, Opposite
  <1>7. VouchedStarts'
    <2>1. ASSUME NEW k \in Index, Vouched(otadata[k])'
          PROVE  Vouched(otadata[k]) /\ otadata'[k] = otadata[k]
      <3>1. otadata'[k] = otadata[k]
        <4>1. CASE pc = "write"
          <5>1. PICK x \in CutShort(w.value) : otadata' = [otadata EXCEPT ![w.entry] = x]
            BY <4>1 DEF Reset
          <5>2. x.crc = FALSE
            BY <1>1, TornEntries
          <5> QED BY <2>1, <5>1, <5>2 DEF Vouched, TypeOK, Index
        <4>2. CASE pc # "write"
          BY <4>2 DEF Reset
        <4> QED BY <4>1, <4>2
      <3> QED BY <1>1, <2>1, <3>1 DEF Vouched
    <2> QED BY <1>1, <1>2, <1>3, <2>1 DEF TryInv, VouchedStarts, Vouched
  <1>8. ChosenOnce'
    BY <1>1, <1>2 DEF ChosenOnce
  <1> QED BY <1>4, <1>5, <1>6, <1>7, <1>8 DEF TryInv

\* An image is chosen once until it confirms itself, while the board has another that did,
\* through every interleaving of loader and app, every power cut and every number of slots,
\* as long as no erase or write of otadata fails (table.rs `select`, the candidate loop).
THEOREM OneTryEach == Spec => []OneTry
  <1>1. Init => TrySafe
    BY InitTry DEF TrySafe
  <1>2. KeptInv /\ TrySafe /\ [Next]_vars => TrySafe'
    <2> SUFFICES ASSUME KeptInv, TrySafe, [Next]_vars, bound'.faults = 0 PROVE TryInv'
      BY DEF TrySafe
    <2>1. TypeOK
      BY DEF KeptInv
    <2>2. CASE Next
      <3>1. bound \in [resets : Nat, faults : Nat, updates : Nat]
        BY <2>1 DEF TypeOK
      <3>2. ~FlashFault
        BY <3>1 DEF FlashFault
      <3>3. bound.faults = 0
        BY <2>2, <3>1, <3>2 DEF Next, Loader, App, EraseEntry, WriteEntry, ReadOtadata, Rollback,
           ChooseNone, ChooseActive, TryCandidates, Jump, Confirm, Restart, Download, SetBoot, Reset
      <3>4. TryInv
        BY <3>3 DEF TrySafe
      <3>5. CASE Loader
        BY <2>1, <3>4, <3>5, TryByErase, TryByWrite, TryByRead, TryByRollback, TryByChooseNone,
           TryByChooseActive, TryByTry, TryByJump DEF Loader
      <3>6. CASE App
        BY <2>1, <3>4, <3>6, TryByConfirm, TryByRestart, TryByDownload, TryBySetBoot DEF App
      <3>7. CASE Reset
        BY <2>1, <3>4, <3>7, TryByReset
      <3> QED BY <2>2, <3>2, <3>5, <3>6, <3>7 DEF Next
    <2>3. CASE UNCHANGED vars
      <3>1. bound.faults = 0 /\ TryInv
        BY <2>3 DEF vars, TrySafe
      <3>2. Writing' = Writing /\ Loading' = Loading
        BY <2>3 DEF vars, Writing, Loading
      <3>3. CopiesTrue' /\ WriteMeans'
        BY <2>3, <3>1, <3>2 DEF vars, TryInv, CopiesTrue, WriteMeans
      <3>4. OffersUntried' /\ StaleCovered'
        BY <2>3, <3>1, <3>2 DEF vars, TryInv, OffersUntried, StaleCovered, Offers, Stale, Vouched
      <3>5. VouchedStarts' /\ ChosenOnce'
        BY <2>3, <3>1, <3>2 DEF vars, TryInv, VouchedStarts, ChosenOnce, Vouched, Due, OtherTrusted
      <3> QED BY <3>3, <3>4, <3>5 DEF TryInv
    <2> QED BY <2>2, <2>3
  <1>3. KeptInv /\ TrySafe => OneTry
    <2> SUFFICES ASSUME KeptInv, TrySafe PROVE OneTry
      OBVIOUS
    <2>5. bound.faults \in Nat
      BY DEF KeptInv, TypeOK
    <2> SUFFICES ASSUME RunsTried, running = first, bound.faults = 0 PROVE FALSE
      BY <2>5 DEF OneTry
    <2>1. running \in Slot /\ OtherTrusted(running) /\ ~image[running].trusted /\ image[running].boots > 1
      BY DEF RunsTried
    <2>2. ChosenOnce /\ running # Nobody
      BY <2>1, Slots DEF TrySafe, TryInv
    <2>3. image[running] \in Image
      BY <2>1, Slots DEF KeptInv, TypeOK
    <2>4. Due(running, 1) /\ image[running].trusted = FALSE /\ image[running].boots \in 0 .. 2
      BY <2>2, <2>1, <2>3 DEF ChosenOnce, Image
    <2> QED BY <2>1, <2>4 DEF Due
  <1> QED BY <1>1, <1>2, <1>3, OtaInductive, PTL DEF Spec

=============================================================================
