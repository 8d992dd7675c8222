------------------------------ MODULE Manifest ------------------------------
(***************************************************************************)
(* A device's capability manifest (crates/rusty_esp_core/src/              *)
(* capability.rs): declared in any order, validated, encoded into a        *)
(* caller's buffer, carried to a host that parses it line by line and may  *)
(* encode what it read again, to check a signature over it.  On the way    *)
(* the text may be cut short, or it may come from a device that is newer,  *)
(* or that wrote its lines in another order.                               *)
(*                                                                         *)
(* Bytes are counted, not spelled: a string is its length and whether the  *)
(* characters in it are allowed; a line is its key and its value.          *)
(***************************************************************************)
EXTENDS Naturals, Sequences, SequencesExt, FiniteSetsExt

CONSTANTS
  TagLen,        \* Capability::ALL, in wire order, by the length of each tag
  MAX_FIELD_LEN,
  FieldLens,     \* bound: the lengths a model or firmware string may have
  BackingLens,   \* bound: those of a crate's name, 0 among them
  MaxDeclared    \* bound: declarations of a manifest

ASSUME ManifestAssumption ==
  /\ TagLen \in Seq(Nat \ {0}) /\ MAX_FIELD_LEN \in Nat
  /\ FieldLens \subseteq Nat /\ BackingLens \subseteq Nat /\ MaxDeclared \in Nat

Capability == 1 .. Len(TagLen)
NewerTag   == 0                    \* a tag this crate does not know
Status     == {"available", "preview", "planned"}
StatusLen(s) == IF s = "available" THEN 9 ELSE 7

\* an empty string has no character that is not allowed
Text(lens) == {t \in [len : lens, clean : BOOLEAN] : t.len = 0 => t.clean}
Declared   == [capability : Capability, status : Status, backing : Text(BackingLens)]

VARIABLES
  model, firmware,  \* what the device says of itself
  declared,         \* its declarations, in the order it made them
  buffer,           \* the length of the buffer encode is given
  encoded,          \* what encode answered: a length, or how it failed
  wire,             \* the text that reaches the host
  damage,           \* what became of it on the way
  next,             \* how many lines the host has read
  parsed,           \* the declarations it has read so far
  answer            \* what parse answered

manifestVars == <<model, firmware, declared, buffer, encoded, wire, damage, next, parsed,
                  answer>>

----------------------------------------------------------------------------
\* Declared::validate, the honesty rule
Honest(d) == (d.status = "planned" <=> d.backing.len = 0)
             /\ d.backing.clean

\* MUTANT of ParsedHonest: a line without a crate's name is taken for a broken one
ParsedHonestNamed(d) == d.backing.len # 0 /\ d.backing.clean

\* ParsedDeclared::validate
ParsedHonest(d) == (d.status = "planned" <=> d.backing.len = 0) /\ d.backing.clean

\* check_field
FieldOk(f) == f.len \in 1 .. MAX_FIELD_LEN /\ f.clean

\* MUTANT of OneTruth: only neighbours are compared
NoTwins(ds) == \A i \in 1 .. Len(ds) - 1 : ds[i].capability # ds[i + 1].capability

OneTruth(ds) == \A i, j \in DOMAIN ds : ds[i].capability = ds[j].capability => i = j

\* Manifest::validate
Validates(m, f, ds) == FieldOk(m) /\ FieldOk(f) /\ OneTruth(ds) /\ \A i \in DOMAIN ds : Honest(ds[i])

----------------------------------------------------------------------------
\* A line of the text.  `whole` says that its newline is there.
Version(known)    == [key |-> "janus", known |-> known, whole |-> TRUE]
Field(key, value) == [key |-> key, value |-> value, whole |-> TRUE]
ChipLine(known)   == [key |-> "chip", known |-> known, whole |-> TRUE]
CapLine(d)        == [key |-> "cap", d |-> d, whole |-> TRUE]

Header(m, f) == <<Version(TRUE), Field("model", m), Field("fw", f), ChipLine(TRUE)>>

\* MUTANT of InWireOrder: declarations are written in the order they were made
InGivenOrder(ds) == ds

Named(ds, c) == {i \in DOMAIN ds : ds[i].capability = c}

\* encode_lines: for each capability in ALL's order, the first declaration of it, if any
InWireOrder(ds) ==
  LET upTo[c \in 0 .. Len(TagLen)] ==
        IF c = 0 THEN <<>>
        ELSE IF Named(ds, c) = {} THEN upTo[c - 1]
        ELSE Append(upTo[c - 1], ds[Min(Named(ds, c))])
  IN upTo[Len(TagLen)]

Lines(m, f, ds) ==
  LET caps == InWireOrder(ds)
  IN Header(m, f) \o [k \in DOMAIN caps |-> CapLine(caps[k])]

ChipTag == 7

\* what the cursor writes for a line, piece by piece
LineLen(line) ==
  CASE line.key = "janus" -> 6 + 1 + 1
    [] line.key = "model" -> 6 + line.value.len + 1
    [] line.key = "fw"    -> 3 + line.value.len + 1
    [] line.key = "chip"  -> 5 + ChipTag + 1
    [] line.key = "cap"   -> 4 + TagLen[line.d.capability] + 1 + StatusLen(line.d.status) + 1
                             + line.d.backing.len + 1

\* `n` and all of `lens`, added one after the other
Total(n, lens) ==
  LET upTo[k \in 0 .. Len(lens)] == IF k = 0 THEN n ELSE upTo[k - 1] + lens[k]
  IN upTo[Len(lens)]

\* Cursor: where it stands after `lines`
Written(lines) == Total(0, [k \in DOMAIN lines |-> LineLen(lines[k])])

\* MUTANT of EncodedLen: the newline of a declaration is forgotten
EncodedLenShort(m, f, ds) ==
  Total(8 + 7 + m.len + 4 + f.len + 6 + ChipTag,
        [i \in DOMAIN ds |->
           6 + TagLen[ds[i].capability] + StatusLen(ds[i].status) + ds[i].backing.len])

\* encoded_len
EncodedLen(m, f, ds) ==
  Total(8 + 7 + m.len + 4 + f.len + 6 + ChipTag,
        [i \in DOMAIN ds |->
           7 + TagLen[ds[i].capability] + StatusLen(ds[i].status) + ds[i].backing.len])

----------------------------------------------------------------------------
\* the device

Declare ==
  /\ encoded = "none" /\ Len(declared) < MaxDeclared
  /\ \E d \in Declared : declared' = Append(declared, d)
  /\ UNCHANGED <<model, firmware, buffer, encoded, wire, damage, next, parsed, answer>>

\* Manifest::encode into a buffer that is just long enough, or one byte short
Encode ==
  /\ encoded = "none"
  /\ \E short \in {0, 1} :
       buffer' = EncodedLen(model, firmware, declared) - short
  /\ IF ~Validates(model, firmware, declared)
     THEN encoded' = "InvalidFormat" /\ UNCHANGED wire
     ELSE LET lines == Lines(model, firmware, declared)
          IN IF Written(lines) <= buffer'
             THEN encoded' = "Ok" /\ wire' = lines
             ELSE encoded' = "BufferTooSmall" /\ UNCHANGED wire
  /\ UNCHANGED <<model, firmware, declared, damage, next, parsed, answer>>

----------------------------------------------------------------------------
\* the way to the host (external)

OnTheWay(what) ==
  /\ encoded = "Ok" /\ next = 0 /\ answer = "none"
  /\ damage = "intact" /\ damage' = what
  /\ UNCHANGED <<model, firmware, declared, buffer, encoded, next, parsed, answer>>

\* inside a line, or between two
Torn(line) == {[line EXCEPT !.whole = FALSE]} \cup
              (IF line.key = "cap"
               THEN {[line EXCEPT !.whole = FALSE, !.d.backing.len = n] :
                       n \in 0 .. line.d.backing.len - 1}
               ELSE {})

CutShort ==
  /\ OnTheWay("cut")
  /\ \E k \in 0 .. Len(wire) - 1 :
       \/ wire' = SubSeq(wire, 1, k)
       \/ \E t \in Torn(wire[k + 1]) : wire' = Append(SubSeq(wire, 1, k), t)

\* the device is newer: another version, another chip, a capability this crate lacks
FromNewerDevice ==
  /\ OnTheWay("newer")
  /\ \/ wire' = [wire EXCEPT ![1] = Version(FALSE)]
     \/ wire' = [wire EXCEPT ![4] = ChipLine(FALSE)]
     \/ \E k \in 5 .. Len(wire) : wire' = [wire EXCEPT ![k].d.capability = NewerTag]

\* another encoder: the declarations in another order, or one of them twice
FromAnotherEncoder ==
  /\ OnTheWay("other")
  /\ \E i, j \in 5 .. Len(wire) :
       \/ i < j /\ wire' = [wire EXCEPT ![i] = wire[j], ![j] = wire[i]]
       \/ wire' = InsertAt(wire, i, wire[j])

----------------------------------------------------------------------------
\* the host: ParsedManifest::parse

Answers(a) == answer' = a /\ UNCHANGED <<next, parsed>>

\* MUTANT of NewlineAtEnd: the last line may lack its newline
NewlineOptional == TRUE

NewlineAtEnd == wire # <<>> /\ Last(wire).whole

Reads == encoded = "Ok" /\ answer = "none"
         /\ UNCHANGED <<model, firmware, declared, buffer, encoded, wire, damage>>

Refuse ==
  /\ Reads /\ next = 0 /\ ~NewlineAtEnd
  /\ Answers("InvalidFormat")

\* the version, then model, fw and chip; the fields are checked before the chip is looked up
ParseHeader ==
  /\ Reads /\ next = 0 /\ NewlineAtEnd
  /\ IF wire # <<>> /\ ~wire[1].known THEN Answers("Unsupported")
     ELSE IF Len(wire) < 4 \/ ~FieldOk(wire[2].value) \/ ~FieldOk(wire[3].value)
     THEN Answers("InvalidFormat")
     ELSE IF ~wire[4].known THEN Answers("Unsupported")
     ELSE next' = 4 /\ UNCHANGED <<parsed, answer>>

\* MUTANT of OnUnknownTag: the line is skipped
SkipsUnknownTag == next' = next + 1 /\ UNCHANGED <<parsed, answer>>

OnUnknownTag == Answers("Unsupported")

ParseCap ==
  /\ Reads /\ next >= 4 /\ next < Len(wire)
  /\ LET d == wire[next + 1].d
     IN IF d.capability = NewerTag THEN OnUnknownTag
        ELSE IF ~ParsedHonest(d) \/ ~OneTruth(Append(parsed, d)) THEN Answers("InvalidFormat")
        ELSE parsed' = Append(parsed, d) /\ next' = next + 1 /\ UNCHANGED answer

ParseDone ==
  /\ Reads /\ next >= 4 /\ next = Len(wire)
  /\ Answers("Ok")

\* what encode writes of what was parsed
Reencoded == Lines(wire[2].value, wire[3].value, parsed)

----------------------------------------------------------------------------
ManifestFresh ==
  /\ declared = <<>>
  /\ buffer = 0 /\ encoded = "none" /\ wire = <<>> /\ damage = "intact"
  /\ next = 0 /\ parsed = <<>> /\ answer = "none"

ManifestInit == model \in Text(FieldLens) /\ firmware \in Text(FieldLens) /\ ManifestFresh

ManifestNext == Declare \/ Encode \/ CutShort \/ FromNewerDevice \/ FromAnotherEncoder
                \/ Refuse \/ ParseHeader \/ ParseCap \/ ParseDone

ManifestSpec == ManifestInit /\ [][ManifestNext]_manifestVars

----------------------------------------------------------------------------
Facts(ds) == ToSet(ds)

\* The same facts give the same bytes, whatever order they were declared in
\* (capability.rs 346-349): the text is the one increasing listing of the set of facts.
SameFactsSameBytes ==
  encoded = "Ok" /\ damage = "intact" =>
    LET caps == SubSeq(wire, 5, Len(wire))
    IN /\ {caps[k].d : k \in DOMAIN caps} = Facts(declared)
       /\ Len(caps) = Len(declared)
       /\ \A i, j \in DOMAIN caps : i < j => caps[i].d.capability < caps[j].d.capability

\* encoded_len, which adds up the declarations, is exactly what the cursor needs, which
\* writes them piece by piece: such a buffer holds the text and one byte less does not.
SizedExactly ==
  encoded \in {"Ok", "BufferTooSmall"} =>
    (encoded = "Ok" <=> buffer >= EncodedLen(model, firmware, declared))

\* A text that arrives as it was sent is read back to the same facts, and encodes to the same
\* text again: what the signature check is built on (capability.rs 478-482).
RoundTrips ==
  damage = "intact" /\ answer # "none" =>
    answer = "Ok" /\ Facts(parsed) = Facts(declared) /\ Reencoded = wire

\* Whatever arrives, what a host accepts is a manifest the device could have encoded: honest,
\* with one truth per capability.
AcceptedIsValid ==
  answer = "Ok" =>
    /\ FieldOk(wire[2].value) /\ FieldOk(wire[3].value)
    /\ \A i, j \in DOMAIN parsed : parsed[i].capability = parsed[j].capability => i = j
    /\ \A i \in DOMAIN parsed : parsed[i].status # "planned" <=> parsed[i].backing.len > 0

\* A text cut short may lose declarations; it never changes one.
CutOnlyDrops ==
  damage = "cut" /\ answer = "Ok" => Facts(parsed) \subseteq Facts(declared)

\* A newer device is refused as a whole, and as newer (capability.rs 501-503, "rather than
\* read partially").
NewerIsUnsupported ==
  damage = "newer" /\ answer # "none" => answer = "Unsupported"

\* What the docs of parse and a test say of every text that is accepted: it is the one encode
\* writes (capability.rs 369-371, 498-500, 898-900).
AcceptedIsCanonical == answer = "Ok" => Reencoded = wire
=============================================================================
