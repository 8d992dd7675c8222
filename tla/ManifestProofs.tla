-------------------------- MODULE ManifestProofs ---------------------------
(***************************************************************************)
(* Manifests for every set of capabilities, every declaration and every    *)
(* length: the same facts give the same bytes, as many as were announced,  *)
(* and read back; whatever arrives, what is accepted is valid.             *)
(***************************************************************************)
EXTENDS Manifest, TLAPS, WellFoundedInduction, SequenceTheorems

\* a declaration as it may stand on the wire
WireDeclared == [capability : Nat, status : Status, backing : [len : Nat, clean : BOOLEAN]]

FlagLine  == [key : {"janus", "chip"}, known : BOOLEAN, whole : BOOLEAN]
FieldLine == [key : {"model", "fw"}, value : Text(Nat), whole : BOOLEAN]
CapsLine  == [key : {"cap"}, d : WireDeclared, whole : BOOLEAN]
AnyLine   == FlagLine \cup FieldLine \cup CapsLine
LineAt(k) == IF k \in {1, 4} THEN FlagLine ELSE IF k \in {2, 3} THEN FieldLine ELSE CapsLine

ManifestTypes ==
  /\ model \in Text(Nat) /\ firmware \in Text(Nat) /\ declared \in Seq(Declared)
  /\ encoded \in {"none", "Ok", "InvalidFormat", "BufferTooSmall"}
  /\ damage \in {"intact", "cut", "newer", "other"}
  /\ wire \in Seq(AnyLine)
  /\ \A k \in 1 .. Len(wire) : wire[k] \in LineAt(k)
  /\ parsed \in Seq(WireDeclared)
  /\ answer \in {"none", "Ok", "InvalidFormat", "Unsupported"}

\* nothing was sent, or something that was valid
SentInv ==
  /\ encoded # "Ok" => damage = "intact" /\ next = 0 /\ parsed = <<>> /\ answer = "none"
  /\ encoded = "Ok" => Validates(model, firmware, declared)

\* what the host has read, and checked, are the first lines
ReadInv ==
  /\ next = 0 \/ next \in 4 .. Len(wire)
  /\ next # 0 => /\ wire[Len(wire)].whole /\ wire[1].known /\ wire[4].known
                 /\ FieldOk(wire[2].value) /\ FieldOk(wire[3].value)
  /\ Len(parsed) = IF next = 0 THEN 0 ELSE next - 4
  /\ \A k \in 1 .. Len(parsed) : parsed[k] = wire[4 + k].d
  /\ OneTruth(parsed) /\ \A k \in 1 .. Len(parsed) : ParsedHonest(parsed[k])
  /\ answer = "Ok" => next # 0 /\ next = Len(wire)

Sent == Lines(model, firmware, declared)

IntactInv ==
  encoded = "Ok" /\ damage = "intact" => wire = Sent /\ answer \in {"none", "Ok"}

\* what has its last newline was cut between two lines
CutInv ==
  damage = "cut" /\ Len(wire) # 0 /\ wire[Len(wire)].whole =>
    \A k \in 5 .. Len(wire) : \E i \in 1 .. Len(declared) : wire[k].d = declared[i]

\* one line is of the newer device, and the host has not passed it
NewerAt(b) ==
  /\ Len(wire) = Len(Sent) /\ \A k \in 1 .. Len(wire) : k # b => wire[k] = Sent[k]
  /\ wire[b].whole
  /\ \/ b \in {1, 4} /\ ~wire[b].known /\ next = 0
     \/ b >= 5 /\ wire[b].d.capability = NewerTag /\ next < b

NewerInv ==
  damage = "newer" => /\ answer \in {"none", "Unsupported"}
                      /\ \E b \in 1 .. Len(wire) : NewerAt(b)

ManifestInv ==
  ManifestTypes /\ SentInv /\ SizedExactly /\ ReadInv /\ IntactInv /\ CutInv /\ NewerInv

----------------------------------------------------------------------------
(***************************************************************************)
(* Induction, over sets of naturals and sets of sequences.                 *)
(***************************************************************************)
LEMMA LeastNat ==
  ASSUME NEW S \in SUBSET Nat, S # {}
  PROVE  \E n \in S : \A m \in S : n <= m
  <1>1. IsWellFoundedOn(OpToRel(<, Nat), Nat)
    BY NatLessThanWellFounded
  <1>2. PICK n \in S : \A m \in S : ~(<<m, n>> \in OpToRel(<, Nat))
    BY <1>1, WFMin
  <1>3. n \in Nat /\ \A m \in S : m \in Nat /\ ~(m < n)
    BY <1>2 DEF OpToRel
  <1>4. \A m \in S : n <= m
    BY <1>3
  <1> QED BY <1>4

LEMMA SetInduction ==
  ASSUME NEW S, 0 \in S, \A n \in Nat : n \in S => n + 1 \in S
  PROVE  Nat \subseteq S
  <1> SUFFICES ASSUME ~(Nat \subseteq S) PROVE FALSE
    OBVIOUS
  <1>1. PICK n \in Nat \ S : \A m \in Nat \ S : n <= m
    BY LeastNat
  <1>2. n # 0 /\ n - 1 \in Nat /\ n - 1 \notin Nat \ S
    BY <1>1
  <1>3. n - 1 + 1 \in S
    BY <1>2
  <1> QED BY <1>1, <1>3

\* A set that holds the empty sequence, and with a sequence each that is one longer.
LEMMA SeqSetInduction ==
  ASSUME NEW T, NEW P, <<>> \in P,
         \A s \in Seq(T), x \in T : s \in P => Append(s, x) \in P
  PROVE  Seq(T) \subseteq P
  <1> DEFINE N == {n \in Nat : \A s \in Seq(T) : Len(s) = n => s \in P}
  <1>1. 0 \in N
    <2>1. \A s \in Seq(T) : Len(s) = 0 => s = <<>>
      OBVIOUS
    <2> QED BY <2>1
  <1>2. ASSUME NEW n \in Nat, n \in N PROVE n + 1 \in N
    <2> SUFFICES ASSUME NEW s \in Seq(T), Len(s) = n + 1 PROVE s \in P
      OBVIOUS
    <2> DEFINE f == SubSeq(s, 1, n)
    <2>1. f \in Seq(T) /\ Len(f) = n /\ s[n + 1] \in T
      OBVIOUS
    <2>2. s = Append(f, s[n + 1])
      OBVIOUS
    <2>3. f \in P
      BY <1>2, <2>1
    <2> QED BY <2>1, <2>2, <2>3
  <1> HIDE DEF N
  <1>3. Nat \subseteq N
    BY <1>1, <1>2, SetInduction
  <1> USE DEF N
  <1>4. \A s \in Seq(T) : Len(s) \in Nat
    OBVIOUS
  <1> QED BY <1>3, <1>4

----------------------------------------------------------------------------
(***************************************************************************)
(* Sums of lengths.                                                        *)
(***************************************************************************)
TotalStep(n, f, lens, k) == IF k = 0 THEN n ELSE f[k - 1] + lens[k]

LEMMA TotalExists ==
  ASSUME NEW n \in Nat, NEW lens \in Seq(Nat)
  PROVE  \E f \in [0 .. Len(lens) -> Nat] :
           f = [k \in 0 .. Len(lens) |-> TotalStep(n, f, lens, k)]
  <1> DEFINE Right(f, m) == \A k \in 0 .. m : f[k] = TotalStep(n, f, lens, k)
             N == {m \in Nat : m > Len(lens) \/ \E f \in [0 .. m -> Nat] : Right(f, m)}
  <1>1. Len(lens) \in Nat /\ \A k \in 1 .. Len(lens) : lens[k] \in Nat
    OBVIOUS
  <1>2. 0 \in N
    <2> DEFINE f == [k \in 0 .. 0 |-> n]
    <2>1. f \in [0 .. 0 -> Nat] /\ Right(f, 0)
      BY DEF TotalStep
    <2> QED BY <2>1
  <1>3. ASSUME NEW m \in Nat, m \in N PROVE m + 1 \in N
    <2> SUFFICES ASSUME ~(m + 1 > Len(lens)) PROVE \E f \in [0 .. m + 1 -> Nat] : Right(f, m + 1)
      OBVIOUS
    <2>0. m + 1 <= Len(lens) /\ ~(m > Len(lens))
      BY <1>1
    <2>1. PICK f \in [0 .. m -> Nat] : Right(f, m)
      BY <1>3, <2>0
    <2> DEFINE e == f[m] + lens[m + 1]
               g == [k \in 0 .. m + 1 |-> IF k = m + 1 THEN e ELSE f[k]]
    <2>2. e \in Nat
      BY <1>1, <2>0, <2>1
    <2>3. g \in [0 .. m + 1 -> Nat]
      BY <2>1, <2>2
    <2>4. ASSUME NEW k \in 0 .. m + 1 PROVE g[k] = TotalStep(n, g, lens, k)
      <3>1. CASE k = m + 1
        <4>1. g[k] = e /\ k # 0 /\ k - 1 = m /\ g[m] = f[m]
          BY <3>1
        <4> QED BY <3>1, <4>1 DEF TotalStep
      <3>2. CASE k # m + 1 /\ k # 0
        <4>1. k \in 0 .. m /\ k - 1 \in 0 .. m + 1 /\ k - 1 # m + 1
          BY <3>2
        <4>2. g[k] = f[k] /\ g[k - 1] = f[k - 1]
          BY <3>2, <4>1
        <4>3. f[k] = TotalStep(n, f, lens, k)
          BY <2>1, <4>1
        <4> QED BY <3>2, <4>2, <4>3 DEF TotalStep
      <3>3. CASE k # m + 1 /\ k = 0
        <4>1. g[k] = f[k] /\ f[k] = TotalStep(n, f, lens, k)
          BY <2>1, <3>3
        <4> QED BY <3>3, <4>1 DEF TotalStep
      <3> QED BY <3>1, <3>2, <3>3
    <2> QED BY <2>3, <2>4
  <1> HIDE DEF N
  <1>4. Len(lens) \in N
    BY <1>1, <1>2, <1>3, SetInduction
  <1> USE DEF N
  <1>5. PICK f \in [0 .. Len(lens) -> Nat] : Right(f, Len(lens))
    BY <1>1, <1>4
  <1>6. f = [k \in 0 .. Len(lens) |-> TotalStep(n, f, lens, k)]
    BY <1>5
  <1> QED BY <1>6

LEMMA TotalIs ==
  ASSUME NEW n \in Nat, NEW lens \in Seq(Nat)
  PROVE  \E f : /\ Total(n, lens) = f[Len(lens)]
                /\ f[0] = n
                /\ \A k \in 0 .. Len(lens) : f[k] \in Nat
                /\ \A k \in 1 .. Len(lens) : f[k] = f[k - 1] + lens[k]
  <1> DEFINE f == CHOOSE f : f = [k \in 0 .. Len(lens) |-> TotalStep(n, f, lens, k)]
  <1>1. Total(n, lens) = f[Len(lens)]
    BY DEF Total, TotalStep
  <1>2. f = [k \in 0 .. Len(lens) |-> TotalStep(n, f, lens, k)]
    BY TotalExists
  <1> HIDE DEF f
  <1>3. Len(lens) \in Nat /\ \A k \in 1 .. Len(lens) : lens[k] \in Nat
    OBVIOUS
  <1>4. \A k \in 0 .. Len(lens) : f[k] = TotalStep(n, f, lens, k)
    BY <1>2
  <1>5. f[0] = n
    BY <1>3, <1>4 DEF TotalStep
  <1>6. \A k \in 1 .. Len(lens) : f[k] = f[k - 1] + lens[k]
    BY <1>3, <1>4 DEF TotalStep
  <1> DEFINE N == {k \in Nat : k <= Len(lens) => f[k] \in Nat}
  <1>7. 0 \in N
    BY <1>5
  <1>8. ASSUME NEW k \in Nat, k \in N PROVE k + 1 \in N
    <2> SUFFICES ASSUME k + 1 <= Len(lens) PROVE f[k + 1] \in Nat
      OBVIOUS
    <2>1. k + 1 \in 1 .. Len(lens) /\ (k + 1) - 1 = k /\ f[k] \in Nat
      BY <1>3, <1>8
    <2>2. f[k + 1] = f[k] + lens[k + 1] /\ lens[k + 1] \in Nat
      BY <1>3, <1>6, <2>1
    <2> QED BY <2>1, <2>2
  <1> HIDE DEF N
  <1>9. Nat \subseteq N
    BY <1>7, <1>8, SetInduction
  <1> USE DEF N
  <1>10. \A k \in 0 .. Len(lens) : f[k] \in Nat
    BY <1>3, <1>9
  <1> QED BY <1>1, <1>5, <1>6, <1>10

\* A sum is a number, and grows by what is appended.
LEMMA TotalType ==
  ASSUME NEW n \in Nat, NEW lens \in Seq(Nat)
  PROVE  Total(n, lens) \in Nat
  <1>1. PICK f : Total(n, lens) = f[Len(lens)] /\ \A k \in 0 .. Len(lens) : f[k] \in Nat
    BY TotalIs
  <1>2. Len(lens) \in 0 .. Len(lens)
    OBVIOUS
  <1> QED BY <1>1, <1>2

LEMMA TotalEmpty == ASSUME NEW n \in Nat PROVE Total(n, <<>>) = n
  <1> DEFINE e == <<>>
  <1>1. e \in Seq(Nat)
    OBVIOUS
  <1>2. Len(e) = 0
    OBVIOUS
  <1> HIDE DEF e
  <1>3. \E f : Total(n, e) = f[Len(e)] /\ f[0] = n
    BY <1>1, TotalIs
  <1> QED BY <1>2, <1>3 DEF e

LEMMA TotalAppend ==
  ASSUME NEW n \in Nat, NEW lens \in Seq(Nat), NEW x \in Nat
  PROVE  Total(n, Append(lens, x)) = Total(n, lens) + x
  <1> DEFINE more == Append(lens, x)
  <1>1. /\ more \in Seq(Nat) /\ Len(lens) \in Nat /\ Len(more) = Len(lens) + 1
        /\ more[Len(lens) + 1] = x /\ \A k \in 1 .. Len(lens) : more[k] = lens[k]
    OBVIOUS
  <1> HIDE DEF more
  <1>2. PICK f : /\ Total(n, lens) = f[Len(lens)] /\ f[0] = n
                 /\ \A k \in 1 .. Len(lens) : f[k] = f[k - 1] + lens[k]
    BY TotalIs
  <1>3. PICK g : /\ Total(n, more) = g[Len(more)] /\ g[0] = n
                 /\ \A k \in 1 .. Len(more) : g[k] = g[k - 1] + more[k]
    <2>1. more \in Seq(Nat)
      BY <1>1
    <2> HIDE <1>1, <1>2
    <2> QED BY <2>1, TotalIs
  <1> DEFINE N == {k \in Nat : k <= Len(lens) => g[k] = f[k]}
  <1>4. 0 \in N
    BY <1>2, <1>3
  <1>5. ASSUME NEW k \in Nat, k \in N PROVE k + 1 \in N
    <2> SUFFICES ASSUME k + 1 <= Len(lens) PROVE g[k + 1] = f[k + 1]
      OBVIOUS
    <2>1. k + 1 \in 1 .. Len(lens) /\ k + 1 \in 1 .. Len(more) /\ (k + 1) - 1 = k /\ g[k] = f[k]
      BY <1>1, <1>5
    <2>2. g[k + 1] = g[k] + more[k + 1] /\ f[k + 1] = f[k] + lens[k + 1]
      BY <1>2, <1>3, <2>1
    <2> QED BY <1>1, <2>1, <2>2
  <1> HIDE DEF N
  <1>6. Nat \subseteq N
    BY <1>4, <1>5, SetInduction
  <1> USE DEF N
  <1>7. g[Len(lens)] = f[Len(lens)]
    BY <1>1, <1>6
  <1>8. Len(lens) + 1 \in 1 .. Len(more) /\ (Len(lens) + 1) - 1 = Len(lens)
    BY <1>1
  <1>9. g[Len(lens) + 1] = g[Len(lens)] + more[Len(lens) + 1]
    BY <1>3, <1>8
  <1> QED BY <1>1, <1>2, <1>3, <1>7, <1>9 DEF more

\* It does not matter what the sum starts from, nor what stands before its terms.
LEMMA TotalShift ==
  ASSUME NEW n \in Nat, NEW lens \in Seq(Nat)
  PROVE  Total(n, lens) = n + Total(0, lens)
  <1> DEFINE P == {s \in Seq(Nat) : Total(n, s) = n + Total(0, s)}
  <1>1. <<>> \in P
    BY TotalEmpty
  <1>2. ASSUME NEW s \in Seq(Nat), NEW x \in Nat, s \in P PROVE Append(s, x) \in P
    <2>1. Total(n, Append(s, x)) = Total(n, s) + x /\ Total(0, Append(s, x)) = Total(0, s) + x
      BY TotalAppend
    <2>2. Total(n, s) \in Nat /\ Total(0, s) \in Nat
      BY TotalType
    <2>3. Append(s, x) \in Seq(Nat)
      OBVIOUS
    <2> QED BY <1>2, <2>1, <2>2, <2>3
  <1> HIDE DEF P
  <1>3. Seq(Nat) \subseteq P
    BY <1>1, <1>2, SeqSetInduction
  <1> QED BY <1>3 DEF P

LEMMA TotalAfterFour ==
  ASSUME NEW a \in Nat, NEW b \in Nat, NEW c \in Nat, NEW d \in Nat, NEW lens \in Seq(Nat)
  PROVE  Total(0, <<a, b, c, d>> \o lens) = a + b + c + d + Total(0, lens)
  <1> DEFINE four == <<a, b, c, d>>
             P == {s \in Seq(Nat) : Total(0, four \o s) = a + b + c + d + Total(0, s)}
  <1>1. four \in Seq(Nat)
    OBVIOUS
  <1>2. Total(0, four) = a + b + c + d
    <2> DEFINE s1 == Append(<<>>, a)
               s2 == Append(s1, b)
               s3 == Append(s2, c)
    <2>1. four = Append(s3, d)
      OBVIOUS
    <2>2. <<>> \in Seq(Nat) /\ s1 \in Seq(Nat) /\ s2 \in Seq(Nat) /\ s3 \in Seq(Nat)
      OBVIOUS
    <2>3. /\ Total(0, <<>>) = 0 /\ Total(0, s1) = Total(0, <<>>) + a /\ Total(0, s2) = Total(0, s1) + b
          /\ Total(0, s3) = Total(0, s2) + c /\ Total(0, Append(s3, d)) = Total(0, s3) + d
      <3> HIDE DEF s1, s2, s3
      <3>1. Total(0, Append(s3, d)) = Total(0, s3) + d
        BY <2>2, TotalAppend
      <3>2. Total(0, s3) = Total(0, s2) + c
        BY <2>2, TotalAppend DEF s3
      <3>3. Total(0, s2) = Total(0, s1) + b
        BY <2>2, TotalAppend DEF s2
      <3>4. Total(0, s1) = Total(0, <<>>) + a
        BY <2>2, TotalAppend DEF s1
      <3> QED BY <3>1, <3>2, <3>3, <3>4, TotalEmpty
    <2> HIDE DEF s1, s2, s3, four
    <2> QED BY <2>1, <2>3
  <1> HIDE DEF four
  <1>3. <<>> \in P
    <2>1. four \o <<>> = four
      BY <1>1
    <2> QED BY <1>2, <2>1, TotalEmpty
  <1>4. ASSUME NEW s \in Seq(Nat), NEW x \in Nat, s \in P PROVE Append(s, x) \in P
    <2>1. four \o Append(s, x) = Append(four \o s, x) /\ four \o s \in Seq(Nat)
      BY <1>1
    <2>2. /\ Total(0, Append(four \o s, x)) = Total(0, four \o s) + x
          /\ Total(0, Append(s, x)) = Total(0, s) + x
      BY <2>1, TotalAppend
    <2>3. Total(0, s) \in Nat
      BY TotalType
    <2>4. Append(s, x) \in Seq(Nat)
      OBVIOUS
    <2>5. Total(0, four \o s) = a + b + c + d + Total(0, s)
      BY <1>4
    <2>6. Total(0, four \o Append(s, x)) = a + b + c + d + Total(0, Append(s, x))
      <3> HIDE DEF P
      <3> QED BY <2>1, <2>2, <2>3, <2>5
    <2> QED BY <2>4, <2>6
  <1> HIDE DEF P
  <1>5. Seq(Nat) \subseteq P
    BY <1>3, <1>4, SeqSetInduction
  <1> QED BY <1>5 DEF P, four

----------------------------------------------------------------------------
(***************************************************************************)
(* The order of the wire.                                                  *)
(***************************************************************************)
UpStep(ds, f, c) ==
  IF c = 0 THEN <<>>
  ELSE IF Named(ds, c) = {} THEN f[c - 1]
  ELSE Append(f[c - 1], ds[Min(Named(ds, c))])

LEMMA FirstNamed ==
  ASSUME NEW T, NEW ds \in Seq(T), NEW c, Named(ds, c) # {}
  PROVE  /\ Min(Named(ds, c)) \in Named(ds, c)
         /\ Min(Named(ds, c)) \in 1 .. Len(ds) /\ ds[Min(Named(ds, c))] \in T
         /\ ds[Min(Named(ds, c))].capability = c
  <1> DEFINE S == Named(ds, c)
  <1>1. S \subseteq 1 .. Len(ds) /\ S \in SUBSET Nat /\ \A i \in S : ds[i].capability = c
    BY DEF Named
  <1> HIDE DEF S
  <1>2. \E n \in S : \A m \in S : n <= m
    BY <1>1, LeastNat DEF S
  <1>3. Min(S) \in S
    BY <1>2 DEF Min
  <1>4. \A i \in 1 .. Len(ds) : ds[i] \in T
    OBVIOUS
  <1> QED BY <1>1, <1>3, <1>4 DEF S

LEMMA OrderExists ==
  ASSUME NEW T, NEW ds \in Seq(T)
  PROVE  \E f \in [0 .. Len(TagLen) -> Seq(T)] :
           f = [c \in 0 .. Len(TagLen) |-> UpStep(ds, f, c)]
  <1> DEFINE L == Len(TagLen)
             Right(f, m) == \A c \in 0 .. m : f[c] = UpStep(ds, f, c)
             N == {m \in Nat : m > L \/ \E f \in [0 .. m -> Seq(T)] : Right(f, m)}
  <1>1. L \in Nat
    BY ManifestAssumption
  <1>2. 0 \in N
    <2> DEFINE f == [c \in 0 .. 0 |-> <<>>]
    <2>1. f \in [0 .. 0 -> Seq(T)] /\ Right(f, 0)
      BY DEF UpStep
    <2> QED BY <2>1
  <1> HIDE DEF L
  <1>3. ASSUME NEW m \in Nat, m \in N PROVE m + 1 \in N
    <2>n. m + 1 \in Nat
      OBVIOUS
    <2> SUFFICES ASSUME ~(m + 1 > L) PROVE \E f \in [0 .. m + 1 -> Seq(T)] : Right(f, m + 1)
      BY <2>n, Zenon
    <2>0. m + 1 <= L /\ ~(m > L)
      BY <1>1
    <2>1. PICK f \in [0 .. m -> Seq(T)] : Right(f, m)
      BY <1>3, <2>0
    <2> DEFINE e == IF Named(ds, m + 1) = {} THEN f[m]
                    ELSE Append(f[m], ds[Min(Named(ds, m + 1))])
               g == [c \in 0 .. m + 1 |-> IF c = m + 1 THEN e ELSE f[c]]
    <2>2. e \in Seq(T)
      <3>1. f[m] \in Seq(T)
        BY <2>1
      <3>2. Named(ds, m + 1) # {} => ds[Min(Named(ds, m + 1))] \in T
        BY FirstNamed
      <3> QED BY <3>1, <3>2
    <2> HIDE DEF e
    <2>3. g \in [0 .. m + 1 -> Seq(T)]
      BY <2>1, <2>2
    <2>4. ASSUME NEW c \in 0 .. m + 1 PROVE g[c] = UpStep(ds, g, c)
      <3>1. CASE c = m + 1
        <4>1. g[c] = e /\ c # 0 /\ c - 1 = m /\ g[m] = f[m]
          BY <3>1
        <4> QED BY <3>1, <4>1 DEF UpStep, e
      <3>2. CASE c # m + 1 /\ c # 0
        <4>1. c \in 0 .. m /\ c - 1 \in 0 .. m + 1 /\ c - 1 # m + 1
          BY <3>2
        <4>2. g[c] = f[c] /\ g[c - 1] = f[c - 1]
          BY <3>2, <4>1
        <4>3. f[c] = UpStep(ds, f, c)
          BY <2>1, <4>1
        <4> QED BY <3>2, <4>2, <4>3 DEF UpStep
      <3>3. CASE c # m + 1 /\ c = 0
        <4>1. g[c] = f[c] /\ f[c] = UpStep(ds, f, c)
          BY <2>1, <3>3
        <4> QED BY <3>3, <4>1 DEF UpStep
      <3> QED BY <3>1, <3>2, <3>3
    <2> QED BY <2>3, <2>4
  <1> HIDE DEF N
  <1>4. L \in N
    BY <1>1, <1>2, <1>3, SetInduction
  <1> USE DEF N
  <1>5. PICK f \in [0 .. L -> Seq(T)] : Right(f, L)
    BY <1>1, <1>4
  <1>6. f = [c \in 0 .. L |-> UpStep(ds, f, c)]
    BY <1>5
  <1> QED BY <1>5, <1>6 DEF L

\* What the wire carries of the capabilities up to each.
WireSteps(u, T, ds) ==
  /\ InWireOrder(ds) = u[Len(TagLen)]
  /\ u[0] = <<>>
  /\ \A c \in 0 .. Len(TagLen) : u[c] \in Seq(T)
  /\ \A c \in 1 .. Len(TagLen) :
       u[c] = IF Named(ds, c) = {} THEN u[c - 1] ELSE Append(u[c - 1], ds[Min(Named(ds, c))])

LEMMA OrderIs == ASSUME NEW T, NEW ds \in Seq(T) PROVE \E u : WireSteps(u, T, ds)
  <1> DEFINE u == CHOOSE f : f = [c \in 0 .. Len(TagLen) |-> UpStep(ds, f, c)]
  <1>1. InWireOrder(ds) = u[Len(TagLen)]
    BY DEF InWireOrder, UpStep
  <1>2. u = [c \in 0 .. Len(TagLen) |-> UpStep(ds, u, c)]
    BY OrderExists
  <1> HIDE DEF u
  <1>3. Len(TagLen) \in Nat
    BY ManifestAssumption
  <1>4. \A c \in 0 .. Len(TagLen) : u[c] = UpStep(ds, u, c)
    BY <1>2
  <1>5. u[0] = <<>>
    BY <1>3, <1>4 DEF UpStep
  <1>6. \A c \in 1 .. Len(TagLen) :
          u[c] = IF Named(ds, c) = {} THEN u[c - 1] ELSE Append(u[c - 1], ds[Min(Named(ds, c))])
    <2> SUFFICES ASSUME NEW c \in 1 .. Len(TagLen)
                 PROVE  u[c] = IF Named(ds, c) = {} THEN u[c - 1]
                               ELSE Append(u[c - 1], ds[Min(Named(ds, c))])
      OBVIOUS
    <2>1. c # 0 /\ c \in 0 .. Len(TagLen)
      BY <1>3
    <2> QED BY <1>4, <2>1 DEF UpStep
  <1> DEFINE N == {c \in Nat : c <= Len(TagLen) => u[c] \in Seq(T)}
  <1>7. 0 \in N
    <2>1. <<>> \in Seq(T)
      OBVIOUS
    <2>2. u[0] \in Seq(T)
      BY <1>5, <2>1
    <2> QED BY <2>2
  <1>8. ASSUME NEW c \in Nat, c \in N PROVE c + 1 \in N
    <2> SUFFICES ASSUME c + 1 <= Len(TagLen) PROVE u[c + 1] \in Seq(T)
      OBVIOUS
    <2>1. c + 1 \in 1 .. Len(TagLen) /\ (c + 1) - 1 = c /\ u[c] \in Seq(T)
      BY <1>3, <1>8
    <2>2. u[c + 1] = IF Named(ds, c + 1) = {} THEN u[c]
                     ELSE Append(u[c], ds[Min(Named(ds, c + 1))])
      BY <1>6, <2>1
    <2>3. Named(ds, c + 1) # {} => ds[Min(Named(ds, c + 1))] \in T
      BY FirstNamed
    <2> QED BY <2>1, <2>2, <2>3
  <1> HIDE DEF N
  <1>9. Nat \subseteq N
    BY <1>7, <1>8, SetInduction
  <1> USE DEF N
  <1>10. \A c \in 0 .. Len(TagLen) : u[c] \in Seq(T)
    BY <1>3, <1>9
  <1> QED BY <1>1, <1>5, <1>6, <1>10 DEF WireSteps

\* Of declarations with one truth per capability, each is the one found for its capability.
LEMMA FoundIs ==
  ASSUME NEW T, NEW ds \in Seq(T), OneTruth(ds), NEW i \in 1 .. Len(ds)
  PROVE  Named(ds, ds[i].capability) # {} /\ Min(Named(ds, ds[i].capability)) = i
  <1> DEFINE c == ds[i].capability
  <1>1. i \in Named(ds, c)
    BY DEF Named
  <1>2. Min(Named(ds, c)) \in 1 .. Len(ds) /\ ds[Min(Named(ds, c))].capability = c
    BY <1>1, FirstNamed
  <1> HIDE DEF c
  <1>3. Min(Named(ds, c)) = i
    BY <1>2 DEF OneTruth, c
  <1> QED BY <1>1, <1>3 DEF c

LEMMA Truths ==
  ASSUME NEW T, NEW ds \in Seq(T)
  PROVE  /\ OneTruth(ds) <=> \A i, j \in 1 .. Len(ds) : ds[i].capability = ds[j].capability => i = j
         /\ \A c : Named(ds, c) = {i \in 1 .. Len(ds) : ds[i].capability = c}
  <1>1. DOMAIN ds = 1 .. Len(ds)
    OBVIOUS
  <1> QED BY <1>1 DEF OneTruth, Named

Increasing(s) == \A i, j \in 1 .. Len(s) : i < j => s[i].capability < s[j].capability

\* The text lists the facts, each once, by increasing capability.
LEMMA OrderRight ==
  ASSUME NEW ds \in Seq(Declared), OneTruth(ds)
  PROVE  /\ InWireOrder(ds) \in Seq(Declared)
         /\ \A k \in 1 .. Len(InWireOrder(ds)) :
              \E i \in 1 .. Len(ds) : InWireOrder(ds)[k] = ds[i]
         /\ \A i \in 1 .. Len(ds) :
              \E k \in 1 .. Len(InWireOrder(ds)) : InWireOrder(ds)[k] = ds[i]
         /\ Increasing(InWireOrder(ds))
  <1>1p. PICK u : WireSteps(u, Declared, ds)
    BY OrderIs
  <1>1. /\ InWireOrder(ds) = u[Len(TagLen)]
        /\ u[0] = <<>>
        /\ \A c \in 0 .. Len(TagLen) : u[c] \in Seq(Declared)
        /\ \A c \in 1 .. Len(TagLen) :
             u[c] = IF Named(ds, c) = {} THEN u[c - 1]
                    ELSE Append(u[c - 1], ds[Min(Named(ds, c))])
    BY <1>1p DEF WireSteps
  <1>2. Len(TagLen) \in Nat
    BY ManifestAssumption
  <1>3. \A i \in 1 .. Len(ds) : ds[i] \in Declared /\ ds[i].capability \in 1 .. Len(TagLen)
    <2>1. \A i \in 1 .. Len(ds) : ds[i] \in Declared
      OBVIOUS
    <2>2. \A d \in Declared : d.capability \in 1 .. Len(TagLen)
      BY DEF Declared, Capability
    <2> QED BY <2>1, <2>2
  <1> DEFINE From(c) == \A k \in 1 .. Len(u[c]) :
                          \E i \in 1 .. Len(ds) : u[c][k] = ds[i] /\ ds[i].capability <= c
             All(c)  == \A i \in 1 .. Len(ds) : ds[i].capability <= c =>
                          \E k \in 1 .. Len(u[c]) : u[c][k] = ds[i]
             N == {c \in Nat : c <= Len(TagLen) => From(c) /\ All(c) /\ Increasing(u[c])}
  <1>4. 0 \in N
    <2>1. Len(u[0]) = 0
      BY <1>1
    <2> QED BY <1>3, <2>1 DEF Increasing
  <1>5. ASSUME NEW c \in Nat, c \in N PROVE c + 1 \in N
    <2>n. c + 1 \in Nat
      OBVIOUS
    <2> SUFFICES ASSUME c + 1 <= Len(TagLen)
                 PROVE  From(c + 1) /\ All(c + 1) /\ Increasing(u[c + 1])
      BY <2>n, Zenon
    <2> DEFINE s == u[c]
               t == u[c + 1]
    <2>1. c + 1 \in 1 .. Len(TagLen) /\ (c + 1) - 1 = c /\ c \in 0 .. Len(TagLen)
      BY <1>2
    <2>2. s \in Seq(Declared) /\ From(c) /\ All(c) /\ Increasing(s)
      BY <1>1, <1>2, <1>5, <2>1
    <2>3. t = IF Named(ds, c + 1) = {} THEN s ELSE Append(s, ds[Min(Named(ds, c + 1))])
      BY <1>1, <2>1
    <2>4. \A k \in 1 .. Len(s) : s[k].capability \in Nat /\ s[k].capability <= c
      <3> SUFFICES ASSUME NEW k \in 1 .. Len(s)
                   PROVE  s[k].capability \in Nat /\ s[k].capability <= c
        OBVIOUS
      <3>1. PICK i \in 1 .. Len(ds) : s[k] = ds[i] /\ ds[i].capability <= c
        BY <2>2
      <3> QED BY <1>2, <1>3, <3>1
    <2>5. CASE Named(ds, c + 1) = {}
      <3>1. t = s
        BY <2>3, <2>5
      <3>2. \A i \in 1 .. Len(ds) : ds[i].capability # c + 1
        BY <2>5 DEF Named
      <3>3. \A i \in 1 .. Len(ds) : ds[i].capability <= c + 1 => ds[i].capability <= c
        BY <1>3, <3>2
      <3>4. \A i \in 1 .. Len(ds) : ds[i].capability <= c => ds[i].capability <= c + 1
        BY <1>3
      <3>5. From(c + 1)
        BY <2>2, <3>1, <3>4
      <3>6. All(c + 1)
        BY <2>2, <3>1, <3>3
      <3> QED BY <2>2, <3>1, <3>5, <3>6
    <2>6. CASE Named(ds, c + 1) # {}
      <3> DEFINE n == Min(Named(ds, c + 1))
                 d == ds[n]
      <3>1. n \in 1 .. Len(ds) /\ d \in Declared /\ d.capability = c + 1
        BY <2>6, FirstNamed
      <3>2. t = Append(s, d)
        BY <2>3, <2>6
      <3> HIDE DEF n, d
      <3>3. /\ Len(s) \in Nat /\ Len(t) = Len(s) + 1 /\ t[Len(s) + 1] = d
            /\ \A k \in 1 .. Len(s) : t[k] = s[k]
        BY <2>2, <3>1, <3>2
      <3> HIDE DEF s, t
      <3>4. From(c + 1)
        <4> SUFFICES ASSUME NEW k \in 1 .. Len(t)
                     PROVE  \E i \in 1 .. Len(ds) : t[k] = ds[i] /\ ds[i].capability <= c + 1
          BY DEF t
        <4>1. CASE k = Len(s) + 1
          <5>1. t[k] = ds[n] /\ ds[n].capability <= c + 1
            BY <3>1, <3>3, <4>1 DEF d
          <5> QED BY <3>1, <5>1
        <4>2. CASE k \in 1 .. Len(s)
          <5>1. PICK i \in 1 .. Len(ds) : s[k] = ds[i] /\ ds[i].capability <= c
            BY <2>2, <4>2 DEF s
          <5>2. ds[i].capability <= c + 1
            BY <1>3, <5>1
          <5> QED BY <3>3, <4>2, <5>1, <5>2
        <4> QED BY <3>3, <4>1, <4>2
      <3>5. All(c + 1)
        <4> SUFFICES ASSUME NEW i \in 1 .. Len(ds), ds[i].capability <= c + 1
                     PROVE  \E k \in 1 .. Len(t) : t[k] = ds[i]
          BY DEF t
        <4>1. CASE ds[i].capability = c + 1
          <5>1. i = n
            BY <3>1, <4>1 DEF OneTruth, d
          <5>2. Len(s) + 1 \in 1 .. Len(t)
            BY <3>3
          <5> QED BY <3>3, <5>1, <5>2 DEF d
        <4>2. CASE ds[i].capability # c + 1
          <5>1. ds[i].capability <= c
            BY <1>3, <4>2
          <5>2. PICK k \in 1 .. Len(s) : s[k] = ds[i]
            BY <2>2, <5>1 DEF s
          <5>3. k \in 1 .. Len(t)
            BY <3>3
          <5> QED BY <3>3, <5>2, <5>3
        <4> QED BY <4>1, <4>2
      <3>6. Increasing(t)
        <4> SUFFICES ASSUME NEW i \in 1 .. Len(t), NEW j \in 1 .. Len(t), i < j
                     PROVE  t[i].capability < t[j].capability
          BY DEF Increasing
        <4>1. i \in 1 .. Len(s) /\ t[i] = s[i]
          BY <3>3
        <4>2. CASE j = Len(s) + 1
          BY <2>4, <3>1, <3>3, <4>1, <4>2
        <4>3. CASE j \in 1 .. Len(s)
          BY <2>2, <3>3, <4>1, <4>3 DEF Increasing
        <4> QED BY <3>3, <4>2, <4>3
      <3> QED BY <3>4, <3>5, <3>6 DEF t
    <2> QED BY <2>5, <2>6
  <1> HIDE DEF N
  <1>6. Nat \subseteq N
    BY <1>4, <1>5, SetInduction
  <1> USE DEF N
  <1>7. From(Len(TagLen)) /\ All(Len(TagLen)) /\ Increasing(u[Len(TagLen)])
    BY <1>2, <1>6
  <1>8. u[Len(TagLen)] \in Seq(Declared)
    BY <1>1, <1>2
  <1>9. \A i \in 1 .. Len(ds) : ds[i].capability <= Len(TagLen)
    BY <1>2, <1>3
  <1> QED BY <1>1, <1>7, <1>8, <1>9

\* The order they were declared in does not show.
LEMMA OrderByFacts ==
  ASSUME NEW ds \in Seq(Declared), OneTruth(ds), NEW es \in Seq(Declared), OneTruth(es),
         \A i \in 1 .. Len(ds) : \E j \in 1 .. Len(es) : ds[i] = es[j],
         \A j \in 1 .. Len(es) : \E i \in 1 .. Len(ds) : ds[i] = es[j]
  PROVE  InWireOrder(ds) = InWireOrder(es)
  <1>1p. PICK u : WireSteps(u, Declared, ds)
    BY OrderIs
  <1>1. /\ InWireOrder(ds) = u[Len(TagLen)]
        /\ u[0] = <<>>
        /\ \A c \in 0 .. Len(TagLen) : u[c] \in Seq(Declared)
        /\ \A c \in 1 .. Len(TagLen) :
             u[c] = IF Named(ds, c) = {} THEN u[c - 1]
                    ELSE Append(u[c - 1], ds[Min(Named(ds, c))])
    BY <1>1p DEF WireSteps
  <1>2p. PICK v : WireSteps(v, Declared, es)
    BY OrderIs
  <1>2. /\ InWireOrder(es) = v[Len(TagLen)]
        /\ v[0] = <<>>
        /\ \A c \in 0 .. Len(TagLen) : v[c] \in Seq(Declared)
        /\ \A c \in 1 .. Len(TagLen) :
             v[c] = IF Named(es, c) = {} THEN v[c - 1]
                    ELSE Append(v[c - 1], es[Min(Named(es, c))])
    BY <1>2p DEF WireSteps
  <1>3. Len(TagLen) \in Nat
    BY ManifestAssumption
  <1> DEFINE N == {c \in Nat : c <= Len(TagLen) => u[c] = v[c]}
  <1>4. 0 \in N
    BY <1>1, <1>2
  <1>5. ASSUME NEW c \in Nat, c \in N PROVE c + 1 \in N
    <2>n. c + 1 \in Nat
      OBVIOUS
    <2> SUFFICES ASSUME c + 1 <= Len(TagLen) PROVE u[c + 1] = v[c + 1]
      BY <2>n, Zenon
    <2>1. c + 1 \in 1 .. Len(TagLen) /\ (c + 1) - 1 = c /\ u[c] = v[c]
      BY <1>3, <1>5
    <2>2. /\ u[c + 1] = IF Named(ds, c + 1) = {} THEN u[c]
                        ELSE Append(u[c], ds[Min(Named(ds, c + 1))])
          /\ v[c + 1] = IF Named(es, c + 1) = {} THEN v[c]
                        ELSE Append(v[c], es[Min(Named(es, c + 1))])
      BY <1>1, <1>2, <2>1
    <2>3. CASE Named(ds, c + 1) = {}
      <3>1. \A i \in 1 .. Len(ds) : ds[i].capability # c + 1
        BY <2>3 DEF Named
      <3>2. \A j \in 1 .. Len(es) : es[j].capability # c + 1
        <4> TAKE j \in 1 .. Len(es)
        <4>1. PICK i \in 1 .. Len(ds) : ds[i] = es[j]
          OBVIOUS
        <4> QED BY <3>1, <4>1
      <3>3. Named(es, c + 1) = {}
        <4>1. Named(es, c + 1) = {j \in 1 .. Len(es) : es[j].capability = c + 1}
          BY Truths
        <4> QED BY <3>2, <4>1
      <3> QED BY <2>1, <2>2, <2>3, <3>3
    <2>4. CASE Named(ds, c + 1) # {}
      <3> DEFINE i == Min(Named(ds, c + 1))
      <3>1. i \in 1 .. Len(ds) /\ ds[i].capability = c + 1
        BY <2>4, FirstNamed
      <3> HIDE DEF i
      <3>2. PICK j \in 1 .. Len(es) : ds[i] = es[j]
        BY <3>1
      <3>3. Named(es, c + 1) # {} /\ Min(Named(es, c + 1)) = j
        <4>1. Named(es, es[j].capability) # {} /\ Min(Named(es, es[j].capability)) = j
          BY FoundIs
        <4> QED BY <3>1, <3>2, <4>1
      <3>4. ds[Min(Named(ds, c + 1))] = es[Min(Named(es, c + 1))]
        BY <3>2, <3>3 DEF i
      <3> QED BY <2>1, <2>2, <2>4, <3>3, <3>4
    <2> QED BY <2>3, <2>4
  <1> HIDE DEF N
  <1>6. Nat \subseteq N
    BY <1>4, <1>5, SetInduction
  <1> USE DEF N
  <1>7. u[Len(TagLen)] = v[Len(TagLen)]
    BY <1>3, <1>6
  <1> QED BY <1>1, <1>2, <1>7

\* What is in the order of the wire stays as it is.
LEMMA OrderTwice ==
  ASSUME NEW ds \in Seq(Declared), OneTruth(ds)
  PROVE  InWireOrder(InWireOrder(ds)) = InWireOrder(ds)
  <1> DEFINE caps == InWireOrder(ds)
  <1>1. /\ caps \in Seq(Declared) /\ Increasing(caps)
        /\ \A k \in 1 .. Len(caps) : \E i \in 1 .. Len(ds) : caps[k] = ds[i]
        /\ \A i \in 1 .. Len(ds) : \E k \in 1 .. Len(caps) : caps[k] = ds[i]
    BY OrderRight
  <1> HIDE DEF caps
  <1>2. \A k \in 1 .. Len(caps) : caps[k].capability \in Nat
    <2>1. \A k \in 1 .. Len(caps) : caps[k] \in Declared
      BY <1>1
    <2>2. \A d \in Declared : d.capability \in Nat
      <3>1. Len(TagLen) \in Nat
        BY ManifestAssumption
      <3> QED BY <3>1 DEF Declared, Capability
    <2> QED BY <2>1, <2>2
  <1>3. OneTruth(caps)
    <2> SUFFICES ASSUME NEW i \in 1 .. Len(caps), NEW j \in 1 .. Len(caps),
                        caps[i].capability = caps[j].capability
                 PROVE  i = j
      BY <1>1, Truths
    <2>1. /\ i < j => caps[i].capability < caps[j].capability
          /\ j < i => caps[j].capability < caps[i].capability
      BY <1>1 DEF Increasing
    <2>2. caps[i].capability \in Nat /\ caps[j].capability \in Nat
      BY <1>2
    <2>3. ~(caps[i].capability < caps[j].capability) /\ ~(caps[j].capability < caps[i].capability)
      BY <2>2
    <2>4. ~(i < j) /\ ~(j < i)
      BY <2>1, <2>3
    <2> QED BY <2>4
  <1>4. InWireOrder(caps) = InWireOrder(ds)
    BY <1>1, <1>3, OrderByFacts
  <1> QED BY <1>4 DEF caps

----------------------------------------------------------------------------
(***************************************************************************)
(* A sum over the declarations does not depend on their order.             *)
(***************************************************************************)
Weights(W, s) == [k \in 1 .. Len(s) |-> W[s[k]]]

LEMMA WeightsAppend ==
  ASSUME NEW W \in [Declared -> Nat], NEW s \in Seq(Declared), NEW d \in Declared
  PROVE  /\ Weights(W, s) \in Seq(Nat) /\ Total(0, Weights(W, s)) \in Nat
         /\ Total(0, Weights(W, Append(s, d))) = Total(0, Weights(W, s)) + W[d]
  <1>1. Weights(W, s) \in Seq(Nat) /\ Len(Weights(W, s)) = Len(s)
    <2>1. Len(s) \in Nat /\ \A k \in 1 .. Len(s) : s[k] \in Declared
      OBVIOUS
    <2>2. \A k \in 1 .. Len(s) : W[s[k]] \in Nat
      BY <2>1
    <2> QED BY <2>1, <2>2 DEF Weights
  <1>2. Weights(W, Append(s, d)) = Append(Weights(W, s), W[d])
    <2> DEFINE t == Append(s, d)
    <2>1. /\ Len(s) \in Nat /\ Len(t) = Len(s) + 1 /\ t[Len(s) + 1] = d
          /\ \A k \in 1 .. Len(s) : t[k] = s[k]
      OBVIOUS
    <2> HIDE DEF t
    <2>2. Append(Weights(W, s), W[d])
            = [k \in 1 .. Len(s) + 1 |-> IF k = Len(s) + 1 THEN W[d] ELSE Weights(W, s)[k]]
      BY <1>1, <2>1
    <2>3. Weights(W, t) = [k \in 1 .. Len(s) + 1 |-> W[t[k]]]
      BY <2>1 DEF Weights
    <2>4. \A k \in 1 .. Len(s) + 1 :
            W[t[k]] = IF k = Len(s) + 1 THEN W[d] ELSE Weights(W, s)[k]
      BY <2>1 DEF Weights
    <2> QED BY <2>2, <2>3, <2>4 DEF t
  <1>3. W[d] \in Nat
    OBVIOUS
  <1> QED BY <1>1, <1>2, <1>3, TotalType, TotalAppend

LEMMA OrderTotal ==
  ASSUME NEW W \in [Declared -> Nat], NEW ds \in Seq(Declared), OneTruth(ds)
  PROVE  Total(0, Weights(W, InWireOrder(ds))) = Total(0, Weights(W, ds))
  <1> DEFINE WT(s) == Total(0, Weights(W, s))
             P == {s \in Seq(Declared) : OneTruth(s) => WT(InWireOrder(s)) = WT(s)}
  <1>l. Len(TagLen) \in Nat
    BY ManifestAssumption
  <1>1. <<>> \in P
    <2> DEFINE e == <<>>
    <2>1. e \in Seq(Declared) /\ OneTruth(e) /\ Len(e) = 0
      BY DEF OneTruth
    <2> HIDE DEF e
    <2>2. InWireOrder(e) \in Seq(Declared)
          /\ \A k \in 1 .. Len(InWireOrder(e)) : \E i \in 1 .. Len(e) : InWireOrder(e)[k] = e[i]
      BY <2>1, OrderRight
    <2>3. ~(1 \in 1 .. Len(InWireOrder(e)))
      BY <2>1, <2>2
    <2>4. InWireOrder(e) = e
      BY <2>2, <2>3 DEF e
    <2> QED BY <2>1, <2>4 DEF e
  <1>2. ASSUME NEW es \in Seq(Declared), NEW d \in Declared, es \in P PROVE Append(es, d) \in P
    <2> DEFINE ds2 == Append(es, d)
               c0 == d.capability
    <2>1. /\ ds2 \in Seq(Declared) /\ Len(es) \in Nat /\ Len(ds2) = Len(es) + 1
          /\ ds2[Len(es) + 1] = d /\ \A i \in 1 .. Len(es) : ds2[i] = es[i]
      OBVIOUS
    <2> HIDE DEF ds2
    <2> SUFFICES ASSUME OneTruth(ds2) PROVE WT(InWireOrder(ds2)) = WT(ds2)
      BY <2>1 DEF ds2
    <2>2. OneTruth(es)
      <3>1. \A i, j \in 1 .. Len(ds2) : ds2[i].capability = ds2[j].capability => i = j
        BY <2>1, Truths
      <3>2. 1 .. Len(es) \subseteq 1 .. Len(ds2)
        BY <2>1
      <3>3. \A i, j \in 1 .. Len(es) : es[i].capability = es[j].capability => i = j
        BY <2>1, <3>1, <3>2
      <3> QED BY <3>3, Truths
    <2>3. c0 \in 1 .. Len(TagLen)
      BY DEF Declared, Capability
    <2>4. Named(es, c0) = {} /\ Named(ds2, c0) = {Len(es) + 1}
      <3>1. \A i \in 1 .. Len(es) : es[i].capability # c0
        <4>1. \A i, j \in 1 .. Len(ds2) : ds2[i].capability = ds2[j].capability => i = j
          BY <2>1, Truths
        <4>2. \A i \in 1 .. Len(es) : i \in 1 .. Len(ds2) /\ Len(es) + 1 \in 1 .. Len(ds2) /\ i # Len(es) + 1
          BY <2>1
        <4> QED BY <2>1, <4>1, <4>2
      <3>2. Named(es, c0) = {i \in 1 .. Len(es) : es[i].capability = c0}
            /\ Named(ds2, c0) = {i \in 1 .. Len(ds2) : ds2[i].capability = c0}
        BY <2>1, Truths
      <3>3. \A i \in 1 .. Len(ds2) : ds2[i].capability = c0 <=> i = Len(es) + 1
        <4> TAKE i \in 1 .. Len(ds2)
        <4>1. CASE i = Len(es) + 1
          BY <2>1, <4>1
        <4>2. CASE i \in 1 .. Len(es)
          BY <2>1, <3>1, <4>2
        <4> QED BY <2>1, <4>1, <4>2
      <3>4. Len(es) + 1 \in 1 .. Len(ds2)
        BY <2>1
      <3>5. Named(es, c0) = {}
        BY <3>1, <3>2
      <3>6. Named(ds2, c0) = {Len(es) + 1}
        BY <3>2, <3>3, <3>4
      <3> QED BY <3>5, <3>6
    <2>5. \A c : c # c0 => Named(ds2, c) = Named(es, c)
      <3> SUFFICES ASSUME NEW c, c # c0 PROVE Named(ds2, c) = Named(es, c)
        OBVIOUS
      <3>1. Named(es, c) = {i \in 1 .. Len(es) : es[i].capability = c}
            /\ Named(ds2, c) = {i \in 1 .. Len(ds2) : ds2[i].capability = c}
        BY <2>1, Truths
      <3>2. \A i : i \in 1 .. Len(ds2) /\ i # Len(es) + 1 <=> i \in 1 .. Len(es)
        BY <2>1
      <3>3. ds2[Len(es) + 1].capability # c
        BY <2>1
      <3>4. \A i : i \in 1 .. Len(ds2) /\ ds2[i].capability = c
                  <=> i \in 1 .. Len(es) /\ es[i].capability = c
        BY <2>1, <3>2, <3>3
      <3> QED BY <3>1, <3>4
    <2>6. ds2[Min(Named(ds2, c0))] = d
      <3>1. Min(Named(ds2, c0)) \in Named(ds2, c0)
        <4>1. Named(ds2, c0) # {}
          BY <2>4
        <4> QED BY <2>1, <4>1, FirstNamed
      <3> QED BY <2>1, <2>4, <3>1
    <2>7. \A c : c # c0 /\ Named(es, c) # {} =>
            /\ es[Min(Named(es, c))] \in Declared
            /\ ds2[Min(Named(ds2, c))] = es[Min(Named(es, c))]
      <3> SUFFICES ASSUME NEW c, c # c0, Named(es, c) # {}
                   PROVE  /\ es[Min(Named(es, c))] \in Declared
                          /\ ds2[Min(Named(ds2, c))] = es[Min(Named(es, c))]
        OBVIOUS
      <3>1. Min(Named(es, c)) \in 1 .. Len(es) /\ es[Min(Named(es, c))] \in Declared
        BY FirstNamed
      <3> QED BY <2>1, <2>5, <3>1
    <2> HIDE DEF c0
    <2>8p. PICK u : WireSteps(u, Declared, ds2)
      BY <2>1, OrderIs
    <2>8. /\ InWireOrder(ds2) = u[Len(TagLen)]
          /\ u[0] = <<>>
          /\ \A c \in 0 .. Len(TagLen) : u[c] \in Seq(Declared)
          /\ \A c \in 1 .. Len(TagLen) :
               u[c] = IF Named(ds2, c) = {} THEN u[c - 1]
                      ELSE Append(u[c - 1], ds2[Min(Named(ds2, c))])
      BY <2>8p DEF WireSteps
    <2>9p. PICK v : WireSteps(v, Declared, es)
      BY OrderIs
    <2>9. /\ InWireOrder(es) = v[Len(TagLen)]
          /\ v[0] = <<>>
          /\ \A c \in 0 .. Len(TagLen) : v[c] \in Seq(Declared)
          /\ \A c \in 1 .. Len(TagLen) :
               v[c] = IF Named(es, c) = {} THEN v[c - 1]
                      ELSE Append(v[c - 1], es[Min(Named(es, c))])
      BY <2>9p DEF WireSteps
    <2> DEFINE Same(c) == IF c < c0 THEN u[c] = v[c] ELSE WT(u[c]) = WT(v[c]) + W[d]
               N == {c \in Nat : c <= Len(TagLen) => Same(c)}
    <2>10. 0 \in N
      BY <2>3, <2>8, <2>9
    <2>11. ASSUME NEW c \in Nat, c \in N PROVE c + 1 \in N
      <3>n. c + 1 \in Nat
        OBVIOUS
      <3> SUFFICES ASSUME c + 1 <= Len(TagLen) PROVE Same(c + 1)
        BY <3>n, Zenon
      <3> DEFINE k == c + 1
      <3>1. k \in 1 .. Len(TagLen) /\ k - 1 = c /\ c \in 0 .. Len(TagLen) /\ Same(c)
        BY <1>l, <2>11
      <3>2. /\ u[k] = IF Named(ds2, k) = {} THEN u[c] ELSE Append(u[c], ds2[Min(Named(ds2, k))])
            /\ v[k] = IF Named(es, k) = {} THEN v[c] ELSE Append(v[c], es[Min(Named(es, k))])
            /\ u[c] \in Seq(Declared) /\ v[c] \in Seq(Declared)
        BY <2>8, <2>9, <3>1
      <3>a. c < k /\ c \in Nat /\ k \in Nat /\ c0 \in Nat /\ (c < c0 <=> k <= c0)
        BY <2>3
      <3> HIDE DEF k
      <3>3. CASE k < c0
        <4>1. u[c] = v[c] /\ k # c0
          BY <3>1, <3>3, <3>a
        <4>2. u[k] = v[k]
          BY <2>5, <2>7, <3>2, <4>1
        <4> QED BY <3>3, <4>2 DEF k
      <3>4. CASE k = c0
        <4>1. u[c] = v[c]
          BY <3>1, <3>4, <3>a
        <4>2. u[k] = Append(u[c], d) /\ v[k] = v[c]
          BY <2>4, <2>6, <3>2, <3>4
        <4>3. WT(u[k]) = WT(v[k]) + W[d]
          BY <3>2, <4>1, <4>2, WeightsAppend
        <4> QED BY <3>4, <3>a, <4>3 DEF k
      <3>5. CASE k > c0
        <4>1. WT(u[c]) = WT(v[c]) + W[d] /\ k # c0 /\ ~(k < c0)
          BY <3>1, <3>5, <3>a
        <4>2. CASE Named(es, k) = {}
          <5>1. u[k] = u[c] /\ v[k] = v[c]
            BY <2>5, <3>2, <4>1, <4>2
          <5>2. Same(k)
            BY <4>1, <5>1
          <5> QED BY <5>2 DEF k
        <4>3. CASE Named(es, k) # {}
          <5> DEFINE x == es[Min(Named(es, k))]
          <5>1. u[k] = Append(u[c], x) /\ v[k] = Append(v[c], x) /\ x \in Declared
            BY <2>5, <2>7, <3>2, <4>1, <4>3
          <5> HIDE DEF x
          <5>2. WT(u[k]) = WT(u[c]) + W[x] /\ WT(v[k]) = WT(v[c]) + W[x]
            BY <3>2, <5>1, WeightsAppend
          <5>3. WT(u[c]) \in Nat /\ WT(v[c]) \in Nat /\ W[x] \in Nat /\ W[d] \in Nat
            BY <3>2, <5>1, WeightsAppend
          <5>4. WT(u[k]) = WT(v[k]) + W[d]
            <6> HIDE DEF WT
            <6> QED BY <4>1, <5>2, <5>3
          <5>5. Same(k)
            BY <4>1, <5>4
          <5> QED BY <5>5 DEF k
        <4> QED BY <4>2, <4>3, Zenon
      <3> QED BY <3>3, <3>4, <3>5, <3>a
    <2> HIDE DEF N
    <2>12. Nat \subseteq N
      BY <2>10, <2>11, SetInduction
    <2> USE DEF N
    <2>13. Same(Len(TagLen)) /\ ~(Len(TagLen) < c0)
      BY <1>l, <2>3, <2>12
    <2>14. WT(InWireOrder(ds2)) = WT(InWireOrder(es)) + W[d]
      BY <2>8, <2>9, <2>13
    <2>15. WT(InWireOrder(es)) = WT(es)
      BY <1>2, <2>2
    <2>16. WT(ds2) = WT(es) + W[d]
      BY WeightsAppend DEF ds2
    <2> QED BY <2>14, <2>15, <2>16
  <1> HIDE DEF P
  <1>3. Seq(Declared) \subseteq P
    BY <1>1, <1>2, SeqSetInduction
  <1> QED BY <1>3 DEF P

\* As many as were declared.
LEMMA OrderLen ==
  ASSUME NEW ds \in Seq(Declared), OneTruth(ds)
  PROVE  Len(InWireOrder(ds)) = Len(ds)
  <1> DEFINE one == [d \in Declared |-> 1]
             P == {s \in Seq(Declared) : Total(0, Weights(one, s)) = Len(s)}
  <1>1. one \in [Declared -> Nat]
    OBVIOUS
  <1>2. <<>> \in P
    <2> DEFINE e == <<>>
    <2>1. e \in Seq(Declared) /\ Len(e) = 0
      OBVIOUS
    <2>2. Weights(one, e) = <<>>
      BY DEF Weights
    <2>3. Total(0, Weights(one, e)) = 0
      BY <2>2, TotalEmpty
    <2> QED BY <2>1, <2>3
  <1>3. ASSUME NEW s \in Seq(Declared), NEW d \in Declared, s \in P PROVE Append(s, d) \in P
    <2>1. Total(0, Weights(one, Append(s, d))) = Total(0, Weights(one, s)) + one[d]
      BY <1>1, WeightsAppend
    <2>2. Append(s, d) \in Seq(Declared) /\ Len(Append(s, d)) = Len(s) + 1 /\ one[d] = 1
      OBVIOUS
    <2> QED BY <1>3, <2>1, <2>2
  <1> HIDE DEF P, one
  <1>4. Seq(Declared) \subseteq P
    BY <1>2, <1>3, SeqSetInduction
  <1>5. InWireOrder(ds) \in Seq(Declared)
    BY OrderRight
  <1>6. Total(0, Weights(one, InWireOrder(ds))) = Total(0, Weights(one, ds))
    BY <1>1, OrderTotal
  <1> QED BY <1>4, <1>5, <1>6 DEF P

----------------------------------------------------------------------------
(***************************************************************************)
(* The text of a manifest.                                                 *)
(***************************************************************************)
LEMMA FourSeq ==
  ASSUME NEW T, NEW a \in T, NEW b \in T, NEW c \in T, NEW d \in T
  PROVE  /\ <<a, b, c, d>> \in Seq(T) /\ Len(<<a, b, c, d>>) = 4
         /\ <<a, b, c, d>>[1] = a /\ <<a, b, c, d>>[2] = b
         /\ <<a, b, c, d>>[3] = c /\ <<a, b, c, d>>[4] = d
  OBVIOUS

LEMMA FourThen ==
  ASSUME NEW T, NEW h \in Seq(T), Len(h) = 4, NEW t \in Seq(T)
  PROVE  /\ h \o t \in Seq(T) /\ Len(h \o t) = 4 + Len(t)
         /\ \A k \in 1 .. 4 : (h \o t)[k] = h[k]
         /\ \A k \in 1 .. Len(t) : (h \o t)[4 + k] = t[k]
  <1>0. Len(t) \in Nat
    OBVIOUS
  <1>1. Len(t) \in Nat /\ h \o t \in Seq(T) /\ Len(h \o t) = 4 + Len(t)
    <2>1. h \o t \in Seq(T) /\ Len(h \o t) = Len(h) + Len(t)
      BY ConcatProperties, Zenon
    <2> QED BY <1>0, <2>1
  <1>2. \A k \in 1 .. 4 + Len(t) : (h \o t)[k] = IF k <= 4 THEN h[k] ELSE t[k - 4]
    <2>1. \A k \in 1 .. Len(h) + Len(t) : (h \o t)[k] = IF k <= Len(h) THEN h[k] ELSE t[k - Len(h)]
      BY ConcatProperties, Zenon
    <2> QED BY <2>1, Zenon
  <1>3. \A k \in 1 .. 4 : (h \o t)[k] = h[k]
    <2> TAKE k \in 1 .. 4
    <2>1. k \in 1 .. 4 + Len(t) /\ k <= 4
      BY <1>1
    <2> QED BY <1>2, <2>1
  <1>4. \A k \in 1 .. Len(t) : (h \o t)[4 + k] = t[k]
    <2> TAKE k \in 1 .. Len(t)
    <2>1. 4 + k \in 1 .. 4 + Len(t) /\ ~(4 + k <= 4) /\ (4 + k) - 4 = k
      BY <1>1
    <2> QED BY <1>2, <2>1
  <1> QED BY <1>1, <1>3, <1>4

LEMMA DeclaredTypes ==
  ASSUME NEW d \in Declared
  PROVE  /\ d \in WireDeclared /\ d.capability \in Capability /\ d.capability \in Nat
         /\ d.capability # NewerTag /\ d.backing.len \in Nat
         /\ TagLen[d.capability] \in Nat /\ StatusLen(d.status) \in Nat
  <1>1. Len(TagLen) \in Nat /\ BackingLens \subseteq Nat /\ \A c \in 1 .. Len(TagLen) : TagLen[c] \in Nat
    BY ManifestAssumption
  <1>2. /\ d.capability \in 1 .. Len(TagLen) /\ d.status \in Status
        /\ d.backing \in [len : BackingLens, clean : BOOLEAN]
        /\ d = [capability |-> d.capability, status |-> d.status, backing |-> d.backing]
    BY DEF Declared, Capability, Text
  <1>3. d.backing \in [len : Nat, clean : BOOLEAN]
    BY <1>1, <1>2
  <1>4. d.capability \in Nat /\ d.capability # 0
    BY <1>1, <1>2
  <1>5. d \in WireDeclared
    BY <1>2, <1>3, <1>4 DEF WireDeclared
  <1> QED BY <1>1, <1>2, <1>3, <1>4, <1>5 DEF Capability, NewerTag, StatusLen

LEMMA LinesAre ==
  ASSUME NEW m \in Text(Nat), NEW f \in Text(Nat), NEW ds \in Seq(Declared), OneTruth(ds)
  PROVE  /\ Len(InWireOrder(ds)) \in Nat
         /\ Lines(m, f, ds) \in Seq(AnyLine)
         /\ Len(Lines(m, f, ds)) = 4 + Len(InWireOrder(ds))
         /\ Lines(m, f, ds)[1] = Version(TRUE) /\ Lines(m, f, ds)[2] = Field("model", m)
         /\ Lines(m, f, ds)[3] = Field("fw", f) /\ Lines(m, f, ds)[4] = ChipLine(TRUE)
         /\ \A k \in 1 .. Len(InWireOrder(ds)) :
              Lines(m, f, ds)[4 + k] = CapLine(InWireOrder(ds)[k])
         /\ \A k \in 1 .. Len(Lines(m, f, ds)) :
              Lines(m, f, ds)[k] \in LineAt(k) /\ Lines(m, f, ds)[k].whole
  <1> DEFINE caps == InWireOrder(ds)
             tail == [k \in DOMAIN caps |-> CapLine(caps[k])]
             h    == Header(m, f)
             ls   == Lines(m, f, ds)
  <1>1. caps \in Seq(Declared)
    BY OrderRight
  <1>2. ls = h \o tail
    BY DEF Lines
  <1> HIDE DEF caps, ls
  <1>3. /\ Version(TRUE) \in FlagLine /\ ChipLine(TRUE) \in FlagLine
        /\ Field("model", m) \in FieldLine /\ Field("fw", f) \in FieldLine
        /\ Version(TRUE).whole /\ ChipLine(TRUE).whole
        /\ Field("model", m).whole /\ Field("fw", f).whole
    BY DEF Version, ChipLine, Field, FlagLine, FieldLine
  <1>4. Len(caps) \in Nat /\ DOMAIN caps = 1 .. Len(caps) /\ \A k \in 1 .. Len(caps) : caps[k] \in WireDeclared
    BY <1>1, DeclaredTypes
  <1>5. \A k \in 1 .. Len(caps) : CapLine(caps[k]) \in CapsLine /\ CapLine(caps[k]).whole
    BY <1>4 DEF CapLine, CapsLine
  <1>6. tail \in Seq(AnyLine) /\ Len(tail) = Len(caps)
        /\ \A k \in 1 .. Len(caps) : tail[k] = CapLine(caps[k])
    BY <1>4, <1>5 DEF AnyLine
  <1>7. /\ h \in Seq(AnyLine) /\ Len(h) = 4 /\ h[1] = Version(TRUE) /\ h[2] = Field("model", m)
        /\ h[3] = Field("fw", f) /\ h[4] = ChipLine(TRUE)
    <2>1. /\ Version(TRUE) \in AnyLine /\ Field("model", m) \in AnyLine
          /\ Field("fw", f) \in AnyLine /\ ChipLine(TRUE) \in AnyLine
      BY <1>3 DEF AnyLine
    <2> QED BY <2>1, FourSeq DEF Header
  <1> HIDE DEF tail, h
  <1>8. /\ ls \in Seq(AnyLine) /\ Len(ls) = 4 + Len(caps)
        /\ \A k \in 1 .. 4 : ls[k] = h[k]
        /\ \A k \in 1 .. Len(caps) : ls[4 + k] = tail[k]
    BY <1>2, <1>6, <1>7, FourThen
  <1>9. /\ ls[1] = Version(TRUE) /\ ls[2] = Field("model", m)
        /\ ls[3] = Field("fw", f) /\ ls[4] = ChipLine(TRUE)
        /\ \A k \in 1 .. Len(caps) : ls[4 + k] = CapLine(caps[k])
    <2>1. 1 \in 1 .. 4 /\ 2 \in 1 .. 4 /\ 3 \in 1 .. 4 /\ 4 \in 1 .. 4
      OBVIOUS
    <2> QED BY <1>6, <1>7, <1>8, <2>1
  <1>10. \A k \in 1 .. Len(ls) : ls[k] \in LineAt(k) /\ ls[k].whole
    <2> SUFFICES ASSUME NEW k \in 1 .. Len(ls) PROVE ls[k] \in LineAt(k) /\ ls[k].whole
      OBVIOUS
    <2>1. CASE k \in {1, 4}
      BY <1>3, <1>9, <2>1 DEF LineAt
    <2>2. CASE k \in {2, 3}
      BY <1>3, <1>9, <2>2 DEF LineAt
    <2>3. CASE k \notin {1, 2, 3, 4}
      <3>1. k - 4 \in 1 .. Len(caps) /\ 4 + (k - 4) = k
        BY <1>4, <1>8, <2>3
      <3>2. ls[k] = CapLine(caps[k - 4])
        BY <1>9, <3>1
      <3> QED BY <1>5, <2>3, <3>1, <3>2 DEF LineAt
    <2> QED BY <2>1, <2>2, <2>3
  <1> QED BY <1>4, <1>8, <1>9, <1>10 DEF caps, ls

Weight == [d \in Declared |-> 7 + TagLen[d.capability] + StatusLen(d.status) + d.backing.len]

\* What was announced is what is written.
LEMMA LenExact ==
  ASSUME NEW m \in Text(Nat), NEW f \in Text(Nat), NEW ds \in Seq(Declared), OneTruth(ds)
  PROVE  Written(Lines(m, f, ds)) = EncodedLen(m, f, ds) /\ EncodedLen(m, f, ds) \in Nat
  <1> DEFINE caps == InWireOrder(ds)
             ls   == Lines(m, f, ds)
             lens == [k \in DOMAIN ls |-> LineLen(ls[k])]
             head == 8 + 7 + m.len + 4 + f.len + 6 + ChipTag
  <1>1. /\ Len(caps) \in Nat /\ ls \in Seq(AnyLine) /\ Len(ls) = 4 + Len(caps)
        /\ ls[1] = Version(TRUE) /\ ls[2] = Field("model", m)
        /\ ls[3] = Field("fw", f) /\ ls[4] = ChipLine(TRUE)
        /\ \A k \in 1 .. Len(caps) : ls[4 + k] = CapLine(caps[k])
    BY LinesAre
  <1>2. m.len \in Nat /\ f.len \in Nat
    BY DEF Text
  <1>3. Weight \in [Declared -> Nat]
    BY DeclaredTypes DEF Weight
  <1>4. caps \in Seq(Declared)
    BY OrderRight
  <1>5. Weights(Weight, caps) \in Seq(Nat) /\ Weights(Weight, ds) \in Seq(Nat)
        /\ Len(Weights(Weight, caps)) = Len(caps)
    <2>1. \A s \in Seq(Declared) : Weights(Weight, s) \in Seq(Nat) /\ Len(Weights(Weight, s)) = Len(s)
      <3> SUFFICES ASSUME NEW s \in Seq(Declared)
                   PROVE  Weights(Weight, s) \in Seq(Nat) /\ Len(Weights(Weight, s)) = Len(s)
        OBVIOUS
      <3>1. Len(s) \in Nat /\ \A k \in 1 .. Len(s) : Weight[s[k]] \in Nat
        BY <1>3
      <3> QED BY <3>1 DEF Weights
    <2> QED BY <1>4, <2>1
  <1> DEFINE a == 8
             b == 6 + m.len + 1
             c == 3 + f.len + 1
             e == 5 + ChipTag + 1
  <1>6. /\ LineLen(Version(TRUE)) = a /\ LineLen(Field("model", m)) = b
        /\ LineLen(Field("fw", f)) = c /\ LineLen(ChipLine(TRUE)) = e
    BY <1>2 DEF LineLen, Version, Field, ChipLine
  <1>7. \A k \in 1 .. Len(caps) : LineLen(CapLine(caps[k])) = Weight[caps[k]]
    <2> SUFFICES ASSUME NEW k \in 1 .. Len(caps) PROVE LineLen(CapLine(caps[k])) = Weight[caps[k]]
      OBVIOUS
    <2> DEFINE d == caps[k]
    <2>1. d \in Declared
      BY <1>4
    <2>2. TagLen[d.capability] \in Nat /\ StatusLen(d.status) \in Nat /\ d.backing.len \in Nat
      BY <2>1, DeclaredTypes
    <2> HIDE DEF d
    <2>3. LineLen(CapLine(d)) = 4 + TagLen[d.capability] + 1 + StatusLen(d.status) + 1
                                + d.backing.len + 1
      BY DEF LineLen, CapLine
    <2>4. LineLen(CapLine(d)) = 7 + TagLen[d.capability] + StatusLen(d.status) + d.backing.len
      BY <2>2, <2>3
    <2> QED BY <2>1, <2>4 DEF Weight, d
  <1> HIDE DEF caps, ls
  <1>8. lens = <<a, b, c, e>> \o Weights(Weight, caps)
    <2> DEFINE w == Weights(Weight, caps)
               four == <<a, b, c, e>>
    <2>1. DOMAIN lens = 1 .. 4 + Len(caps)
      BY <1>1
    <2>2. four \in Seq(Nat) /\ Len(four) = 4
          /\ four[1] = a /\ four[2] = b /\ four[3] = c /\ four[4] = e
      BY <1>2 DEF ChipTag
    <2>3. w \in Seq(Nat) /\ Len(w) = Len(caps) /\ \A k \in 1 .. Len(caps) : w[k] = Weight[caps[k]]
      BY <1>1, <1>5 DEF Weights
    <2> HIDE DEF w, four, a, b, c, e
    <2>4. /\ DOMAIN (four \o w) = 1 .. 4 + Len(caps)
          /\ \A k \in 1 .. 4 : (four \o w)[k] = four[k]
          /\ \A k \in 5 .. 4 + Len(caps) : (four \o w)[k] = w[k - 4]
      <3>1. /\ four \o w \in Seq(Nat) /\ Len(four \o w) = 4 + Len(caps)
            /\ \A k \in 1 .. 4 : (four \o w)[k] = four[k]
            /\ \A k \in 1 .. Len(caps) : (four \o w)[4 + k] = w[k]
        <4>1. four \in Seq(Nat) /\ Len(four) = 4 /\ w \in Seq(Nat) /\ Len(w) = Len(caps)
          BY <2>2, <2>3
        <4> QED BY <4>1, FourThen
      <3>2. \A k \in 5 .. 4 + Len(caps) : k - 4 \in 1 .. Len(caps) /\ 4 + (k - 4) = k
        BY <1>1
      <3>3. \A k \in 5 .. 4 + Len(caps) : (four \o w)[k] = w[k - 4]
        <4> TAKE k \in 5 .. 4 + Len(caps)
        <4>1. (four \o w)[4 + (k - 4)] = w[k - 4]
          BY <3>1, <3>2
        <4> QED BY <3>2, <4>1
      <3>4. DOMAIN (four \o w) = 1 .. 4 + Len(caps)
        BY <3>1
      <3> QED BY <3>1, <3>3, <3>4
    <2>5. ASSUME NEW k \in 1 .. 4 + Len(caps) PROVE lens[k] = (four \o w)[k]
      <3>0. lens[k] = LineLen(ls[k])
        BY <2>1
      <3>1. CASE k \in 1 .. 4
        <4>1. k = 1 \/ k = 2 \/ k = 3 \/ k = 4
          BY <3>1
        <4> QED BY <1>1, <1>6, <2>2, <2>4, <3>0, <3>1, <4>1
      <3>2. CASE k \in 5 .. 4 + Len(caps)
        <4>1. k - 4 \in 1 .. Len(caps) /\ 4 + (k - 4) = k
          BY <1>1, <3>2
        <4>2. ls[k] = CapLine(caps[k - 4])
          BY <1>1, <4>1
        <4>3. LineLen(ls[k]) = w[k - 4]
          BY <1>7, <2>3, <4>1, <4>2
        <4>4. (four \o w)[k] = w[k - 4]
          BY <2>4, <3>2
        <4> QED BY <3>0, <4>3, <4>4
      <3>3. k \in 1 .. 4 \/ k \in 5 .. 4 + Len(caps)
        BY <2>3
      <3> QED BY <3>1, <3>2, <3>3
    <2>6. four \o w \in Seq(Nat)
      BY <2>2, <2>3
    <2> HIDE DEF lens
    <2>7. lens = [k \in 1 .. 4 + Len(caps) |-> lens[k]]
      BY <2>1 DEF lens
    <2>8. four \o w = [k \in 1 .. 4 + Len(caps) |-> (four \o w)[k]]
      <3> DEFINE g == four \o w
      <3>1. g \in Seq(Nat) /\ DOMAIN g = 1 .. 4 + Len(caps)
        BY <2>4, <2>6
      <3> HIDE DEF g
      <3>2. g = [k \in 1 .. 4 + Len(caps) |-> g[k]]
        BY <3>1
      <3> QED BY <3>2 DEF g
    <2> QED BY <2>5, <2>7, <2>8 DEF w, four
  <1>9. a \in Nat /\ b \in Nat /\ c \in Nat /\ e \in Nat /\ a + b + c + e = head /\ head \in Nat
    <2> DEFINE x == m.len
               y == f.len
    <2>1. x \in Nat /\ y \in Nat
      BY <1>2
    <2> HIDE DEF x, y
    <2>2. 8 + (6 + x + 1) + (3 + y + 1) + (5 + 7 + 1) = 8 + 7 + x + 4 + y + 6 + 7
      BY <2>1
    <2>3. /\ 8 \in Nat /\ 6 + x + 1 \in Nat /\ 3 + y + 1 \in Nat /\ 5 + 7 + 1 \in Nat
          /\ 8 + 7 + x + 4 + y + 6 + 7 \in Nat
      BY <2>1
    <2> QED BY <2>2, <2>3 DEF ChipTag, x, y
  <1>10. Written(ls) = a + b + c + e + Total(0, Weights(Weight, caps))
    <2> HIDE DEF a, b, c, e
    <2>1. Written(ls) = Total(0, lens)
      BY DEF Written
    <2> HIDE DEF lens
    <2>2. Weights(Weight, caps) \in Seq(Nat) /\ a \in Nat /\ b \in Nat /\ c \in Nat /\ e \in Nat
      BY <1>5, <1>9
    <2>3. Total(0, <<a, b, c, e>> \o Weights(Weight, caps))
            = a + b + c + e + Total(0, Weights(Weight, caps))
      BY <2>2, TotalAfterFour
    <2> QED BY <1>8, <2>1, <2>3
  <1>11. EncodedLen(m, f, ds) = head + Total(0, Weights(Weight, ds))
    <2>1. [i \in DOMAIN ds |->
             7 + TagLen[ds[i].capability] + StatusLen(ds[i].status) + ds[i].backing.len]
            = Weights(Weight, ds)
      <3>1. DOMAIN ds = 1 .. Len(ds) /\ \A i \in 1 .. Len(ds) : ds[i] \in Declared
        OBVIOUS
      <3> QED BY <3>1 DEF Weights, Weight
    <2>2. EncodedLen(m, f, ds) = Total(head, Weights(Weight, ds))
      BY <2>1 DEF EncodedLen
    <2> HIDE DEF head
    <2> QED BY <1>5, <1>9, <2>2, TotalShift
  <1>12. Total(0, Weights(Weight, caps)) = Total(0, Weights(Weight, ds))
    BY <1>3, OrderTotal DEF caps
  <1>13. Total(0, Weights(Weight, ds)) \in Nat
    BY <1>5, TotalType
  <1> HIDE DEF a, b, c, e, head
  <1> QED BY <1>9, <1>10, <1>11, <1>12, <1>13 DEF ls

----------------------------------------------------------------------------
(***************************************************************************)
(* What was sent, and how the host reads it.                               *)
(***************************************************************************)
Caps == InWireOrder(declared)

SentRight ==
  /\ Sent \in Seq(AnyLine) /\ Caps \in Seq(Declared) /\ Len(Caps) \in Nat
  /\ Len(Sent) = 4 + Len(Caps)
  /\ Sent[1].known /\ Sent[2].value = model /\ Sent[3].value = firmware /\ Sent[4].known
  /\ FieldOk(model) /\ FieldOk(firmware)
  /\ \A k \in 1 .. Len(Caps) :
       /\ Sent[4 + k].d = Caps[k] /\ ParsedHonest(Caps[k]) /\ Caps[k].capability # NewerTag
       /\ Caps[k] \in WireDeclared
       /\ \E i \in 1 .. Len(declared) : Caps[k] = declared[i]
  /\ \A k \in 1 .. Len(Sent) : Sent[k] \in LineAt(k) /\ Sent[k].whole
  /\ Increasing(Caps)

LEMMA SentIs ==
  ASSUME model \in Text(Nat), firmware \in Text(Nat), declared \in Seq(Declared),
         Validates(model, firmware, declared)
  PROVE  SentRight
  <1>1. FieldOk(model) /\ FieldOk(firmware) /\ OneTruth(declared)
        /\ \A i \in 1 .. Len(declared) : Honest(declared[i])
    <2>1. DOMAIN declared = 1 .. Len(declared)
      OBVIOUS
    <2> QED BY <2>1 DEF Validates
  <1>2. /\ Caps \in Seq(Declared) /\ Increasing(Caps)
        /\ \A k \in 1 .. Len(Caps) : \E i \in 1 .. Len(declared) : Caps[k] = declared[i]
    BY <1>1, OrderRight DEF Caps
  <1>3. /\ Len(Caps) \in Nat /\ Sent \in Seq(AnyLine) /\ Len(Sent) = 4 + Len(Caps)
        /\ Sent[1] = Version(TRUE) /\ Sent[2] = Field("model", model)
        /\ Sent[3] = Field("fw", firmware) /\ Sent[4] = ChipLine(TRUE)
        /\ \A k \in 1 .. Len(Caps) : Sent[4 + k] = CapLine(Caps[k])
        /\ \A k \in 1 .. Len(Sent) : Sent[k] \in LineAt(k) /\ Sent[k].whole
    BY <1>1, LinesAre DEF Caps, Sent
  <1>4. Sent[1].known /\ Sent[2].value = model /\ Sent[3].value = firmware /\ Sent[4].known
    BY <1>3 DEF Version, Field, ChipLine
  <1>5. ASSUME NEW k \in 1 .. Len(Caps)
        PROVE  /\ Sent[4 + k].d = Caps[k] /\ ParsedHonest(Caps[k]) /\ Caps[k].capability # NewerTag
               /\ Caps[k] \in WireDeclared
               /\ \E i \in 1 .. Len(declared) : Caps[k] = declared[i]
    <2>1. PICK i \in 1 .. Len(declared) : Caps[k] = declared[i]
      BY <1>2
    <2>2. Caps[k] \in Declared
      BY <1>2
    <2>3. Caps[k].capability # NewerTag /\ Caps[k] \in WireDeclared
      BY <2>2, DeclaredTypes
    <2>4. Sent[4 + k].d = Caps[k]
      <3>1. Sent[4 + k] = CapLine(Caps[k])
        BY <1>3
      <3> QED BY <3>1 DEF CapLine
    <2>5. ParsedHonest(Caps[k])
      BY <1>1, <2>1 DEF Honest, ParsedHonest
    <2> QED BY <2>1, <2>3, <2>4, <2>5
  <1> QED BY <1>1, <1>2, <1>3, <1>4, <1>5 DEF SentRight

\* A line that the device sent is one the host takes, as long as all before it were.
LEMMA TakesWhatWasSent ==
  ASSUME SentRight, ReadInv, parsed \in Seq(WireDeclared),
         next \in Nat, next >= 4, next + 1 <= Len(Sent),
         \A k \in 5 .. next + 1 : wire[k] = Sent[k]
  PROVE  /\ wire[next + 1].d \in WireDeclared /\ wire[next + 1].d.capability # NewerTag
         /\ ParsedHonest(wire[next + 1].d) /\ OneTruth(Append(parsed, wire[next + 1].d))
  <1> DEFINE n == next - 3
             d == wire[next + 1].d
  <1>1. n \in 1 .. Len(Caps) /\ 4 + n = next + 1 /\ n \in Nat
    BY DEF SentRight
  <1>2. d = Caps[n] /\ ParsedHonest(d) /\ d.capability # NewerTag /\ d \in WireDeclared
    <2>1. wire[next + 1] = Sent[4 + n]
      BY <1>1
    <2> QED BY <1>1, <2>1 DEF SentRight
  <1> HIDE DEF n, d
  <1>3. Len(parsed) = n - 1 /\ \A k \in 1 .. n - 1 : parsed[k] = Caps[k]
    <2>1. Len(parsed) = n - 1
      BY <1>1 DEF ReadInv, n
    <2> SUFFICES ASSUME NEW k \in 1 .. n - 1 PROVE parsed[k] = Caps[k]
      BY <2>1
    <2>2. 4 + k \in 5 .. next + 1 /\ k \in 1 .. Len(Caps)
      BY <1>1
    <2>3. parsed[k] = wire[4 + k].d
      BY <2>1 DEF ReadInv
    <2>4. wire[4 + k] = Sent[4 + k] /\ Sent[4 + k].d = Caps[k]
      BY <2>2 DEF SentRight
    <2> QED BY <2>3, <2>4
  <1> DEFINE more == Append(parsed, d)
  <1>4. more \in Seq(WireDeclared) /\ Len(more) = n /\ \A k \in 1 .. n : more[k] = Caps[k]
    BY <1>1, <1>2, <1>3
  <1> HIDE DEF more
  <1>5. ASSUME NEW i \in 1 .. n, NEW j \in 1 .. n, more[i].capability = more[j].capability
        PROVE  i = j
    <2>1. i \in 1 .. Len(Caps) /\ j \in 1 .. Len(Caps) /\ Caps[i].capability = Caps[j].capability
      BY <1>1, <1>4, <1>5
    <2>2. /\ i < j => Caps[i].capability < Caps[j].capability
          /\ j < i => Caps[j].capability < Caps[i].capability
      BY <2>1 DEF SentRight, Increasing
    <2>3. Caps[i].capability \in Nat
      BY <2>1 DEF SentRight, WireDeclared
    <2>4. ~(i < j) /\ ~(j < i)
      BY <2>1, <2>2, <2>3
    <2> QED BY <2>4
  <1>6. OneTruth(more)
    BY <1>4, <1>5, Truths
  <1> QED BY <1>2, <1>6 DEF d, more

----------------------------------------------------------------------------
(***************************************************************************)
(* Every step keeps the invariant.                                         *)
(***************************************************************************)
LEMMA ManifestInitInv == ManifestInit => ManifestInv
  <1> SUFFICES ASSUME ManifestInit PROVE ManifestInv
    OBVIOUS
  <1> USE DEF ManifestInit, ManifestFresh
  <1>1. model \in Text(Nat) /\ firmware \in Text(Nat)
    BY ManifestAssumption DEF Text
  <1>2. Len(wire) = 0 /\ Len(parsed) = 0 /\ declared \in Seq(Declared) /\ wire \in Seq(AnyLine)
        /\ parsed \in Seq(WireDeclared) /\ DOMAIN parsed = {}
    OBVIOUS
  <1>3. ManifestTypes
    BY <1>1, <1>2 DEF ManifestTypes
  <1>4. ReadInv
    BY <1>2 DEF ReadInv, OneTruth
  <1> QED BY <1>3, <1>4 DEF ManifestInv, SentInv, SizedExactly, IntactInv, CutInv, NewerInv

LEMMA DeclareInv ==
  ASSUME ManifestInv, Declare
  PROVE  ManifestInv'
  <1> USE DEF ManifestInv
  <1>1. declared' \in Seq(Declared)
    BY DEF Declare, ManifestTypes
  <1>2. ManifestTypes'
    BY <1>1 DEF Declare, ManifestTypes
  <1>3. ReadInv'
    BY DEF Declare, ReadInv
  <1>4. encoded' = "none" /\ damage' = "intact" /\ next' = 0 /\ parsed' = <<>> /\ answer' = "none"
    BY DEF Declare, SentInv
  <1> QED BY <1>2, <1>3, <1>4 DEF SentInv, SizedExactly, IntactInv, CutInv, NewerInv

LEMMA EncodeInv ==
  ASSUME ManifestInv, Encode
  PROVE  ManifestInv'
  <1> USE DEF ManifestInv
  <1>1. /\ encoded = "none" /\ damage = "intact" /\ next = 0 /\ parsed = <<>> /\ answer = "none"
        /\ UNCHANGED <<model, firmware, declared, damage, next, parsed, answer>>
    BY DEF Encode, SentInv
  <1>2. PICK short \in {0, 1} : buffer' = EncodedLen(model, firmware, declared) - short
    BY DEF Encode
  <1>3. CASE ~Validates(model, firmware, declared)
    <2>1. encoded' = "InvalidFormat" /\ wire' = wire
      BY <1>3 DEF Encode
    <2>2. ManifestTypes' /\ ReadInv'
      BY <1>1, <2>1 DEF ManifestTypes, ReadInv
    <2> QED BY <1>1, <2>1, <2>2 DEF SentInv, SizedExactly, IntactInv, CutInv, NewerInv
  <1>4. CASE Validates(model, firmware, declared)
    <2> DEFINE m == EncodedLen(model, firmware, declared)
    <2>1. Written(Sent) = m /\ m \in Nat
      BY <1>4, LenExact DEF ManifestTypes, Validates, Sent
    <2>2. EncodedLen(model, firmware, declared)' = m
      BY <1>1
    <2>3. IF m <= buffer' THEN encoded' = "Ok" /\ wire' = Sent
          ELSE encoded' = "BufferTooSmall" /\ wire' = wire
      BY <1>4, <2>1 DEF Encode, Sent
    <2> HIDE DEF m
    <2>4. SentRight
      BY <1>4, SentIs DEF ManifestTypes
    <2>5. buffer' >= m <=> m <= buffer'
      BY <1>2, <2>1 DEF m
    <2>6. SizedExactly'
      BY <2>2, <2>3, <2>5 DEF SizedExactly
    <2>7. wire' \in Seq(AnyLine) /\ \A k \in 1 .. Len(wire') : wire'[k] \in LineAt(k)
      BY <2>3, <2>4 DEF SentRight, ManifestTypes
    <2>8. ManifestTypes'
      BY <1>1, <2>3, <2>7 DEF ManifestTypes
    <2>9. ReadInv'
      BY <1>1 DEF ReadInv
    <2>10. SentInv'
      BY <1>1, <1>4, <2>3 DEF SentInv, Validates
    <2>11. Sent' = Sent
      BY <1>1 DEF Sent
    <2> QED BY <1>1, <2>3, <2>6, <2>8, <2>9, <2>10, <2>11 DEF IntactInv, CutInv, NewerInv
  <1> QED BY <1>3, <1>4

\* On its way the text is still what was sent, and unread.
LEMMA OnTheWayIs ==
  ASSUME ManifestInv, NEW what, OnTheWay(what)
  PROVE  /\ SentRight /\ wire = Sent /\ Sent' = Sent
         /\ next = 0 /\ next' = 0 /\ parsed = <<>> /\ parsed' = <<>>
         /\ answer = "none" /\ answer' = "none"
         /\ encoded = "Ok" /\ encoded' = "Ok" /\ damage' = what /\ damage = "intact"
  <1> USE DEF ManifestInv, OnTheWay
  <1>1. SentRight
    BY SentIs DEF ManifestTypes, SentInv
  <1>2. wire = Sent
    BY DEF IntactInv
  <1>3. parsed = <<>>
    <2>1. parsed \in Seq(WireDeclared) /\ Len(parsed) = 0
      BY DEF ManifestTypes, ReadInv
    <2> QED BY <2>1
  <1> QED BY <1>1, <1>2, <1>3 DEF Sent

LEMMA OnTheWayInv ==
  ASSUME ManifestInv, NEW what \in {"cut", "newer", "other"}, OnTheWay(what),
         wire' \in Seq(AnyLine), \A k \in 1 .. Len(wire') : wire'[k] \in LineAt(k),
         CutInv', NewerInv'
  PROVE  ManifestInv'
  <1>1. /\ next' = 0 /\ parsed' = <<>> /\ answer' = "none" /\ encoded' = "Ok" /\ encoded = "Ok"
        /\ damage' = what
    BY OnTheWayIs
  <1>2. ManifestTypes'
    <2>1. parsed' \in Seq(WireDeclared)
      BY <1>1
    <2>2. /\ UNCHANGED <<model, firmware, declared, encoded>>
          /\ model \in Text(Nat) /\ firmware \in Text(Nat) /\ declared \in Seq(Declared)
      BY DEF OnTheWay, ManifestInv, ManifestTypes
    <2> QED BY <1>1, <2>1, <2>2 DEF ManifestTypes
  <1>3. SentInv' /\ SizedExactly'
    BY <1>1 DEF OnTheWay, ManifestInv, SentInv, SizedExactly
  <1>4. ReadInv'
    <2>1. Len(parsed') = 0 /\ DOMAIN parsed' = {}
      BY <1>1
    <2> QED BY <1>1, <2>1 DEF ReadInv, OneTruth
  <1>5. IntactInv'
    BY <1>1 DEF IntactInv
  <1> QED BY <1>2, <1>3, <1>4, <1>5 DEF ManifestInv

LEMMA TornIs ==
  ASSUME NEW k \in Nat \ {0}, NEW line \in LineAt(k), NEW t \in Torn(line)
  PROVE  t \in LineAt(k) /\ ~t.whole
  <1>1. CASE t = [line EXCEPT !.whole = FALSE]
    BY <1>1 DEF LineAt, FlagLine, FieldLine, CapsLine
  <1>2. CASE t # [line EXCEPT !.whole = FALSE]
    <2>1. line.key = "cap" /\ \E n \in 0 .. line.d.backing.len - 1 :
                                t = [line EXCEPT !.whole = FALSE, !.d.backing.len = n]
      BY <1>2 DEF Torn
    <2>2. PICK n \in 0 .. line.d.backing.len - 1 :
            t = [line EXCEPT !.whole = FALSE, !.d.backing.len = n]
      BY <2>1
    <2>3. LineAt(k) = CapsLine
      BY <2>1 DEF LineAt, FlagLine, FieldLine
    <2>4. line \in CapsLine /\ n \in Nat
      BY <2>3, <2>2 DEF CapsLine, WireDeclared
    <2>5. t \in CapsLine /\ ~t.whole
      BY <2>2, <2>4 DEF CapsLine, WireDeclared
    <2> QED BY <2>3, <2>5
  <1> QED BY <1>1, <1>2

LEMMA CutShortInv ==
  ASSUME ManifestInv, CutShort
  PROVE  ManifestInv'
  <1>1. OnTheWay("cut")
    BY DEF CutShort
  <1>2. SentRight /\ wire = Sent /\ damage' = "cut"
    BY <1>1, OnTheWayIs
  <1>3. PICK k \in 0 .. Len(wire) - 1 :
          \/ wire' = SubSeq(wire, 1, k)
          \/ \E t \in Torn(wire[k + 1]) : wire' = Append(SubSeq(wire, 1, k), t)
    BY DEF CutShort
  <1> DEFINE s == SubSeq(wire, 1, k)
  <1>4. /\ wire \in Seq(AnyLine) /\ Len(wire) \in Nat /\ k \in Nat /\ k + 1 \in 1 .. Len(wire)
        /\ \A j \in 1 .. Len(wire) : wire[j] \in LineAt(j)
    BY <1>2, <1>3 DEF SentRight
  <1>5. s \in Seq(AnyLine) /\ Len(s) = k /\ \A j \in 1 .. k : s[j] = wire[j]
    BY <1>4
  <1>6. NewerInv'
    BY <1>2 DEF NewerInv
  <1> HIDE DEF s
  <1>7. CASE wire' = s
    <2>1. wire' \in Seq(AnyLine) /\ \A j \in 1 .. Len(wire') : wire'[j] \in LineAt(j)
      BY <1>4, <1>5, <1>7
    <2>2. ASSUME NEW j \in 5 .. Len(wire') PROVE \E i \in 1 .. Len(declared) : wire'[j].d = declared[i]
      <3>1. j - 4 \in 1 .. Len(Caps) /\ 4 + (j - 4) = j /\ wire'[j] = Sent[j]
        BY <1>2, <1>4, <1>5, <1>7 DEF SentRight
      <3>2. Sent[4 + (j - 4)].d = Caps[j - 4]
        BY <1>2, <3>1 DEF SentRight
      <3>3. PICK i \in 1 .. Len(declared) : Caps[j - 4] = declared[i]
        BY <1>2, <3>1 DEF SentRight
      <3> QED BY <3>1, <3>2, <3>3
    <2>3. declared' = declared
      BY <1>1 DEF OnTheWay
    <2>4. CutInv'
      BY <2>2, <2>3 DEF CutInv
    <2> QED BY <1>1, <1>6, <2>1, <2>4, OnTheWayInv
  <1>8. CASE \E t \in Torn(wire[k + 1]) : wire' = Append(s, t)
    <2>1. PICK t \in Torn(wire[k + 1]) : wire' = Append(s, t)
      BY <1>8
    <2>2. t \in LineAt(k + 1) /\ ~t.whole
      BY <1>4, TornIs
    <2>3. t \in AnyLine
      BY <2>2 DEF LineAt, AnyLine
    <2>4. /\ wire' \in Seq(AnyLine) /\ Len(wire') = k + 1 /\ wire'[k + 1] = t
          /\ \A j \in 1 .. k : wire'[j] = s[j]
      BY <1>4, <1>5, <2>1, <2>3
    <2>5. \A j \in 1 .. Len(wire') : wire'[j] \in LineAt(j)
      <3> TAKE j \in 1 .. Len(wire')
      <3>1. CASE j = k + 1
        BY <2>2, <2>4, <3>1
      <3>2. CASE j \in 1 .. k
        BY <1>4, <1>5, <2>4, <3>2
      <3> QED BY <1>4, <2>4, <3>1, <3>2
    <2>6. ~wire'[Len(wire')].whole
      BY <2>2, <2>4
    <2>7. CutInv'
      BY <2>6 DEF CutInv
    <2> QED BY <1>1, <1>6, <2>4, <2>5, <2>7, OnTheWayInv
  <1> QED BY <1>3, <1>7, <1>8 DEF s

LEMMA FromNewerDeviceInv ==
  ASSUME ManifestInv, FromNewerDevice
  PROVE  ManifestInv'
  <1>1. OnTheWay("newer")
    BY DEF FromNewerDevice
  <1>2. /\ SentRight /\ wire = Sent /\ Sent' = Sent /\ damage' = "newer"
        /\ next' = 0 /\ answer' = "none"
    BY <1>1, OnTheWayIs
  <1>3. /\ wire \in Seq(AnyLine) /\ Len(wire) \in Nat /\ Len(wire) >= 4
        /\ \A k \in 1 .. Len(wire) : wire[k] \in LineAt(k) /\ wire[k].whole
    BY <1>2 DEF SentRight
  <1>4. \E b \in 1 .. Len(wire) : \E line \in LineAt(b) :
          /\ wire' = [wire EXCEPT ![b] = line] /\ line.whole
          /\ \/ b \in {1, 4} /\ ~line.known
             \/ b >= 5 /\ line.d.capability = NewerTag
    <2>1. CASE wire' = [wire EXCEPT ![1] = Version(FALSE)]
      <3>1. 1 \in 1 .. Len(wire) /\ Version(FALSE) \in LineAt(1) /\ Version(FALSE).whole
            /\ ~Version(FALSE).known
        <4>1. LineAt(1) = FlagLine
          BY DEF LineAt
        <4>2. Version(FALSE) \in FlagLine /\ Version(FALSE).whole /\ ~Version(FALSE).known
          BY DEF Version, FlagLine
        <4>3. 1 \in 1 .. Len(wire)
          BY <1>3
        <4> QED BY <4>1, <4>2, <4>3
      <3> QED BY <2>1, <3>1
    <2>2. CASE wire' = [wire EXCEPT ![4] = ChipLine(FALSE)]
      <3>1. 4 \in 1 .. Len(wire) /\ ChipLine(FALSE) \in LineAt(4) /\ ChipLine(FALSE).whole
            /\ ~ChipLine(FALSE).known
        <4>1. LineAt(4) = FlagLine
          BY DEF LineAt
        <4>2. ChipLine(FALSE) \in FlagLine /\ ChipLine(FALSE).whole /\ ~ChipLine(FALSE).known
          BY DEF ChipLine, FlagLine
        <4>3. 4 \in 1 .. Len(wire)
          BY <1>3
        <4> QED BY <4>1, <4>2, <4>3
      <3> QED BY <2>2, <3>1
    <2>3. CASE \E k \in 5 .. Len(wire) : wire' = [wire EXCEPT ![k].d.capability = NewerTag]
      <3>1. PICK k \in 5 .. Len(wire) : wire' = [wire EXCEPT ![k].d.capability = NewerTag]
        BY <2>3
      <3> DEFINE line == [wire[k] EXCEPT !.d.capability = NewerTag]
      <3>2. k \in 1 .. Len(wire) /\ LineAt(k) = CapsLine /\ k >= 5
        BY <1>3 DEF LineAt
      <3>3. wire[k] \in CapsLine /\ wire[k].whole
        BY <1>3, <3>2
      <3>4. line \in CapsLine /\ line.whole /\ line.d.capability = NewerTag
        BY <3>3 DEF CapsLine, WireDeclared, NewerTag
      <3>5. wire' = [wire EXCEPT ![k] = line]
        BY <3>1
      <3> QED BY <3>2, <3>4, <3>5
    <2> QED BY <2>1, <2>2, <2>3 DEF FromNewerDevice
  <1>5a. PICK b \in 1 .. Len(wire) : \E line \in LineAt(b) :
          /\ wire' = [wire EXCEPT ![b] = line] /\ line.whole
          /\ \/ b \in {1, 4} /\ ~line.known
             \/ b >= 5 /\ line.d.capability = NewerTag
    BY <1>4
  <1>5. PICK line \in LineAt(b) :
          /\ wire' = [wire EXCEPT ![b] = line] /\ line.whole
          /\ \/ b \in {1, 4} /\ ~line.known
             \/ b >= 5 /\ line.d.capability = NewerTag
    BY <1>5a
  <1>6. line \in AnyLine
    BY DEF LineAt, AnyLine
  <1>7. /\ wire' \in Seq(AnyLine) /\ Len(wire') = Len(wire) /\ wire'[b] = line
        /\ \A k \in 1 .. Len(wire) : k # b => wire'[k] = wire[k]
    BY <1>3, <1>5, <1>6
  <1>8. \A k \in 1 .. Len(wire') : wire'[k] \in LineAt(k)
    <2> TAKE k \in 1 .. Len(wire')
    <2>1. CASE k = b
      BY <1>7, <2>1
    <2>2. CASE k # b
      BY <1>3, <1>7, <2>2
    <2> QED BY <2>1, <2>2
  <1>9. NewerAt(b)'
    <2>1. /\ Len(wire') = Len(Sent') /\ wire'[b].whole
          /\ \A k \in 1 .. Len(wire') : k # b => wire'[k] = Sent'[k]
      BY <1>2, <1>5, <1>7
    <2>2. b >= 5 => next' < b
      BY <1>2, <1>3
    <2> QED BY <1>2, <1>5, <1>7, <2>1, <2>2 DEF NewerAt
  <1>10. NewerInv'
    BY <1>2, <1>7, <1>9 DEF NewerInv
  <1>11. CutInv'
    BY <1>2 DEF CutInv
  <1> QED BY <1>1, <1>7, <1>8, <1>10, <1>11, OnTheWayInv

LEMMA FromAnotherEncoderInv ==
  ASSUME ManifestInv, FromAnotherEncoder
  PROVE  ManifestInv'
  <1>1. OnTheWay("other")
    BY DEF FromAnotherEncoder
  <1>2. SentRight /\ wire = Sent /\ damage' = "other"
    BY <1>1, OnTheWayIs
  <1>3. /\ wire \in Seq(AnyLine) /\ Len(wire) \in Nat
        /\ \A k \in 1 .. Len(wire) : wire[k] \in LineAt(k)
    BY <1>2 DEF SentRight
  <1>4. PICK i \in 5 .. Len(wire), j \in 5 .. Len(wire) :
          \/ i < j /\ wire' = [wire EXCEPT ![i] = wire[j], ![j] = wire[i]]
          \/ wire' = InsertAt(wire, i, wire[j])
    BY DEF FromAnotherEncoder
  <1>5. /\ i \in 1 .. Len(wire) /\ j \in 1 .. Len(wire) /\ i \in Nat /\ j \in Nat /\ i >= 5
        /\ \A k \in 5 .. Len(wire) + 1 : LineAt(k) = CapsLine
    BY <1>3 DEF LineAt
  <1>6. wire[i] \in CapsLine /\ wire[j] \in CapsLine /\ wire[i] \in AnyLine /\ wire[j] \in AnyLine
    BY <1>3, <1>5 DEF AnyLine
  <1>7. wire' \in Seq(AnyLine) /\ \A k \in 1 .. Len(wire') : wire'[k] \in LineAt(k)
    <2>1. CASE wire' = [wire EXCEPT ![i] = wire[j], ![j] = wire[i]]
      <3>1. /\ wire' \in Seq(AnyLine) /\ Len(wire') = Len(wire)
            /\ \A k \in 1 .. Len(wire) :
                 wire'[k] = IF k = j THEN wire[i] ELSE IF k = i THEN wire[j] ELSE wire[k]
        BY <1>3, <1>5, <1>6, <2>1
      <3>2. ASSUME NEW k \in 1 .. Len(wire) PROVE wire'[k] \in LineAt(k)
        <4>1. CASE k = i \/ k = j
          <5>1. LineAt(k) = CapsLine
            BY <1>5, <4>1
          <5> QED BY <1>6, <3>1, <4>1, <5>1
        <4>2. CASE k # i /\ k # j
          BY <1>3, <3>1, <4>2
        <4> QED BY <4>1, <4>2
      <3> QED BY <3>1, <3>2
    <2>2. CASE wire' = InsertAt(wire, i, wire[j])
      <3> DEFINE a == SubSeq(wire, 1, i - 1)
                 b == SubSeq(wire, i, Len(wire))
                 x == wire[j]
      <3>1. wire' = (a \o <<x>>) \o b
        BY <2>2 DEF InsertAt
      <3>2. /\ a \in Seq(AnyLine) /\ Len(a) = i - 1 /\ \A k \in 1 .. i - 1 : a[k] = wire[k]
            /\ b \in Seq(AnyLine) /\ Len(b) = Len(wire) - i + 1
            /\ \A k \in 1 .. Len(wire) - i + 1 : b[k] = wire[i + k - 1]
        BY <1>3, <1>5
      <3>3. x \in CapsLine /\ x \in AnyLine
        BY <1>6
      <3> HIDE DEF a, b, x
      <3> DEFINE c == a \o <<x>>
      <3>4. /\ c \in Seq(AnyLine) /\ Len(c) = i /\ c[i] = x
            /\ \A k \in 1 .. i - 1 : c[k] = wire[k]
        BY <1>5, <3>2, <3>3
      <3> HIDE DEF c
      <3>5. c \o b \in Seq(AnyLine) /\ Len(c \o b) = Len(c) + Len(b)
            /\ \A k \in 1 .. Len(c) + Len(b) :
                 (c \o b)[k] = IF k <= Len(c) THEN c[k] ELSE b[k - Len(c)]
        BY <3>2, <3>4, ConcatProperties
      <3>6. ASSUME NEW k \in 1 .. Len(wire') PROVE wire'[k] \in LineAt(k)
        <4>0. k \in 1 .. Len(wire) + 1 /\ wire'[k] = IF k <= i THEN c[k] ELSE b[k - i]
          BY <1>3, <1>5, <3>1, <3>2, <3>4, <3>5 DEF c
        <4>1. CASE k < i
          <5>1. k \in 1 .. i - 1 /\ k \in 1 .. Len(wire) /\ k <= i
            BY <1>5, <4>0, <4>1
          <5> QED BY <1>3, <3>4, <4>0, <5>1
        <4>2. CASE k = i
          <5>1. LineAt(k) = CapsLine /\ k <= i
            BY <1>3, <1>5, <4>2
          <5> QED BY <3>3, <3>4, <4>0, <4>2, <5>1
        <4>3. CASE k > i
          <5>1. /\ k - i \in 1 .. Len(wire) - i + 1 /\ i + (k - i) - 1 = k - 1
                /\ k - 1 \in 5 .. Len(wire) /\ k \in 5 .. Len(wire) + 1 /\ ~(k <= i)
            BY <1>3, <1>5, <4>0, <4>3
          <5>2. wire'[k] = wire[k - 1]
            BY <3>2, <4>0, <5>1
          <5>3. k - 1 \in 1 .. Len(wire) /\ k - 1 \in 5 .. Len(wire) + 1
            BY <1>3, <5>1
          <5>4. wire[k - 1] \in CapsLine
            BY <1>3, <1>5, <5>3
          <5>5. LineAt(k) = CapsLine
            BY <1>5, <5>1
          <5> QED BY <5>2, <5>4, <5>5
        <4> QED BY <1>5, <4>0, <4>1, <4>2, <4>3
      <3> QED BY <3>1, <3>5, <3>6 DEF c
    <2> QED BY <1>4, <2>1, <2>2
  <1>8. CutInv' /\ NewerInv'
    BY <1>2 DEF CutInv, NewerInv
  <1> QED BY <1>1, <1>7, <1>8, OnTheWayInv

LEMMA RefuseInv ==
  ASSUME ManifestInv, Refuse
  PROVE  ManifestInv'
  <1> USE DEF ManifestInv, Refuse, Reads, Answers
  <1>1. encoded = "Ok" /\ answer' = "InvalidFormat" /\ next = 0 /\ ~NewlineAtEnd
        /\ UNCHANGED <<model, firmware, declared, buffer, encoded, wire, damage, next, parsed>>
    OBVIOUS
  <1>2. SentRight
    BY SentIs DEF ManifestTypes, SentInv
  <1>3. wire \in Seq(AnyLine) /\ Len(wire) \in Nat
    BY DEF ManifestTypes
  <1>4. ~(Len(wire) >= 4 /\ wire[Len(wire)].whole)
    <2>1. Len(wire) >= 4 => wire # <<>>
      BY <1>3
    <2> QED BY <1>1, <2>1 DEF NewlineAtEnd, Last
  <1>5. damage # "intact"
    <2>1. Len(Sent) >= 4 /\ Sent[Len(Sent)].whole
      BY <1>2 DEF SentRight
    <2> QED BY <1>1, <1>4, <2>1 DEF IntactInv
  <1>6. damage # "newer"
    <2> SUFFICES ASSUME damage = "newer" PROVE FALSE
      OBVIOUS
    <2>1. PICK b \in 1 .. Len(wire) : NewerAt(b)
      BY DEF NewerInv
    <2>2. Len(wire) = Len(Sent) /\ Len(Sent) >= 4 /\ Sent[Len(Sent)].whole
          /\ Len(wire) \in 1 .. Len(wire)
      BY <1>2, <1>3, <2>1 DEF NewerAt, SentRight
    <2>3. wire[Len(wire)].whole
      BY <2>1, <2>2 DEF NewerAt
    <2> QED BY <1>4, <2>2, <2>3
  <1>7. ManifestTypes' /\ SentInv' /\ SizedExactly' /\ CutInv'
    BY <1>1 DEF ManifestTypes, SentInv, SizedExactly, CutInv
  <1>8. ReadInv'
    BY <1>1 DEF ReadInv
  <1> QED BY <1>1, <1>5, <1>6, <1>7, <1>8 DEF IntactInv, NewerInv

LEMMA ParseHeaderInv ==
  ASSUME ManifestInv, ParseHeader
  PROVE  ManifestInv'
  <1> USE DEF ManifestInv
  <1>1. /\ encoded = "Ok" /\ answer = "none" /\ next = 0 /\ NewlineAtEnd
        /\ UNCHANGED <<model, firmware, declared, buffer, encoded, wire, damage, parsed>>
    BY DEF ParseHeader, Reads, Answers
  <1> DEFINE Good == Len(wire) >= 4 /\ FieldOk(wire[2].value) /\ FieldOk(wire[3].value)
  <1>2. \/ /\ wire # <<>> /\ ~wire[1].known
           /\ answer' = "Unsupported" /\ next' = 0
        \/ /\ wire[1].known /\ ~Good
           /\ answer' = "InvalidFormat" /\ next' = 0
        \/ /\ wire[1].known /\ Good /\ ~wire[4].known
           /\ answer' = "Unsupported" /\ next' = 0
        \/ /\ wire[1].known /\ Good /\ wire[4].known
           /\ answer' = "none" /\ next' = 4
    <2>0. wire # <<>> /\ wire \in Seq(AnyLine) /\ Len(wire) \in Nat
      BY <1>1 DEF NewlineAtEnd, ManifestTypes
    <2>1. Len(wire) < 4 <=> ~(Len(wire) >= 4)
      BY <2>0
    <2> QED BY <1>1, <2>0, <2>1 DEF ParseHeader, Answers
  <1>3. SentRight
    BY <1>1, SentIs DEF ManifestTypes, SentInv
  <1>4. wire \in Seq(AnyLine) /\ Len(wire) \in Nat /\ wire[Len(wire)].whole
    BY <1>1 DEF ManifestTypes, NewlineAtEnd, Last
  <1>5. parsed \in Seq(WireDeclared) /\ Len(parsed) = 0 /\ DOMAIN parsed = {}
    BY <1>1 DEF ManifestTypes, ReadInv
  <1>6. answer' \in {"none", "InvalidFormat", "Unsupported"} /\ next' \in {0, 4}
    BY <1>2
  <1>7. ManifestTypes' /\ SentInv' /\ SizedExactly' /\ CutInv'
    BY <1>1, <1>6 DEF ManifestTypes, SentInv, SizedExactly, CutInv
  <1>8. ReadInv'
    <2>1. next' # 0 => /\ Len(wire) >= 4 /\ wire[1].known /\ wire[4].known
                       /\ FieldOk(wire[2].value) /\ FieldOk(wire[3].value) /\ next' = 4
      BY <1>2
    <2>2. parsed' = parsed /\ wire' = wire /\ answer' # "Ok"
      BY <1>1, <1>6
    <2>3. next' = 0 \/ next' \in 4 .. Len(wire)
      BY <1>4, <1>6, <2>1
    <2>4. Len(parsed) = IF next' = 0 THEN 0 ELSE next' - 4
      BY <1>5, <2>1
    <2>5. OneTruth(parsed) /\ (\A k \in 1 .. Len(parsed) : ParsedHonest(parsed[k]))
          /\ \A k \in 1 .. Len(parsed) : parsed[k] = wire[4 + k].d
      BY <1>5 DEF OneTruth
    <2> QED BY <1>4, <2>1, <2>2, <2>3, <2>4, <2>5 DEF ReadInv
  <1>9. IntactInv'
    <2> SUFFICES ASSUME damage = "intact" PROVE wire = Sent /\ answer' \in {"none", "Ok"}
      BY <1>1 DEF IntactInv, Sent
    <2>1. wire = Sent
      BY <1>1 DEF IntactInv
    <2>2. wire[1].known /\ wire[4].known /\ Good
      BY <1>3, <2>1 DEF SentRight
    <2> QED BY <1>2, <2>1, <2>2
  <1>10. NewerInv'
    <2> SUFFICES ASSUME damage = "newer"
                 PROVE  answer' \in {"none", "Unsupported"} /\ \E b \in 1 .. Len(wire) : NewerAt(b)'
      BY <1>1 DEF NewerInv
    <2>1. PICK b \in 1 .. Len(wire) : NewerAt(b)
      BY DEF NewerInv
    <2>2. Len(wire) >= 4 /\ \A k \in 1 .. Len(wire) : k # b => wire[k] = Sent[k]
      BY <1>3, <2>1 DEF NewerAt, SentRight
    <2>3. b # 2 /\ b # 3
      BY <2>1 DEF NewerAt
    <2>4. Good
      <3>1. 2 \in 1 .. Len(wire) /\ 3 \in 1 .. Len(wire)
        BY <1>4, <2>2
      <3>2. wire[2] = Sent[2] /\ wire[3] = Sent[3]
        BY <2>2, <2>3, <3>1
      <3> QED BY <1>3, <2>2, <3>2 DEF SentRight
    <2>5. answer' \in {"none", "Unsupported"}
      BY <1>2, <2>4
    <2>6. next' = 4 => b >= 5
      <3> SUFFICES ASSUME next' = 4, ~(b >= 5) PROVE FALSE
        OBVIOUS
      <3>1. b \in {1, 4} /\ ~wire[b].known
        BY <2>1 DEF NewerAt
      <3> QED BY <1>2, <3>1
    <2>7. NewerAt(b)'
      <3>1. Sent' = Sent /\ wire' = wire
        BY <1>1 DEF Sent
      <3>2. \/ b \in {1, 4} /\ ~wire[b].known /\ next' = 0
            \/ b >= 5 /\ wire[b].d.capability = NewerTag /\ next' < b
        <4>1. CASE b >= 5
          <5>1. wire[b].d.capability = NewerTag
            BY <2>1, <4>1 DEF NewerAt
          <5> QED BY <1>6, <4>1, <5>1
        <4>2. CASE ~(b >= 5)
          <5>1. b \in {1, 4} /\ ~wire[b].known
            BY <2>1, <4>2 DEF NewerAt
          <5> QED BY <1>6, <2>6, <4>2, <5>1
        <4> QED BY <4>1, <4>2
      <3> QED BY <2>1, <3>1, <3>2 DEF NewerAt
    <2> QED BY <2>5, <2>7
  <1> QED BY <1>7, <1>8, <1>9, <1>10

LEMMA ParseCapInv ==
  ASSUME ManifestInv, ParseCap
  PROVE  ManifestInv'
  <1> USE DEF ManifestInv
  <1> DEFINE d == wire[next + 1].d
             more == Append(parsed, d)
  <1>1. /\ encoded = "Ok" /\ answer = "none" /\ next >= 4 /\ next < Len(wire)
        /\ UNCHANGED <<model, firmware, declared, buffer, encoded, wire, damage>>
    BY DEF ParseCap, Reads
  <1>2. \/ /\ d.capability = NewerTag
           /\ answer' = "Unsupported" /\ next' = next /\ parsed' = parsed
        \/ /\ d.capability # NewerTag /\ ~(ParsedHonest(d) /\ OneTruth(more))
           /\ answer' = "InvalidFormat" /\ next' = next /\ parsed' = parsed
        \/ /\ d.capability # NewerTag /\ ParsedHonest(d) /\ OneTruth(more)
           /\ answer' = "none" /\ next' = next + 1 /\ parsed' = more
    BY <1>1 DEF ParseCap, OnUnknownTag, Answers
  <1>3. SentRight
    BY SentIs DEF ManifestTypes, SentInv, ParseCap, Reads
  <1>4. /\ wire \in Seq(AnyLine) /\ Len(wire) \in Nat /\ parsed \in Seq(WireDeclared)
        /\ next \in 4 .. Len(wire) /\ next \in Nat /\ Len(parsed) = next - 4
        /\ \A k \in 1 .. Len(wire) : wire[k] \in LineAt(k)
    BY <1>1 DEF ManifestTypes, ReadInv
  <1>5. d \in WireDeclared
    <2>1. next + 1 \in 1 .. Len(wire) /\ LineAt(next + 1) = CapsLine
      BY <1>1, <1>4 DEF LineAt
    <2>2. wire[next + 1] \in CapsLine
      BY <1>4, <2>1
    <2> QED BY <2>2 DEF CapsLine
  <1> HIDE DEF d
  <1>6. /\ more \in Seq(WireDeclared) /\ Len(more) = next - 3 /\ more[next - 3] = d
        /\ \A k \in 1 .. next - 4 : more[k] = parsed[k]
    BY <1>4, <1>5
  <1> HIDE DEF more
  <1>7. /\ answer' \in {"none", "InvalidFormat", "Unsupported"}
        /\ parsed' \in {parsed, more} /\ next' \in {next, next + 1}
    BY <1>2
  <1>8. ManifestTypes' /\ SentInv' /\ SizedExactly' /\ CutInv'
    BY <1>1, <1>4, <1>6, <1>7 DEF ManifestTypes, SentInv, SizedExactly, CutInv
  <1>9. ReadInv'
    <2>1. CASE next' = next /\ parsed' = parsed
      BY <1>1, <1>7, <2>1 DEF ReadInv
    <2>2. CASE next' = next + 1 /\ parsed' = more /\ ParsedHonest(d) /\ OneTruth(more)
      <3>1. next' \in 4 .. Len(wire) /\ next' # 0 /\ Len(more) = next' - 4
        BY <1>1, <1>4, <1>6, <2>2
      <3>2. \A k \in 1 .. Len(more) : more[k] = wire[4 + k].d /\ ParsedHonest(more[k])
        <4> TAKE k \in 1 .. Len(more)
        <4>1. CASE k = next - 3
          <5>1. 4 + k = next + 1
            BY <1>4, <4>1
          <5> QED BY <1>6, <2>2, <4>1, <5>1 DEF d
        <4>2. CASE k \in 1 .. next - 4
          <5>1. k \in 1 .. Len(parsed)
            BY <1>4, <4>2
          <5>2. parsed[k] = wire[4 + k].d /\ ParsedHonest(parsed[k])
            BY <5>1 DEF ReadInv
          <5> QED BY <1>6, <4>2, <5>2
        <4> QED BY <1>4, <1>6, <4>1, <4>2
      <3>3. /\ wire[Len(wire)].whole /\ wire[1].known /\ wire[4].known
            /\ FieldOk(wire[2].value) /\ FieldOk(wire[3].value)
        BY <1>1, <1>4 DEF ReadInv
      <3>4. answer' # "Ok" /\ wire' = wire
        BY <1>1, <1>7
      <3> QED BY <2>2, <3>1, <3>2, <3>3, <3>4 DEF ReadInv
    <2> QED BY <1>2, <2>1, <2>2
  <1>10. ASSUME \A k \in 5 .. next + 1 : wire[k] = Sent[k], next + 1 <= Len(Sent)
         PROVE  answer' = "none" /\ next' = next + 1
    <2>1. d.capability # NewerTag /\ ParsedHonest(d) /\ OneTruth(more)
      BY <1>1, <1>3, <1>4, <1>10, TakesWhatWasSent DEF d, more
    <2> QED BY <1>2, <2>1
  <1>11. IntactInv'
    <2> SUFFICES ASSUME damage = "intact" PROVE wire = Sent /\ answer' \in {"none", "Ok"}
      BY <1>1 DEF IntactInv, Sent
    <2>1. wire = Sent
      BY <1>1 DEF IntactInv
    <2>2. next + 1 <= Len(Sent)
      BY <1>1, <1>4, <2>1
    <2> QED BY <1>10, <2>1, <2>2
  <1>12. NewerInv'
    <2> SUFFICES ASSUME damage = "newer"
                 PROVE  answer' \in {"none", "Unsupported"} /\ \E b \in 1 .. Len(wire) : NewerAt(b)'
      BY <1>1 DEF NewerInv
    <2>1. PICK b \in 1 .. Len(wire) : NewerAt(b)
      BY DEF NewerInv
    <2>2. b >= 5 /\ wire[b].d.capability = NewerTag /\ next < b /\ b \in Nat
      BY <1>1, <1>4, <2>1 DEF NewerAt
    <2>3. Sent' = Sent /\ wire' = wire
      BY <1>1 DEF Sent
    <2>4. CASE b = next + 1
      <3>1. answer' = "Unsupported" /\ next' = next
        BY <1>2, <2>2, <2>4 DEF d
      <3>2. NewerAt(b)'
        BY <2>1, <2>2, <2>3, <3>1 DEF NewerAt
      <3> QED BY <3>1, <3>2
    <2>5. CASE b # next + 1
      <3>1. next + 1 < b
        BY <1>4, <2>2, <2>5
      <3>2. \A k \in 5 .. next + 1 : k \in 1 .. Len(wire) /\ k # b
        BY <1>1, <1>4, <3>1
      <3>3. Len(wire) = Len(Sent) /\ \A k \in 1 .. Len(wire) : k # b => wire[k] = Sent[k]
        BY <2>1 DEF NewerAt
      <3>4. next + 1 <= Len(Sent)
        BY <1>1, <1>4, <3>3
      <3>5. answer' = "none" /\ next' = next + 1
        BY <1>10, <3>2, <3>3, <3>4
      <3>6. NewerAt(b)'
        BY <2>1, <2>2, <2>3, <3>1, <3>5 DEF NewerAt
      <3> QED BY <3>5, <3>6
    <2> QED BY <2>4, <2>5
  <1> QED BY <1>8, <1>9, <1>11, <1>12

LEMMA ParseDoneInv ==
  ASSUME ManifestInv, ParseDone
  PROVE  ManifestInv'
  <1> USE DEF ManifestInv
  <1>1. /\ encoded = "Ok" /\ answer' = "Ok" /\ next >= 4 /\ next = Len(wire)
        /\ UNCHANGED <<model, firmware, declared, buffer, encoded, wire, damage, next, parsed>>
    BY DEF ParseDone, Reads, Answers
  <1>2. ManifestTypes' /\ SentInv' /\ SizedExactly' /\ CutInv'
    BY <1>1 DEF ManifestTypes, SentInv, SizedExactly, CutInv
  <1>3. ReadInv'
    BY <1>1 DEF ReadInv
  <1>4. IntactInv'
    BY <1>1 DEF IntactInv, Sent
  <1>5. damage # "newer"
    <2> SUFFICES ASSUME damage = "newer" PROVE FALSE
      OBVIOUS
    <2>1. PICK b \in 1 .. Len(wire) : NewerAt(b)
      BY DEF NewerInv
    <2>2. Len(wire) \in Nat
      BY DEF ManifestTypes
    <2> QED BY <1>1, <2>1, <2>2 DEF NewerAt
  <1> QED BY <1>1, <1>2, <1>3, <1>4, <1>5 DEF NewerInv

LEMMA ManifestStutterInv ==
  ASSUME ManifestInv, UNCHANGED manifestVars
  PROVE  ManifestInv'
  BY DEF ManifestInv, manifestVars, ManifestTypes, SentInv, SizedExactly, ReadInv, IntactInv, CutInv,
         NewerInv, NewerAt, Sent

\* The invariant of the proofs: what was sent was valid and is what the buffer holds; what was
\* read are its first lines; how each kind of damage shows.
THEOREM ManifestInductive == ManifestSpec => []ManifestInv
  <1>1. ManifestInit => ManifestInv
    BY ManifestInitInv
  <1>2. ManifestInv /\ [ManifestNext]_manifestVars => ManifestInv'
    <2> SUFFICES ASSUME ManifestInv, [ManifestNext]_manifestVars PROVE ManifestInv'
      OBVIOUS
    <2>1. CASE Declare
      BY <2>1, DeclareInv
    <2>2. CASE Encode
      BY <2>2, EncodeInv
    <2>3. CASE CutShort
      BY <2>3, CutShortInv
    <2>4. CASE FromNewerDevice
      BY <2>4, FromNewerDeviceInv
    <2>5. CASE FromAnotherEncoder
      BY <2>5, FromAnotherEncoderInv
    <2>6. CASE Refuse
      BY <2>6, RefuseInv
    <2>7. CASE ParseHeader
      BY <2>7, ParseHeaderInv
    <2>8. CASE ParseCap
      BY <2>8, ParseCapInv
    <2>9. CASE ParseDone
      BY <2>9, ParseDoneInv
    <2>10. CASE UNCHANGED manifestVars
      BY <2>10, ManifestStutterInv
    <2> QED BY <2>1, <2>2, <2>3, <2>4, <2>5, <2>6, <2>7, <2>8, <2>9, <2>10 DEF ManifestNext
  <1> QED BY <1>1, <1>2, PTL DEF ManifestSpec

----------------------------------------------------------------------------
\* The same facts give the same bytes, whatever order they were declared in
\* (capability.rs 346-349): for every set of capabilities and any number of declarations.
THEOREM SameFactsAreSameBytes == ManifestSpec => []SameFactsSameBytes
  <1>1. ManifestInv => SameFactsSameBytes
    <2> SUFFICES ASSUME ManifestInv, encoded = "Ok", damage = "intact"
                 PROVE  LET caps == SubSeq(wire, 5, Len(wire))
                        IN /\ {caps[k].d : k \in DOMAIN caps} = Facts(declared)
                           /\ Len(caps) = Len(declared)
                           /\ \A i, j \in DOMAIN caps :
                                i < j => caps[i].d.capability < caps[j].d.capability
      BY DEF SameFactsSameBytes
    <2> DEFINE caps == SubSeq(wire, 5, Len(wire))
    <2>1. declared \in Seq(Declared) /\ OneTruth(declared)
      BY DEF ManifestInv, ManifestTypes, SentInv, Validates
    <2>2. SentRight /\ wire = Sent
      BY SentIs DEF ManifestInv, ManifestTypes, SentInv, IntactInv
    <2>3. /\ Len(caps) = Len(Caps) /\ DOMAIN caps = 1 .. Len(Caps)
          /\ \A k \in 1 .. Len(Caps) : caps[k] = wire[4 + k]
      <3>1. wire \in Seq(AnyLine) /\ Len(wire) = 4 + Len(Caps) /\ Len(Caps) \in Nat
        BY <2>2 DEF SentRight
      <3> QED BY <3>1
    <2> HIDE DEF caps
    <2>4. \A k \in 1 .. Len(Caps) : caps[k].d = Caps[k]
      BY <2>2, <2>3 DEF SentRight
    <2>5. Len(Caps) = Len(declared)
      BY <2>1, OrderLen DEF Caps
    <2>6. {caps[k].d : k \in DOMAIN caps} = Facts(declared)
      <3>1. \A k \in 1 .. Len(Caps) : \E i \in 1 .. Len(declared) : Caps[k] = declared[i]
        BY <2>2 DEF SentRight
      <3>2. \A i \in 1 .. Len(declared) : \E k \in 1 .. Len(Caps) : Caps[k] = declared[i]
        BY <2>1, OrderRight DEF Caps
      <3>3. DOMAIN declared = 1 .. Len(declared)
        BY <2>1
      <3>4. Facts(declared) = {declared[i] : i \in 1 .. Len(declared)}
        BY <3>3 DEF Facts, ToSet
      <3>5. {caps[k].d : k \in DOMAIN caps} = {Caps[k] : k \in 1 .. Len(Caps)}
        <4>1. DOMAIN caps = 1 .. Len(Caps)
          BY <2>3
        <4>2. {caps[k].d : k \in DOMAIN caps} = {caps[k].d : k \in 1 .. Len(Caps)}
          BY <4>1
        <4>3. {caps[k].d : k \in 1 .. Len(Caps)} = {Caps[k] : k \in 1 .. Len(Caps)}
          BY <2>4
        <4> QED BY <4>2, <4>3
      <3>6. {Caps[k] : k \in 1 .. Len(Caps)} = {declared[i] : i \in 1 .. Len(declared)}
        <4>1. \A x : x \in {Caps[k] : k \in 1 .. Len(Caps)}
                    <=> \E k \in 1 .. Len(Caps) : x = Caps[k]
          OBVIOUS
        <4>2. \A x : x \in {declared[i] : i \in 1 .. Len(declared)}
                    <=> \E i \in 1 .. Len(declared) : x = declared[i]
          OBVIOUS
        <4>3. \A x : (\E k \in 1 .. Len(Caps) : x = Caps[k])
                    <=> \E i \in 1 .. Len(declared) : x = declared[i]
          BY <3>1, <3>2
        <4> QED BY <4>1, <4>2, <4>3
      <3> QED BY <3>4, <3>5, <3>6
    <2>7. \A i, j \in DOMAIN caps : i < j => caps[i].d.capability < caps[j].d.capability
      BY <2>2, <2>3, <2>4 DEF SentRight, Increasing
    <2> QED BY <2>3, <2>5, <2>6, <2>7 DEF caps
  <1> QED BY <1>1, ManifestInductive, PTL

\* encoded_len is what the cursor needs (capability.rs 377-394), whatever is declared: a buffer
\* of that size holds the text and one byte less does not.
THEOREM AnnouncedIsWritten == ManifestSpec => []SizedExactly
  <1>1. ManifestInv => SizedExactly
    BY DEF ManifestInv
  <1> QED BY <1>1, ManifestInductive, PTL

\* What arrives as it was sent is read back to the same facts, and encodes to the same text
\* again (capability.rs 478-482).
THEOREM WhatWasSentIsRead == ManifestSpec => []RoundTrips
  <1>1. ManifestInv => RoundTrips
    <2> SUFFICES ASSUME ManifestInv, damage = "intact", answer # "none"
                 PROVE  answer = "Ok" /\ Facts(parsed) = Facts(declared) /\ Reencoded = wire
      BY DEF RoundTrips
    <2>1. encoded = "Ok" /\ Validates(model, firmware, declared) /\ declared \in Seq(Declared)
      BY DEF ManifestInv, SentInv, ManifestTypes
    <2>2. SentRight /\ wire = Sent /\ answer = "Ok"
      BY <2>1, SentIs DEF ManifestInv, ManifestTypes, IntactInv
    <2>3. /\ next = Len(wire) /\ next # 0 /\ Len(parsed) = next - 4
          /\ \A k \in 1 .. Len(parsed) : parsed[k] = wire[4 + k].d
      BY <2>2 DEF ManifestInv, ReadInv
    <2>4. Len(parsed) = Len(Caps) /\ \A k \in 1 .. Len(Caps) : parsed[k] = Caps[k]
      BY <2>2, <2>3 DEF SentRight
    <2>5. parsed = Caps
      <3>1. parsed \in Seq(WireDeclared) /\ Caps \in Seq(Declared) /\ Len(Caps) \in Nat
        BY <2>2 DEF ManifestInv, ManifestTypes, SentRight
      <3>2. DOMAIN parsed = 1 .. Len(Caps) /\ DOMAIN Caps = 1 .. Len(Caps)
        BY <2>4, <3>1
      <3>3. parsed = [k \in 1 .. Len(Caps) |-> parsed[k]] /\ Caps = [k \in 1 .. Len(Caps) |-> Caps[k]]
        BY <3>1, <3>2
      <3> QED BY <2>4, <3>3
    <2>6. Facts(parsed) = Facts(declared)
      <3>1. \A k \in 1 .. Len(Caps) : \E i \in 1 .. Len(declared) : Caps[k] = declared[i]
        BY <2>2 DEF SentRight
      <3>2. \A i \in 1 .. Len(declared) : \E k \in 1 .. Len(Caps) : Caps[k] = declared[i]
        BY <2>1, OrderRight DEF Caps, Validates
      <3>3. DOMAIN declared = 1 .. Len(declared) /\ DOMAIN Caps = 1 .. Len(Caps)
        BY <2>1, <2>2 DEF SentRight
      <3>4. Facts(declared) = {declared[i] : i \in 1 .. Len(declared)}
        BY <3>3 DEF Facts, ToSet
      <3>5. Facts(parsed) = {Caps[k] : k \in 1 .. Len(Caps)}
        BY <2>5, <3>3 DEF Facts, ToSet
      <3> QED BY <3>1, <3>2, <3>4, <3>5
    <2>7. InWireOrder(parsed) = InWireOrder(declared)
      BY <2>1, <2>5, OrderTwice DEF Caps, Validates
    <2>8. Reencoded = Lines(model, firmware, parsed)
      BY <2>2 DEF Reencoded, SentRight
    <2>9. Lines(model, firmware, parsed) = Sent
      BY <2>7 DEF Lines, Sent
    <2> QED BY <2>2, <2>6, <2>8, <2>9
  <1> QED BY <1>1, ManifestInductive, PTL

\* Whatever arrives, what a host accepts is honest, with one truth per capability
\* (capability.rs 504-559).
THEOREM WhatIsAcceptedIsValid == ManifestSpec => []AcceptedIsValid
  <1>1. ManifestInv => AcceptedIsValid
    <2> SUFFICES ASSUME ManifestInv, answer = "Ok"
                 PROVE  /\ FieldOk(wire[2].value) /\ FieldOk(wire[3].value)
                        /\ \A i, j \in DOMAIN parsed :
                             parsed[i].capability = parsed[j].capability => i = j
                        /\ \A i \in DOMAIN parsed :
                             parsed[i].status # "planned" <=> parsed[i].backing.len > 0
      BY DEF AcceptedIsValid
    <2>1. /\ FieldOk(wire[2].value) /\ FieldOk(wire[3].value)
          /\ OneTruth(parsed) /\ \A k \in 1 .. Len(parsed) : ParsedHonest(parsed[k])
      BY DEF ManifestInv, ReadInv
    <2>2. DOMAIN parsed = 1 .. Len(parsed) /\ \A k \in 1 .. Len(parsed) : parsed[k] \in WireDeclared
      BY DEF ManifestInv, ManifestTypes
    <2>3. \A k \in 1 .. Len(parsed) : parsed[k].status # "planned" <=> parsed[k].backing.len > 0
      <3> TAKE k \in 1 .. Len(parsed)
      <3>1. parsed[k].backing.len \in Nat
        BY <2>2 DEF WireDeclared
      <3>2. parsed[k].status = "planned" <=> parsed[k].backing.len = 0
        BY <2>1 DEF ParsedHonest
      <3> QED BY <3>1, <3>2
    <2> QED BY <2>1, <2>2, <2>3 DEF OneTruth
  <1> QED BY <1>1, ManifestInductive, PTL

\* A text cut short at any byte may lose declarations; it never changes one: what has its last
\* newline was cut between two lines (capability.rs 506-507).
THEOREM CutsOnlyDrop == ManifestSpec => []CutOnlyDrops
  <1>1. ManifestInv => CutOnlyDrops
    <2> SUFFICES ASSUME ManifestInv, damage = "cut", answer = "Ok"
                 PROVE  Facts(parsed) \subseteq Facts(declared)
      BY DEF CutOnlyDrops
    <2>1. /\ next # 0 /\ next = Len(wire) /\ next \in 4 .. Len(wire) /\ wire[Len(wire)].whole
          /\ Len(parsed) = next - 4 /\ \A k \in 1 .. Len(parsed) : parsed[k] = wire[4 + k].d
      BY DEF ManifestInv, ReadInv
    <2>2. \A k \in 5 .. Len(wire) : \E i \in 1 .. Len(declared) : wire[k].d = declared[i]
      BY <2>1 DEF ManifestInv, CutInv
    <2>3. \A k \in 1 .. Len(parsed) : \E i \in 1 .. Len(declared) : parsed[k] = declared[i]
      <3> TAKE k \in 1 .. Len(parsed)
      <3>1. 4 + k \in 5 .. Len(wire)
        BY <2>1
      <3> QED BY <2>1, <2>2, <3>1
    <2>4. DOMAIN parsed = 1 .. Len(parsed) /\ DOMAIN declared = 1 .. Len(declared)
      BY DEF ManifestInv, ManifestTypes
    <2> QED BY <2>3, <2>4 DEF Facts, ToSet
  <1> QED BY <1>1, ManifestInductive, PTL

\* A newer device is refused as a whole, and as newer (capability.rs 501-503): no line of the
\* rest is taken for a broken one first.
THEOREM NewerIsNamed == ManifestSpec => []NewerIsUnsupported
  <1>1. ManifestInv => NewerIsUnsupported
    BY DEF ManifestInv, NewerInv, NewerIsUnsupported
  <1> QED BY <1>1, ManifestInductive, PTL
=============================================================================
