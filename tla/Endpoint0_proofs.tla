-------------------------- MODULE Endpoint0_proofs --------------------------
(***************************************************************************)
(* Proofs about module Endpoint0 for every set of builds: what the user is *)
(* told of the host, which handler answers a class request, and that the   *)
(* streams and the drivers are what the host has read of them.  The last   *)
(* three follow the two configuration descriptors, record by record, to    *)
(* what the host reads.                                                    *)
(***************************************************************************)
EXTENDS Endpoint0, SequenceTheorems, FiniteSetTheorems, Integers, TLAPS

\* The interfaces of the audio function, and those with a handler of their own
AudioNames == {"audioControl", "audioOut", "audioIn"}
OwnNames   == {"dfu", "hid"}

\* A descriptor of an audio class, whole or without the records of its streams
Whole(class) == [class |-> class, streams |-> TRUE]
Plain(class) == [class |-> class, streams |-> FALSE]

\* The control interface follows the streaming interfaces of UAC1, whatever its number in
\* the enumeration, which is the one it has in UAC2.
ControlNumber(b, c) ==
  IF c.class = 2 THEN INTERFACE_NUMBER(b, "control") ELSE OUTPUT_INTERFACES_A1(b) + INPUT_INTERFACES_A1(b) + 1

\* Where the handlers look for the interface of a record of the configuration descriptor,
\* and the one class whose descriptor has more alternates than one with endpoints.
Placed(b, c, name, num) ==
  /\ name \in AudioNames => num \in 0..2
  /\ name \in OwnNames => name \in b.has /\ num = INTERFACE_NUMBER(b, name)
  /\ name = "control" => num = ControlNumber(b, c)
Alternate(c, name, alternate) == name \in AudioNames /\ c.class = 1 => alternate \in {0, 1}

\* The records of a stream: those the host relates to the alternate it selects
OfStream(x) ==
  /\ x.kind = "stream" \/ x.kind = "format" \/ (x.kind = "endpoint" /\ x.use # "feedback")
  /\ x.of[1] \in Paths

\* They are those of what decouple is told, and the packets fit.
Fits(b, s, x) ==
  LET told1 == FormatTold(b, s, x.of[1], x.of[2]) IN
  /\ x.kind = "stream" => x.data = told1.data /\ x.chans = told1.chans
  /\ x.kind = "format" => x.slot = told1.slot /\ x.bits = told1.bits
  /\ x.kind = "endpoint" => Samples(b, s) * told1.chans * told1.slot <= x.size

\* In the descriptor that is modified they are those of an alternate of the build; where
\* nothing modifies them they fit from the start.
Modified(b) == b.hs # 2 \/ b.fs # 1
Shaped(b, x) ==
  /\ x.of[1] = "out" => x.of[2] \in 1..OUTPUT_FORMAT_COUNT(b)
  /\ x.of[1] = "in" => x.of[2] \in 1..INPUT_FORMAT_COUNT(b)
  /\ x.of = <<x.of[1], x.of[2]>>
  /\ x.kind = "stream" => x.data = IF x.of[1] = "out" THEN OutData(b)[x.of[2]] ELSE "pcm"
  /\ x.kind = "endpoint" => x.use # "bulk"
  /\ ~Modified(b) => Fits(b, "hs", x)

\* Builds whose streams are carried: the resolutions and the subslots of the input alternates
\* are those of the first, and where the descriptor is modified there is no other; the packets
\* fit an endpoint of high speed.
Carried(b) ==
  /\ Valid(b) /\ (Class2(b) \/ b.fs = 1)
  /\ b.out \in Nat /\ b.in \in Nat /\ b.minF \in Nat /\ b.maxF \in Nat
  /\ \A n \in Formats : b.inRes[n] \in Nat
  /\ b.sync \in {"async", "adaptive", "sync"}
  /\ b.fs # 1 => INPUT_FORMAT_COUNT(b) = 1
  /\ \A n \in 1..INPUT_FORMAT_COUNT(b) : InSlotHS(b)[n] = InSlotHS(b)[1] /\ SampResInHS(b, n) = InRes(b)[1]
  /\ b.hs = 2 => /\ \A n \in 1..OUTPUT_FORMAT_COUNT(b) : OutPacketHS(b)[n] <= 1024
                 /\ \A n \in 1..INPUT_FORMAT_COUNT(b) : InPacketHS(b)[n] <= 1024

Numbered(b, c, x) ==
  /\ "kind" \in DOMAIN x
  /\ x.kind = "interface" => /\ {"name", "num", "alt"} \subseteq DOMAIN x
                             /\ Placed(b, c, x.name, x.num) /\ Alternate(c, x.name, x.alt)
  /\ x.kind = "association" => c.class = 2
  /\ x.kind = "stream" => {"of", "data", "chans"} \subseteq DOMAIN x
  /\ x.kind = "format" => {"of", "slot", "bits"} \subseteq DOMAIN x
  /\ x.kind = "endpoint" => {"of", "use", "size"} \subseteq DOMAIN x
  /\ OfStream(x) => c.streams /\ (Carried(b) => IF c.class = 1 THEN Fits(b, "fs", x) ELSE Shaped(b, x))
AllNumbered(b, c, s) == \E S : s \in Seq(S) /\ \A x \in S : Numbered(b, c, x)

\* The numbers of DFU and HID are past those the audio handler runs on.
Apart(b) == \A name \in OwnNames \intersect b.has : INTERFACE_NUMBER(b, name) > 2
-----------------------------------------------------------------------------
(***************************************************************************)
(* Sequences of records.                                                   *)
(***************************************************************************)
\* No record is wrong in an empty sequence ...
LEMMA NoneNumbered == ASSUME NEW b, NEW c PROVE AllNumbered(b, c, <<>>)
  <1> DEFINE S == {}
  <1>1. <<>> \in Seq(S) /\ \A x \in S : Numbered(b, c, x)
    OBVIOUS
  <1> HIDE DEF S
  <1> QED
    BY <1>1 DEF AllNumbered

\* ... nor in two that follow each other without one ...
LEMMA BothNumbered ==
  ASSUME NEW b, NEW c, NEW s, NEW t, AllNumbered(b, c, s), AllNumbered(b, c, t)
  PROVE  AllNumbered(b, c, s \o t)
  <1>1. PICK S : s \in Seq(S) /\ \A x \in S : Numbered(b, c, x)
    BY DEF AllNumbered
  <1>2. PICK T : t \in Seq(T) /\ \A x \in T : Numbered(b, c, x)
    BY DEF AllNumbered
  <1>3. s \in Seq(S \union T) /\ t \in Seq(S \union T)
    BY <1>1, <1>2, SeqMonotonic
  <1>4. s \o t \in Seq(S \union T)
    BY <1>3, ConcatProperties
  <1>5. \A x \in S \union T : Numbered(b, c, x)
    BY <1>1, <1>2
  <1> QED
    BY <1>4, <1>5 DEF AllNumbered

\* ... nor in one that is there on a condition.
LEMMA WhenNumbered ==
  ASSUME NEW b, NEW c, NEW d, NEW s, d => AllNumbered(b, c, s)
  PROVE  AllNumbered(b, c, When(d, s))
  <1>1. CASE d
    BY <1>1 DEF When
  <1>2. CASE ~d
    BY <1>2, NoneNumbered DEF When
  <1> QED
    BY <1>1, <1>2

\* One record, one of many, and as many as there are.
LEMMA OneNumbered ==
  ASSUME NEW b, NEW c, NEW x, Numbered(b, c, x)
  PROVE  AllNumbered(b, c, <<x>>)
  <1> DEFINE S == {x}
  <1>1. <<x>> \in Seq(S) /\ \A y \in S : Numbered(b, c, y)
    OBVIOUS
  <1> HIDE DEF S
  <1> QED
    BY <1>1 DEF AllNumbered

\* Every record of such a sequence is right ...
LEMMA ItemNumbered ==
  ASSUME NEW b, NEW c, NEW s, AllNumbered(b, c, s), NEW i \in 1..Len(s)
  PROVE  Numbered(b, c, s[i])
  <1>1. PICK S : s \in Seq(S) /\ \A x \in S : Numbered(b, c, x)
    BY DEF AllNumbered
  <1> QED
    BY <1>1, ElementOfSeq

\* ... and a sequence of right records is one.
LEMMA EachNumbered ==
  ASSUME NEW b, NEW c, NEW n \in Nat, NEW s, s = [i \in 1..n |-> s[i]], \A i \in 1..n : Numbered(b, c, s[i])
  PROVE  AllNumbered(b, c, s)
  <1> DEFINE S == {s[i] : i \in 1..n}
  <1>1. s \in [1..n -> S]
    <2>1. \A i \in 1..n : s[i] \in S
      OBVIOUS
    <2> HIDE DEF S
    <2> QED
      BY <2>1
  <1>2. s \in Seq(S)
    BY <1>1, SeqDef
  <1>3. \A x \in S : Numbered(b, c, x)
    OBVIOUS
  <1> HIDE DEF S
  <1> QED
    BY <1>2, <1>3 DEF AllNumbered
-----------------------------------------------------------------------------
(***************************************************************************)
(* The numbers of the interfaces.                                          *)
(***************************************************************************)
\* A name that occurs is found.
LEMMA NumberFound ==
  ASSUME NEW S, NEW s \in Seq(S), NEW x \in Range(s)
  PROVE  NumberIn(s, x) \in 1..Len(s) /\ s[NumberIn(s, x)] = x
  <1>1. \E i \in 1..Len(s) : s[i] = x
    BY RangeEquality
  <1> QED
    BY <1>1 DEF NumberIn

\* What a conditional entry adds.
LEMMA WhenOne ==
  ASSUME NEW S, NEW c, NEW x \in S
  PROVE  /\ When(c, <<x>>) \in Seq(S) /\ Len(When(c, <<x>>)) <= 1
         /\ Range(When(c, <<x>>)) = IF c THEN {x} ELSE {}
  <1> DEFINE w == When(c, <<x>>)
  <1> SUFFICES w \in Seq(S) /\ Len(w) <= 1 /\ Range(w) = IF c THEN {x} ELSE {}
    OBVIOUS
  <1>1. CASE c
    <2>1. w = <<x>> /\ <<x>> \in Seq(S) /\ Len(<<x>>) = 1
      BY <1>1 DEF When
    <2> HIDE DEF w
    <2>2. Range(<<x>>) = {<<x>>[i] : i \in 1..1}
      BY <2>1, RangeEquality
    <2>3. {<<x>>[i] : i \in 1..1} = {x}
      OBVIOUS
    <2>4. Range(w) = {x}
      BY <2>1, <2>2, <2>3
    <2>5. w \in Seq(S) /\ Len(w) = 1
      BY <2>1, Zenon
    <2> QED
      BY <1>1, <2>4, <2>5
  <1>2. CASE ~c
    <2>1. w = <<>> /\ <<>> \in Seq(S) /\ Len(<<>>) = 0
      BY <1>2, EmptySeq DEF When
    <2> HIDE DEF w
    <2>2. Range(<<>>) = {<<>>[i] : i \in 1..0}
      BY <2>1, RangeEquality
    <2> QED
      BY <1>2, <2>1, <2>2
  <1> QED
    BY <1>1, <1>2

\* The audio interfaces are among the first three entries ...
AudioFirst(s) == \A i \in 1..Len(s) : s[i] \in AudioNames => i <= 3

\* ... and stay there when others follow.
LEMMA AudioStaysFirst ==
  ASSUME NEW S, NEW s \in Seq(S), NEW t \in Seq(S), AudioFirst(s), Range(t) \intersect AudioNames = {}
  PROVE  AudioFirst(s \o t)
  <1> SUFFICES ASSUME NEW i \in 1..Len(s \o t), (s \o t)[i] \in AudioNames
               PROVE  i <= 3
    BY DEF AudioFirst
  <1>1. Len(s) \in Nat /\ Len(t) \in Nat /\ Len(s \o t) = Len(s) + Len(t)
    BY ConcatProperties, LenProperties
  <1>2. (s \o t)[i] = IF i <= Len(s) THEN s[i] ELSE t[i - Len(s)]
    BY <1>1, ConcatProperties
  <1>3. CASE i <= Len(s)
    BY <1>1, <1>2, <1>3 DEF AudioFirst
  <1>4. CASE ~(i <= Len(s))
    <2>1. i - Len(s) \in 1..Len(t)
      BY <1>1, <1>4
    <2>2. t[i - Len(s)] \in Range(t)
      BY <2>1, RangeEquality
    <2> QED
      BY <1>2, <1>4, <2>2
  <1> QED
    BY <1>3, <1>4

Names7 == AudioNames \union OwnNames \union {"midiControl", "midiStream", "control"}

\* The interfaces a build has are in the enumeration, those of the audio function first.
LEMMA InterfacesPlaced ==
  ASSUME NEW b
  PROVE  /\ Interfaces(b) \in Seq(Names7) /\ AudioFirst(Interfaces(b))
         /\ Audio(b) => "audioControl" \in Range(Interfaces(b))
         /\ b.out > 0 => "audioOut" \in Range(Interfaces(b))
         /\ b.in > 0 => "audioIn" \in Range(Interfaces(b))
         /\ "dfu" \in b.has => "dfu" \in Range(Interfaces(b))
         /\ "hid" \in b.has => "hid" \in Range(Interfaces(b))
  <1> DEFINE w1 == When(Audio(b), <<"audioControl">>)
             w2 == When(b.out > 0, <<"audioOut">>)
             w3 == When(b.in > 0, <<"audioIn">>)
             w4 == When("midi" \in b.has, <<"midiControl", "midiStream">>)
             w5 == When("control" \in b.has, <<"control">>)
             w6 == When("dfu" \in b.has, <<"dfu">>)
             w7 == When("hid" \in b.has, <<"hid">>)
             s2 == w1 \o w2  s3 == s2 \o w3  s4 == s3 \o w4  s5 == s4 \o w5  s6 == s5 \o w6
  <1>1. Interfaces(b) = s6 \o w7
    BY DEF Interfaces
  <1>2. /\ w1 \in Seq(Names7) /\ Len(w1) <= 1 /\ (Audio(b) => "audioControl" \in Range(w1))
        /\ w2 \in Seq(Names7) /\ Len(w2) <= 1 /\ (b.out > 0 => "audioOut" \in Range(w2))
        /\ w3 \in Seq(Names7) /\ Len(w3) <= 1 /\ (b.in > 0 => "audioIn" \in Range(w3))
    BY WhenOne DEF Names7, AudioNames
  <1>3. /\ w5 \in Seq(Names7) /\ Range(w5) \intersect AudioNames = {}
        /\ w6 \in Seq(Names7) /\ Range(w6) \intersect AudioNames = {} /\ ("dfu" \in b.has => "dfu" \in Range(w6))
        /\ w7 \in Seq(Names7) /\ Range(w7) \intersect AudioNames = {} /\ ("hid" \in b.has => "hid" \in Range(w7))
    <2>1. "control" \in Names7 /\ "dfu" \in Names7 /\ "hid" \in Names7
      BY DEF Names7, OwnNames
    <2>2. \A name \in {"control", "dfu", "hid"} : {name} \intersect AudioNames = {}
      BY DEF AudioNames
    <2>3. w5 \in Seq(Names7) /\ Range(w5) = IF "control" \in b.has THEN {"control"} ELSE {}
      BY <2>1, WhenOne
    <2>4. w6 \in Seq(Names7) /\ Range(w6) = IF "dfu" \in b.has THEN {"dfu"} ELSE {}
      BY <2>1, WhenOne
    <2>5. w7 \in Seq(Names7) /\ Range(w7) = IF "hid" \in b.has THEN {"hid"} ELSE {}
      BY <2>1, WhenOne
    <2> HIDE DEF w5, w6, w7
    <2> QED
      BY <2>2, <2>3, <2>4, <2>5
  <1>4. w4 \in Seq(Names7) /\ Range(w4) \intersect AudioNames = {}
    <2> DEFINE m == <<"midiControl", "midiStream">>
    <2>1. m \in Seq(Names7) /\ Len(m) = 2 /\ m[1] = "midiControl" /\ m[2] = "midiStream"
      BY DEF Names7
    <2>2. Range(m) = {m[i] : i \in 1..2}
      BY <2>1, RangeEquality
    <2>3. <<>> \in Seq(Names7) /\ Len(<<>>) = 0
      BY EmptySeq
    <2>4. Range(<<>>) = {<<>>[i] : i \in 1..0}
      BY <2>3, RangeEquality
    <2> QED
      BY <2>1, <2>2, <2>3, <2>4 DEF When, AudioNames
  <1> HIDE DEF w1, w2, w3, w4, w5, w6, w7
  <1>5. /\ s2 \in Seq(Names7) /\ Len(s2) = Len(w1) + Len(w2) /\ Range(s2) = Range(w1) \union Range(w2)
    BY <1>2, ConcatProperties, RangeConcatenation
  <1> HIDE DEF s2
  <1>6. /\ s3 \in Seq(Names7) /\ Len(s3) = Len(s2) + Len(w3) /\ Range(s3) = Range(s2) \union Range(w3)
    BY <1>2, <1>5, ConcatProperties, RangeConcatenation
  <1> HIDE DEF s3
  <1>7. /\ Len(w1) \in Nat /\ Len(w2) \in Nat /\ Len(w3) \in Nat
    BY <1>2, LenProperties
  <1>8. AudioFirst(s3)
    BY <1>2, <1>5, <1>6, <1>7 DEF AudioFirst
  <1>9. s4 \in Seq(Names7) /\ Range(s4) = Range(s3) \union Range(w4) /\ AudioFirst(s4)
    BY <1>4, <1>6, <1>8, ConcatProperties, RangeConcatenation, AudioStaysFirst
  <1> HIDE DEF s4
  <1>10. s5 \in Seq(Names7) /\ Range(s5) = Range(s4) \union Range(w5) /\ AudioFirst(s5)
    BY <1>3, <1>9, ConcatProperties, RangeConcatenation, AudioStaysFirst
  <1> HIDE DEF s5
  <1>11. s6 \in Seq(Names7) /\ Range(s6) = Range(s5) \union Range(w6) /\ AudioFirst(s6)
    BY <1>3, <1>10, ConcatProperties, RangeConcatenation, AudioStaysFirst
  <1> HIDE DEF s6
  <1>12. /\ s6 \o w7 \in Seq(Names7) /\ Range(s6 \o w7) = Range(s6) \union Range(w7)
         /\ AudioFirst(s6 \o w7)
    BY <1>3, <1>11, ConcatProperties, RangeConcatenation, AudioStaysFirst
  <1> QED
    BY <1>1, <1>2, <1>3, <1>5, <1>6, <1>9, <1>10, <1>11, <1>12

\* The audio interfaces of a build have numbers from 0 to 2.
LEMMA AudioNumbers ==
  ASSUME NEW b
  PROVE  /\ Audio(b) => INTERFACE_NUMBER(b, "audioControl") \in 0..2
         /\ b.out > 0 => INTERFACE_NUMBER(b, "audioOut") \in 0..2
         /\ b.in > 0 => INTERFACE_NUMBER(b, "audioIn") \in 0..2
  <1>1. \A name \in AudioNames : name \in Range(Interfaces(b)) => INTERFACE_NUMBER(b, name) \in 0..2
    <2> SUFFICES ASSUME NEW name \in AudioNames, name \in Range(Interfaces(b))
                 PROVE  NumberIn(Interfaces(b), name) \in 1..3
      BY DEF INTERFACE_NUMBER
    <2>1. Interfaces(b) \in Seq(Names7) /\ AudioFirst(Interfaces(b))
      BY InterfacesPlaced
    <2>2. Len(Interfaces(b)) \in Nat
      BY <2>1, LenProperties
    <2> QED
      BY <2>1, <2>2, NumberFound DEF AudioFirst
  <1> QED
    BY <1>1, InterfacesPlaced DEF AudioNames

\* DFU and HID have different numbers.
LEMMA OwnNumbers ==
  ASSUME NEW b, OwnNames \subseteq b.has
  PROVE  INTERFACE_NUMBER(b, "dfu") # INTERFACE_NUMBER(b, "hid")
  <1> DEFINE s == Interfaces(b)  d == NumberIn(s, "dfu")  h == NumberIn(s, "hid")
  <1>1. s \in Seq(Names7) /\ "dfu" \in Range(s) /\ "hid" \in Range(s)
    BY InterfacesPlaced DEF OwnNames
  <1>2. Len(s) \in Nat
    BY <1>1, LenProperties
  <1>3. d \in 1..Len(s) /\ h \in 1..Len(s) /\ s[d] = "dfu" /\ s[h] = "hid"
    BY <1>1, NumberFound
  <1> QED
    BY <1>2, <1>3 DEF INTERFACE_NUMBER

\* A build with audio has more interfaces than one ...
LEMMA ManyInterfaces ==
  ASSUME NEW b, Audio(b)
  PROVE  Len(Interfaces(b)) # 1 /\ NUM_INTERFACES_A1(b) # 1
  <1>1. Len(Interfaces(b)) # 1
    <2> DEFINE s == Interfaces(b)
    <2>1. PICK name \in {"audioOut", "audioIn"} : name \in Range(s)
      BY InterfacesPlaced DEF Audio
    <2>2. s \in Seq(Names7) /\ "audioControl" \in Range(s)
      BY InterfacesPlaced
    <2> HIDE DEF s
    <2>3. PICK i \in 1..Len(s) : s[i] = name
      BY <2>1, <2>2, NumberFound
    <2>4. PICK j \in 1..Len(s) : s[j] = "audioControl"
      BY <2>2, NumberFound
    <2>5. i # j
      BY <2>3, <2>4
    <2>6. Len(s) # 1
      BY <2>3, <2>4, <2>5
    <2> QED
      BY <2>6 DEF s
  <1>2. NUM_INTERFACES_A1(b) # 1
    <2> DEFINE n == Cardinality({"control", "dfu", "hid"} \intersect b.has)
               streams == INPUT_INTERFACES_A1(b) + OUTPUT_INTERFACES_A1(b)
               midi == IF "midi" \in b.has THEN 2 ELSE 0
    <2>1. IsFiniteSet({"control", "dfu", "hid"})
      <3>1. {"control", "dfu", "hid"} = (({} \union {"control"}) \union {"dfu"}) \union {"hid"}
        OBVIOUS
      <3>2. IsFiniteSet({} \union {"control"})
        BY FS_EmptySet, FS_AddElement
      <3>3. IsFiniteSet(({} \union {"control"}) \union {"dfu"})
        BY <3>2, FS_AddElement
      <3>4. IsFiniteSet((({} \union {"control"}) \union {"dfu"}) \union {"hid"})
        BY <3>3, FS_AddElement
      <3> QED
        BY <3>1, <3>4
    <2>2. n \in Nat
      BY <2>1, FS_Subset, FS_CardinalityType
    <2>3. streams \in 1..2 /\ midi \in Nat
      BY DEF Audio, INPUT_INTERFACES_A1, OUTPUT_INTERFACES_A1
    <2>4. INPUT_INTERFACES_A1(b) \in Nat /\ OUTPUT_INTERFACES_A1(b) \in Nat
      BY DEF INPUT_INTERFACES_A1, OUTPUT_INTERFACES_A1
    <2>5. NUM_INTERFACES_A1(b) = 1 + INPUT_INTERFACES_A1(b) + OUTPUT_INTERFACES_A1(b) + midi + n
      <3>1. NUM_INTERFACES_A1(b) = (IF Audio(b) THEN 1 ELSE 0) + INPUT_INTERFACES_A1(b) + OUTPUT_INTERFACES_A1(b)
                                   + midi + n
        BY Zenon DEF NUM_INTERFACES_A1
      <3> HIDE DEF n, midi
      <3> QED
        BY <3>1
    <2> HIDE DEF n, midi
    <2> QED
      BY <2>2, <2>3, <2>4, <2>5
  <1> QED
    BY <1>1, <1>2

\* What occurs once is numbered by what is before it.
LEMMA NumberBetween ==
  ASSUME NEW S, NEW t \in Seq(S), NEW u \in Seq(S), NEW x \in S, x \notin Range(t), x \notin Range(u)
  PROVE  NumberIn(t \o <<x>> \o u, x) = Len(t) + 1
  <1> DEFINE v == t \o <<x>>  s == v \o u
  <1>1. <<x>> \in Seq(S) /\ Len(<<x>>) = 1 /\ <<x>>[1] = x
    OBVIOUS
  <1>2. v \in Seq(S) /\ Len(v) = Len(t) + 1 /\ Len(t) \in Nat /\ Len(u) \in Nat
    BY <1>1, ConcatProperties, LenProperties
  <1>3. \A i \in 1..Len(v) : v[i] = IF i <= Len(t) THEN t[i] ELSE x
    <2> SUFFICES ASSUME NEW i \in 1..Len(v) PROVE v[i] = IF i <= Len(t) THEN t[i] ELSE x
      OBVIOUS
    <2>1. v[i] = IF i <= Len(t) THEN t[i] ELSE <<x>>[i - Len(t)]
      BY <1>1, <1>2, ConcatProperties
    <2>2. ~(i <= Len(t)) => i - Len(t) = 1
      BY <1>2
    <2> HIDE DEF v
    <2> QED
      BY <1>1, <2>1, <2>2
  <1> HIDE DEF v
  <1>4. Len(s) = Len(v) + Len(u) /\ \A i \in 1..Len(s) : s[i] = IF i <= Len(v) THEN v[i] ELSE u[i - Len(v)]
    BY <1>2, ConcatProperties
  <1>5. \A i \in 1..Len(t) : t[i] # x
    BY RangeEquality
  <1>6. \A i \in 1..Len(u) : u[i] # x
    BY RangeEquality
  <1> HIDE DEF s
  <1>7. ASSUME NEW i \in 1..Len(s), s[i] = x PROVE i = Len(t) + 1
    <2>1. CASE i <= Len(v)
      <3>1. v[i] = x
        BY <1>4, <1>7, <2>1
      <3>2. i <= Len(t) => t[i] = x
        BY <1>2, <1>3, <2>1, <3>1
      <3> QED
        BY <1>2, <1>5, <2>1, <3>2
    <2>2. CASE ~(i <= Len(v))
      <3>1. u[i - Len(v)] = x
        BY <1>4, <1>7, <2>2
      <3>2. i - Len(v) \in 1..Len(u)
        BY <1>2, <1>4, <2>2
      <3> QED
        BY <1>6, <3>1, <3>2
    <2> QED
      BY <2>1, <2>2
  <1>8. Len(t) + 1 \in 1..Len(s) /\ s[Len(t) + 1] = x
    BY <1>2, <1>3, <1>4
  <1>9. NumberIn(s, x) = Len(t) + 1
    BY <1>7, <1>8 DEF NumberIn
  <1> QED
    BY <1>9 DEF s, v

\* ... and the control interface follows the streaming interfaces where nothing is between.
LEMMA ControlNumbers ==
  ASSUME NEW b, NEW c, Audio(b), "control" \in b.has, "midi" \notin b.has
  PROVE  ControlNumber(b, c) = INTERFACE_NUMBER(b, "control")
  <1> DEFINE w1 == When(Audio(b), <<"audioControl">>)
             w2 == When(b.out > 0, <<"audioOut">>)
             w3 == When(b.in > 0, <<"audioIn">>)
             w4 == When("midi" \in b.has, <<"midiControl", "midiStream">>)
             w5 == When("control" \in b.has, <<"control">>)
             w6 == When("dfu" \in b.has, <<"dfu">>)
             w7 == When("hid" \in b.has, <<"hid">>)
             t2 == w1 \o w2  t == t2 \o w3  u == w6 \o w7
  <1>1. w4 = <<>> /\ w5 = <<"control">>
    BY DEF When
  <1>2. /\ w1 \in Seq(Names7) /\ w2 \in Seq(Names7) /\ w3 \in Seq(Names7) /\ w6 \in Seq(Names7)
        /\ w7 \in Seq(Names7) /\ "control" \in Names7
    BY WhenOne DEF Names7, AudioNames, OwnNames
  <1>3. /\ "control" \notin Range(w1) /\ "control" \notin Range(w2) /\ "control" \notin Range(w3)
        /\ "control" \notin Range(w6) /\ "control" \notin Range(w7)
    <2>1. \A name \in Names7 : \A d : Range(When(d, <<name>>)) \subseteq {name}
      BY WhenOne
    <2>2. {"audioControl", "audioOut", "audioIn", "dfu", "hid"} \subseteq Names7
      BY DEF Names7, AudioNames, OwnNames
    <2> QED
      BY <2>1, <2>2
  <1>4. Len(w1) = 1 /\ Len(w2) = OUTPUT_INTERFACES_A1(b) /\ Len(w3) = INPUT_INTERFACES_A1(b)
    BY DEF When, OUTPUT_INTERFACES_A1, INPUT_INTERFACES_A1
  <1>5. Interfaces(b) = w1 \o w2 \o w3 \o w4 \o w5 \o w6 \o w7
    BY DEF Interfaces
  <1> HIDE DEF w1, w2, w3, w4, w5, w6, w7
  <1>6. /\ t2 \in Seq(Names7) /\ Len(t2) = Len(w1) + Len(w2) /\ Range(t2) = Range(w1) \union Range(w2)
    BY <1>2, ConcatProperties, RangeConcatenation
  <1> HIDE DEF t2
  <1>7. /\ t \in Seq(Names7) /\ Len(t) = Len(t2) + Len(w3) /\ Range(t) = Range(t2) \union Range(w3)
    <2>1. t2 \in Seq(Names7) /\ w3 \in Seq(Names7)
      BY <1>2, <1>6
    <2>2. t \in Seq(Names7) /\ Len(t) = Len(t2) + Len(w3)
      BY <2>1, ConcatProperties
    <2>3. Range(t) = Range(t2) \union Range(w3)
      BY <2>1, RangeConcatenation
    <2> QED
      BY <2>2, <2>3
  <1> HIDE DEF t
  <1>8. /\ u \in Seq(Names7) /\ Range(u) = Range(w6) \union Range(w7)
    BY <1>2, ConcatProperties, RangeConcatenation
  <1>9. Interfaces(b) = t \o <<"control">> \o u
    <2> DEFINE k == <<"control">>  v == t \o k
    <2>1. k \in Seq(Names7)
      BY <1>2
    <2> HIDE DEF k
    <2>2. v \in Seq(Names7)
      BY <1>7, <2>1, ConcatProperties
    <2>3. t \o <<>> = t
      BY <1>7, ConcatEmptySeq
    <2>4. Interfaces(b) = v \o w6 \o w7
      BY <1>1, <1>5, <2>3 DEF t, t2, k
    <2> HIDE DEF v
    <2>5. v \o w6 \o w7 = v \o (w6 \o w7)
      <3>1. v \in Seq(Names7) /\ w6 \in Seq(Names7) /\ w7 \in Seq(Names7)
        BY <1>2, <2>2
      <3> QED
        BY <3>1, ConcatAssociative
    <2> QED
      BY <2>4, <2>5 DEF v, k
  <1> HIDE DEF u
  <1>10. NumberIn(Interfaces(b), "control") = Len(t) + 1
    <2>1. "control" \notin Range(t) /\ "control" \notin Range(u)
      BY <1>3, <1>6, <1>7, <1>8
    <2>2. NumberIn(t \o <<"control">> \o u, "control") = Len(t) + 1
      <3>1. t \in Seq(Names7) /\ u \in Seq(Names7) /\ "control" \in Names7
        BY <1>2, <1>7, <1>8
      <3> QED
        BY <2>1, <3>1, NumberBetween
    <2> QED
      BY <1>9, <2>2
  <1>11. OUTPUT_INTERFACES_A1(b) \in Nat /\ INPUT_INTERFACES_A1(b) \in Nat
    BY DEF OUTPUT_INTERFACES_A1, INPUT_INTERFACES_A1
  <1>12. INTERFACE_NUMBER(b, "control") = OUTPUT_INTERFACES_A1(b) + INPUT_INTERFACES_A1(b) + 1
    BY <1>4, <1>6, <1>7, <1>10, <1>11 DEF INTERFACE_NUMBER
  <1> QED
    BY <1>12 DEF ControlNumber
-----------------------------------------------------------------------------
(***************************************************************************)
(* The records and their sequences.                                        *)
(***************************************************************************)
\* Tuples of right records.
LEMMA TwoNumbered ==
  ASSUME NEW b, NEW c, NEW x1, NEW x2,
         Numbered(b, c, x1), Numbered(b, c, x2)
  PROVE  AllNumbered(b, c, <<x1, x2>>)
  <1> DEFINE S == {x1, x2}
  <1>1. <<x1, x2>> \in Seq(S) /\ \A x \in S : Numbered(b, c, x)
    OBVIOUS
  <1> HIDE DEF S
  <1> QED
    BY <1>1 DEF AllNumbered

LEMMA ThreeNumbered ==
  ASSUME NEW b, NEW c, NEW x1, NEW x2, NEW x3,
         Numbered(b, c, x1), Numbered(b, c, x2), Numbered(b, c, x3)
  PROVE  AllNumbered(b, c, <<x1, x2, x3>>)
  <1> DEFINE S == {x1, x2, x3}
  <1>1. <<x1, x2, x3>> \in Seq(S) /\ \A x \in S : Numbered(b, c, x)
    OBVIOUS
  <1> HIDE DEF S
  <1> QED
    BY <1>1 DEF AllNumbered

LEMMA FourNumbered ==
  ASSUME NEW b, NEW c, NEW x1, NEW x2, NEW x3, NEW x4,
         Numbered(b, c, x1), Numbered(b, c, x2), Numbered(b, c, x3), Numbered(b, c, x4)
  PROVE  AllNumbered(b, c, <<x1, x2, x3, x4>>)
  <1> DEFINE S == {x1, x2, x3, x4}
  <1>1. <<x1, x2, x3, x4>> \in Seq(S) /\ \A x \in S : Numbered(b, c, x)
    OBVIOUS
  <1> HIDE DEF S
  <1> QED
    BY <1>1 DEF AllNumbered

LEMMA SixNumbered ==
  ASSUME NEW b, NEW c, NEW x1, NEW x2, NEW x3, NEW x4, NEW x5, NEW x6,
         Numbered(b, c, x1), Numbered(b, c, x2), Numbered(b, c, x3), Numbered(b, c, x4),
         Numbered(b, c, x5), Numbered(b, c, x6)
  PROVE  AllNumbered(b, c, <<x1, x2, x3, x4, x5, x6>>)
  <1> DEFINE S == {x1, x2, x3, x4, x5, x6}
  <1>1. <<x1, x2, x3, x4, x5, x6>> \in Seq(S) /\ \A x \in S : Numbered(b, c, x)
    OBVIOUS
  <1> HIDE DEF S
  <1> QED
    BY <1>1 DEF AllNumbered

LEMMA TenNumbered ==
  ASSUME NEW b, NEW c, NEW x1, NEW x2, NEW x3, NEW x4, NEW x5, NEW x6, NEW x7, NEW x8, NEW x9, NEW x10,
         Numbered(b, c, x1), Numbered(b, c, x2), Numbered(b, c, x3), Numbered(b, c, x4),
         Numbered(b, c, x5), Numbered(b, c, x6), Numbered(b, c, x7), Numbered(b, c, x8),
         Numbered(b, c, x9), Numbered(b, c, x10)
  PROVE  AllNumbered(b, c, <<x1, x2, x3, x4, x5, x6, x7, x8, x9, x10>>)
  <1> DEFINE S == {x1, x2, x3, x4, x5, x6, x7, x8, x9, x10}
  <1>1. <<x1, x2, x3, x4, x5, x6, x7, x8, x9, x10>> \in Seq(S) /\ \A x \in S : Numbered(b, c, x)
    OBVIOUS
  <1> HIDE DEF S
  <1> QED
    BY <1>1 DEF AllNumbered
\* A record stays right when it gets other fields.
LEMMA AlikeNumbered ==
  ASSUME NEW b, NEW c, NEW x, NEW y, Numbered(b, c, x), DOMAIN x \subseteq DOMAIN y,
         \A f \in DOMAIN x : y[f] = x[f]
  PROVE  Numbered(b, c, y)
  <1>1. "kind" \in DOMAIN x /\ "kind" \in DOMAIN y /\ y.kind = x.kind
    BY DEF Numbered
  <1>2. CASE x.kind = "interface"
    <2>1. {"name", "num", "alt"} \subseteq DOMAIN x
      BY <1>2 DEF Numbered
    <2>2. {"name", "num", "alt"} \subseteq DOMAIN y /\ y.name = x.name /\ y.num = x.num /\ y.alt = x.alt
      BY <2>1
    <2>3. ~OfStream(y)
      BY <1>1, <1>2 DEF OfStream
    <2> QED
      BY <1>1, <1>2, <2>2, <2>3 DEF Numbered
  <1>3. CASE x.kind = "stream"
    <2>1. {"of", "data", "chans"} \subseteq DOMAIN x
      BY <1>3 DEF Numbered
    <2>2. {"of", "data", "chans"} \subseteq DOMAIN y /\ y.of = x.of /\ y.data = x.data /\ y.chans = x.chans
      BY <2>1
    <2>3. OfStream(y) = OfStream(x) /\ (\A s : Fits(b, s, y) = Fits(b, s, x)) /\ Shaped(b, y) = Shaped(b, x)
      BY <1>1, <1>3, <2>2 DEF OfStream, Fits, Shaped
    <2> QED
      BY <1>1, <1>3, <2>2, <2>3 DEF Numbered
  <1>4. CASE x.kind = "format"
    <2>1. {"of", "slot", "bits"} \subseteq DOMAIN x
      BY <1>4 DEF Numbered
    <2>2. {"of", "slot", "bits"} \subseteq DOMAIN y /\ y.of = x.of /\ y.slot = x.slot /\ y.bits = x.bits
      BY <2>1
    <2>3. OfStream(y) = OfStream(x) /\ (\A s : Fits(b, s, y) = Fits(b, s, x)) /\ Shaped(b, y) = Shaped(b, x)
      BY <1>1, <1>4, <2>2 DEF OfStream, Fits, Shaped
    <2> QED
      BY <1>1, <1>4, <2>2, <2>3 DEF Numbered
  <1>5. CASE x.kind = "endpoint"
    <2>1. {"of", "use", "size"} \subseteq DOMAIN x
      BY <1>5 DEF Numbered
    <2>2. {"of", "use", "size"} \subseteq DOMAIN y /\ y.of = x.of /\ y.use = x.use /\ y.size = x.size
      BY <2>1
    <2>3. OfStream(y) = OfStream(x) /\ (\A s : Fits(b, s, y) = Fits(b, s, x)) /\ Shaped(b, y) = Shaped(b, x)
      BY <1>1, <1>5, <2>2 DEF OfStream, Fits, Shaped
    <2> QED
      BY <1>1, <1>5, <2>2, <2>3 DEF Numbered
  <1>6. CASE x.kind \notin {"interface", "stream", "format", "endpoint"}
    <2>1. ~OfStream(y)
      BY <1>1, <1>6 DEF OfStream
    <2> QED
      BY <1>1, <1>6, <2>1 DEF Numbered
  <1> QED
    BY <1>2, <1>3, <1>4, <1>5, <1>6

\* One of them is the length.
LEMMA WithNumbered ==
  ASSUME NEW b, NEW c, NEW x, NEW field, NEW value, Numbered(b, c, x), field \notin DOMAIN x
  PROVE  Numbered(b, c, With(x, field, value))
  <1> DEFINE y == With(x, field, value)
  <1>1. DOMAIN x \subseteq DOMAIN y /\ \A f \in DOMAIN x : y[f] = x[f]
    BY DEF With
  <1> HIDE DEF y
  <1>2. Numbered(b, c, y)
    BY <1>1, AlikeNumbered
  <1> QED
    BY <1>2 DEF y

LEMMA BytesNumbered ==
  ASSUME NEW b, NEW c, NEW x, NEW n, Numbered(b, c, x), "len" \notin DOMAIN x
  PROVE  Numbered(b, c, Bytes(n, x))
  BY WithNumbered DEF Bytes

\* The records that belong to no stream.
LEMMA OthersNumbered ==
  ASSUME NEW b, NEW c
  PROVE  /\ \A type, id, sources, chans, string : Numbered(b, c, Entity(type, id, sources, chans, string))
         /\ \A path \in {"midi", "hid", "control"} : \A n, addr, use, size :
              Numbered(b, c, Endpoint(path, n, addr, use, size))
         /\ \A path, n, addr, size : Numbered(b, c, Endpoint(path, n, addr, "feedback", size))
         /\ \A type, id, sources, string : Numbered(b, c, Jack(type, id, sources, string))
         /\ \A addr, id : Numbered(b, c, JackOf(addr, id))
         /\ \A n : Numbered(b, c, Other(n))
  <1>1. \A type, id, sources, chans, string : Numbered(b, c, Entity(type, id, sources, chans, string))
    BY DEF Numbered, OfStream, Entity
  <1>2. \A path \in {"midi", "hid", "control"} : \A n, addr, use, size :
              Numbered(b, c, Endpoint(path, n, addr, use, size))
    <2> SUFFICES ASSUME NEW path \in {"midi", "hid", "control"}, NEW n, NEW addr, NEW use, NEW size
                 PROVE  Numbered(b, c, Endpoint(path, n, addr, use, size))
      OBVIOUS
    <2> DEFINE x == Endpoint(path, n, addr, use, size)
    <2>1. DOMAIN x = {"kind", "of", "addr", "use", "size"} /\ x.kind = "endpoint" /\ x.of[1] = path
      BY DEF Endpoint
    <2>2. path \notin Paths
      BY DEF Paths
    <2> HIDE DEF x
    <2>3. Numbered(b, c, x)
      BY <2>1, <2>2 DEF Numbered, OfStream
    <2> QED
      BY <2>3 DEF x
  <1>3. \A path, n, addr, size : Numbered(b, c, Endpoint(path, n, addr, "feedback", size))
    BY DEF Numbered, OfStream, Endpoint
  <1>4. /\ \A type, id, sources, string : Numbered(b, c, Jack(type, id, sources, string))
        /\ \A addr, id : Numbered(b, c, JackOf(addr, id))
        /\ \A n : Numbered(b, c, Other(n))
    BY DEF Numbered, OfStream, Jack, JackOf, Other
  <1> QED
    BY <1>1, <1>2, <1>3, <1>4

\* An interface with its number from the enumeration, and one with a given number.
LEMMA InterfaceNumbered ==
  ASSUME NEW b, NEW c, NEW name, NEW alternate, NEW eps, NEW string,
         Placed(b, c, name, INTERFACE_NUMBER(b, name)), Alternate(c, name, alternate)
  PROVE  Numbered(b, c, Interface(b, name, alternate, eps, string))
  BY DEF Numbered, OfStream, Interface

LEMMA InterfaceAtNumbered ==
  ASSUME NEW b, NEW c, NEW num, NEW name, NEW alternate, NEW eps, NEW string, Placed(b, c, name, num),
         Alternate(c, name, alternate)
  PROVE  Numbered(b, c, InterfaceAt(num, name, alternate, eps, string))
  <1> DEFINE x == [kind |-> "interface", num |-> num, name |-> name, alt |-> alternate, eps |-> eps, string |-> string]
  <1>1. Numbered(b, c, x) /\ "len" \notin DOMAIN x
    BY DEF Numbered, OfStream
  <1> HIDE DEF x
  <1>2. Numbered(b, c, Bytes(9, x))
    BY <1>1, BytesNumbered
  <1> QED
    BY <1>2 DEF InterfaceAt, x
-----------------------------------------------------------------------------
(***************************************************************************)
(* The records of the streams, against what decouple is told.              *)
(***************************************************************************)
\* Numbers of the configuration.
LEMMA AlternatesCounted ==
  ASSUME NEW b
  PROVE  /\ OUTPUT_FORMAT_COUNT(b) \in 1..3 /\ INPUT_FORMAT_COUNT(b) \in 1..3
         /\ Len(AdatLess(b)) \in 1..3 /\ \A n \in 1..Len(AdatLess(b)) : AdatLess(b)[n] \in Nat
  <1>1. Len(AdatLess(b)) \in 1..3 /\ \A n \in 1..Len(AdatLess(b)) : AdatLess(b)[n] \in Nat
    BY DEF AdatLess
  <1> QED
    BY <1>1 DEF OUTPUT_FORMAT_COUNT, INPUT_FORMAT_COUNT

\* Subslots and sample counts are naturals.
LEMMA SlotsNatural ==
  ASSUME NEW b, Carried(b)
  PROVE  /\ \A n \in Formats : /\ OutSlotHS(b)[n] \in Nat /\ OutSlotFS(b)[n] \in Nat
                                /\ InSlotHS(b)[n] \in Nat /\ InSlotFS(b)[n] \in Nat
         /\ SamplesHS(b) \in Nat /\ SamplesFS(b) \in Nat
         /\ OutChansFS(b) \in Nat /\ InChansFS(b) \in Nat
  <1>1. \A n \in Formats : OutRes(b)[n] \in {16, 24, 32}
    BY DEF Formats, OutRes
  <1>2. \A n \in Formats : InRes(b)[n] \in Nat
    BY DEF Carried, InRes
  <1>3. \A bits \in Nat : SlotHS(bits) \in Nat /\ SlotFS(bits) \in Nat
    BY DEF SlotHS, SlotFS
  <1>4. MAX_FREQ_FS(b) \in Nat
    BY DEF MAX_FREQ_FS, Carried
  <1>5. SamplesHS(b) \in Nat
    BY DEF SamplesHS, Carried
  <1>6. SamplesFS(b) \in Nat
    BY <1>4 DEF SamplesFS
  <1>7. OutChansFS(b) \in Nat /\ InChansFS(b) \in Nat
    BY DEF OutChansFS, InChansFS, Carried
  <1>8. \A n \in Formats : /\ OutSlotHS(b)[n] = SlotHS(OutRes(b)[n]) /\ OutSlotFS(b)[n] = SlotFS(OutRes(b)[n])
                            /\ InSlotHS(b)[n] = SlotHS(InRes(b)[n]) /\ InSlotFS(b)[n] = SlotFS(InRes(b)[n])
    BY DEF OutSlotHS, OutSlotFS, InSlotHS, InSlotFS
  <1>9. \A n \in Formats : /\ OutSlotHS(b)[n] \in Nat /\ OutSlotFS(b)[n] \in Nat
                            /\ InSlotHS(b)[n] \in Nat /\ InSlotFS(b)[n] \in Nat
    BY <1>1, <1>2, <1>3, <1>8
  <1> QED
    BY <1>5, <1>6, <1>7, <1>9

\* A factor that is less makes less.
LEMMA LessTimes ==
  ASSUME NEW k \in Nat, NEW i \in Int, NEW j \in Nat, NEW m \in Nat, i <= j
  PROVE  k * i * m <= k * j * m
  <1>1. \A q \in Nat, u \in Int, v \in Int : u <= v => q * u <= q * v
    OBVIOUS
  <1>2. k * i \in Int /\ k * j \in Int /\ k * i <= k * j
    BY <1>1
  <1>3. \A p \in Int, q \in Int : p * q = q * p
    OBVIOUS
  <1> QED
    BY <1>1, <1>2, <1>3

\* At high speed a packet of an alternate fits what the endpoint takes of it.
LEMMA HighSpeedPackets ==
  ASSUME NEW b, Carried(b), b.hs = 2
  PROVE  /\ \A n \in 1..OUTPUT_FORMAT_COUNT(b) :
              SamplesHS(b) * OutChansHS(b)[n] * OutSlotHS(b)[n] <= EpSizeHS(OutPacketHS(b)[n])
         /\ \A n \in 1..INPUT_FORMAT_COUNT(b) :
              SamplesHS(b) * InChansHS(b)[n] * InSlotHS(b)[n] <= EpSizeHS(InPacketHS(b)[n])
  <1>1. ASSUME NEW n \in 1..OUTPUT_FORMAT_COUNT(b)
        PROVE  SamplesHS(b) * OutChansHS(b)[n] * OutSlotHS(b)[n] <= EpSizeHS(OutPacketHS(b)[n])
    <2>1. n \in Formats
      BY AlternatesCounted DEF Formats
    <2>2. OutChansHS(b)[n] \in Int /\ OutChansHS(b)[n] <= b.out
      BY AlternatesCounted DEF OutChansHS, OUTPUT_FORMAT_COUNT, Carried
    <2>3. SamplesHS(b) * OutChansHS(b)[n] * OutSlotHS(b)[n] <= SamplesHS(b) * b.out * OutSlotHS(b)[n]
      BY <2>1, <2>2, SlotsNatural, LessTimes DEF Carried
    <2>4. OutPacketHS(b)[n] = SamplesHS(b) * b.out * OutSlotHS(b)[n]
      BY <2>1 DEF OutPacketHS
    <2>5. EpSizeHS(OutPacketHS(b)[n]) = OutPacketHS(b)[n]
      <3>1. SamplesHS(b) * b.out * OutSlotHS(b)[n] \in Nat
        BY <2>1, SlotsNatural DEF Carried
      <3>2. OutPacketHS(b)[n] <= 1024 /\ OutPacketHS(b)[n] \in Nat
        BY <2>4, <3>1 DEF Carried
      <3> QED
        BY <3>2 DEF EpSizeHS
    <2> QED
      BY <2>3, <2>4, <2>5
  <1>2. ASSUME NEW n \in 1..INPUT_FORMAT_COUNT(b)
        PROVE  SamplesHS(b) * InChansHS(b)[n] * InSlotHS(b)[n] <= EpSizeHS(InPacketHS(b)[n])
    <2>1. n \in Formats
      BY AlternatesCounted DEF Formats
    <2>2. InChansHS(b)[n] \in Int
      BY AlternatesCounted DEF InChansHS, INPUT_FORMAT_COUNT, Carried
    <2>3. InPacketHS(b)[n] = SamplesHS(b) * InChansHS(b)[n] * InSlotHS(b)[n]
      BY <2>1 DEF InPacketHS
    <2>4. SamplesHS(b) * InChansHS(b)[n] * InSlotHS(b)[n] \in Int
      BY <2>1, <2>2, SlotsNatural
    <2>5. InPacketHS(b)[n] <= 1024 /\ InPacketHS(b)[n] \in Int
      BY <2>3, <2>4 DEF Carried
    <2>6. EpSizeHS(InPacketHS(b)[n]) = InPacketHS(b)[n]
      BY <2>5 DEF EpSizeHS
    <2> QED
      BY <2>3, <2>5, <2>6
  <1> QED
    BY <1>1, <1>2

\* What decouple is told of an alternate.
LEMMA ToldFormats ==
  ASSUME NEW b, NEW n
  PROVE  /\ FormatTold(b, "hs", "out", n) = [data |-> OutData(b)[n], chans |-> OutChansHS(b)[n],
                                             slot |-> OutSlotHS(b)[n], bits |-> OutRes(b)[n]]
         /\ FormatTold(b, "fs", "out", n) = [data |-> OutData(b)[n], chans |-> OutChansFS(b),
                                             slot |-> OutSlotFS(b)[n], bits |-> OutRes(b)[n]]
         /\ FormatTold(b, "hs", "in", n) = [data |-> "pcm", chans |-> InChansHS(b)[n],
                                            slot |-> InSlotHS(b)[n], bits |-> SampResInHS(b, n)]
         /\ FormatTold(b, "fs", "in", n) = [data |-> "pcm", chans |-> InChansFS(b),
                                            slot |-> InSlotFS(b)[n], bits |-> InRes(b)[n]]
  BY DEF FormatTold

\* The use of an endpoint with samples
LEMMA IsoUses == ASSUME NEW b, Carried(b) PROVE IsoUse(b) # "feedback" /\ IsoUse(b) # "bulk"
  BY DEF IsoUse, Carried

\* The records of an output alternate of UAC2 ...
LEMMA OutputShaped ==
  ASSUME NEW b, Carried(b), NEW n \in 1..OUTPUT_FORMAT_COUNT(b)
  PROVE  /\ \A link, string : Shaped(b, Stream("out", n, link, OutData(b)[n], OutChansHS(b)[n], string))
         /\ Shaped(b, Format("out", n, OutSlotHS(b)[n], OutRes(b)[n]))
         /\ \A addr : Shaped(b, Endpoint("out", n, addr, IsoUse(b), EpSizeHS(OutPacketHS(b)[n])))
  <1>1. \A link, string : Shaped(b, Stream("out", n, link, OutData(b)[n], OutChansHS(b)[n], string))
    BY ToldFormats DEF Shaped, Fits, Stream
  <1>2. Shaped(b, Format("out", n, OutSlotHS(b)[n], OutRes(b)[n]))
    BY ToldFormats DEF Shaped, Fits, Format
  <1>3. ASSUME NEW addr PROVE Shaped(b, Endpoint("out", n, addr, IsoUse(b), EpSizeHS(OutPacketHS(b)[n])))
    <2> DEFINE x == Endpoint("out", n, addr, IsoUse(b), EpSizeHS(OutPacketHS(b)[n]))
    <2>1. x.kind = "endpoint" /\ x.use = IsoUse(b) /\ x.of = <<"out", n>> /\ x.size = EpSizeHS(OutPacketHS(b)[n])
      BY DEF Endpoint
    <2> HIDE DEF x
    <2>2. ASSUME ~Modified(b) PROVE Fits(b, "hs", x)
      <3>1. SamplesHS(b) * OutChansHS(b)[n] * OutSlotHS(b)[n] <= x.size
        BY <2>1, <2>2, HighSpeedPackets DEF Modified
      <3>2. FormatTold(b, "hs", "out", n).chans = OutChansHS(b)[n] /\ FormatTold(b, "hs", "out", n).slot = OutSlotHS(b)[n]
        BY ToldFormats
      <3> QED
        BY <2>1, <3>1, <3>2 DEF Fits, Samples
    <2>3. Shaped(b, x)
      BY <2>1, <2>2, IsoUses DEF Shaped
    <2> QED
      BY <2>3 DEF x
  <1> QED
    BY <1>1, <1>2, <1>3

\* ... and those of an input alternate.
LEMMA InputShaped ==
  ASSUME NEW b, Carried(b), NEW n \in 1..INPUT_FORMAT_COUNT(b)
  PROVE  /\ \A link, string : Shaped(b, Stream("in", n, link, "pcm", InChansHS(b)[n], string))
         /\ Shaped(b, Format("in", n, InSlotHS(b)[1], InRes(b)[1]))
         /\ \A addr : Shaped(b, Endpoint("in", n, addr, IsoUse(b), EpSizeHS(InPacketHS(b)[n])))
  <1>1. \A link, string : Shaped(b, Stream("in", n, link, "pcm", InChansHS(b)[n], string))
    BY ToldFormats DEF Shaped, Fits, Stream
  <1>2. Shaped(b, Format("in", n, InSlotHS(b)[1], InRes(b)[1]))
    <2>1. InSlotHS(b)[n] = InSlotHS(b)[1] /\ SampResInHS(b, n) = InRes(b)[1]
      BY DEF Carried
    <2> QED
      BY <2>1, ToldFormats DEF Shaped, Fits, Format
  <1>3. ASSUME NEW addr PROVE Shaped(b, Endpoint("in", n, addr, IsoUse(b), EpSizeHS(InPacketHS(b)[n])))
    <2> DEFINE x == Endpoint("in", n, addr, IsoUse(b), EpSizeHS(InPacketHS(b)[n]))
    <2>1. x.kind = "endpoint" /\ x.use = IsoUse(b) /\ x.of = <<"in", n>> /\ x.size = EpSizeHS(InPacketHS(b)[n])
      BY DEF Endpoint
    <2> HIDE DEF x
    <2>2. ASSUME ~Modified(b) PROVE Fits(b, "hs", x)
      <3>1. SamplesHS(b) * InChansHS(b)[n] * InSlotHS(b)[n] <= x.size
        BY <2>1, <2>2, HighSpeedPackets DEF Modified
      <3>2. FormatTold(b, "hs", "in", n).chans = InChansHS(b)[n] /\ FormatTold(b, "hs", "in", n).slot = InSlotHS(b)[n]
        BY ToldFormats
      <3> QED
        BY <2>1, <3>1, <3>2 DEF Fits, Samples
    <2>3. Shaped(b, x)
      BY <2>1, <2>2, IsoUses DEF Shaped
    <2> QED
      BY <2>3 DEF x
  <1> QED
    BY <1>1, <1>2, <1>3

\* Those of UAC1, where there is one alternate: native DSD is never the first.
LEMMA Uac1Fits ==
  ASSUME NEW b, Carried(b)
  PROVE  /\ \A link, string : Fits(b, "fs", Stream("out", 1, link, "pcm", OutChansFS(b), string))
         /\ Fits(b, "fs", Format("out", 1, OutSlotFS(b)[1], OutRes(b)[1]))
         /\ \A addr, use : Fits(b, "fs", Endpoint("out", 1, addr, use, OutPacketFS(b)[1]))
         /\ \A link, string : Fits(b, "fs", Stream("in", 1, link, "pcm", InChansFS(b), string))
         /\ Fits(b, "fs", Format("in", 1, InSlotFS(b)[1], InRes(b)[1]))
         /\ \A addr, use : Fits(b, "fs", Endpoint("in", 1, addr, use, InPacketFS(b)))
  <1>1. OutData(b)[1] = "pcm"
    BY DEF OutData, NATIVE_DSD_FORMAT_NUM, Formats, Carried, Valid, DsdValid
  <1>2. /\ SamplesFS(b) * OutChansFS(b) * OutSlotFS(b)[1] <= OutPacketFS(b)[1]
        /\ SamplesFS(b) * InChansFS(b) * InSlotFS(b)[1] <= InPacketFS(b)
    <2>1. OutPacketFS(b)[1] = SamplesFS(b) * OutChansFS(b) * OutSlotFS(b)[1]
      BY DEF OutPacketFS, Formats
    <2>2. InPacketFS(b) = SamplesFS(b) * InChansFS(b) * InSlotFS(b)[1]
      BY DEF InPacketFS
    <2>3. 1 \in Formats
      BY DEF Formats
    <2>4. /\ SamplesFS(b) * OutChansFS(b) * OutSlotFS(b)[1] \in Nat
          /\ SamplesFS(b) * InChansFS(b) * InSlotFS(b)[1] \in Nat
      BY <2>3, SlotsNatural
    <2> QED
      BY <2>1, <2>2, <2>4
  <1>3. /\ \A link, string : Fits(b, "fs", Stream("out", 1, link, "pcm", OutChansFS(b), string))
        /\ \A link, string : Fits(b, "fs", Stream("in", 1, link, "pcm", InChansFS(b), string))
    BY <1>1, ToldFormats DEF Fits, Stream
  <1>4. /\ Fits(b, "fs", Format("out", 1, OutSlotFS(b)[1], OutRes(b)[1]))
        /\ Fits(b, "fs", Format("in", 1, InSlotFS(b)[1], InRes(b)[1]))
    BY ToldFormats DEF Fits, Format
  <1>5. /\ \A addr, use : Fits(b, "fs", Endpoint("out", 1, addr, use, OutPacketFS(b)[1]))
        /\ \A addr, use : Fits(b, "fs", Endpoint("in", 1, addr, use, InPacketFS(b)))
    BY <1>2, ToldFormats DEF Fits, Endpoint, Samples
  <1> QED
    BY <1>3, <1>4, <1>5
-----------------------------------------------------------------------------
(***************************************************************************)
(* The UAC2 descriptor.                                                    *)
(***************************************************************************)
\* The audio control interface: its clocks, ...
LEMMA ClocksNumbered == ASSUME NEW b, NEW c PROVE AllNumbered(b, c, ClockSources(b)) /\ AllNumbered(b, c, ClockSelector(b))
  <1>1. AllNumbered(b, c, ClockSources(b))
    BY OthersNumbered, OneNumbered, WhenNumbered, BothNumbered DEF ClockSources
  <1>2. AllNumbered(b, c, ClockSelector(b))
    BY OthersNumbered, OneNumbered DEF ClockSelector
  <1> QED
    BY <1>1, <1>2

\* ... its two paths ...
LEMMA PathsNumbered == ASSUME NEW b, NEW c PROVE AllNumbered(b, c, OutputPath(b)) /\ AllNumbered(b, c, InputPath(b))
  <1>1. AllNumbered(b, c, OutputPath(b))
    BY OthersNumbered, OneNumbered, WhenNumbered, BothNumbered DEF OutputPath
  <1>2. AllNumbered(b, c, InputPath(b))
    BY OthersNumbered, OneNumbered, WhenNumbered, BothNumbered DEF InputPath
  <1> QED
    BY <1>1, <1>2

\* ... and the whole of it.
LEMMA AudioControlNumbered ==
  ASSUME NEW b, NEW c, c.class = 2, Audio(b)
  PROVE  AllNumbered(b, c, AudioControl(b))
  <1> DEFINE association == [kind |-> "association", first |-> 0, count |-> AUDIO_INTERFACE_COUNT(b)]
             interface == Interface(b, "audioControl", 0, IF NUM_CLOCKS(b) > 1 THEN 1 ELSE 0, StringIndex(b, "product2"))
  <1>1. Numbered(b, c, association)
    BY DEF Numbered, OfStream
  <1>2. Numbered(b, c, interface)
    BY AudioNumbers, InterfaceNumbered DEF Placed, Alternate, AudioNames, OwnNames
  <1>3. AllNumbered(b, c, <<association, interface>>)
    <2> HIDE DEF association, interface
    <2> QED
      BY <1>1, <1>2, TwoNumbered
  <1>4. AllNumbered(b, c, MixerUnits(b))
    BY OthersNumbered, TwoNumbered DEF MixerUnits
  <1>5. AllNumbered(b, c, InterruptEndpoint(b))
    BY OthersNumbered, OneNumbered DEF InterruptEndpoint
  <1>6. AudioControl(b) = <<association, interface>>
          \o ClockSources(b) \o ClockSelector(b)
          \o When(b.out > 0, OutputPath(b)) \o When(b.in > 0, InputPath(b))
          \o When("mixer" \in b.has, MixerUnits(b)) \o When(NUM_CLOCKS(b) > 1, InterruptEndpoint(b))
    BY DEF AudioControl
  <1> HIDE DEF association, interface
  <1> QED
    BY <1>3, <1>4, <1>5, <1>6, ClocksNumbered, PathsNumbered, WhenNumbered, BothNumbered

\* An alternate of a streaming interface, with its records ...
LEMMA OutputAlternateNumbered ==
  ASSUME NEW b, NEW c, c.class = 2, c.streams, b.out > 0, NEW n \in 1..OUTPUT_FORMAT_COUNT(b)
  PROVE  AllNumbered(b, c, OutputAlternate(b, n))
  <1> DEFINE x1 == Interface(b, "audioOut", n, IF HasFeedback(b) THEN 2 ELSE 1, 4)
             x2 == Stream("out", n, ID_IT_USB, OutData(b)[n], OutChansHS(b)[n], StringIndex(b, "outputChan"))
             x3 == Format("out", n, OutSlotHS(b)[n], OutRes(b)[n])
             x4 == Endpoint("out", n, ENDPOINT_OUT(b, "audio"), IsoUse(b), EpSizeHS(OutPacketHS(b)[n]))
             x5 == Endpoint("out", n, ENDPOINT_IN(b, "feedback"), "feedback", FeedbackSize("hs"))
  <1>1. Numbered(b, c, x1)
    BY AudioNumbers, InterfaceNumbered DEF Placed, Alternate, AudioNames, OwnNames
  <1>2. Carried(b) => Shaped(b, x2) /\ Shaped(b, x3) /\ Shaped(b, x4)
    BY OutputShaped
  <1>3. /\ x2.kind = "stream" /\ {"kind", "of", "data", "chans"} \subseteq DOMAIN x2
        /\ x3.kind = "format" /\ {"kind", "of", "slot", "bits"} \subseteq DOMAIN x3
        /\ x4.kind = "endpoint" /\ {"kind", "of", "use", "size"} \subseteq DOMAIN x4
    BY DEF Stream, Format, Endpoint
  <1>4. OutputAlternate(b, n) = <<x1, x2, x3, x4>> \o When(HasFeedback(b), <<x5>>)
    BY DEF OutputAlternate
  <1>5. Numbered(b, c, x5)
    BY OthersNumbered
  <1> HIDE DEF x1, x2, x3, x4, x5
  <1>6. Numbered(b, c, x2) /\ Numbered(b, c, x3) /\ Numbered(b, c, x4)
    BY <1>2, <1>3 DEF Numbered
  <1> QED
    BY <1>1, <1>4, <1>5, <1>6, OneNumbered, FourNumbered, WhenNumbered, BothNumbered

\* ... and one of the other direction.
LEMMA InputAlternateNumbered ==
  ASSUME NEW b, NEW c, c.class = 2, c.streams, b.in > 0, NEW n \in 1..INPUT_FORMAT_COUNT(b)
  PROVE  AllNumbered(b, c, InputAlternate(b, n))
  <1> DEFINE x1 == Interface(b, "audioIn", n, 1, 5)
             x2 == Stream("in", n, ID_OT_USB, "pcm", InChansHS(b)[n], StringIndex(b, "inputChan"))
             x3 == Format("in", n, InSlotHS(b)[1], InRes(b)[1])
             x4 == Endpoint("in", n, ENDPOINT_IN(b, "audio"), IsoUse(b), EpSizeHS(InPacketHS(b)[n]))
  <1>1. Numbered(b, c, x1)
    BY AudioNumbers, InterfaceNumbered DEF Placed, Alternate, AudioNames, OwnNames
  <1>2. Carried(b) => Shaped(b, x2) /\ Shaped(b, x3) /\ Shaped(b, x4)
    BY InputShaped
  <1>3. /\ x2.kind = "stream" /\ {"kind", "of", "data", "chans"} \subseteq DOMAIN x2
        /\ x3.kind = "format" /\ {"kind", "of", "slot", "bits"} \subseteq DOMAIN x3
        /\ x4.kind = "endpoint" /\ {"kind", "of", "use", "size"} \subseteq DOMAIN x4
    BY DEF Stream, Format, Endpoint
  <1>4. InputAlternate(b, n) = <<x1, x2, x3, x4>>
    BY DEF InputAlternate
  <1> HIDE DEF x1, x2, x3, x4
  <1>5. Numbered(b, c, x2) /\ Numbered(b, c, x3) /\ Numbered(b, c, x4)
    BY <1>2, <1>3 DEF Numbered
  <1> QED
    BY <1>1, <1>4, <1>5, FourNumbered

\* A streaming interface: the alternate without endpoints, and those the build has.
LEMMA OutputStreamingNumbered ==
  ASSUME NEW b, NEW c, c.class = 2, c.streams, b.out > 0
  PROVE  AllNumbered(b, c, OutputStreaming(b))
  <1> DEFINE alts == [n \in Formats |-> When(n <= OUTPUT_FORMAT_COUNT(b), OutputAlternate(b, n))]
  <1>1. ASSUME NEW n \in Formats PROVE AllNumbered(b, c, alts[n])
    <2>1. n <= OUTPUT_FORMAT_COUNT(b) => AllNumbered(b, c, OutputAlternate(b, n))
      BY AlternatesCounted, OutputAlternateNumbered DEF Formats
    <2>2. AllNumbered(b, c, When(n <= OUTPUT_FORMAT_COUNT(b), OutputAlternate(b, n)))
      BY <2>1, WhenNumbered
    <2> QED
      BY <2>2
  <1>2. AllNumbered(b, c, alts[1]) /\ AllNumbered(b, c, alts[2]) /\ AllNumbered(b, c, alts[3])
    BY <1>1 DEF Formats
  <1>3. AllNumbered(b, c, <<Interface(b, "audioOut", 0, 0, 4)>>)
    BY AudioNumbers, InterfaceNumbered, OneNumbered DEF Placed, Alternate, AudioNames, OwnNames
  <1>4. OutputStreaming(b) = <<Interface(b, "audioOut", 0, 0, 4)>> \o alts[1] \o alts[2] \o alts[3]
    BY DEF OutputStreaming
  <1> HIDE DEF alts
  <1> QED
    BY <1>2, <1>3, <1>4, BothNumbered

\* The same of input.
LEMMA InputStreamingNumbered ==
  ASSUME NEW b, NEW c, c.class = 2, c.streams, b.in > 0
  PROVE  AllNumbered(b, c, InputStreaming(b))
  <1> DEFINE alts == [n \in Formats |-> When(n <= INPUT_FORMAT_COUNT(b), InputAlternate(b, n))]
  <1>1. ASSUME NEW n \in Formats PROVE AllNumbered(b, c, alts[n])
    <2>1. n <= INPUT_FORMAT_COUNT(b) => AllNumbered(b, c, InputAlternate(b, n))
      BY AlternatesCounted, InputAlternateNumbered DEF Formats
    <2>2. AllNumbered(b, c, When(n <= INPUT_FORMAT_COUNT(b), InputAlternate(b, n)))
      BY <2>1, WhenNumbered
    <2> QED
      BY <2>2
  <1>2. AllNumbered(b, c, alts[1]) /\ AllNumbered(b, c, alts[2]) /\ AllNumbered(b, c, alts[3])
    BY <1>1 DEF Formats
  <1>3. AllNumbered(b, c, <<Interface(b, "audioIn", 0, 0, 5)>>)
    BY AudioNumbers, InterfaceNumbered, OneNumbered DEF Placed, Alternate, AudioNames, OwnNames
  <1>4. InputStreaming(b) = <<Interface(b, "audioIn", 0, 0, 5)>> \o alts[1] \o alts[2] \o alts[3]
    BY DEF InputStreaming
  <1> HIDE DEF alts
  <1> QED
    BY <1>2, <1>3, <1>4, BothNumbered

\* The interfaces outside the audio function.
LEMMA MidiNumbered ==
  ASSUME NEW b, NEW c, NEW control, NEW stream, NEW size, Numbered(b, c, control), Numbered(b, c, stream)
  PROVE  AllNumbered(b, c, Midi(b, control, stream, size))
  BY OthersNumbered, TenNumbered DEF Midi

\* Each with its number.
LEMMA OwnNumbered ==
  ASSUME NEW b, NEW c, c.class = 2
  PROVE  /\ AllNumbered(b, c, MidiDescriptors(b)) /\ AllNumbered(b, c, ControlInterface(b))
         /\ "dfu" \in b.has => AllNumbered(b, c, DfuInterface(b))
         /\ "hid" \in b.has => AllNumbered(b, c, HidDescriptors(b))
  <1>1. \A name \in {"midiControl", "midiStream", "control"} : \A eps, string :
          Numbered(b, c, Interface(b, name, 0, eps, string))
    BY InterfaceNumbered DEF Placed, Alternate, AudioNames, OwnNames, ControlNumber
  <1>2. AllNumbered(b, c, MidiDescriptors(b))
    BY <1>1, MidiNumbered DEF MidiDescriptors
  <1>3. AllNumbered(b, c, ControlInterface(b))
    BY <1>1, OneNumbered DEF ControlInterface
  <1>4. \A name \in OwnNames \intersect b.has : \A eps, string : Numbered(b, c, Interface(b, name, 0, eps, string))
    BY InterfaceNumbered DEF Placed, Alternate, AudioNames, OwnNames
  <1>5. ASSUME "dfu" \in b.has PROVE AllNumbered(b, c, DfuInterface(b))
    BY <1>4, <1>5, OneNumbered DEF DfuInterface, OwnNames
  <1>6. ASSUME "hid" \in b.has PROVE AllNumbered(b, c, HidDescriptors(b))
    <2>1. AllNumbered(b, c, <<Interface(b, "hid", 0, IF "hidOut" \in b.has THEN 2 ELSE 1, 0),
                           Endpoint("hid", 0, ENDPOINT_IN(b, "hid"), "interrupt", 64)>>)
      BY <1>4, <1>6, OthersNumbered, TwoNumbered DEF OwnNames
    <2> QED
      BY <2>1, OthersNumbered, OneNumbered, WhenNumbered, BothNumbered DEF HidDescriptors
  <1> QED
    BY <1>2, <1>3, <1>5, <1>6

\* The whole of cfgDesc_Audio2.
LEMMA CfgDesc2Numbered == ASSUME NEW b, NEW c, c.class = 2, c.streams PROVE AllNumbered(b, c, CfgDesc2(b).items)
  <1>1. /\ AllNumbered(b, c, When(Audio(b), AudioControl(b)))
        /\ AllNumbered(b, c, When(b.out > 0, OutputStreaming(b)))
        /\ AllNumbered(b, c, When(b.in > 0, InputStreaming(b)))
        /\ AllNumbered(b, c, When("midi" \in b.has, MidiDescriptors(b)))
        /\ AllNumbered(b, c, When("control" \in b.has, ControlInterface(b)))
        /\ AllNumbered(b, c, When("dfu" \in b.has, DfuInterface(b)))
        /\ AllNumbered(b, c, When("hid" \in b.has, HidDescriptors(b)))
    BY AudioControlNumbered, OutputStreamingNumbered, InputStreamingNumbered, OwnNumbered, WhenNumbered
  <1>2. CfgDesc2(b).items = When(Audio(b), AudioControl(b))
          \o When(b.out > 0, OutputStreaming(b)) \o When(b.in > 0, InputStreaming(b))
          \o When("midi" \in b.has, MidiDescriptors(b)) \o When("control" \in b.has, ControlInterface(b))
          \o When("dfu" \in b.has, DfuInterface(b)) \o When("hid" \in b.has, HidDescriptors(b))
    BY DEF CfgDesc2
  <1> QED
    BY <1>1, <1>2, BothNumbered
-----------------------------------------------------------------------------
(***************************************************************************)
(* The UAC1 descriptor, whose audio interfaces have numbers of its own.    *)
(***************************************************************************)
\* The records that belong to no stream, with their lengths.
LEMMA OthersBytes ==
  ASSUME NEW b, NEW c
  PROVE  /\ \A bytes, type, id, sources, chans, string :
              Numbered(b, c, Bytes(bytes, Entity(type, id, sources, chans, string)))
         /\ \A path \in {"midi", "hid", "control"} : \A bytes, n, addr, use, size :
              Numbered(b, c, Bytes(bytes, Endpoint(path, n, addr, use, size)))
         /\ \A bytes, path, n, addr, size : Numbered(b, c, Bytes(bytes, Endpoint(path, n, addr, "feedback", size)))
  <1>1. /\ \A type, id, sources, chans, string : "len" \notin DOMAIN Entity(type, id, sources, chans, string)
        /\ \A path, n, addr, use, size : "len" \notin DOMAIN Endpoint(path, n, addr, use, size)
    BY DEF Entity, Endpoint
  <1> QED
    BY <1>1, OthersNumbered, BytesNumbered

\* A record of the one alternate that fits is right, with its length too.
LEMMA FitNumbered ==
  ASSUME NEW b, NEW c, c.class = 1, c.streams, NEW x, "kind" \in DOMAIN x,
         Carried(b) => Fits(b, "fs", x),
         \/ x.kind = "stream" /\ {"of", "data", "chans"} \subseteq DOMAIN x
         \/ x.kind = "format" /\ {"of", "slot", "bits"} \subseteq DOMAIN x
         \/ x.kind = "endpoint" /\ {"of", "use", "size"} \subseteq DOMAIN x
  PROVE  Numbered(b, c, x) /\ ("len" \notin DOMAIN x => \A bytes : Numbered(b, c, Bytes(bytes, x)))
  <1>1. Numbered(b, c, x)
    BY DEF Numbered
  <1> QED
    BY <1>1, BytesNumbered

\* A format descriptor with its rates.
LEMMA RatesNumbered ==
  ASSUME NEW b, NEW c, NEW path, NEW slot, NEW bits, Numbered(b, c, Format(path, 1, slot, bits))
  PROVE  Numbered(b, c, FormatRates(b, path, slot, bits))
  <1> DEFINE x == Format(path, 1, slot, bits)  y == Bytes(8 + num_freqs_a1(b) * 3, x)
             z == With(y, "announced", num_freqs_a1(b))
  <1>1. Numbered(b, c, x) /\ DOMAIN x = {"kind", "of", "slot", "bits"}
    BY DEF Format
  <1> HIDE DEF x
  <1>2. Numbered(b, c, y) /\ DOMAIN y = {"kind", "of", "slot", "bits", "len"}
    <2>1. Numbered(b, c, y)
      BY <1>1, BytesNumbered
    <2>2. DOMAIN y = DOMAIN x \union {"len"}
      BY DEF Bytes, With
    <2> HIDE DEF y
    <2> QED
      BY <1>1, <2>1, <2>2
  <1> HIDE DEF y
  <1>3. Numbered(b, c, z) /\ DOMAIN z = {"kind", "of", "slot", "bits", "len", "announced"}
    BY SMTT(30), <1>2, WithNumbered DEF With
  <1> HIDE DEF z
  <1>4. Numbered(b, c, With(z, "rates", RepeatedRates(b) \o Supported(b)))
    BY <1>3, WithNumbered
  <1> QED
    BY <1>4 DEF FormatRates, x, y, z

\* The control interface has number 0 ...
LEMMA AudioControl1Numbered == ASSUME NEW b, NEW c, c.class = 1 PROVE AllNumbered(b, c, AudioControl1(b))
  <1>1. Numbered(b, c, InterfaceAt(0, "audioControl", 0, 0, StringIndex(b, "product1")))
    BY InterfaceAtNumbered DEF Placed, Alternate, AudioNames, OwnNames
  <1>2. AllNumbered(b, c, <<InterfaceAt(0, "audioControl", 0, 0, StringIndex(b, "product1")), Other(AC_LENGTH(b))>>)
    BY <1>1, OthersNumbered, TwoNumbered
  <1>3. AllNumbered(b, c, OutputTerminals1(b))
    BY OthersBytes, OneNumbered, WhenNumbered, BothNumbered DEF OutputTerminals1
  <1>4. AllNumbered(b, c, InputTerminals1(b))
    BY OthersBytes, OneNumbered, TwoNumbered, WhenNumbered, BothNumbered DEF InputTerminals1
  <1> QED
    BY <1>2, <1>3, <1>4, WhenNumbered, BothNumbered DEF AudioControl1

\* ... output has 1 ...
LEMMA OutputStreaming1Numbered ==
  ASSUME NEW b, NEW c, c.class = 1, c.streams
  PROVE  AllNumbered(b, c, OutputStreaming1(b))
  <1> DEFINE x1 == InterfaceAt(1, "audioOut", 0, 0, StringIndex(b, "outputInterface1"))
             x2 == InterfaceAt(1, "audioOut", 1, IF HasFeedback(b) THEN 2 ELSE 1, StringIndex(b, "outputInterface1"))
             r3 == Stream("out", 1, 1, "pcm", OutChansFS(b), StringIndex(b, "outputChan"))
             r4 == Format("out", 1, OutSlotFS(b)[1], OutRes(b)[1])
             r5 == Endpoint("out", 1, ENDPOINT_OUT(b, "audio"), IsoUse(b), OutPacketFS(b)[1])
             x3 == Bytes(7, r3)  x4 == FormatRates(b, "out", OutSlotFS(b)[1], OutRes(b)[1])  x5 == Bytes(9, r5)
             x6 == Other(7)
             x7 == Bytes(9, Endpoint("out", 1, ENDPOINT_IN(b, "feedback"), "feedback", FeedbackSize("fs")))
  <1>1. Numbered(b, c, x1) /\ Numbered(b, c, x2)
    BY InterfaceAtNumbered DEF Placed, Alternate, AudioNames, OwnNames
  <1>2. Carried(b) => Fits(b, "fs", r3) /\ Fits(b, "fs", r4) /\ Fits(b, "fs", r5)
    BY Uac1Fits
  <1>3. /\ r3.kind = "stream" /\ {"kind", "of", "data", "chans"} \subseteq DOMAIN r3 /\ "len" \notin DOMAIN r3
        /\ r4.kind = "format" /\ {"kind", "of", "slot", "bits"} \subseteq DOMAIN r4
        /\ r5.kind = "endpoint" /\ {"kind", "of", "use", "size"} \subseteq DOMAIN r5 /\ "len" \notin DOMAIN r5
    BY DEF Stream, Format, Endpoint
  <1>4. Numbered(b, c, x6) /\ Numbered(b, c, x7)
    BY OthersNumbered, OthersBytes
  <1>5. OutputStreaming1(b) = <<x1, x2, x3, x4, x5, x6>> \o When(HasFeedback(b), <<x7>>)
    BY DEF OutputStreaming1
  <1>6. Numbered(b, c, r4) => Numbered(b, c, x4)
    BY RatesNumbered
  <1> HIDE DEF x1, x2, r3, r4, r5, x4, x6, x7
  <1>7. Numbered(b, c, x3) /\ Numbered(b, c, r4) /\ Numbered(b, c, x5)
    BY <1>2, <1>3, FitNumbered
  <1> HIDE DEF x3, x5
  <1>8. AllNumbered(b, c, <<x1, x2, x3, x4, x5, x6>>)
    BY <1>1, <1>4, <1>6, <1>7, SixNumbered
  <1> QED
    BY <1>4, <1>5, <1>8, OneNumbered, WhenNumbered, BothNumbered

\* ... and input the next.
LEMMA InputStreaming1Numbered ==
  ASSUME NEW b, NEW c, c.class = 1, c.streams
  PROVE  AllNumbered(b, c, InputStreaming1(b))
  <1> DEFINE num == OUTPUT_INTERFACES_A1(b) + 1
             x1 == InterfaceAt(num, "audioIn", 0, 0, StringIndex(b, "inputInterface1"))
             x2 == InterfaceAt(num, "audioIn", 1, 1, StringIndex(b, "inputInterface1"))
             r3 == Stream("in", 1, 7, "pcm", InChansFS(b), StringIndex(b, "inputChan"))
             r4 == Format("in", 1, InSlotFS(b)[1], InRes(b)[1])
             r5 == Endpoint("in", 1, ENDPOINT_IN(b, "audio"), IsoUse(b), InPacketFS(b))
             x3 == Bytes(7, r3)  x4 == FormatRates(b, "in", InSlotFS(b)[1], InRes(b)[1])  x5 == Bytes(9, r5)
             x6 == Other(7)
  <1>1. Numbered(b, c, x1) /\ Numbered(b, c, x2)
    <2>1. num \in 0..2
      BY DEF OUTPUT_INTERFACES_A1
    <2> HIDE DEF num
    <2> QED
      BY <2>1, InterfaceAtNumbered DEF Placed, Alternate, AudioNames, OwnNames
  <1>2. Carried(b) => Fits(b, "fs", r3) /\ Fits(b, "fs", r4) /\ Fits(b, "fs", r5)
    BY Uac1Fits
  <1>3. /\ r3.kind = "stream" /\ {"kind", "of", "data", "chans"} \subseteq DOMAIN r3 /\ "len" \notin DOMAIN r3
        /\ r4.kind = "format" /\ {"kind", "of", "slot", "bits"} \subseteq DOMAIN r4
        /\ r5.kind = "endpoint" /\ {"kind", "of", "use", "size"} \subseteq DOMAIN r5 /\ "len" \notin DOMAIN r5
    BY DEF Stream, Format, Endpoint
  <1>4. Numbered(b, c, x6)
    BY OthersNumbered
  <1>5. InputStreaming1(b) = <<x1, x2, x3, x4, x5, x6>>
    BY DEF InputStreaming1
  <1>6. Numbered(b, c, r4) => Numbered(b, c, x4)
    BY RatesNumbered
  <1> HIDE DEF x1, x2, r3, r4, r5, x4, x6
  <1>7. Numbered(b, c, x3) /\ Numbered(b, c, r4) /\ Numbered(b, c, x5)
    BY <1>2, <1>3, FitNumbered
  <1> HIDE DEF x3, x5
  <1> QED
    BY <1>1, <1>4, <1>5, <1>6, <1>7, SixNumbered

\* MIDI, record by record with its length.
LEMMA Midi1Numbered == ASSUME NEW b, NEW c, c.class = 1 PROVE AllNumbered(b, c, Midi1(b))
  <1> DEFINE control == Interface(b, "midiControl", 0, 0, 0)  stream == Interface(b, "midiStream", 0, 2, 0)
             items == Midi(b, control, stream, 64)
             bytes == <<9, 9, 6, 6, 9, 9, 9, 5, 9, 5>>
             s == [i \in 1..Len(items) |-> Bytes(bytes[i], items[i])]
  <1>1. Numbered(b, c, control) /\ Numbered(b, c, stream)
    BY InterfaceNumbered DEF Placed, Alternate, AudioNames, OwnNames
  <1>2. AllNumbered(b, c, items)
    <2> HIDE DEF control, stream
    <2> QED
      BY <1>1, MidiNumbered
  <1>3. Len(items) \in Nat
    <2> HIDE DEF items
    <2>1. PICK S : items \in Seq(S)
      BY <1>2 DEF AllNumbered
    <2> QED
      BY <2>1, LenProperties
  <1>4. \A i \in 1..Len(items) : "len" \notin DOMAIN items[i]
    <2>1. "len" \notin DOMAIN control /\ "len" \notin DOMAIN stream
      BY DEF Interface
    <2>2. /\ \A type, id, sources, string : "len" \notin DOMAIN Jack(type, id, sources, string)
          /\ \A path, n, addr, use, size : "len" \notin DOMAIN Endpoint(path, n, addr, use, size)
          /\ \A addr, id : "len" \notin DOMAIN JackOf(addr, id)
      BY DEF Jack, Endpoint, JackOf
    <2> HIDE DEF control, stream
    <2> QED
      BY <2>1, <2>2 DEF Midi
  <1>5. \A i \in 1..Len(items) : Numbered(b, c, Bytes(bytes[i], items[i]))
    <2> SUFFICES ASSUME NEW i \in 1..Len(items) PROVE Numbered(b, c, Bytes(bytes[i], items[i]))
      OBVIOUS
    <2>1. Numbered(b, c, items[i])
      BY <1>2, ItemNumbered
    <2> QED
      BY <1>4, <2>1, BytesNumbered
  <1>6. AllNumbered(b, c, s)
    <2> DEFINE n == Len(items)
    <2>1. s = [i \in 1..n |-> s[i]] /\ \A i \in 1..n : Numbered(b, c, s[i])
      BY <1>5
    <2> HIDE DEF s, items
    <2> QED
      BY <1>3, <2>1, EachNumbered
  <1>7. Midi1(b) = s \o <<Other(9), Other(7)>>
    BY DEF Midi1
  <1> HIDE DEF s
  <1> QED
    BY <1>6, <1>7, OthersNumbered, TwoNumbered, BothNumbered

\* Control, DFU and HID.
LEMMA Own1Numbered ==
  ASSUME NEW b, NEW c, c.class = 1
  PROVE  /\ AllNumbered(b, c, ControlInterface1(b))
         /\ "dfu" \in b.has => AllNumbered(b, c, DfuInterface1(b))
         /\ "hid" \in b.has => AllNumbered(b, c, HidDescriptors1(b))
  <1>1. AllNumbered(b, c, ControlInterface1(b))
    <2>1. Placed(b, c, "control", OUTPUT_INTERFACES_A1(b) + INPUT_INTERFACES_A1(b) + 1)
      BY DEF Placed, Alternate, AudioNames, OwnNames, ControlNumber
    <2> QED
      BY <2>1, InterfaceAtNumbered, OneNumbered DEF ControlInterface1, Alternate
  <1>2. \A name \in OwnNames \intersect b.has : Placed(b, c, name, INTERFACE_NUMBER(b, name))
    BY DEF Placed, Alternate, AudioNames, OwnNames
  <1>3. \A name \in OwnNames \intersect b.has : \A eps, string :
          Numbered(b, c, InterfaceAt(INTERFACE_NUMBER(b, name), name, 0, eps, string))
    BY <1>2, InterfaceAtNumbered DEF Alternate
  <1>4. ASSUME "dfu" \in b.has PROVE AllNumbered(b, c, DfuInterface1(b))
    BY <1>3, <1>4, OthersNumbered, TwoNumbered DEF DfuInterface1, OwnNames
  <1>5. ASSUME "hid" \in b.has PROVE AllNumbered(b, c, HidDescriptors1(b))
    <2> DEFINE hid == [kind |-> "hid", len |-> 9]
    <2>1. Numbered(b, c, hid)
      BY DEF Numbered, OfStream
    <2>2. HidDescriptors1(b) =
            <<InterfaceAt(INTERFACE_NUMBER(b, "hid"), "hid", 0, IF "hidOut" \in b.has THEN 2 ELSE 1, 0), hid,
              Bytes(7, Endpoint("hid", 0, ENDPOINT_IN(b, "hid"), "interrupt", 64))>>
            \o When("hidOut" \in b.has,
                    <<Bytes(7, Endpoint("hid", 0, ENDPOINT_OUT(b, "hid"), "interrupt", 64))>>)
      BY DEF HidDescriptors1
    <2> HIDE DEF hid
    <2>3. Numbered(b, c, InterfaceAt(INTERFACE_NUMBER(b, "hid"), "hid", 0, IF "hidOut" \in b.has THEN 2 ELSE 1, 0))
      BY <1>3, <1>5 DEF OwnNames
    <2>4. AllNumbered(b, c, <<InterfaceAt(INTERFACE_NUMBER(b, "hid"), "hid", 0, IF "hidOut" \in b.has THEN 2 ELSE 1, 0),
                              hid, Bytes(7, Endpoint("hid", 0, ENDPOINT_IN(b, "hid"), "interrupt", 64))>>)
      BY <2>1, <2>3, OthersBytes, ThreeNumbered
    <2>5. AllNumbered(b, c, When("hidOut" \in b.has,
                                 <<Bytes(7, Endpoint("hid", 0, ENDPOINT_OUT(b, "hid"), "interrupt", 64))>>))
      BY OthersBytes, OneNumbered, WhenNumbered
    <2> QED
      BY <2>2, <2>4, <2>5, BothNumbered
  <1> QED
    BY <1>1, <1>4, <1>5

\* The whole of cfgDesc_Audio1.
LEMMA CfgDesc1Numbered ==
  ASSUME NEW b, NEW c, c.class = 1, c.streams
  PROVE  AllNumbered(b, c, CfgDesc1(b).items)
  <1>1. /\ AllNumbered(b, c, <<Other(9)>>)
        /\ AllNumbered(b, c, When(Audio(b), AudioControl1(b)))
        /\ AllNumbered(b, c, When(b.out > 0, OutputStreaming1(b)))
        /\ AllNumbered(b, c, When(b.in > 0, InputStreaming1(b)))
        /\ AllNumbered(b, c, When("midi" \in b.has, Midi1(b)))
        /\ AllNumbered(b, c, When("dfu" \in b.has, DfuInterface1(b)))
        /\ AllNumbered(b, c, When("control" \in b.has, ControlInterface1(b)))
        /\ AllNumbered(b, c, When("hid" \in b.has, HidDescriptors1(b)))
    BY OthersNumbered, OneNumbered, AudioControl1Numbered, OutputStreaming1Numbered, InputStreaming1Numbered,
       Midi1Numbered, Own1Numbered, WhenNumbered
  <1>2. CfgDesc1(b).items = <<Other(9)>> \o When(Audio(b), AudioControl1(b))
          \o When(b.out > 0, OutputStreaming1(b)) \o When(b.in > 0, InputStreaming1(b))
          \o When("midi" \in b.has, Midi1(b)) \o When("dfu" \in b.has, DfuInterface1(b))
          \o When("control" \in b.has, ControlInterface1(b)) \o When("hid" \in b.has, HidDescriptors1(b))
    BY DEF CfgDesc1
  <1> QED
    BY <1>1, <1>2, BothNumbered
-----------------------------------------------------------------------------
(***************************************************************************)
(* What is modified for the speed is not in an interface descriptor.       *)
(***************************************************************************)
Unmoved(x, y) ==
  /\ DOMAIN y = DOMAIN x
  /\ \A f \in {"kind", "of", "use", "data"} \intersect DOMAIN x : y[f] = x[f]
  /\ x.kind = "interface" => y = x

\* Whichever record it is.
LEMMA MungedUnmoved ==
  ASSUME NEW b, NEW x
  PROVE  Unmoved(x, MungedHS(b, x)) /\ Unmoved(x, MungedFS(b, x))
  <1>1. Unmoved(x, x)
    BY DEF Unmoved
  <1>2. ASSUME x.kind # "interface"
        PROVE  /\ \A v : Unmoved(x, [x EXCEPT !.chans = v]) /\ Unmoved(x, [x EXCEPT !.size = v])
               /\ \A v, w : Unmoved(x, [x EXCEPT !.slot = v, !.bits = w])
    BY <1>2 DEF Unmoved
  <1>3. CASE x.kind = "interface"
    <2>1. x.kind # "entity" /\ x.kind # "stream" /\ x.kind # "format" /\ x.kind # "endpoint"
      BY <1>3
    <2>2. MungedHS(b, x) = x
      BY <2>1, Zenon DEF MungedHS
    <2>3. MungedFS(b, x) = x
      BY <2>1, Zenon DEF MungedFS
    <2> QED
      BY <1>1, <2>2, <2>3
  <1>4. CASE x.kind # "interface"
    <2>1. Unmoved(x, MungedHS(b, x))
      BY <1>1, <1>2, <1>4, ZenonT(60) DEF MungedHS
    <2>2. Unmoved(x, MungedFS(b, x))
      BY <1>1, <1>2, <1>4, Zenon DEF MungedFS
    <2> QED
      BY <2>1, <2>2
  <1> QED
    BY <1>3, <1>4

\* So a record stays right in a build whose descriptor is modified.
LEMMA UnmovedNumbered ==
  ASSUME NEW b, NEW c, c.class = 2, NEW x, NEW y, Modified(b), Numbered(b, c, x), Unmoved(x, y)
  PROVE  Numbered(b, c, y)
  <1>1. "kind" \in DOMAIN x /\ DOMAIN y = DOMAIN x /\ y.kind = x.kind
    BY DEF Numbered, Unmoved
  <1>2. CASE x.kind = "interface"
    BY <1>2 DEF Unmoved
  <1>3. CASE x.kind = "stream"
    <2>1. {"of", "data", "chans"} \subseteq DOMAIN x
      BY <1>3 DEF Numbered
    <2>2. y.of = x.of /\ y.data = x.data
      BY <2>1 DEF Unmoved
    <2>3. OfStream(y) = OfStream(x) /\ Shaped(b, y) = Shaped(b, x)
      BY <1>1, <1>3, <2>2 DEF OfStream, Shaped
    <2> QED
      BY <1>1, <1>3, <2>1, <2>3 DEF Numbered
  <1>4. CASE x.kind = "format"
    <2>1. {"of", "slot", "bits"} \subseteq DOMAIN x
      BY <1>4 DEF Numbered
    <2>2. y.of = x.of
      BY <2>1 DEF Unmoved
    <2>3. OfStream(y) = OfStream(x) /\ Shaped(b, y) = Shaped(b, x)
      BY <1>1, <1>4, <2>2 DEF OfStream, Shaped
    <2> QED
      BY <1>1, <1>4, <2>1, <2>3 DEF Numbered
  <1>5. CASE x.kind = "endpoint"
    <2>1. {"of", "use", "size"} \subseteq DOMAIN x
      BY <1>5 DEF Numbered
    <2>2. y.of = x.of /\ y.use = x.use
      BY <2>1 DEF Unmoved
    <2>3. OfStream(y) = OfStream(x) /\ Shaped(b, y) = Shaped(b, x)
      BY <1>1, <1>5, <2>2 DEF OfStream, Shaped
    <2> QED
      BY <1>1, <1>5, <2>1, <2>3 DEF Numbered
  <1>6. CASE x.kind \notin {"interface", "stream", "format", "endpoint"}
    <2>1. ~OfStream(y)
      BY <1>1, <1>6 DEF OfStream
    <2> QED
      BY <1>1, <1>6, <2>1 DEF Numbered
  <1> QED
    BY <1>2, <1>3, <1>4, <1>5, <1>6

\* What Munged makes of a descriptor, record by record.
EachMunged(b, s, items) ==
  [i \in 1..Len(items) |-> IF s = "hs" THEN MungedHS(b, items[i]) ELSE MungedFS(b, items[i])]

\* It does in a build whose descriptor is modified.
LEMMA MungedEach ==
  ASSUME NEW b, NEW c, NEW s, NEW items, AllNumbered(b, c, items)
  PROVE  /\ Len(items) \in Nat
         /\ \/ Munged(b, s, items) = items
            \/ Modified(b) /\ Munged(b, s, items) = EachMunged(b, s, items)
  <1>1. Len(items) \in Nat
    <2>1. PICK S : items \in Seq(S)
      BY DEF AllNumbered
    <2> QED
      BY <2>1, LenProperties
  <1> QED
    BY <1>1 DEF Munged, Modified, EachMunged

\* The modified descriptor is right where the descriptor was.
LEMMA MungedNumbered ==
  ASSUME NEW b, NEW c, c.class = 2, NEW s, NEW items, AllNumbered(b, c, items)
  PROVE  AllNumbered(b, c, Munged(b, s, items))
  <1> DEFINE n == Len(items)  munged == EachMunged(b, s, items)
  <1>1. n \in Nat /\ (Munged(b, s, items) = items \/ (Modified(b) /\ Munged(b, s, items) = munged))
    BY MungedEach
  <1>2. ASSUME Modified(b) PROVE \A i \in 1..n : Numbered(b, c, munged[i])
    <2> SUFFICES ASSUME NEW i \in 1..n PROVE Numbered(b, c, munged[i])
      OBVIOUS
    <2>1. Unmoved(items[i], munged[i])
      BY MungedUnmoved DEF EachMunged
    <2>2. Numbered(b, c, items[i])
      BY ItemNumbered
    <2> HIDE DEF munged
    <2> QED
      BY <1>2, <2>1, <2>2, UnmovedNumbered
  <1>3. ASSUME Modified(b) PROVE AllNumbered(b, c, munged)
    <2>1. munged = [i \in 1..n |-> munged[i]]
      BY DEF EachMunged
    <2> HIDE DEF munged, n
    <2> QED
      BY <1>1, <1>2, <1>3, <2>1, EachNumbered
  <1> HIDE DEF munged
  <1> QED
    BY <1>1, <1>3

\* The one input alternate of a descriptor that is modified
LEMMA OneInput ==
  ASSUME NEW b, Carried(b), b.fs # 1
  PROVE  INPUT_FORMAT_COUNT(b) = 1 /\ InChansHS(b)[1] = b.in
  <1>1. INPUT_FORMAT_COUNT(b) = 1
    BY DEF Carried
  <1>2. CASE "adatRx" \in b.has
    <2>1. Len(AdatLess(b)) = 1
      BY <1>1, <1>2 DEF INPUT_FORMAT_COUNT
    <2>2. AdatLess(b)[1] = 0
      BY <2>1 DEF AdatLess
    <2>3. InChansHS(b)[1] = b.in - 0
      BY <1>2, <2>1, <2>2 DEF InChansHS
    <2> QED
      BY <1>1, <2>3 DEF Carried
  <1>3. CASE "adatRx" \notin b.has
    BY <1>1, <1>3 DEF InChansHS
  <1> QED
    BY <1>2, <1>3

\* The records of its streams fit when they are modified: the channels, ...
LEMMA StreamFits ==
  ASSUME NEW b, Carried(b), b.fs # 1, NEW x, OfStream(x), Shaped(b, x), x.kind = "stream",
         {"kind", "of", "data", "chans"} \subseteq DOMAIN x
  PROVE  Fits(b, "hs", MungedHS(b, x)) /\ Fits(b, "fs", MungedFS(b, x))
  <1>1. \A v : LET y == [x EXCEPT !.chans = v] IN y.kind = "stream" /\ y.of = x.of /\ y.data = x.data /\ y.chans = v
    OBVIOUS
  <1>2. CASE x.of[1] = "out"
    <2> DEFINE n == x.of[2]
    <2>1. MungedHS(b, x) = [x EXCEPT !.chans = OutChansHS(b)[n]]
      BY <1>2 DEF MungedHS
    <2>2. MungedFS(b, x) = [x EXCEPT !.chans = OutChansFS(b)]
      BY <1>2 DEF MungedFS
    <2>3. x.data = OutData(b)[n]
      BY <1>2 DEF Shaped
    <2> HIDE DEF n
    <2>4. Fits(b, "hs", MungedHS(b, x))
      BY <1>1, <1>2, <2>1, <2>3, ToldFormats DEF Fits, n
    <2>5. Fits(b, "fs", MungedFS(b, x))
      BY <1>1, <1>2, <2>2, <2>3, ToldFormats DEF Fits, n
    <2> QED
      BY <2>4, <2>5
  <1>3. CASE x.of[1] = "in"
    <2>1. x.of = <<"in", 1>> /\ x.of[1] # "out"
      BY <1>3, OneInput DEF Shaped
    <2>2. MungedHS(b, x) = [x EXCEPT !.chans = b.in]
      BY <2>1 DEF MungedHS
    <2>3. MungedFS(b, x) = [x EXCEPT !.chans = InChansFS(b)]
      BY <2>1 DEF MungedFS
    <2>4. x.data = "pcm"
      BY <1>3 DEF Shaped
    <2>5. Fits(b, "hs", MungedHS(b, x))
      BY <1>1, <2>1, <2>2, <2>4, ToldFormats, OneInput DEF Fits
    <2>6. Fits(b, "fs", MungedFS(b, x))
      BY <1>1, <2>1, <2>3, <2>4, ToldFormats DEF Fits
    <2> QED
      BY <2>5, <2>6
  <1> QED
    BY <1>2, <1>3 DEF OfStream, Paths

\* ... the subslot and the resolution ...
LEMMA FormatFits ==
  ASSUME NEW b, Carried(b), b.fs # 1, NEW x, OfStream(x), Shaped(b, x), x.kind = "format",
         {"kind", "of", "slot", "bits"} \subseteq DOMAIN x
  PROVE  Fits(b, "hs", MungedHS(b, x)) /\ Fits(b, "fs", MungedFS(b, x))
  <1>1. \A v, w : LET y == [x EXCEPT !.slot = v, !.bits = w]
                  IN  y.kind = "format" /\ y.of = x.of /\ y.slot = v /\ y.bits = w
    OBVIOUS
  <1>2. CASE x.of[1] = "out"
    <2> DEFINE n == x.of[2]
    <2>1. MungedHS(b, x) = [x EXCEPT !.slot = OutSlotHS(b)[n], !.bits = OutRes(b)[n]]
      BY <1>2 DEF MungedHS
    <2>2. MungedFS(b, x) = [x EXCEPT !.slot = OutSlotFS(b)[n], !.bits = OutRes(b)[n]]
      BY <1>2 DEF MungedFS
    <2> HIDE DEF n
    <2>3. Fits(b, "hs", MungedHS(b, x))
      BY <1>1, <1>2, <2>1, ToldFormats DEF Fits, n
    <2>4. Fits(b, "fs", MungedFS(b, x))
      BY <1>1, <1>2, <2>2, ToldFormats DEF Fits, n
    <2> QED
      BY <2>3, <2>4
  <1>3. CASE x.of[1] = "in"
    <2>1. x.of = <<"in", 1>> /\ x.of[1] # "out"
      BY <1>3, OneInput DEF Shaped
    <2>2. MungedHS(b, x) = [x EXCEPT !.slot = InSlotHS(b)[1], !.bits = InRes(b)[1]]
      BY <2>1 DEF MungedHS
    <2>3. MungedFS(b, x) = [x EXCEPT !.slot = InSlotFS(b)[1], !.bits = InRes(b)[1]]
      BY <2>1 DEF MungedFS
    <2>4. SampResInHS(b, 1) = InRes(b)[1]
      BY DEF SampResInHS
    <2>5. Fits(b, "hs", MungedHS(b, x))
      BY <1>1, <2>1, <2>2, <2>4, ToldFormats DEF Fits
    <2>6. Fits(b, "fs", MungedFS(b, x))
      BY <1>1, <2>1, <2>3, ToldFormats DEF Fits
    <2> QED
      BY <2>5, <2>6
  <1> QED
    BY <1>2, <1>3 DEF OfStream, Paths

\* ... and the size of the packets.
LEMMA EndpointFits ==
  ASSUME NEW b, Carried(b), b.fs # 1, NEW x, OfStream(x), Shaped(b, x), x.kind = "endpoint",
         {"kind", "of", "use", "size"} \subseteq DOMAIN x
  PROVE  (b.hs = 2 => Fits(b, "hs", MungedHS(b, x))) /\ Fits(b, "fs", MungedFS(b, x))
  <1>1. \A v : LET y == [x EXCEPT !.size = v] IN y.kind = "endpoint" /\ y.of = x.of /\ y.size = v
    OBVIOUS
  <1>2. x.use # "feedback" /\ x.use # "bulk"
    BY DEF OfStream, Shaped
  <1>3. CASE x.of[1] = "out"
    <2> DEFINE n == x.of[2]
    <2>0. x.of # <<"in", 1>>
      BY <1>3
    <2>1. MungedHS(b, x) = [x EXCEPT !.size = EpSizeHS(OutPacketHS(b)[n])]
      BY <1>2, <1>3, <2>0 DEF MungedHS
    <2>2. MungedFS(b, x) = [x EXCEPT !.size = OutPacketFS(b)[n]]
      BY <1>2, <1>3, <2>0 DEF MungedFS
    <2>3. n \in 1..OUTPUT_FORMAT_COUNT(b) /\ n \in Formats
      BY <1>3, AlternatesCounted DEF Shaped, Formats
    <2> HIDE DEF n
    <2>4. ASSUME b.hs = 2 PROVE Fits(b, "hs", MungedHS(b, x))
      BY <1>1, <1>3, <2>1, <2>3, <2>4, HighSpeedPackets, ToldFormats DEF Fits, Samples, n
    <2>5. SamplesFS(b) * OutChansFS(b) * OutSlotFS(b)[n] <= OutPacketFS(b)[n]
      <3>1. OutPacketFS(b)[n] = SamplesFS(b) * OutChansFS(b) * OutSlotFS(b)[n]
        BY <2>3 DEF OutPacketFS
      <3>2. SamplesFS(b) * OutChansFS(b) * OutSlotFS(b)[n] \in Nat
        BY <2>3, SlotsNatural
      <3> QED
        BY <3>1, <3>2
    <2>6. Fits(b, "fs", MungedFS(b, x))
      BY <1>1, <1>3, <2>2, <2>5, ToldFormats DEF Fits, Samples, n
    <2> QED
      BY <2>4, <2>6
  <1>4. CASE x.of[1] = "in"
    <2>1. x.of = <<"in", 1>> /\ x.of[1] # "out"
      BY <1>4, OneInput DEF Shaped
    <2>2. MungedHS(b, x) = [x EXCEPT !.size = EpSizeHS(InPacketHS(b)[1])]
      BY <1>2, <2>1 DEF MungedHS
    <2>3. MungedFS(b, x) = [x EXCEPT !.size = InPacketFS(b)]
      BY <1>2, <2>1 DEF MungedFS
    <2>4. ASSUME b.hs = 2 PROVE Fits(b, "hs", MungedHS(b, x))
      <3>1. SamplesHS(b) * InChansHS(b)[1] * InSlotHS(b)[1] <= EpSizeHS(InPacketHS(b)[1])
        BY <2>4, OneInput, HighSpeedPackets
      <3> QED
        BY <1>1, <2>1, <2>2, <3>1, ToldFormats DEF Fits, Samples
    <2>5. SamplesFS(b) * InChansFS(b) * InSlotFS(b)[1] <= InPacketFS(b)
      <3>1. SamplesFS(b) * InChansFS(b) * InSlotFS(b)[1] \in Nat
        BY SlotsNatural DEF Formats
      <3> QED
        BY <3>1 DEF InPacketFS
    <2>6. Fits(b, "fs", MungedFS(b, x))
      BY <1>1, <2>1, <2>3, <2>5, ToldFormats DEF Fits, Samples
    <2> QED
      BY <2>4, <2>6
  <1> QED
    BY <1>3, <1>4 DEF OfStream, Paths

\* What the host reads of a stream fits, at the speed it reads it.
LEMMA MungedFits ==
  ASSUME NEW b, Carried(b), Class2(b), NEW s \in Speeds(b), ~Uac1(b, s), NEW items, AllNumbered(b, Whole(2), items)
  PROVE  \A i \in 1..Len(Munged(b, s, items)) :
           OfStream(Munged(b, s, items)[i]) => Fits(b, s, Munged(b, s, items)[i])
  <1>1. \A i \in 1..Len(items) : Numbered(b, Whole(2), items[i])
    BY ItemNumbered
  <1>2. \A i \in 1..Len(items) : OfStream(items[i]) => Shaped(b, items[i])
    BY <1>1 DEF Numbered, Whole
  <1>3. CASE b.hs = 2 /\ b.fs = 1
    <2>1. Munged(b, s, items) = items
      BY <1>3 DEF Munged
    <2>2. s = "hs" /\ ~Modified(b)
      BY <1>3 DEF Speeds, Uac1, Modified
    <2> QED
      BY <1>2, <2>1, <2>2 DEF Shaped
  <1>4. CASE ~(b.hs = 2 /\ b.fs = 1)
    <2> DEFINE munged == EachMunged(b, s, items)
    <2>1. Munged(b, s, items) = munged
      BY <1>4 DEF Munged, EachMunged
    <2>2. b.fs # 1 /\ (s = "hs" => b.hs = 2) /\ s \in {"hs", "fs"}
      BY <1>4 DEF Class2, Speeds, Uac1
    <2>3. Len(munged) = Len(items)
      BY MungedEach DEF EachMunged
    <2>4. ASSUME NEW i \in 1..Len(items), OfStream(munged[i]) PROVE Fits(b, s, munged[i])
      <3> DEFINE x == items[i]  y == munged[i]
      <3>1. y = IF s = "hs" THEN MungedHS(b, x) ELSE MungedFS(b, x)
        BY DEF EachMunged
      <3>2. Unmoved(x, y) /\ Numbered(b, Whole(2), x)
        BY <1>1, <3>1, MungedUnmoved
      <3>3. OfStream(y)
        BY <2>4
      <3> HIDE DEF x, y, munged
      <3>4. "kind" \in DOMAIN x /\ y.kind = x.kind
        BY <3>2 DEF Numbered, Unmoved
      <3>5. x.kind \in {"stream", "format", "endpoint"}
        BY <3>3, <3>4 DEF OfStream
      <3>6. /\ x.kind = "stream" => {"of", "data", "chans"} \subseteq DOMAIN x
            /\ x.kind = "format" => {"of", "slot", "bits"} \subseteq DOMAIN x
            /\ x.kind = "endpoint" => {"of", "use", "size"} \subseteq DOMAIN x
        BY <3>2 DEF Numbered
      <3>7. OfStream(x)
        <4>1. y.of = x.of
          BY <3>2, <3>5, <3>6 DEF Unmoved
        <4>2. x.kind = "endpoint" => y.use = x.use
          BY <3>2, <3>6 DEF Unmoved
        <4> QED
          BY <3>3, <3>4, <4>1, <4>2 DEF OfStream
      <3>8. Shaped(b, x)
        BY <1>2, <3>7 DEF x
      <3>9. (s = "hs" => Fits(b, "hs", MungedHS(b, x))) /\ Fits(b, "fs", MungedFS(b, x))
        <4>1. CASE x.kind = "stream"
          BY <2>2, <3>4, <3>6, <3>7, <3>8, <4>1, StreamFits
        <4>2. CASE x.kind = "format"
          BY <2>2, <3>4, <3>6, <3>7, <3>8, <4>2, FormatFits
        <4>3. CASE x.kind = "endpoint"
          BY <2>2, <3>4, <3>6, <3>7, <3>8, <4>3, EndpointFits
        <4> QED
          BY <3>5, <4>1, <4>2, <4>3
      <3>10. Fits(b, s, y)
        BY <2>2, <3>1, <3>9
      <3> QED
        BY <3>10 DEF y
    <2> HIDE DEF munged
    <2> QED
      BY <2>1, <2>3, <2>4
  <1> QED
    BY <1>3, <1>4
-----------------------------------------------------------------------------
(***************************************************************************)
(* How many records of a kind an alternate has: one of each.               *)
(***************************************************************************)
Kinds == {"stream", "format", "endpoint"}
Belongs(x, kind, of) == x.kind = kind /\ (kind = "endpoint" => x.use # "feedback") /\ x.of = of
Places(s, kind, of) == {i \in 1..Len(s) : Belongs(s[i], kind, of)}
Count(s, kind, of) == Cardinality(Places(s, kind, of))
Sequence(s) == \E S : s \in Seq(S)

\* Where one does, there is one, and where none does, none.
LEMMA OneCounted ==
  ASSUME NEW s, NEW kind, NEW of, NEW j \in 1..Len(s), \A i \in 1..Len(s) : Belongs(s[i], kind, of) <=> i = j
  PROVE  Count(s, kind, of) = 1
  <1>1. Places(s, kind, of) = {j}
    BY DEF Places
  <1> QED
    BY <1>1, FS_Singleton DEF Count

LEMMA NoneCounted ==
  ASSUME NEW s, NEW kind, NEW of, \A i \in 1..Len(s) : ~Belongs(s[i], kind, of)
  PROVE  Count(s, kind, of) = 0
  <1>1. Places(s, kind, of) = {}
    BY DEF Places
  <1> QED
    BY <1>1, FS_EmptySet DEF Count

\* In two sequences there are those of both.
LEMMA BothCounted ==
  ASSUME NEW s, NEW t, Sequence(s), Sequence(t)
  PROVE  /\ Sequence(s \o t)
         /\ \A kind, of : /\ Count(s, kind, of) \in Nat /\ Count(t, kind, of) \in Nat
                          /\ Count(s \o t, kind, of) = Count(s, kind, of) + Count(t, kind, of)
  <1>1. PICK S : s \in Seq(S)
    BY DEF Sequence
  <1>2. PICK T : t \in Seq(T)
    BY DEF Sequence
  <1> DEFINE U == S \union T
  <1>3. s \in Seq(U) /\ t \in Seq(U)
    BY <1>1, <1>2, SeqMonotonic
  <1> HIDE DEF U
  <1>4. Len(s) \in Nat /\ Len(t) \in Nat /\ Len(s \o t) = Len(s) + Len(t) /\ s \o t \in Seq(U)
    BY <1>3, ConcatProperties, LenProperties
  <1>5. \A i \in 1..Len(s \o t) : (s \o t)[i] = IF i <= Len(s) THEN s[i] ELSE t[i - Len(s)]
    BY <1>3, ConcatProperties
  <1>6. ASSUME NEW kind, NEW of
        PROVE  /\ Count(s, kind, of) \in Nat /\ Count(t, kind, of) \in Nat
               /\ Count(s \o t, kind, of) = Count(s, kind, of) + Count(t, kind, of)
    <2> DEFINE A == Places(s, kind, of)  B == Places(t, kind, of)  C == Places(s \o t, kind, of)
               f == [i \in B |-> i + Len(s)]  D == {f[i] : i \in B}
    <2>1. A \subseteq 1..Len(s) /\ B \subseteq 1..Len(t)
      BY DEF Places
    <2>2. IsFiniteSet(A) /\ IsFiniteSet(B)
      <3>1. IsFiniteSet(1..Len(s)) /\ IsFiniteSet(1..Len(t))
        BY <1>4, FS_Interval
      <3> HIDE DEF A, B
      <3> QED
        BY <2>1, <3>1, FS_Subset
    <2>3. f \in Bijection(B, D)
      <3>1. f \in [B -> D]
        OBVIOUS
      <3>2. ASSUME NEW i \in B, NEW j \in B, f[i] = f[j] PROVE i = j
        <4>1. i \in Nat /\ j \in Nat /\ i + Len(s) = j + Len(s)
          BY <1>4, <2>1, <3>2
        <4> QED
          BY <1>4, <4>1
      <3>3. \A d \in D : \E i \in B : f[i] = d
        OBVIOUS
      <3> HIDE DEF B, D, f
      <3> QED
        BY <3>1, <3>2, <3>3 DEF Bijection, Injection, Surjection, IsInjective
    <2>4. IsFiniteSet(D) /\ Cardinality(D) = Cardinality(B)
      <3> HIDE DEF B, D, f
      <3> QED
        BY <2>2, <2>3, FS_Bijection DEF ExistsBijection
    <2>5. C = A \union D
      <3>1. ASSUME NEW i \in C PROVE i \in A \union D
        <4>1. i \in 1..Len(s \o t) /\ Belongs((s \o t)[i], kind, of)
          BY DEF Places
        <4>2. CASE i <= Len(s)
          BY <1>4, <1>5, <4>1, <4>2 DEF Places
        <4>3. CASE ~(i <= Len(s))
          <5> DEFINE j == i - Len(s)
          <5>1. j \in 1..Len(t) /\ j + Len(s) = i
            BY <1>4, <4>1, <4>3
          <5>2. Belongs(t[j], kind, of)
            BY <1>5, <4>1, <4>3
          <5> HIDE DEF j
          <5> QED
            BY <5>1, <5>2 DEF Places
        <4> QED
          BY <4>2, <4>3
      <3>2. ASSUME NEW i \in A PROVE i \in C
        <4>1. i \in 1..Len(s) /\ Belongs(s[i], kind, of)
          BY DEF Places
        <4> QED
          BY <1>4, <1>5, <4>1 DEF Places
      <3>3. ASSUME NEW j \in B PROVE f[j] \in C
        <4>1. j \in 1..Len(t) /\ Belongs(t[j], kind, of) /\ f[j] = j + Len(s)
          BY DEF Places
        <4> DEFINE i == j + Len(s)
        <4>2. i \in 1..Len(s \o t) /\ ~(i <= Len(s)) /\ i - Len(s) = j
          BY <1>4, <4>1
        <4> HIDE DEF i
        <4>3. (s \o t)[i] = t[j]
          BY <1>5, <4>2
        <4> HIDE DEF f
        <4> QED
          BY <4>1, <4>2, <4>3 DEF Places, i
      <3> HIDE DEF A, B, C, f
      <3> QED
        BY <3>1, <3>2, <3>3
    <2>6. A \intersect D = {}
      BY <1>4, <2>1
    <2> HIDE DEF A, B, C, D, f
    <2>7. Cardinality(C) = Cardinality(A) + Cardinality(D) - Cardinality({})
      BY <2>2, <2>4, <2>5, <2>6, FS_Union
    <2>8. Cardinality(A) \in Nat /\ Cardinality(B) \in Nat /\ Cardinality({}) = 0
      BY <2>2, FS_CardinalityType, FS_EmptySet
    <2> QED
      BY <2>4, <2>7, <2>8 DEF Count, A, B, C
  <1> QED
    BY <1>4, <1>6 DEF Sequence

\* What has no streams has no record of one.
LEMMA OthersCounted ==
  ASSUME NEW b, NEW c, NEW s, AllNumbered(b, c, s)
  PROVE  /\ Sequence(s)
         /\ ~c.streams => \A kind \in Kinds, path \in Paths : \A n : Count(s, kind, <<path, n>>) = 0
  <1>1. Sequence(s)
    BY DEF AllNumbered, Sequence
  <1>2. ASSUME ~c.streams, NEW kind \in Kinds, NEW path \in Paths, NEW n
        PROVE  Count(s, kind, <<path, n>>) = 0
    <2>1. ASSUME NEW i \in 1..Len(s), Belongs(s[i], kind, <<path, n>>) PROVE FALSE
      <3>1. Numbered(b, c, s[i])
        BY ItemNumbered
      <3>2. OfStream(s[i])
        BY <2>1 DEF Belongs, OfStream, Kinds
      <3> QED
        BY <1>2, <3>1, <3>2 DEF Numbered
    <2> QED
      BY <2>1, NoneCounted
  <1> QED
    BY <1>1, <1>2

\* Where the condition leaves a part out there is none.
LEMMA EmptyCounted == Sequence(<<>>) /\ \A kind, of : Count(<<>>, kind, of) = 0
  <1>1. Len(<<>>) = 0 /\ <<>> \in Seq({})
    OBVIOUS
  <1>2. \A kind, of : \A i \in 1..Len(<<>>) : ~Belongs(<<>>[i], kind, of)
    BY <1>1
  <1> QED
    BY <1>1, <1>2, NoneCounted DEF Sequence

\* An alternate of UAC2, and the one of UAC1, have a record of each kind.
LEMMA FourCounted ==
  ASSUME NEW x1, NEW x2, NEW x3, NEW x4, NEW o, x1.kind = "interface",
         x2.kind = "stream" /\ x2.of = o, x3.kind = "format" /\ x3.of = o,
         x4.kind = "endpoint" /\ x4.use # "feedback" /\ x4.of = o, NEW kind \in Kinds, NEW of
  PROVE  /\ Sequence(<<x1, x2, x3, x4>>)
         /\ Count(<<x1, x2, x3, x4>>, kind, of) = IF of = o THEN 1 ELSE 0
  <1> DEFINE s == <<x1, x2, x3, x4>>  j == IF kind = "stream" THEN 2 ELSE IF kind = "format" THEN 3 ELSE 4
  <1>1. s \in Seq({x1, x2, x3, x4}) /\ Len(s) = 4 /\ s[1] = x1 /\ s[2] = x2 /\ s[3] = x3 /\ s[4] = x4
    OBVIOUS
  <1> HIDE DEF s
  <1>2. j \in 1..Len(s)
    BY <1>1
  <1>3. \A i \in 1..Len(s) : Belongs(s[i], kind, of) <=> (of = o /\ i = j)
    BY <1>1 DEF Belongs, Kinds
  <1> HIDE DEF j
  <1>4. Count(s, kind, of) = IF of = o THEN 1 ELSE 0
    BY <1>2, <1>3, OneCounted, NoneCounted
  <1>5. Sequence(s)
    BY <1>1 DEF Sequence
  <1> QED
    BY <1>4, <1>5 DEF s

LEMMA SixCounted ==
  ASSUME NEW x1, NEW x2, NEW x3, NEW x4, NEW x5, NEW x6, NEW o, x1.kind = "interface", x2.kind = "interface",
         x3.kind = "stream" /\ x3.of = o, x4.kind = "format" /\ x4.of = o,
         x5.kind = "endpoint" /\ x5.use # "feedback" /\ x5.of = o, x6.kind = "other", NEW kind \in Kinds, NEW of
  PROVE  /\ Sequence(<<x1, x2, x3, x4, x5, x6>>)
         /\ Count(<<x1, x2, x3, x4, x5, x6>>, kind, of) = IF of = o THEN 1 ELSE 0
  <1> DEFINE s == <<x1, x2, x3, x4, x5, x6>>  j == IF kind = "stream" THEN 3 ELSE IF kind = "format" THEN 4 ELSE 5
  <1>1. /\ s \in Seq({x1, x2, x3, x4, x5, x6}) /\ Len(s) = 6
        /\ s[1] = x1 /\ s[2] = x2 /\ s[3] = x3 /\ s[4] = x4 /\ s[5] = x5 /\ s[6] = x6
    OBVIOUS
  <1> HIDE DEF s
  <1>2. j \in 1..Len(s)
    BY <1>1
  <1>3. \A i \in 1..Len(s) : Belongs(s[i], kind, of) <=> (of = o /\ i = j)
    BY <1>1 DEF Belongs, Kinds
  <1> HIDE DEF j
  <1>4. Count(s, kind, of) = IF of = o THEN 1 ELSE 0
    BY <1>2, <1>3, OneCounted, NoneCounted
  <1>5. Sequence(s)
    BY <1>1 DEF Sequence
  <1> QED
    BY <1>4, <1>5 DEF s

\* A streaming interface of UAC2 has one of each for each of its alternates ...
LEMMA OutputStreamingCounted ==
  ASSUME NEW b, Carried(b), b.out > 0, NEW kind \in Kinds, NEW path \in Paths, NEW k \in Formats
  PROVE  /\ Sequence(OutputStreaming(b))
         /\ Count(OutputStreaming(b), kind, <<path, k>>) = IF path = "out" /\ k <= OUTPUT_FORMAT_COUNT(b) THEN 1 ELSE 0
  <1> DEFINE m == OUTPUT_FORMAT_COUNT(b)  of == <<path, k>>
             alts == [n \in Formats |-> When(n <= m, OutputAlternate(b, n))]
             i0 == <<Interface(b, "audioOut", 0, 0, 4)>>
  <1>1. ASSUME NEW n \in 1..m
        PROVE  /\ Sequence(OutputAlternate(b, n))
               /\ Count(OutputAlternate(b, n), kind, of) = IF path = "out" /\ k = n THEN 1 ELSE 0
    <2> DEFINE x1 == Interface(b, "audioOut", n, IF HasFeedback(b) THEN 2 ELSE 1, 4)
               x2 == Stream("out", n, ID_IT_USB, OutData(b)[n], OutChansHS(b)[n], StringIndex(b, "outputChan"))
               x3 == Format("out", n, OutSlotHS(b)[n], OutRes(b)[n])
               x4 == Endpoint("out", n, ENDPOINT_OUT(b, "audio"), IsoUse(b), EpSizeHS(OutPacketHS(b)[n]))
               x5 == Endpoint("out", n, ENDPOINT_IN(b, "feedback"), "feedback", FeedbackSize("hs"))
               t == <<x1, x2, x3, x4>>  u == When(HasFeedback(b), <<x5>>)
    <2>1. OutputAlternate(b, n) = t \o u
      BY DEF OutputAlternate
    <2>2. AllNumbered(b, Plain(2), u)
      BY OthersNumbered, OneNumbered, WhenNumbered
    <2>3. /\ x1.kind = "interface"
          /\ x2.kind = "stream" /\ x2.of = <<"out", n>> /\ x3.kind = "format" /\ x3.of = <<"out", n>>
          /\ x4.kind = "endpoint" /\ x4.use = IsoUse(b) /\ x4.of = <<"out", n>>
      BY DEF Interface, Stream, Format, Endpoint
    <2> HIDE DEF x1, x2, x3, x4, x5, u
    <2>4. Sequence(t) /\ Count(t, kind, of) = IF of = <<"out", n>> THEN 1 ELSE 0
      BY <2>3, IsoUses, FourCounted
    <2>5. Sequence(u) /\ Count(u, kind, of) = 0
      BY <2>2, OthersCounted DEF Plain
    <2>6. of = <<"out", n>> <=> (path = "out" /\ k = n)
      OBVIOUS
    <2> HIDE DEF t, of
    <2>7. Sequence(t \o u) /\ Count(t \o u, kind, of) = Count(t, kind, of) + Count(u, kind, of)
      BY <2>4, <2>5, BothCounted
    <2> QED
      BY <2>1, <2>4, <2>5, <2>6, <2>7
  <1>2. ASSUME NEW n \in Formats
        PROVE  /\ Sequence(alts[n])
               /\ Count(alts[n], kind, of) = IF path = "out" /\ k = n /\ k <= m THEN 1 ELSE 0
    <2>1. n \in Nat /\ (n <= m <=> n \in 1..m)
      BY AlternatesCounted DEF Formats
    <2> DEFINE s == OutputAlternate(b, n)
    <2>2. alts[n] = When(n <= m, s)
      OBVIOUS
    <2>3. n <= m => Sequence(s) /\ Count(s, kind, of) = IF path = "out" /\ k = n THEN 1 ELSE 0
      BY <1>1, <2>1
    <2> HIDE DEF alts, of, m, s
    <2>4. /\ Sequence(When(n <= m, s))
          /\ n <= m => Count(When(n <= m, s), kind, of) = Count(s, kind, of)
          /\ ~(n <= m) => Count(When(n <= m, s), kind, of) = 0
      <3>1. n <= m => When(n <= m, s) = s
        BY DEF When
      <3>2. ~(n <= m) => When(n <= m, s) = <<>>
        BY DEF When
      <3> QED
        BY <2>3, <3>1, <3>2, EmptyCounted
    <2> QED
      BY <2>2, <2>3, <2>4
  <1>3. AllNumbered(b, Plain(2), i0)
    BY AudioNumbers, InterfaceNumbered, OneNumbered DEF Placed, Alternate, AudioNames, OwnNames, Plain
  <1>4. Sequence(i0) /\ Count(i0, kind, of) = 0
    BY <1>3, OthersCounted DEF Plain
  <1>5. OutputStreaming(b) = i0 \o alts[1] \o alts[2] \o alts[3]
    BY DEF OutputStreaming
  <1>6. k \in 1..3
    BY DEF Formats
  <1> HIDE DEF alts, i0, of, m
  <1> DEFINE t1 == i0 \o alts[1]  t2 == t1 \o alts[2]
  <1>7. Sequence(t1) /\ Count(t1, kind, of) = Count(i0, kind, of) + Count(alts[1], kind, of)
    BY <1>2, <1>4, BothCounted DEF Formats
  <1> HIDE DEF t1
  <1>8. Sequence(t2) /\ Count(t2, kind, of) = Count(t1, kind, of) + Count(alts[2], kind, of)
    BY <1>2, <1>7, BothCounted DEF Formats
  <1> HIDE DEF t2
  <1>9. Sequence(t2 \o alts[3]) /\ Count(t2 \o alts[3], kind, of) = Count(t2, kind, of) + Count(alts[3], kind, of)
    BY <1>2, <1>8, BothCounted DEF Formats
  <1>10. OutputStreaming(b) = t2 \o alts[3]
    BY <1>5 DEF t1, t2
  <1>11. \A n \in 1..3 : Count(alts[n], kind, of) = IF path = "out" /\ k = n /\ k <= m THEN 1 ELSE 0
    BY <1>2 DEF Formats
  <1>12. Count(OutputStreaming(b), kind, of) = IF path = "out" /\ k <= m THEN 1 ELSE 0
    BY <1>4, <1>6, <1>7, <1>8, <1>9, <1>10, <1>11
  <1> QED
    BY <1>9, <1>10, <1>12 DEF of, m

\* ... and so has the one of input ...
LEMMA InputStreamingCounted ==
  ASSUME NEW b, Carried(b), b.in > 0, NEW kind \in Kinds, NEW path \in Paths, NEW k \in Formats
  PROVE  /\ Sequence(InputStreaming(b))
         /\ Count(InputStreaming(b), kind, <<path, k>>) = IF path = "in" /\ k <= INPUT_FORMAT_COUNT(b) THEN 1 ELSE 0
  <1> DEFINE m == INPUT_FORMAT_COUNT(b)  of == <<path, k>>
             alts == [n \in Formats |-> When(n <= m, InputAlternate(b, n))]
             i0 == <<Interface(b, "audioIn", 0, 0, 5)>>
  <1>1. ASSUME NEW n \in 1..m
        PROVE  /\ Sequence(InputAlternate(b, n))
               /\ Count(InputAlternate(b, n), kind, of) = IF path = "in" /\ k = n THEN 1 ELSE 0
    <2> DEFINE x1 == Interface(b, "audioIn", n, 1, 5)
               x2 == Stream("in", n, ID_OT_USB, "pcm", InChansHS(b)[n], StringIndex(b, "inputChan"))
               x3 == Format("in", n, InSlotHS(b)[1], InRes(b)[1])
               x4 == Endpoint("in", n, ENDPOINT_IN(b, "audio"), IsoUse(b), EpSizeHS(InPacketHS(b)[n]))
               t == <<x1, x2, x3, x4>>
    <2>1. InputAlternate(b, n) = t
      BY DEF InputAlternate
    <2>2. /\ x1.kind = "interface"
          /\ x2.kind = "stream" /\ x2.of = <<"in", n>> /\ x3.kind = "format" /\ x3.of = <<"in", n>>
          /\ x4.kind = "endpoint" /\ x4.use = IsoUse(b) /\ x4.of = <<"in", n>>
      BY DEF Interface, Stream, Format, Endpoint
    <2> HIDE DEF x1, x2, x3, x4
    <2>3. Sequence(t) /\ Count(t, kind, of) = IF of = <<"in", n>> THEN 1 ELSE 0
      BY <2>2, IsoUses, FourCounted
    <2>4. of = <<"in", n>> <=> (path = "in" /\ k = n)
      OBVIOUS
    <2> HIDE DEF t, of
    <2> QED
      BY <2>1, <2>3, <2>4
  <1>2. ASSUME NEW n \in Formats
        PROVE  /\ Sequence(alts[n])
               /\ Count(alts[n], kind, of) = IF path = "in" /\ k = n /\ k <= m THEN 1 ELSE 0
    <2>1. n \in Nat /\ (n <= m <=> n \in 1..m)
      BY AlternatesCounted DEF Formats
    <2> DEFINE s == InputAlternate(b, n)
    <2>2. alts[n] = When(n <= m, s)
      OBVIOUS
    <2>3. n <= m => Sequence(s) /\ Count(s, kind, of) = IF path = "in" /\ k = n THEN 1 ELSE 0
      BY <1>1, <2>1
    <2> HIDE DEF alts, of, m, s
    <2>4. /\ Sequence(When(n <= m, s))
          /\ n <= m => Count(When(n <= m, s), kind, of) = Count(s, kind, of)
          /\ ~(n <= m) => Count(When(n <= m, s), kind, of) = 0
      <3>1. n <= m => When(n <= m, s) = s
        BY DEF When
      <3>2. ~(n <= m) => When(n <= m, s) = <<>>
        BY DEF When
      <3> QED
        BY <2>3, <3>1, <3>2, EmptyCounted
    <2> QED
      BY <2>2, <2>3, <2>4
  <1>3. AllNumbered(b, Plain(2), i0)
    BY AudioNumbers, InterfaceNumbered, OneNumbered DEF Placed, Alternate, AudioNames, OwnNames, Plain
  <1>4. Sequence(i0) /\ Count(i0, kind, of) = 0
    BY <1>3, OthersCounted DEF Plain
  <1>5. InputStreaming(b) = i0 \o alts[1] \o alts[2] \o alts[3]
    BY DEF InputStreaming
  <1>6. k \in 1..3
    BY DEF Formats
  <1> HIDE DEF alts, i0, of, m
  <1> DEFINE t1 == i0 \o alts[1]  t2 == t1 \o alts[2]
  <1>7. Sequence(t1) /\ Count(t1, kind, of) = Count(i0, kind, of) + Count(alts[1], kind, of)
    BY <1>2, <1>4, BothCounted DEF Formats
  <1> HIDE DEF t1
  <1>8. Sequence(t2) /\ Count(t2, kind, of) = Count(t1, kind, of) + Count(alts[2], kind, of)
    BY <1>2, <1>7, BothCounted DEF Formats
  <1> HIDE DEF t2
  <1>9. Sequence(t2 \o alts[3]) /\ Count(t2 \o alts[3], kind, of) = Count(t2, kind, of) + Count(alts[3], kind, of)
    BY <1>2, <1>8, BothCounted DEF Formats
  <1>10. InputStreaming(b) = t2 \o alts[3]
    BY <1>5 DEF t1, t2
  <1>11. \A n \in 1..3 : Count(alts[n], kind, of) = IF path = "in" /\ k = n /\ k <= m THEN 1 ELSE 0
    BY <1>2 DEF Formats
  <1>12. Count(InputStreaming(b), kind, of) = IF path = "in" /\ k <= m THEN 1 ELSE 0
    BY <1>4, <1>6, <1>7, <1>8, <1>9, <1>10, <1>11
  <1> QED
    BY <1>9, <1>10, <1>12 DEF of, m

\* ... while those of UAC1 have one alternate.
LEMMA Streaming1Counted ==
  ASSUME NEW b, Carried(b), NEW kind \in Kinds, NEW path \in Paths
  PROVE  /\ Sequence(OutputStreaming1(b)) /\ Sequence(InputStreaming1(b))
         /\ Count(OutputStreaming1(b), kind, <<path, 1>>) = IF path = "out" THEN 1 ELSE 0
         /\ Count(InputStreaming1(b), kind, <<path, 1>>) = IF path = "in" THEN 1 ELSE 0
  <1> DEFINE of == <<path, 1>>
  <1>1. /\ \A num, name, alternate, eps, string : InterfaceAt(num, name, alternate, eps, string).kind = "interface"
        /\ \A n : Other(n).kind = "other"
        /\ \A bytes, p, n, link, data, chans, string :
             LET x == Bytes(bytes, Stream(p, n, link, data, chans, string)) IN x.kind = "stream" /\ x.of = <<p, n>>
        /\ \A p, slot, bits : LET x == FormatRates(b, p, slot, bits) IN x.kind = "format" /\ x.of = <<p, 1>>
        /\ \A bytes, p, n, addr, use, size :
             LET x == Bytes(bytes, Endpoint(p, n, addr, use, size))
             IN  x.kind = "endpoint" /\ x.use = use /\ x.of = <<p, n>>
    BY DEF InterfaceAt, Other, Stream, Format, FormatRates, Endpoint, Bytes, With
  <1>2. /\ Sequence(OutputStreaming1(b))
        /\ Count(OutputStreaming1(b), kind, of) = IF path = "out" THEN 1 ELSE 0
    <2> DEFINE x1 == InterfaceAt(1, "audioOut", 0, 0, StringIndex(b, "outputInterface1"))
               x2 == InterfaceAt(1, "audioOut", 1, IF HasFeedback(b) THEN 2 ELSE 1, StringIndex(b, "outputInterface1"))
               x3 == Bytes(7, Stream("out", 1, 1, "pcm", OutChansFS(b), StringIndex(b, "outputChan")))
               x4 == FormatRates(b, "out", OutSlotFS(b)[1], OutRes(b)[1])
               x5 == Bytes(9, Endpoint("out", 1, ENDPOINT_OUT(b, "audio"), IsoUse(b), OutPacketFS(b)[1]))
               x6 == Other(7)
               x7 == Bytes(9, Endpoint("out", 1, ENDPOINT_IN(b, "feedback"), "feedback", FeedbackSize("fs")))
               t == <<x1, x2, x3, x4, x5, x6>>  u == When(HasFeedback(b), <<x7>>)
    <2>1. OutputStreaming1(b) = t \o u
      BY DEF OutputStreaming1
    <2>2. AllNumbered(b, Plain(1), u)
      BY OthersBytes, OneNumbered, WhenNumbered
    <2>3. /\ x1.kind = "interface" /\ x2.kind = "interface" /\ x6.kind = "other"
          /\ x3.kind = "stream" /\ x3.of = <<"out", 1>> /\ x4.kind = "format" /\ x4.of = <<"out", 1>>
          /\ x5.kind = "endpoint" /\ x5.use = IsoUse(b) /\ x5.of = <<"out", 1>>
      BY <1>1
    <2> HIDE DEF x1, x2, x3, x4, x5, x6, x7, u
    <2>4. Sequence(t) /\ Count(t, kind, of) = IF of = <<"out", 1>> THEN 1 ELSE 0
      BY <2>3, IsoUses, SixCounted
    <2>5. Sequence(u) /\ Count(u, kind, of) = 0
      BY <2>2, OthersCounted DEF Plain
    <2>6. of = <<"out", 1>> <=> path = "out"
      OBVIOUS
    <2> HIDE DEF t, of
    <2>7. Sequence(t \o u) /\ Count(t \o u, kind, of) = Count(t, kind, of) + Count(u, kind, of)
      BY <2>4, <2>5, BothCounted
    <2> QED
      BY <2>1, <2>4, <2>5, <2>6, <2>7
  <1>3. /\ Sequence(InputStreaming1(b))
        /\ Count(InputStreaming1(b), kind, of) = IF path = "in" THEN 1 ELSE 0
    <2> DEFINE num == OUTPUT_INTERFACES_A1(b) + 1
               x1 == InterfaceAt(num, "audioIn", 0, 0, StringIndex(b, "inputInterface1"))
               x2 == InterfaceAt(num, "audioIn", 1, 1, StringIndex(b, "inputInterface1"))
               x3 == Bytes(7, Stream("in", 1, 7, "pcm", InChansFS(b), StringIndex(b, "inputChan")))
               x4 == FormatRates(b, "in", InSlotFS(b)[1], InRes(b)[1])
               x5 == Bytes(9, Endpoint("in", 1, ENDPOINT_IN(b, "audio"), IsoUse(b), InPacketFS(b)))
               x6 == Other(7)
               t == <<x1, x2, x3, x4, x5, x6>>
    <2>1. InputStreaming1(b) = t
      BY DEF InputStreaming1
    <2>2. /\ x1.kind = "interface" /\ x2.kind = "interface" /\ x6.kind = "other"
          /\ x3.kind = "stream" /\ x3.of = <<"in", 1>> /\ x4.kind = "format" /\ x4.of = <<"in", 1>>
          /\ x5.kind = "endpoint" /\ x5.use = IsoUse(b) /\ x5.of = <<"in", 1>>
      BY <1>1
    <2> HIDE DEF x1, x2, x3, x4, x5, x6
    <2>3. Sequence(t) /\ Count(t, kind, of) = IF of = <<"in", 1>> THEN 1 ELSE 0
      BY <2>2, IsoUses, SixCounted
    <2>4. of = <<"in", 1>> <=> path = "in"
      OBVIOUS
    <2> HIDE DEF t, of
    <2> QED
      BY <2>1, <2>3, <2>4
  <1> QED
    BY <1>2, <1>3

\* The streaming interfaces are the second and the third of seven parts.
LEMMA SevenCounted ==
  ASSUME NEW i1, NEW i2, NEW i3, NEW i4, NEW i5, NEW i6, NEW i7, NEW kind, NEW of,
         Sequence(i1), Sequence(i2), Sequence(i3), Sequence(i4), Sequence(i5), Sequence(i6), Sequence(i7),
         Count(i1, kind, of) = 0, Count(i4, kind, of) = 0, Count(i5, kind, of) = 0,
         Count(i6, kind, of) = 0, Count(i7, kind, of) = 0
  PROVE  Count(i1 \o i2 \o i3 \o i4 \o i5 \o i6 \o i7, kind, of) = Count(i2, kind, of) + Count(i3, kind, of)
  <1> DEFINE t2 == i1 \o i2  t3 == t2 \o i3  t4 == t3 \o i4  t5 == t4 \o i5  t6 == t5 \o i6
  <1>1. Sequence(t2) /\ Count(t2, kind, of) = Count(i2, kind, of) /\ Count(i2, kind, of) \in Nat
    BY BothCounted
  <1> HIDE DEF t2
  <1>2. Sequence(t3) /\ Count(t3, kind, of) = Count(t2, kind, of) + Count(i3, kind, of) /\ Count(t3, kind, of) \in Nat
    <2>1. Sequence(t3) /\ Count(t3, kind, of) = Count(t2, kind, of) + Count(i3, kind, of)
      BY <1>1, BothCounted
    <2>2. Count(i3, kind, of) \in Nat
      BY <1>1, BothCounted
    <2> QED
      BY <1>1, <2>1, <2>2
  <1> HIDE DEF t3
  <1>3. Sequence(t4) /\ Count(t4, kind, of) = Count(t3, kind, of)
    BY <1>2, BothCounted
  <1> HIDE DEF t4
  <1>4. Sequence(t5) /\ Count(t5, kind, of) = Count(t3, kind, of)
    BY <1>2, <1>3, BothCounted
  <1> HIDE DEF t5
  <1>5. Sequence(t6) /\ Count(t6, kind, of) = Count(t3, kind, of)
    BY <1>2, <1>4, BothCounted
  <1> HIDE DEF t6
  <1>6. Count(t6 \o i7, kind, of) = Count(t3, kind, of)
    BY <1>2, <1>5, BothCounted
  <1> QED
    BY <1>1, <1>2, <1>6 DEF t2, t3, t4, t5, t6

\* So each alternate of a descriptor has a record of each kind ...
AlternatesOf(b, class, path) == IF class = 1 THEN 1 ELSE FormatCount(b, path)
Offered(b, class, items) ==
  Carried(b) => \A path \in PathsOf(b), kind \in Kinds :
                  \A n \in 1..AlternatesOf(b, class, path) : Count(items, kind, <<path, n>>) = 1

\* ... in UAC2 ...
LEMMA CfgDesc2Offered == ASSUME NEW b PROVE Offered(b, 2, CfgDesc2(b).items)
  <1> SUFFICES ASSUME Carried(b), NEW path \in PathsOf(b), NEW kind \in Kinds, NEW n \in 1..AlternatesOf(b, 2, path)
               PROVE  Count(CfgDesc2(b).items, kind, <<path, n>>) = 1
    BY DEF Offered
  <1> DEFINE i1 == When(Audio(b), AudioControl(b))
             i2 == When(b.out > 0, OutputStreaming(b))
             i3 == When(b.in > 0, InputStreaming(b))
             i4 == When("midi" \in b.has, MidiDescriptors(b))
             i5 == When("control" \in b.has, ControlInterface(b))
             i6 == When("dfu" \in b.has, DfuInterface(b))
             i7 == When("hid" \in b.has, HidDescriptors(b))
             of == <<path, n>>
  <1>1. /\ AllNumbered(b, Plain(2), i1) /\ AllNumbered(b, Plain(2), i4) /\ AllNumbered(b, Plain(2), i5)
        /\ AllNumbered(b, Plain(2), i6) /\ AllNumbered(b, Plain(2), i7)
    BY AudioControlNumbered, OwnNumbered, WhenNumbered DEF Plain
  <1>2. path \in Paths /\ n \in 1..FormatCount(b, path) /\ n \in Formats
    BY AlternatesCounted DEF PathsOf, Paths, AlternatesOf, FormatCount, Formats
  <1>3. /\ b.out > 0 => Sequence(OutputStreaming(b)) /\ Count(OutputStreaming(b), kind, of) = IF path = "out" THEN 1 ELSE 0
        /\ b.in > 0 => Sequence(InputStreaming(b)) /\ Count(InputStreaming(b), kind, of) = IF path = "in" THEN 1 ELSE 0
    BY <1>2, OutputStreamingCounted, InputStreamingCounted DEF FormatCount, Paths
  <1>4. CfgDesc2(b).items = i1 \o i2 \o i3 \o i4 \o i5 \o i6 \o i7
    BY DEF CfgDesc2
  <1>5. /\ Sequence(i2) /\ (b.out > 0 => Count(i2, kind, of) = Count(OutputStreaming(b), kind, of))
        /\ ~(b.out > 0) => Count(i2, kind, of) = 0
    <2> DEFINE s == OutputStreaming(b)
    <2>1. i2 = When(b.out > 0, s)
      OBVIOUS
    <2>2. b.out > 0 => Sequence(s)
      BY <1>3
    <2> HIDE DEF i2, s, of
    <2>3. /\ Sequence(When(b.out > 0, s))
          /\ b.out > 0 => Count(When(b.out > 0, s), kind, of) = Count(s, kind, of)
          /\ ~(b.out > 0) => Count(When(b.out > 0, s), kind, of) = 0
      <3>1. b.out > 0 => When(b.out > 0, s) = s
        BY DEF When
      <3>2. ~(b.out > 0) => When(b.out > 0, s) = <<>>
        BY DEF When
      <3> QED
        BY <2>2, <3>1, <3>2, EmptyCounted
    <2> QED
      BY <2>1, <2>3 DEF s
  <1>6. /\ Sequence(i3) /\ (b.in > 0 => Count(i3, kind, of) = Count(InputStreaming(b), kind, of))
        /\ ~(b.in > 0) => Count(i3, kind, of) = 0
    <2> DEFINE s == InputStreaming(b)
    <2>1. i3 = When(b.in > 0, s)
      OBVIOUS
    <2>2. b.in > 0 => Sequence(s)
      BY <1>3
    <2> HIDE DEF i3, s, of
    <2>3. /\ Sequence(When(b.in > 0, s))
          /\ b.in > 0 => Count(When(b.in > 0, s), kind, of) = Count(s, kind, of)
          /\ ~(b.in > 0) => Count(When(b.in > 0, s), kind, of) = 0
      <3>1. b.in > 0 => When(b.in > 0, s) = s
        BY DEF When
      <3>2. ~(b.in > 0) => When(b.in > 0, s) = <<>>
        BY DEF When
      <3> QED
        BY <2>2, <3>1, <3>2, EmptyCounted
    <2> QED
      BY <2>1, <2>3 DEF s
  <1> HIDE DEF i1, i2, i3, i4, i5, i6, i7
  <1>7. /\ Sequence(i1) /\ Sequence(i4) /\ Sequence(i5) /\ Sequence(i6) /\ Sequence(i7)
        /\ Count(i1, kind, of) = 0 /\ Count(i4, kind, of) = 0 /\ Count(i5, kind, of) = 0
        /\ Count(i6, kind, of) = 0 /\ Count(i7, kind, of) = 0
    BY <1>1, <1>2, OthersCounted DEF Plain
  <1> HIDE DEF of
  <1>8. Count(CfgDesc2(b).items, kind, of) = Count(i2, kind, of) + Count(i3, kind, of)
    BY <1>4, <1>5, <1>6, <1>7, SevenCounted
  <1>9. Count(CfgDesc2(b).items, kind, of) = 1
    BY <1>3, <1>5, <1>6, <1>8 DEF PathsOf
  <1> QED
    BY <1>9 DEF of

\* ... and in UAC1.
LEMMA CfgDesc1Offered == ASSUME NEW b PROVE Offered(b, 1, CfgDesc1(b).items)
  <1> SUFFICES ASSUME Carried(b), NEW path \in PathsOf(b), NEW kind \in Kinds
               PROVE  Count(CfgDesc1(b).items, kind, <<path, 1>>) = 1
    BY DEF Offered, AlternatesOf
  <1> DEFINE a1 == When(Audio(b), AudioControl1(b))
             i1 == <<Other(9)>> \o a1
             i2 == When(b.out > 0, OutputStreaming1(b))
             i3 == When(b.in > 0, InputStreaming1(b))
             i4 == When("midi" \in b.has, Midi1(b))
             i5 == When("dfu" \in b.has, DfuInterface1(b))
             i6 == When("control" \in b.has, ControlInterface1(b))
             i7 == When("hid" \in b.has, HidDescriptors1(b))
             of == <<path, 1>>
  <1>1. /\ AllNumbered(b, Plain(1), <<Other(9)>>) /\ AllNumbered(b, Plain(1), a1)
        /\ AllNumbered(b, Plain(1), i4) /\ AllNumbered(b, Plain(1), i5)
        /\ AllNumbered(b, Plain(1), i6) /\ AllNumbered(b, Plain(1), i7)
    BY OthersNumbered, OneNumbered, AudioControl1Numbered, Midi1Numbered, Own1Numbered, WhenNumbered DEF Plain
  <1>2. AllNumbered(b, Plain(1), i1)
    BY <1>1, BothNumbered
  <1>3. path \in Paths
    BY DEF PathsOf, Paths
  <1>4. /\ Sequence(OutputStreaming1(b)) /\ Count(OutputStreaming1(b), kind, of) = IF path = "out" THEN 1 ELSE 0
        /\ Sequence(InputStreaming1(b)) /\ Count(InputStreaming1(b), kind, of) = IF path = "in" THEN 1 ELSE 0
    BY <1>3, Streaming1Counted
  <1>5. CfgDesc1(b).items = i1 \o i2 \o i3 \o i4 \o i5 \o i6 \o i7
    BY DEF CfgDesc1
  <1>6. /\ Sequence(i2) /\ (b.out > 0 => Count(i2, kind, of) = Count(OutputStreaming1(b), kind, of))
        /\ ~(b.out > 0) => Count(i2, kind, of) = 0
    <2> DEFINE s == OutputStreaming1(b)
    <2>1. i2 = When(b.out > 0, s)
      OBVIOUS
    <2>2. b.out > 0 => Sequence(s)
      BY <1>4
    <2> HIDE DEF i2, s, of
    <2>3. /\ Sequence(When(b.out > 0, s))
          /\ b.out > 0 => Count(When(b.out > 0, s), kind, of) = Count(s, kind, of)
          /\ ~(b.out > 0) => Count(When(b.out > 0, s), kind, of) = 0
      <3>1. b.out > 0 => When(b.out > 0, s) = s
        BY DEF When
      <3>2. ~(b.out > 0) => When(b.out > 0, s) = <<>>
        BY DEF When
      <3> QED
        BY <2>2, <3>1, <3>2, EmptyCounted
    <2> QED
      BY <2>1, <2>3 DEF s
  <1>7. /\ Sequence(i3) /\ (b.in > 0 => Count(i3, kind, of) = Count(InputStreaming1(b), kind, of))
        /\ ~(b.in > 0) => Count(i3, kind, of) = 0
    <2> DEFINE s == InputStreaming1(b)
    <2>1. i3 = When(b.in > 0, s)
      OBVIOUS
    <2>2. b.in > 0 => Sequence(s)
      BY <1>4
    <2> HIDE DEF i3, s, of
    <2>3. /\ Sequence(When(b.in > 0, s))
          /\ b.in > 0 => Count(When(b.in > 0, s), kind, of) = Count(s, kind, of)
          /\ ~(b.in > 0) => Count(When(b.in > 0, s), kind, of) = 0
      <3>1. b.in > 0 => When(b.in > 0, s) = s
        BY DEF When
      <3>2. ~(b.in > 0) => When(b.in > 0, s) = <<>>
        BY DEF When
      <3> QED
        BY <2>2, <3>1, <3>2, EmptyCounted
    <2> QED
      BY <2>1, <2>3 DEF s
  <1> HIDE DEF i1, i2, i3, i4, i5, i6, i7
  <1>8. /\ Sequence(i1) /\ Sequence(i4) /\ Sequence(i5) /\ Sequence(i6) /\ Sequence(i7)
        /\ Count(i1, kind, of) = 0 /\ Count(i4, kind, of) = 0 /\ Count(i5, kind, of) = 0
        /\ Count(i6, kind, of) = 0 /\ Count(i7, kind, of) = 0
    BY <1>1, <1>2, <1>3, OthersCounted DEF Plain
  <1> HIDE DEF of
  <1>9. Count(CfgDesc1(b).items, kind, of) = Count(i2, kind, of) + Count(i3, kind, of)
    BY <1>5, <1>6, <1>7, <1>8, SevenCounted
  <1>10. Count(CfgDesc1(b).items, kind, of) = 1
    BY <1>4, <1>6, <1>7, <1>9 DEF PathsOf
  <1> QED
    BY <1>10 DEF of

\* What is modified for the speed counts as before.
LEMMA MungedCounted ==
  ASSUME NEW b, NEW c, NEW s, NEW items, AllNumbered(b, c, items), NEW kind \in Kinds, NEW of
  PROVE  Count(Munged(b, s, items), kind, of) = Count(items, kind, of)
  <1> DEFINE munged == EachMunged(b, s, items)
  <1>1. Len(items) \in Nat /\ (Munged(b, s, items) = items \/ Munged(b, s, items) = munged)
    BY MungedEach
  <1>2. Len(munged) = Len(items)
    BY <1>1 DEF EachMunged
  <1>3. ASSUME NEW i \in 1..Len(items) PROVE Belongs(munged[i], kind, of) <=> Belongs(items[i], kind, of)
    <2> DEFINE x == items[i]  y == munged[i]
    <2>1. Unmoved(x, y) /\ Numbered(b, c, x)
      BY MungedUnmoved, ItemNumbered DEF EachMunged
    <2> HIDE DEF x, y, munged
    <2>2. "kind" \in DOMAIN x /\ y.kind = x.kind
      BY <2>1 DEF Numbered, Unmoved
    <2>3. x.kind = kind => "of" \in DOMAIN x /\ (kind = "endpoint" => "use" \in DOMAIN x)
      BY <2>1 DEF Numbered, Kinds
    <2>4. x.kind = kind => y.of = x.of /\ (kind = "endpoint" => y.use = x.use)
      BY <2>1, <2>3 DEF Unmoved
    <2>5. Belongs(y, kind, of) <=> Belongs(x, kind, of)
      BY <2>2, <2>4 DEF Belongs
    <2> QED
      BY <2>5 DEF x, y
  <1>4. Places(munged, kind, of) = Places(items, kind, of)
    <2> HIDE DEF munged
    <2> QED
      BY <1>2, <1>3 DEF Places
  <1> HIDE DEF munged
  <1> QED
    BY <1>1, <1>4 DEF Count
-----------------------------------------------------------------------------
(***************************************************************************)
(* What a descriptor has: the association of the audio function, the       *)
(* interfaces that Windows binds a driver to, and the records of streams.  *)
(***************************************************************************)
\* A record is in a sequence.
Contains(s, x) == \E i \in 1..Len(s) : s[i] = x
Shown(b, items) ==
  /\ Audio(b) => \E i \in 1..Len(items) : items[i].kind = "association"
  /\ \A name \in WinUsb(b) :
       \E i \in 1..Len(items) : items[i].kind = "interface" /\ items[i].name = name
  /\ Offered(b, 2, items)

\* The class of all the records of a descriptor
LEMMA Classes == \A n : Whole(n).class = n /\ Whole(n).streams
  BY DEF Whole

\* It is in a sequence that others follow, and in one that follows others ...
LEMMA ContainedEither ==
  ASSUME NEW b, NEW c, NEW s, NEW t, NEW x, AllNumbered(b, c, s), AllNumbered(b, c, t),
         Contains(s, x) \/ Contains(t, x)
  PROVE  Contains(s \o t, x)
  <1>1. PICK S : s \in Seq(S)
    BY DEF AllNumbered
  <1>2. PICK T : t \in Seq(T)
    BY DEF AllNumbered
  <1> DEFINE U == S \union T
  <1>3. s \in Seq(U) /\ t \in Seq(U)
    BY <1>1, <1>2, SeqMonotonic
  <1> HIDE DEF U
  <1>4. Len(s) \in Nat /\ Len(t) \in Nat /\ Len(s \o t) = Len(s) + Len(t)
    BY <1>3, ConcatProperties, LenProperties
  <1>5. \A i \in 1..Len(s \o t) : (s \o t)[i] = IF i <= Len(s) THEN s[i] ELSE t[i - Len(s)]
    BY <1>3, ConcatProperties
  <1>6. ASSUME NEW i \in 1..Len(s), s[i] = x PROVE Contains(s \o t, x)
    BY <1>4, <1>5, <1>6 DEF Contains
  <1>7. ASSUME NEW i \in 1..Len(t), t[i] = x PROVE Contains(s \o t, x)
    <2>1. i + Len(s) \in 1..Len(s \o t) /\ ~(i + Len(s) <= Len(s)) /\ (i + Len(s)) - Len(s) = i
      BY <1>4
    <2>2. (s \o t)[i + Len(s)] = x
      BY <1>5, <1>7, <2>1
    <2> QED
      BY <2>1, <2>2 DEF Contains
  <1> QED
    BY <1>6, <1>7 DEF Contains

\* ... and first in its own.
LEMMA ContainedFirst ==
  ASSUME NEW x
  PROVE  /\ Contains(<<x>>, x) /\ \A y : Contains(<<x, y>>, x)
         /\ \A s : Contains(s, x) => Contains(When(TRUE, s), x)
  BY DEF Contains, When

\* The UAC2 descriptor has them ...
LEMMA CfgDesc2Shown == ASSUME NEW b PROVE Shown(b, CfgDesc2(b).items)
  <1> DEFINE i1 == When(Audio(b), AudioControl(b))
             i2 == When(b.out > 0, OutputStreaming(b))
             i3 == When(b.in > 0, InputStreaming(b))
             i4 == When("midi" \in b.has, MidiDescriptors(b))
             i5 == When("control" \in b.has, ControlInterface(b))
             i6 == When("dfu" \in b.has, DfuInterface(b))
             i7 == When("hid" \in b.has, HidDescriptors(b))
             items == CfgDesc2(b).items
  <1>1. /\ AllNumbered(b, Whole(2), i1) /\ AllNumbered(b, Whole(2), i2) /\ AllNumbered(b, Whole(2), i3) /\ AllNumbered(b, Whole(2), i4)
        /\ AllNumbered(b, Whole(2), i5) /\ AllNumbered(b, Whole(2), i6) /\ AllNumbered(b, Whole(2), i7)
    BY AudioControlNumbered, OutputStreamingNumbered, InputStreamingNumbered, OwnNumbered, WhenNumbered, Classes
  <1>2. items = i1 \o i2 \o i3 \o i4 \o i5 \o i6 \o i7
    BY DEF CfgDesc2
  <1>3. ASSUME Audio(b) PROVE \E x : x.kind = "association" /\ Contains(i1, x)
    <2> DEFINE x == [kind |-> "association", first |-> 0, count |-> AUDIO_INTERFACE_COUNT(b)]
               y == Interface(b, "audioControl", 0, IF NUM_CLOCKS(b) > 1 THEN 1 ELSE 0, StringIndex(b, "product2"))
               r1 == When(b.out > 0, OutputPath(b))
               r2 == When(b.in > 0, InputPath(b))
               r3 == When("mixer" \in b.has, MixerUnits(b))
               r4 == When(NUM_CLOCKS(b) > 1, InterruptEndpoint(b))
    <2>1. AudioControl(b) = <<x, y>> \o ClockSources(b) \o ClockSelector(b) \o r1 \o r2 \o r3 \o r4
      BY DEF AudioControl
    <2>2. x.kind = "association" /\ Numbered(b, Whole(2), x)
      BY Classes DEF Numbered, OfStream
    <2>3. Numbered(b, Whole(2), y)
      BY <1>3, AudioNumbers, InterfaceNumbered, Classes DEF Placed, Alternate, AudioNames, OwnNames
    <2>4. AllNumbered(b, Whole(2), r1) /\ AllNumbered(b, Whole(2), r2)
      BY PathsNumbered, WhenNumbered
    <2>5. AllNumbered(b, Whole(2), r3) /\ AllNumbered(b, Whole(2), r4)
      BY OthersNumbered, OneNumbered, TwoNumbered, WhenNumbered DEF MixerUnits, InterruptEndpoint
    <2>6. i1 = AudioControl(b)
      BY <1>3 DEF When
    <2> HIDE DEF x, y, r1, r2, r3, r4, i1
    <2>7. Contains(<<x, y>>, x) /\ AllNumbered(b, Whole(2), <<x, y>>)
      BY <2>2, <2>3, TwoNumbered, ContainedFirst
    <2> DEFINE t1 == <<x, y>> \o ClockSources(b)  t2 == t1 \o ClockSelector(b)
               t3 == t2 \o r1  t4 == t3 \o r2  t5 == t4 \o r3
    <2>8. AllNumbered(b, Whole(2), t1) /\ Contains(t1, x)
      BY <2>7, ClocksNumbered, BothNumbered, ContainedEither
    <2> HIDE DEF t1
    <2>9. AllNumbered(b, Whole(2), t2) /\ Contains(t2, x)
      BY <2>8, ClocksNumbered, BothNumbered, ContainedEither
    <2> HIDE DEF t2
    <2>10. AllNumbered(b, Whole(2), t3) /\ Contains(t3, x)
      BY <2>4, <2>9, BothNumbered, ContainedEither
    <2> HIDE DEF t3
    <2>11. AllNumbered(b, Whole(2), t4) /\ Contains(t4, x)
      BY <2>4, <2>10, BothNumbered, ContainedEither
    <2> HIDE DEF t4
    <2>12. AllNumbered(b, Whole(2), t5) /\ Contains(t5, x)
      BY <2>5, <2>11, BothNumbered, ContainedEither
    <2> HIDE DEF t5
    <2>13. Contains(t5 \o r4, x)
      BY <2>5, <2>12, ContainedEither
    <2>14. AudioControl(b) = t5 \o r4
      BY <2>1 DEF t1, t2, t3, t4, t5
    <2> QED
      BY <2>2, <2>6, <2>13, <2>14
  <1>4. ASSUME "control" \in b.has PROVE \E x : x.kind = "interface" /\ x.name = "control" /\ Contains(i5, x)
    <2> DEFINE x == Interface(b, "control", 0, 0, StringIndex(b, "control"))
    <2>1. x.kind = "interface" /\ x.name = "control"
      BY DEF Interface
    <2>2. i5 = <<x>>
      BY <1>4 DEF When, ControlInterface
    <2> HIDE DEF x, i5
    <2> QED
      BY <2>1, <2>2, ContainedFirst
  <1>5. ASSUME "dfu" \in b.has PROVE \E x : x.kind = "interface" /\ x.name = "dfu" /\ Contains(i6, x)
    <2> DEFINE x == Interface(b, "dfu", 0, 0, StringIndex(b, "dfu"))
    <2>1. x.kind = "interface" /\ x.name = "dfu"
      BY DEF Interface
    <2>2. i6 = <<x>>
      BY <1>5 DEF When, DfuInterface
    <2> HIDE DEF x, i6
    <2> QED
      BY <2>1, <2>2, ContainedFirst
  <1> HIDE DEF i1, i2, i3, i4, i5, i6, i7, items
  <1>6. ASSUME NEW x, Contains(i1, x) \/ Contains(i5, x) \/ Contains(i6, x) PROVE Contains(items, x)
    <2> DEFINE t2 == i1 \o i2  t3 == t2 \o i3  t4 == t3 \o i4  t5 == t4 \o i5  t6 == t5 \o i6
    <2>1. AllNumbered(b, Whole(2), t2) /\ (Contains(i1, x) => Contains(t2, x))
      BY <1>1, BothNumbered, ContainedEither
    <2> HIDE DEF t2
    <2>2. AllNumbered(b, Whole(2), t3) /\ (Contains(t2, x) => Contains(t3, x))
      BY <1>1, <2>1, BothNumbered, ContainedEither
    <2> HIDE DEF t3
    <2>3. AllNumbered(b, Whole(2), t4) /\ (Contains(t3, x) => Contains(t4, x))
      BY <1>1, <2>2, BothNumbered, ContainedEither
    <2> HIDE DEF t4
    <2>4. AllNumbered(b, Whole(2), t5) /\ (Contains(t4, x) \/ Contains(i5, x) => Contains(t5, x))
      BY <1>1, <2>3, BothNumbered, ContainedEither
    <2> HIDE DEF t5
    <2>5. AllNumbered(b, Whole(2), t6) /\ (Contains(t5, x) \/ Contains(i6, x) => Contains(t6, x))
      BY <1>1, <2>4, BothNumbered, ContainedEither
    <2> HIDE DEF t6
    <2>6. Contains(t6 \o i7, x)
      BY <1>1, <1>6, <2>1, <2>2, <2>3, <2>4, <2>5, ContainedEither
    <2>7. items = t6 \o i7
      BY <1>2 DEF t2, t3, t4, t5, t6
    <2> QED
      BY <2>6, <2>7
  <1>7. Audio(b) => \E i \in 1..Len(items) : items[i].kind = "association"
    BY <1>3, <1>6 DEF Contains
  <1>8. "control" \in b.has => \E i \in 1..Len(items) : items[i].kind = "interface" /\ items[i].name = "control"
    BY <1>4, <1>6 DEF Contains
  <1>9. "dfu" \in b.has => \E i \in 1..Len(items) : items[i].kind = "interface" /\ items[i].name = "dfu"
    BY <1>5, <1>6 DEF Contains
  <1> QED
    BY <1>7, <1>8, <1>9, CfgDesc2Offered DEF Shown, WinUsb, items

\* ... the UAC1 descriptor has the interfaces ...
LEMMA CfgDesc1Shown ==
  ASSUME NEW b, NEW name \in WinUsb(b)
  PROVE  \E i \in 1..Len(CfgDesc1(b).items) :
           CfgDesc1(b).items[i].kind = "interface" /\ CfgDesc1(b).items[i].name = name
  <1> DEFINE i1 == When(Audio(b), AudioControl1(b))
             i2 == When(b.out > 0, OutputStreaming1(b))
             i3 == When(b.in > 0, InputStreaming1(b))
             i4 == When("midi" \in b.has, Midi1(b))
             i5 == When("dfu" \in b.has, DfuInterface1(b))
             i6 == When("control" \in b.has, ControlInterface1(b))
             i7 == When("hid" \in b.has, HidDescriptors1(b))
             items == CfgDesc1(b).items
  <1>1. /\ AllNumbered(b, Whole(1), <<Other(9)>>)
        /\ AllNumbered(b, Whole(1), i1) /\ AllNumbered(b, Whole(1), i2) /\ AllNumbered(b, Whole(1), i3) /\ AllNumbered(b, Whole(1), i4)
        /\ AllNumbered(b, Whole(1), i5) /\ AllNumbered(b, Whole(1), i6) /\ AllNumbered(b, Whole(1), i7)
    BY OthersNumbered, OneNumbered, AudioControl1Numbered, OutputStreaming1Numbered, InputStreaming1Numbered, Midi1Numbered, Own1Numbered,
       WhenNumbered, Classes
  <1>2. items = <<Other(9)>> \o i1 \o i2 \o i3 \o i4 \o i5 \o i6 \o i7
    BY DEF CfgDesc1
  <1>3. \A num, string :
          LET x == InterfaceAt(num, name, 0, 0, string) IN x.kind = "interface" /\ x.name = name
    BY DEF InterfaceAt, Bytes, With
  <1>4. \E x : x.kind = "interface" /\ x.name = name /\ (Contains(i5, x) \/ Contains(i6, x))
    <2>1. CASE name = "dfu"
      <3> DEFINE x == InterfaceAt(INTERFACE_NUMBER(b, "dfu"), "dfu", 0, 0, StringIndex(b, "dfu"))
      <3>1. x.kind = "interface" /\ x.name = "dfu"
        BY <1>3, <2>1
      <3>2. i5 = <<x, Other(9)>>
        BY <2>1 DEF When, DfuInterface1, WinUsb
      <3> HIDE DEF x, i5
      <3> QED
        BY <2>1, <3>1, <3>2, ContainedFirst
    <2>2. CASE name = "control"
      <3> DEFINE x == InterfaceAt(OUTPUT_INTERFACES_A1(b) + INPUT_INTERFACES_A1(b) + 1, "control", 0, 0,
                                  StringIndex(b, "control"))
      <3>1. x.kind = "interface" /\ x.name = "control"
        BY <1>3, <2>2
      <3>2. i6 = <<x>>
        BY <2>2 DEF When, ControlInterface1, WinUsb
      <3> HIDE DEF x, i6
      <3> QED
        BY <2>2, <3>1, <3>2, ContainedFirst
    <2> QED
      BY <2>1, <2>2 DEF WinUsb
  <1> HIDE DEF i1, i2, i3, i4, i5, i6, i7, items
  <1>5. ASSUME NEW x, Contains(i5, x) \/ Contains(i6, x) PROVE Contains(items, x)
    <2> DEFINE t1 == <<Other(9)>> \o i1  t2 == t1 \o i2  t3 == t2 \o i3  t4 == t3 \o i4  t5 == t4 \o i5  t6 == t5 \o i6
    <2>1. AllNumbered(b, Whole(1), t1)
      BY <1>1, BothNumbered
    <2> HIDE DEF t1
    <2>2. AllNumbered(b, Whole(1), t2)
      BY <1>1, <2>1, BothNumbered
    <2> HIDE DEF t2
    <2>3. AllNumbered(b, Whole(1), t3)
      BY <1>1, <2>2, BothNumbered
    <2> HIDE DEF t3
    <2>4. AllNumbered(b, Whole(1), t4)
      BY <1>1, <2>3, BothNumbered
    <2> HIDE DEF t4
    <2>5. AllNumbered(b, Whole(1), t5) /\ (Contains(i5, x) => Contains(t5, x))
      BY <1>1, <2>4, BothNumbered, ContainedEither
    <2> HIDE DEF t5
    <2>6. AllNumbered(b, Whole(1), t6) /\ Contains(t6, x)
      BY <1>1, <1>5, <2>5, BothNumbered, ContainedEither
    <2> HIDE DEF t6
    <2>7. Contains(t6 \o i7, x)
      BY <1>1, <2>6, ContainedEither
    <2>8. items = t6 \o i7
      BY <1>2 DEF t1, t2, t3, t4, t5, t6
    <2> QED
      BY <2>7, <2>8
  <1>6. \E i \in 1..Len(items) : items[i].kind = "interface" /\ items[i].name = name
    BY <1>4, <1>5 DEF Contains
  <1> QED
    BY <1>6 DEF items

\* ... and what is modified for the speed takes none away.
LEMMA MungedShown ==
  ASSUME NEW b, NEW s, NEW items, AllNumbered(b, Whole(2), items), Shown(b, items)
  PROVE  Shown(b, Munged(b, s, items))
  <1> DEFINE n == Len(items)  munged == EachMunged(b, s, items)
  <1>1. n \in Nat /\ (Munged(b, s, items) = items \/ Munged(b, s, items) = munged)
    BY MungedEach
  <1>2. Len(munged) = n
    BY <1>1 DEF EachMunged
  <1>3. ASSUME NEW i \in 1..n
        PROVE  munged[i].kind = items[i].kind /\ (items[i].kind = "interface" => munged[i] = items[i])
    <2>1. Unmoved(items[i], munged[i])
      BY MungedUnmoved DEF EachMunged
    <2>2. "kind" \in DOMAIN items[i]
      BY <1>3, ItemNumbered DEF Numbered
    <2> HIDE DEF munged
    <2> QED
      BY <2>1, <2>2 DEF Unmoved
  <1>4. Offered(b, 2, Munged(b, s, items))
    <2> DEFINE m == Munged(b, s, items)
    <2> SUFFICES ASSUME Carried(b), NEW path \in PathsOf(b), NEW kind \in Kinds, NEW k \in 1..AlternatesOf(b, 2, path)
                 PROVE  Count(m, kind, <<path, k>>) = 1
      BY DEF Offered
    <2>1. Count(items, kind, <<path, k>>) = 1
      BY DEF Offered, Shown
    <2>2. Count(m, kind, <<path, k>>) = Count(items, kind, <<path, k>>)
      BY MungedCounted
    <2> QED
      BY <2>1, <2>2
  <1> HIDE DEF munged
  <1>5. ASSUME Munged(b, s, items) = munged PROVE Shown(b, Munged(b, s, items))
    BY <1>2, <1>3, <1>4, <1>5 DEF Shown
  <1> QED
    BY <1>1, <1>5

-----------------------------------------------------------------------------
(***************************************************************************)
(* The steps.                                                              *)
(***************************************************************************)
\* What the calls of UserHostActive depend on
ActiveInv ==
  /\ config \in {0, 1} /\ bus \in {"running", "suspended"} /\ active \in BOOLEAN
  /\ HostActiveTold

\* The audio class of the descriptor the host reads outside DFU mode
ClassRead == Whole(IF Uac1(build, speed) THEN 1 ELSE 2)

\* What the host may have read there: the UAC1 descriptor as it is, and of the UAC2
\* descriptor what no modification for the speed changes.
AppRead ==
  IF Uac1(build, speed) THEN read = CfgDesc1(build)
  ELSE /\ read.bNumInterfaces = Len(Interfaces(build))
       /\ AllNumbered(build, Whole(2), read.items)
       /\ Class2(build) => Shown(build, read.items)
       /\ Carried(build) /\ Class2(build) =>
            \A i \in 1..Len(read.items) : OfStream(read.items[i]) => Fits(build, speed, read.items[i])

\* What the host may have read, and what it may read next.
DescribedInv ==
  /\ build \in Builds /\ speed \in Speeds(build) /\ dfuMode \in BOOLEAN /\ stopped \in BOOLEAN
  /\ dfuMode => "dfu" \in build.has
  /\ AllNumbered(build, Whole(2), desc)
  /\ Class2(build) => Shown(build, desc)
  /\ read = NotRead \/ IF dfuMode THEN read = DfuCfgDesc(build) ELSE AppRead

\* After a reboot the descriptor is the one of the image.
LEMMA InitialShown ==
  ASSUME NEW b
  PROVE  AllNumbered(b, Whole(2), InitialItems(b)) /\ (Class2(b) => Shown(b, InitialItems(b)))
  BY CfgDesc2Numbered, CfgDesc2Shown, NoneNumbered, Classes DEF InitialItems

\* A standard request modifies the descriptor the host reads next.
LEMMA StandardShown ==
  ASSUME DescribedInv, StandardRequest
  PROVE  AllNumbered(build, Whole(2), desc') /\ (Class2(build) => Shown(build, desc'))
  BY MungedNumbered, MungedShown, Classes DEF DescribedInv, StandardRequest

\* After a reset the host has read nothing.
LEMMA FreshDescribed ==
  ASSUME build' \in Builds, speed' \in Speeds(build'), dfuMode' \in BOOLEAN, stopped' \in BOOLEAN,
         dfuMode' => "dfu" \in build'.has, AllNumbered(build', Whole(2), desc'),
         Class2(build') => Shown(build', desc'), read' = NotRead
  PROVE  DescribedInv'
  BY DEF DescribedInv

\* Most steps do not touch what is read.
LEMMA SameDescribed ==
  ASSUME DescribedInv, UNCHANGED <<build, speed, dfuMode, read>>, AllNumbered(build, Whole(2), desc'),
         Class2(build) => Shown(build, desc'), stopped' \in BOOLEAN
  PROVE  DescribedInv'
  BY DEF DescribedInv, AppRead

\* The host reads one of the three configuration descriptors, outside DFU mode that of
\* the build and the speed ...
LEMMA ReadNext == ASSUME DescribedInv, ReadConfiguration, ~dfuMode PROVE AppRead'
  <1> DEFINE items == Munged(build, speed, desc)
  <1>1. AllNumbered(build, Whole(2), items) /\ (Class2(build) => Shown(build, items))
    BY MungedNumbered, MungedShown, Classes DEF DescribedInv
  <1>2. Carried(build) /\ Class2(build) /\ ~Uac1(build, speed) =>
          \A i \in 1..Len(items) : OfStream(items[i]) => Fits(build, speed, items[i])
    BY MungedFits DEF DescribedInv
  <1>3. UNCHANGED <<build, speed>> /\ read' = ConfigurationDescriptor
    BY DEF ReadConfiguration
  <1>4. read' = IF Uac1(build, speed) THEN CfgDesc1(build)
                ELSE [bNumInterfaces |-> Len(Interfaces(build)), items |-> items]
    BY <1>3 DEF ConfigurationDescriptor
  <1> HIDE DEF items
  <1> QED
    BY <1>1, <1>2, <1>3, <1>4 DEF AppRead

\* ... and DFU mode has one of its own.
LEMMA ReadDescribed == ASSUME DescribedInv, ReadConfiguration PROVE DescribedInv'
  <1>1. AllNumbered(build, Whole(2), desc') /\ (Class2(build) => Shown(build, desc'))
    BY StandardShown DEF ReadConfiguration
  <1>2. UNCHANGED <<build, speed, dfuMode, stopped>> /\ read' = ConfigurationDescriptor
    BY DEF ReadConfiguration
  <1>3. ASSUME dfuMode PROVE read' = DfuCfgDesc(build)
    BY <1>2, <1>3 DEF ConfigurationDescriptor
  <1> QED
    BY <1>1, <1>2, <1>3, ReadNext DEF DescribedInv

\* The handlers that run are those whose conditions hold.
LEMMA WithoutDfu ==
  ASSUME NEW d \in BOOLEAN, NEW h \in BOOLEAN, NEW a \in BOOLEAN, ~d
  PROVE  LET ran == When(d, <<"dfu">>) \o When(h, <<"hid">>) \o When(a, <<"audio">>)
         IN  \A i \in 1..Len(ran) : ran[i] # "dfu"
  BY DEF When

\* A reboot into DFU mode is asked for by the handler of DFU, which the build then has.
LEMMA RunsDfu ==
  ASSUME NEW b, NEW inDfu, Runs(b, inDfu, "dfu")
  PROVE  "dfu" \in b.has
  <1> DEFINE num == NumberRead("dfu")
             d == "dfu" \in b.has /\ num = DfuInterfaceNumber(b, inDfu)
             h == "hid" \in b.has /\ num = INTERFACE_NUMBER(b, "hid")
             a == num \in 0..2 /\ ~inDfu
             ran == When(d, <<"dfu">>) \o When(h, <<"hid">>) \o When(a, <<"audio">>)
  <1>1. PICK i \in 1..Len(ran) : ran[i] = "dfu"
    BY DEF Runs, HandlersOf, Handler
  <1> SUFFICES ASSUME ~d PROVE FALSE
    OBVIOUS
  <1>2. d \in BOOLEAN /\ h \in BOOLEAN /\ a \in BOOLEAN
    OBVIOUS
  <1> HIDE DEF d, h, a
  <1> QED
    BY <1>1, <1>2, WithoutDfu

\* A class request keeps what was read, or reboots.
LEMMA ClassDescribed ==
  ASSUME DescribedInv, NEW name, NEW reboot \in {"no", "dfu", "app"}, ClassRequest(name, reboot)
  PROVE  DescribedInv'
  <1>1. CASE reboot # "no" /\ Runs(build, dfuMode, name)
    <2>1. name = "dfu" /\ Reboot(reboot = "dfu") /\ UNCHANGED build
      BY <1>1 DEF ClassRequest
    <2>2. "dfu" \in build.has
      BY <1>1, <2>1, RunsDfu
    <2>3. build' \in Builds /\ speed' \in Speeds(build')
      BY <1>1, <2>1 DEF DescribedInv, ClassRequest
    <2> QED
      BY <2>1, <2>2, <2>3, FreshDescribed, InitialShown DEF Reboot
  <1>2. CASE ~(reboot # "no" /\ Runs(build, dfuMode, name))
    <2>1. /\ UNCHANGED <<build, speed, dfuMode, read>> /\ (StandardRequest \/ UNCHANGED desc)
          /\ stopped' = (stopped \/ (name = "dfu" /\ ~dfuMode))
      BY <1>2 DEF ClassRequest
    <2>2. AllNumbered(build, Whole(2), desc') /\ (Class2(build) => Shown(build, desc'))
      BY <2>1, StandardShown DEF DescribedInv
    <2>3. stopped' \in BOOLEAN
      BY <2>1 DEF DescribedInv
    <2> QED
      BY <2>1, <2>2, <2>3, SameDescribed
  <1> QED
    BY <1>1, <1>2

\* So does a bus reset.
LEMMA ResetDescribed ==
  ASSUME DescribedInv, NEW s \in Speeds(build), NEW stays \in BOOLEAN, BusReset(s, stays)
  PROVE  DescribedInv'
  <1>1. build' = build /\ build' \in Builds /\ speed' \in Speeds(build')
    BY DEF BusReset, DescribedInv
  <1>2. CASE dfuMode /\ ~stays
    <2>1. Reboot(FALSE)
      BY <1>2 DEF BusReset
    <2> QED
      BY <1>1, <2>1, FreshDescribed, InitialShown DEF Reboot
  <1>3. CASE ~(dfuMode /\ ~stays)
    <2>1. /\ dfuMode' = (dfuMode \/ stays) /\ read' = NotRead /\ UNCHANGED <<stopped, desc>>
          /\ stays => "dfu" \in build.has
      BY <1>3 DEF BusReset
    <2> QED
      BY <1>1, <2>1, FreshDescribed DEF DescribedInv
  <1> QED
    BY <1>2, <1>3

\* Every step.
LEMMA NextDescribed == DescribedInv /\ [Next]_vars => DescribedInv'
  <1> SUFFICES ASSUME DescribedInv, [Next]_vars PROVE DescribedInv'
    OBVIOUS
  <1>1. CASE UNCHANGED <<build, speed, dfuMode, stopped, desc, read>>
    BY <1>1, SameDescribed DEF DescribedInv
  <1>2. CASE StandardRequest /\ UNCHANGED <<build, speed, dfuMode, stopped, read>>
    BY <1>2, SameDescribed, StandardShown DEF DescribedInv
  <1>3. CASE \E c \in {0, 1} : SetConfiguration(c)
    BY <1>2, <1>3 DEF SetConfiguration
  <1>4. CASE \E path \in Paths, n \in 0..3 : SetInterface(path, n)
    BY <1>2, <1>4 DEF SetInterface
  <1>5. CASE Suspend \/ Resume \/ UNCHANGED vars
    BY <1>1, <1>5 DEF Suspend, Resume, vars
  <1> QED
    BY <1>3, <1>4, <1>5, ReadDescribed, ClassDescribed, ResetDescribed DEF Next

\* A stream that the host has selected is an alternate of what it has read, and decouple
\* was told its format, or that it stopped.
StreamTold(path) ==
  /\ ~dfuMode /\ AppRead
  /\ alt[path] \in 1..FormatCount(build, path)
  /\ Uac1(build, speed) => alt[path] = 1
  /\ told[path] \in {NotStreaming, FormatTold(build, speed, path, alt[path])}
ToldInv ==
  /\ DOMAIN alt = Paths /\ DOMAIN told = Paths
  /\ \A path \in Paths : alt[path] # 0 => StreamTold(path)

\* An alternate the host can select has its number in the descriptor it has read.
LEMMA SelectedRead ==
  ASSUME DescribedInv, NEW path \in Paths,
         NEW n \in Alternates(IF path = "out" THEN "audioOut" ELSE "audioIn"), n # 0
  PROVE  ~dfuMode /\ AppRead /\ (Uac1(build, speed) => n = 1)
  <1> DEFINE name == IF path = "out" THEN "audioOut" ELSE "audioIn"
  <1>1. PICK i \in 1..Len(read.items) :
          read.items[i].kind = "interface" /\ read.items[i].name = name /\ read.items[i].alt = n
    BY DEF Alternates
  <1>2. name \in AudioNames /\ name # "dfu"
    BY DEF AudioNames
  <1> HIDE DEF name
  <1>3. read # NotRead
    BY <1>1 DEF NotRead
  <1>4. ~dfuMode
    <2> SUFFICES ASSUME dfuMode PROVE FALSE
      BY DEF DescribedInv
    <2>1. read = DfuCfgDesc(build)
      BY <1>3 DEF DescribedInv
    <2>2. Len(read.items) = 1 /\ read.items[1].name = "dfu"
      BY <2>1 DEF DfuCfgDesc
    <2> QED
      BY <1>1, <1>2, <2>2
  <1>5. AppRead
    BY <1>3, <1>4 DEF DescribedInv
  <1>6. ASSUME Uac1(build, speed) PROVE n = 1
    <2>1. AllNumbered(build, Whole(1), read.items)
      BY <1>5, <1>6, CfgDesc1Numbered, Classes DEF AppRead
    <2>2. Numbered(build, Whole(1), read.items[i])
      BY <2>1, ItemNumbered
    <2>3. Alternate(Whole(1), name, n)
      BY <1>1, <2>2 DEF Numbered
    <2> QED
      BY <1>2, <2>3, Classes DEF Alternate
  <1> QED
    BY <1>4, <1>5, <1>6

\* The steps that touch neither the streams nor what is read keep it ...
LEMMA SameTold ==
  ASSUME ToldInv, UNCHANGED <<build, speed, dfuMode, read, alt, told>>
  PROVE  ToldInv'
  BY DEF ToldInv, StreamTold, AppRead

\* ... and so do those that deselect every alternate.
LEMMA NoneTold ==
  ASSUME alt' = InitialAlt, DOMAIN told' = Paths
  PROVE  ToldInv'
  BY DEF ToldInv, InitialAlt

\* SET_INTERFACE tells decouple the format of the alternate it selects.
LEMMA SetTold ==
  ASSUME DescribedInv, ToldInv, NEW path \in Paths, NEW n \in 0..3, SetInterface(path, n)
  PROVE  ToldInv'
  <1>1. UNCHANGED <<build, speed, dfuMode, read>>
    BY DEF SetInterface
  <1>2. CASE ~(n <= FormatCount(build, path) /\ alt[path] # n)
    <2>1. UNCHANGED <<alt, told>>
      BY <1>2 DEF SetInterface
    <2> QED
      BY <1>1, <2>1, SameTold
  <1>3. CASE n <= FormatCount(build, path) /\ alt[path] # n
    <2> DEFINE f == FormatTold(build, speed, path, n)
    <2>1. /\ alt' = [alt EXCEPT ![path] = n]
          /\ told' = [told EXCEPT ![path] = IF n = 0 THEN NotStreaming ELSE f]
      BY <1>3 DEF SetInterface
    <2>2. DOMAIN alt' = Paths /\ DOMAIN told' = Paths
      BY <2>1 DEF ToldInv
    <2>3. alt'[path] = n /\ (n # 0 => told'[path] = f)
      BY <2>1 DEF ToldInv
    <2>4. n # 0 => ~dfuMode /\ AppRead /\ (Uac1(build, speed) => n = 1)
      BY SelectedRead DEF SetInterface
    <2>5. n # 0 => n \in 1..FormatCount(build, path)
      <3>1. FormatCount(build, path) \in Nat
        BY AlternatesCounted DEF FormatCount
      <3> QED
        BY <1>3, <3>1
    <2>6. AppRead => AppRead'
      BY <1>1 DEF AppRead
    <2> HIDE DEF f
    <2>7. alt'[path] # 0 => StreamTold(path)'
      BY <1>1, <2>3, <2>4, <2>5, <2>6 DEF StreamTold, f
    <2>8. ASSUME NEW q \in Paths, q # path, alt'[q] # 0 PROVE StreamTold(q)'
      <3>1. alt'[q] = alt[q] /\ told'[q] = told[q]
        BY <2>1, <2>8 DEF ToldInv
      <3>2. StreamTold(q)
        BY <2>8, <3>1 DEF ToldInv
      <3> QED
        BY <1>1, <2>6, <3>1, <3>2 DEF StreamTold
    <2> QED
      BY <2>2, <2>7, <2>8 DEF ToldInv
  <1> QED
    BY <1>2, <1>3

\* Every step.
LEMMA NextTold == DescribedInv /\ ToldInv /\ [Next]_vars => ToldInv'
  <1> SUFFICES ASSUME DescribedInv, ToldInv, [Next]_vars PROVE ToldInv'
    OBVIOUS
  <1>1. CASE ReadConfiguration
    <2>1. UNCHANGED <<build, speed, dfuMode, alt, told>>
      BY <1>1 DEF ReadConfiguration
    <2>2. ~dfuMode => AppRead'
      BY <1>1, ReadNext
    <2> QED
      BY <2>1, <2>2 DEF ToldInv, StreamTold
  <1>2. ASSUME NEW c \in {0, 1}, SetConfiguration(c) PROVE ToldInv'
    BY <1>2, SameTold DEF SetConfiguration
  <1>3. CASE \E path \in Paths, n \in 0..3 : SetInterface(path, n)
    BY <1>3, SetTold
  <1>4. ASSUME NEW intoDfu, Reboot(intoDfu) PROVE ToldInv'
    BY <1>4, NoneTold DEF Reboot
  <1>5. ASSUME NEW name, NEW reboot, ClassRequest(name, reboot) PROVE ToldInv'
    <2>1. Reboot(reboot = "dfu") \/ UNCHANGED <<build, speed, dfuMode, read, alt, told>>
      BY <1>5 DEF ClassRequest
    <2> QED
      BY <1>4, <2>1, SameTold
  <1>6. ASSUME NEW s, NEW stays, BusReset(s, stays) PROVE ToldInv'
    <2>1. Reboot(FALSE) \/ (alt' = InitialAlt /\ UNCHANGED told)
      BY <1>6 DEF BusReset
    <2> QED
      BY <1>4, <2>1, NoneTold DEF ToldInv
  <1>7. CASE Suspend
    <2>1. UNCHANGED <<build, speed, dfuMode, read, alt>> /\ told' = [p \in Paths |-> NotStreaming]
      BY <1>7 DEF Suspend
    <2>2. AppRead => AppRead'
      BY <2>1 DEF AppRead
    <2> QED
      BY <2>1, <2>2 DEF ToldInv, StreamTold
  <1>8. CASE Resume \/ UNCHANGED vars
    BY <1>8, SameTold DEF Resume, vars
  <1> QED
    BY <1>1, <1>2, <1>3, <1>5, <1>6, <1>7, <1>8 DEF Next

\* Every step again, for the calls of UserHostActive.
LEMMA NextActive == ActiveInv /\ [Next]_vars => ActiveInv'
  <1> SUFFICES ASSUME ActiveInv, [Next]_vars PROVE ActiveInv'
    OBVIOUS
  <1> USE DEF ActiveInv, HostActiveTold
  <1>1. CASE ReadConfiguration
    BY <1>1 DEF ReadConfiguration
  <1>2. ASSUME NEW c \in {0, 1}, SetConfiguration(c) PROVE ActiveInv'
    BY <1>2 DEF SetConfiguration
  <1>3. ASSUME NEW path, NEW n, SetInterface(path, n) PROVE ActiveInv'
    BY <1>3 DEF SetInterface
  <1>4. ASSUME config' = 0, bus' = "running", active' \in BOOLEAN PROVE ActiveInv'
    BY <1>4
  <1>5. ASSUME NEW intoDfu, Reboot(intoDfu) PROVE ActiveInv'
    <2>1. config' = 0 /\ bus' = "running"
      BY <1>5 DEF Reboot
    <2>2. active' \in BOOLEAN
      BY <1>5 DEF Reboot
    <2> QED
      BY <1>4, <2>1, <2>2
  <1>6. ASSUME NEW name, NEW reboot, ClassRequest(name, reboot) PROVE ActiveInv'
    <2>1. Reboot(reboot = "dfu") \/ UNCHANGED <<config, bus, active>>
      BY <1>6 DEF ClassRequest
    <2> QED
      BY <1>5, <2>1
  <1>7. ASSUME NEW s, NEW stays, BusReset(s, stays) PROVE ActiveInv'
    <2>1. \/ Reboot(FALSE)
          \/ config' = 0 /\ bus' = "running" /\ active' = (active /\ config = 0)
      BY <1>7 DEF BusReset
    <2> QED
      BY <1>4, <1>5, <2>1
  <1>8. CASE Suspend
    BY <1>8 DEF Suspend
  <1>9. CASE Resume
    BY <1>9 DEF Resume
  <1>10. CASE UNCHANGED vars
    BY <1>10 DEF vars
  <1> QED
    BY <1>1, <1>2, <1>3, <1>6, <1>7, <1>8, <1>9, <1>10 DEF Next
-----------------------------------------------------------------------------
(***************************************************************************)
(* The results.                                                            *)
(***************************************************************************)
\* What the host has read is right in every state.
LEMMA DescribedHolds == Spec => []DescribedInv
  <1>1. Init => DescribedInv
    <2> SUFFICES ASSUME Init PROVE DescribedInv
      OBVIOUS
    <2>1. AllNumbered(build, Whole(2), desc) /\ (Class2(build) => Shown(build, desc)) /\ read = NotRead
      BY InitialShown DEF Init
    <2> QED
      BY <2>1 DEF Init, DescribedInv
  <1> QED
    BY <1>1, NextDescribed, PTL DEF Spec

\* What the host has read of an interface is where the handlers look for it.
LEMMA ReadPlaced ==
  ASSUME DescribedInv, NEW name, HostKnows(name)
  PROVE  IF dfuMode THEN name = "dfu" /\ NumberRead(name) = 0 ELSE Placed(build, ClassRead, name, NumberRead(name))
  <1> DEFINE j == CHOOSE j \in 1..Len(read.items) : read.items[j].kind = "interface" /\ read.items[j].name = name
  <1>1. \E i \in 1..Len(read.items) : read.items[i].kind = "interface" /\ read.items[i].name = name
    BY DEF HostKnows, Alternates
  <1>2. /\ j \in 1..Len(read.items) /\ read.items[j].kind = "interface" /\ read.items[j].name = name
        /\ NumberRead(name) = read.items[j].num
    BY <1>1 DEF NumberRead
  <1> HIDE DEF j
  <1>3. CASE ~dfuMode
    <2>1. read # NotRead
      BY <1>2 DEF NotRead
    <2>2. AllNumbered(build, ClassRead, read.items)
      BY <1>3, <2>1, CfgDesc1Numbered, Classes DEF DescribedInv, AppRead, ClassRead
    <2>3. Numbered(build, ClassRead, read.items[j])
      BY <1>2, <2>2, ItemNumbered
    <2> QED
      BY <1>2, <1>3, <2>3 DEF Numbered
  <1>4. CASE dfuMode
    <2>1. read = DfuCfgDesc(build)
      BY <1>2, <1>4 DEF DescribedInv, NotRead
    <2>2. Len(read.items) = 1 /\ read.items[1].name = "dfu" /\ read.items[1].num = 0
      BY <2>1 DEF DfuCfgDesc
    <2> QED
      BY <1>2, <1>4, <2>2
  <1> QED
    BY <1>3, <1>4

\* The handlers that run, where DFU and HID have numbers of their own.
LEMMA LastHandler ==
  ASSUME NEW d \in BOOLEAN, NEW h \in BOOLEAN, NEW a \in BOOLEAN
  PROVE  LET ran == When(d, <<"dfu">>) \o When(h, <<"hid">>) \o When(a, <<"audio">>)
         IN  /\ a => ran # <<>> /\ ran[Len(ran)] = "audio"
             /\ h /\ ~a => ran # <<>> /\ ran[Len(ran)] = "hid"
             /\ d /\ ~h /\ ~a => ran # <<>> /\ ran[Len(ran)] = "dfu"
  BY DEF When

\* With the places of what was read, the last handler that runs is the right one.
LEMMA Dispatched ==
  ASSUME DescribedInv, \A b \in Builds : Apart(b)
  PROVE  RequestsDispatched
  <1> SUFFICES ASSUME NEW name \in ClassInterfaces, HostKnows(name)
               PROVE  Result(build, dfuMode, name) = Handler(name)
    BY DEF RequestsDispatched
  <1> DEFINE num == NumberRead(name)
             d == "dfu" \in build.has /\ num = DfuInterfaceNumber(build, dfuMode)
             h == "hid" \in build.has /\ num = INTERFACE_NUMBER(build, "hid")
             a == num \in 0..2 /\ ~dfuMode
             ran == When(d, <<"dfu">>) \o When(h, <<"hid">>) \o When(a, <<"audio">>)
  <1>1. Result(build, dfuMode, name) = IF ran = <<>> \/ ran[Len(ran)] # Handler(name) THEN "refused" ELSE Handler(name)
    BY DEF Result, HandlersOf
  <1>2. /\ a => ran # <<>> /\ ran[Len(ran)] = "audio"
        /\ h /\ ~a => ran # <<>> /\ ran[Len(ran)] = "hid"
        /\ d /\ ~h /\ ~a => ran # <<>> /\ ran[Len(ran)] = "dfu"
    <2>1. d \in BOOLEAN /\ h \in BOOLEAN /\ a \in BOOLEAN
      BY DEF DescribedInv
    <2> HIDE DEF d, h, a
    <2> QED
      BY <2>1, LastHandler
  <1>3. /\ "dfu" \in build.has => INTERFACE_NUMBER(build, "dfu") > 2
        /\ "hid" \in build.has => INTERFACE_NUMBER(build, "hid") > 2
    BY DEF Apart, OwnNames, DescribedInv
  <1>4. "dfu" \in build.has /\ "hid" \in build.has => INTERFACE_NUMBER(build, "dfu") # INTERFACE_NUMBER(build, "hid")
    BY OwnNumbers DEF OwnNames
  <1>5. CASE dfuMode
    <2>1. name = "dfu" /\ num = 0 /\ "dfu" \in build.has
      BY <1>5, ReadPlaced DEF DescribedInv
    <2>2. d /\ ~h /\ ~a
      BY <1>3, <1>5, <2>1 DEF DfuInterfaceNumber
    <2> HIDE DEF d, h, a, ran
    <2> QED
      BY <1>1, <1>2, <2>1, <2>2 DEF Handler
  <1>6. CASE ~dfuMode
    <2>1. Placed(build, ClassRead, name, num)
      BY <1>6, ReadPlaced
    <2>2. CASE name \in AudioNames
      <3>1. a /\ Handler(name) = "audio"
        BY <1>6, <2>1, <2>2 DEF Placed, AudioNames, Handler
      <3> HIDE DEF d, h, a, ran
      <3> QED
        BY <1>1, <1>2, <3>1
    <2>3. CASE name = "dfu"
      <3>1. d /\ ~h /\ ~a /\ Handler(name) = "dfu"
        BY <1>3, <1>4, <1>6, <2>1, <2>3 DEF Placed, OwnNames, Handler, DfuInterfaceNumber
      <3> HIDE DEF d, h, a, ran
      <3> QED
        BY <1>1, <1>2, <3>1
    <2>4. CASE name = "hid"
      <3>1. h /\ ~a /\ Handler(name) = "hid"
        BY <1>3, <1>6, <2>1, <2>4 DEF Placed, OwnNames, Handler
      <3> HIDE DEF d, h, a, ran
      <3> QED
        BY <1>1, <1>2, <3>1
    <2> QED
      BY <2>2, <2>3, <2>4 DEF ClassInterfaces, AudioNames
  <1> QED
    BY <1>5, <1>6

\* A build with audio, of a class that its lowest speed has, and whose control interface has
\* the number of the enumeration in UAC1 too: there MIDI is not between.
Enumerated(b) ==
  /\ Audio(b) /\ (Class2(b) \/ b.fs = 1)
  /\ b.fs = 1 /\ "control" \in b.has => "midi" \notin b.has

\* The interfaces Windows binds a driver to are read, with the number that it is told.
LEMMA FunctionsRead ==
  ASSUME DescribedInv, Enumerated(build), ~dfuMode, read # NotRead, NEW name \in WinUsb(build)
  PROVE  HostKnows(name) /\ NumberRead(name) = INTERFACE_NUMBER(build, name)
  <1>1. \E i \in 1..Len(read.items) : read.items[i].kind = "interface" /\ read.items[i].name = name
    <2>1. CASE Uac1(build, speed)
      BY <2>1, CfgDesc1Shown DEF DescribedInv, AppRead
    <2>2. CASE ~Uac1(build, speed)
      <3>1. Class2(build)
        BY <2>2 DEF DescribedInv, Speeds, Uac1, Enumerated, Class2
      <3> QED
        BY <2>2, <3>1 DEF DescribedInv, AppRead, Shown
    <2> QED
      BY <2>1, <2>2
  <1>2. HostKnows(name)
    BY <1>1 DEF HostKnows, Alternates
  <1>3. Placed(build, ClassRead, name, NumberRead(name))
    BY <1>2, ReadPlaced
  <1>4. CASE name = "dfu"
    BY <1>2, <1>3, <1>4 DEF Placed, OwnNames
  <1>5. CASE name = "control"
    <2>1. "control" \in build.has
      BY <1>5 DEF WinUsb
    <2>2. NumberRead(name) = ControlNumber(build, ClassRead)
      BY <1>3, <1>5 DEF Placed
    <2>3. ControlNumber(build, ClassRead) = INTERFACE_NUMBER(build, "control")
      <3>1. CASE Uac1(build, speed)
        BY <2>1, <3>1, ControlNumbers, Classes DEF Enumerated, Uac1, ClassRead
      <3>2. CASE ~Uac1(build, speed)
        BY <3>2, Classes DEF ControlNumber, ClassRead
      <3> QED
        BY <3>1, <3>2
    <2> QED
      BY <1>2, <1>5, <2>2, <2>3
  <1> QED
    BY <1>4, <1>5 DEF WinUsb

\* The association is read where the device descriptor says that there is one.
LEMMA AssociationRead ==
  ASSUME DescribedInv, Enumerated(build), read # NotRead
  PROVE  (DeviceDescriptor(build, Uac1(build, speed) /\ ~dfuMode, dfuMode).class = "association")
         <=> \E i \in 1..Len(read.items) : read.items[i].kind = "association"
  <1> DEFINE associated == \E i \in 1..Len(read.items) : read.items[i].kind = "association"
             class == DeviceDescriptor(build, Uac1(build, speed) /\ ~dfuMode, dfuMode).class
  <1>1. class = IF dfuMode \/ Uac1(build, speed) THEN "perInterface" ELSE "association"
    BY DEF DeviceDescriptor, DescribedInv
  <1>2. CASE dfuMode
    <2>1. read = DfuCfgDesc(build)
      BY <1>2 DEF DescribedInv
    <2>2. Len(read.items) = 1 /\ read.items[1].kind = "interface"
      BY <2>1 DEF DfuCfgDesc
    <2>3. ~associated
      BY <2>2
    <2> HIDE DEF associated, class
    <2> QED
      BY <1>1, <1>2, <2>3 DEF associated, class
  <1>3. CASE ~dfuMode /\ Uac1(build, speed)
    <2>1. AllNumbered(build, Whole(1), read.items)
      BY <1>3, CfgDesc1Numbered, Classes DEF DescribedInv, AppRead
    <2>2. ~associated
      BY <2>1, ItemNumbered, Classes DEF Numbered
    <2> QED
      BY <1>1, <1>3, <2>2
  <1>4. CASE ~dfuMode /\ ~Uac1(build, speed)
    <2>1. Class2(build)
      BY <1>4 DEF DescribedInv, Speeds, Uac1, Enumerated, Class2
    <2>2. associated
      BY <1>4, <2>1 DEF DescribedInv, AppRead, Shown, Enumerated
    <2> HIDE DEF associated, class
    <2> QED
      BY <1>1, <1>4, <2>2 DEF associated, class
  <1> QED
    BY <1>2, <1>3, <1>4

\* Both together: what Windows is told of the device is what the host has read of it.
LEMMA Bound ==
  ASSUME DescribedInv, \A b \in Builds : Enumerated(b)
  PROVE  DriversBound
  <1> SUFFICES ASSUME read # NotRead PROVE DriversBound
    BY DEF DriversBound
  <1> DEFINE set == MsOsDescriptor(build, dfuMode)
  <1>1. Enumerated(build)
    BY DEF DescribedInv
  <1>2. BosDescriptor(build, dfuMode).length = set.length
    BY DEF BosDescriptor, MsOsDescriptor
  <1>3. /\ set.simple <=> read.bNumInterfaces = 1
        /\ \A f \in set.functions : HostKnows(f.guid) /\ NumberRead(f.guid) = f.first
    <2>1. CASE dfuMode
      <3>1. read = DfuCfgDesc(build) /\ "dfu" \in build.has
        BY <2>1 DEF DescribedInv
      <3>2. set = desc_ms_os_20_simple(build)
        BY <2>1 DEF MsOsDescriptor, num_interfaces
      <3>3. set.simple = TRUE /\ set.functions = {[first |-> 0, guid |-> "dfu"]} /\ read.bNumInterfaces = 1
        BY <3>1, <3>2 DEF desc_ms_os_20_simple, DfuCfgDesc
      <3>4. Len(read.items) = 1 /\ read.items[1].kind = "interface" /\ read.items[1].name = "dfu"
        BY <3>1 DEF DfuCfgDesc
      <3>5. HostKnows("dfu")
        BY <3>4 DEF HostKnows, Alternates
      <3>6. NumberRead("dfu") = 0
        BY <2>1, <3>5, ReadPlaced
      <3> HIDE DEF set
      <3> QED
        BY <3>3, <3>5, <3>6
    <2>2. CASE ~dfuMode
      <3>1. num_interfaces(build, dfuMode) # 1
        BY <1>1, <2>2, ManyInterfaces DEF num_interfaces, Enumerated
      <3>2. set = desc_ms_os_20_composite(build)
        BY <3>1 DEF MsOsDescriptor
      <3>3. set.simple = FALSE /\ set.functions = {Function(build, name) : name \in WinUsb(build)}
        BY <3>2 DEF desc_ms_os_20_composite
      <3>4. read.bNumInterfaces # 1
        <4>1. CfgDesc1(build).bNumInterfaces = NUM_INTERFACES_A1(build)
          BY DEF CfgDesc1
        <4>2. read.bNumInterfaces \in {NUM_INTERFACES_A1(build), Len(Interfaces(build))}
          BY <2>2, <4>1 DEF DescribedInv, AppRead
        <4> QED
          BY <1>1, <4>2, ManyInterfaces DEF Enumerated
      <3>5. \A name \in WinUsb(build) :
              HostKnows(name) /\ NumberRead(name) = INTERFACE_NUMBER(build, name)
        BY <1>1, <2>2, FunctionsRead
      <3> HIDE DEF set
      <3> QED
        BY <3>3, <3>4, <3>5 DEF Function
    <2> QED
      BY <2>1, <2>2
  <1> HIDE DEF set
  <1> QED
    BY <1>1, <1>2, <1>3, AssociationRead DEF DriversBound, set

\* What decouple was told is right in every state, too.
LEMMA ToldHolds == Spec => [](DescribedInv /\ ToldInv)
  <1>1. Init => ToldInv
    BY DEF Init, ToldInv, InitialAlt
  <1> QED
    BY <1>1, DescribedHolds, NextTold, PTL DEF Spec

\* The alternate that streams has one record of each kind in what the host has read ...
LEMMA StreamsCounted ==
  ASSUME DescribedInv, ToldInv, Carried(build), NEW path \in PathsOf(build), Streaming(path), NEW kind \in Kinds
  PROVE  Cardinality(RecordsOf(kind, <<path, alt[path]>>)) = 1
  <1>1. path \in Paths /\ StreamTold(path)
    BY DEF PathsOf, Paths, Streaming, ToldInv
  <1>2. RecordsOf(kind, <<path, alt[path]>>) = Places(read.items, kind, <<path, alt[path]>>)
    BY DEF RecordsOf, Places, Belongs
  <1>3. CASE Uac1(build, speed)
    <2>1. Offered(build, 1, read.items) /\ alt[path] = 1
      BY <1>1, <1>3, CfgDesc1Offered DEF StreamTold, AppRead
    <2>2. alt[path] \in 1..AlternatesOf(build, 1, path)
      BY <2>1 DEF AlternatesOf
    <2> QED
      BY <1>2, <2>1, <2>2 DEF Offered, Count
  <1>4. CASE ~Uac1(build, speed)
    <2>1. Class2(build)
      BY <1>4 DEF DescribedInv, Speeds, Uac1, Class2, Carried
    <2>2. Offered(build, 2, read.items)
      BY <1>1, <1>4, <2>1 DEF StreamTold, AppRead, Shown
    <2>3. alt[path] \in 1..AlternatesOf(build, 2, path)
      BY <1>1 DEF AlternatesOf, StreamTold
    <2> QED
      BY <1>2, <2>2, <2>3 DEF Offered, Count
  <1> QED
    BY <1>3, <1>4

\* ... with what decouple was told of it ...
LEMMA StreamsFit ==
  ASSUME DescribedInv, ToldInv, Carried(build), NEW path \in PathsOf(build), Streaming(path),
         NEW kind \in Kinds, NEW i \in RecordsOf(kind, <<path, alt[path]>>)
  PROVE  /\ told[path] = FormatTold(build, speed, path, alt[path])
         /\ read.items[i].kind = kind /\ read.items[i].of = <<path, alt[path]>>
         /\ Fits(build, speed, read.items[i])
  <1>1. path \in Paths /\ StreamTold(path)
    BY DEF PathsOf, Paths, Streaming, ToldInv
  <1>2. told[path] = FormatTold(build, speed, path, alt[path])
    BY <1>1 DEF StreamTold, Streaming
  <1>3. /\ i \in 1..Len(read.items) /\ read.items[i].kind = kind /\ read.items[i].of = <<path, alt[path]>>
        /\ kind = "endpoint" => read.items[i].use # "feedback"
    BY DEF RecordsOf
  <1>4. OfStream(read.items[i])
    BY <1>1, <1>3 DEF OfStream, Kinds
  <1>5. CASE Uac1(build, speed)
    <2>1. AllNumbered(build, Whole(1), read.items) /\ speed = "fs"
      BY <1>1, <1>5, CfgDesc1Numbered, Classes DEF StreamTold, AppRead, Uac1
    <2>2. Numbered(build, Whole(1), read.items[i])
      BY <1>3, <2>1, ItemNumbered
    <2>3. Fits(build, "fs", read.items[i])
      BY <1>4, <2>2, Classes DEF Numbered
    <2> QED
      BY <1>2, <1>3, <2>1, <2>3
  <1>6. CASE ~Uac1(build, speed)
    <2>1. Class2(build)
      BY <1>6 DEF DescribedInv, Speeds, Uac1, Class2, Carried
    <2> QED
      BY <1>1, <1>2, <1>3, <1>4, <1>6, <2>1 DEF StreamTold, AppRead
  <1> QED
    BY <1>5, <1>6

\* ... and a subslot that decouple has code for.
LEMMA SlotUsed ==
  ASSUME DescribedInv, ToldInv, Carried(build), NEW path \in PathsOf(build), Streaming(path)
  PROVE  FormatTold(build, speed, path, alt[path]).slot
           \in IF path = "out" THEN OutSlotsUsed(build) ELSE InSlotsUsed(build)
  <1> DEFINE n == alt[path]  slot == FormatTold(build, speed, path, n).slot
  <1>1. path \in Paths /\ StreamTold(path)
    BY DEF PathsOf, Paths, Streaming, ToldInv
  <1>2. speed \in {"hs", "fs"}
    BY DEF DescribedInv, Speeds
  <1>3. n \in 1..FormatCount(build, path)
    BY <1>1 DEF StreamTold
  <1>4. CASE path = "out"
    <2>1. n \in Formats
      BY <1>3, <1>4, AlternatesCounted DEF FormatCount, Formats
    <2>2. slot = OutSlotHS(build)[n] \/ slot = OutSlotFS(build)[n]
      BY <1>2, <1>4, ToldFormats
    <2> HIDE DEF n, slot
    <2>3. slot \in OutSlotsUsed(build)
      BY <2>1, <2>2 DEF OutSlotsUsed
    <2> QED
      BY <1>4, <2>3 DEF n, slot
  <1>5. CASE path = "in"
    <2>1. n \in 1..INPUT_FORMAT_COUNT(build)
      BY <1>3, <1>5 DEF FormatCount
    <2>2. CASE speed = "hs"
      <3>1. slot = InSlotHS(build)[n] /\ InSlotHS(build)[n] = InSlotHS(build)[1]
        BY <1>5, <2>1, <2>2, ToldFormats DEF Carried
      <3> HIDE DEF slot
      <3>2. slot \in InSlotsUsed(build)
        BY <3>1 DEF InSlotsUsed
      <3> QED
        BY <1>5, <3>2 DEF slot
    <2>3. CASE speed = "fs"
      <3>1. n = 1
        <4>1. CASE build.fs = 1
          BY <1>1, <2>3, <4>1 DEF StreamTold, Uac1
        <4>2. CASE build.fs # 1
          BY <2>1, <4>2 DEF Carried
        <4> QED
          BY <4>1, <4>2
      <3>2. slot = InSlotFS(build)[1]
        BY <1>5, <2>3, <3>1, ToldFormats
      <3> HIDE DEF slot
      <3>3. slot \in InSlotsUsed(build)
        BY <3>2 DEF InSlotsUsed
      <3> QED
        BY <1>5, <3>3 DEF slot
    <2> QED
      BY <1>2, <2>2, <2>3
  <1> QED
    BY <1>1, <1>4, <1>5 DEF Paths

\* All of it together.
LEMMA StreamsRight ==
  ASSUME DescribedInv, ToldInv, \A b \in Builds : Carried(b)
  PROVE  StreamsCarried
  <1>1. Carried(build)
    BY DEF DescribedInv
  <1>2. StreamAsDescribed
    <2> SUFFICES ASSUME NEW path \in PathsOf(build), Streaming(path)
                 PROVE  LET S == RecordsOf("stream", <<path, alt[path]>>)
                            F == RecordsOf("format", <<path, alt[path]>>)
                        IN  /\ Cardinality(S) = 1 /\ Cardinality(F) = 1
                            /\ \A s \in S, f \in F :
                                 told[path] = [data |-> read.items[s].data, chans |-> read.items[s].chans,
                                               slot |-> read.items[f].slot, bits |-> read.items[f].bits]
                            /\ told[path].slot \in IF path = "out" THEN OutSlotsUsed(build) ELSE InSlotsUsed(build)
      BY DEF StreamAsDescribed
    <2> DEFINE S == RecordsOf("stream", <<path, alt[path]>>)
               F == RecordsOf("format", <<path, alt[path]>>)
               told1 == FormatTold(build, speed, path, alt[path])
    <2>1. Cardinality(S) = 1 /\ Cardinality(F) = 1
      BY <1>1, StreamsCounted DEF Kinds
    <2>2. told[path] = told1
      <3>1. path \in Paths /\ StreamTold(path)
        BY DEF PathsOf, Paths, Streaming, ToldInv
      <3> QED
        BY <3>1 DEF StreamTold, Streaming
    <2>3. told1 = [data |-> told1.data, chans |-> told1.chans, slot |-> told1.slot, bits |-> told1.bits]
      BY DEF FormatTold
    <2>4. \A s \in S : read.items[s].data = told1.data /\ read.items[s].chans = told1.chans
      <3> SUFFICES ASSUME NEW s \in S PROVE read.items[s].data = told1.data /\ read.items[s].chans = told1.chans
        OBVIOUS
      <3>1. read.items[s].kind = "stream" /\ read.items[s].of = <<path, alt[path]>> /\ Fits(build, speed, read.items[s])
        BY <1>1, StreamsFit DEF Kinds
      <3> QED
        BY <3>1 DEF Fits
    <2>5. \A f \in F : read.items[f].slot = told1.slot /\ read.items[f].bits = told1.bits
      <3> SUFFICES ASSUME NEW f \in F PROVE read.items[f].slot = told1.slot /\ read.items[f].bits = told1.bits
        OBVIOUS
      <3>1. read.items[f].kind = "format" /\ read.items[f].of = <<path, alt[path]>> /\ Fits(build, speed, read.items[f])
        BY <1>1, StreamsFit DEF Kinds
      <3> QED
        BY <3>1 DEF Fits
    <2>6. told1.slot \in IF path = "out" THEN OutSlotsUsed(build) ELSE InSlotsUsed(build)
      BY <1>1, SlotUsed
    <2> HIDE DEF S, F, told1
    <2> QED
      BY <2>1, <2>2, <2>3, <2>4, <2>5, <2>6 DEF S, F
  <1>3. PacketsFit
    <2> SUFFICES ASSUME NEW path \in PathsOf(build), Streaming(path)
                 PROVE  LET P == RecordsOf("endpoint", <<path, alt[path]>>) IN
                        /\ Cardinality(P) = 1
                        /\ \A e \in P : Samples(build, speed) * told[path].chans * told[path].slot <= read.items[e].size
      BY DEF PacketsFit
    <2>1. Cardinality(RecordsOf("endpoint", <<path, alt[path]>>)) = 1
      BY <1>1, StreamsCounted DEF Kinds
    <2>2. ASSUME NEW e \in RecordsOf("endpoint", <<path, alt[path]>>)
          PROVE  Samples(build, speed) * told[path].chans * told[path].slot <= read.items[e].size
      <3>1. /\ told[path] = FormatTold(build, speed, path, alt[path]) /\ read.items[e].kind = "endpoint"
            /\ read.items[e].of = <<path, alt[path]>> /\ Fits(build, speed, read.items[e])
        BY <1>1, StreamsFit DEF Kinds
      <3> QED
        BY <3>1 DEF Fits
    <2> QED
      BY <2>1, <2>2
  <1> QED
    BY <1>2, <1>3 DEF StreamsCarried

\* For every set of builds and whatever order the requests, resets, suspends and reboots
\* come in, the user has been told of an active host while the device is configured and
\* not suspended.
THEOREM ActiveHolds == Spec => []HostActiveTold
  <1>1. Init => ActiveInv
    <2> SUFFICES ASSUME Init PROVE ActiveInv
      OBVIOUS
    <2>1. config = 0 /\ bus = "running"
      BY DEF Init
    <2>2. active \in BOOLEAN
      BY DEF Init
    <2> QED
      BY <2>1, <2>2 DEF ActiveInv, HostActiveTold
  <1>2. ActiveInv => HostActiveTold
    BY DEF ActiveInv
  <1> QED
    BY <1>1, <1>2, NextActive, PTL DEF Spec

\* For every set of builds whose DFU and HID interfaces are not among the first three, a
\* class request is answered by the handler of the interface the host sent it to, at both
\* speeds and in both audio classes, in DFU mode and out of it.
THEOREM DispatchHolds ==
  ASSUME \A b \in Builds : Apart(b)
  PROVE  Spec => []RequestsDispatched
  BY DescribedHolds, Dispatched, PTL

\* For every set of builds with audio in which MIDI is not between the streaming interfaces
\* and the control interface of UAC1, Windows binds WinUSB to interfaces that the host has
\* read, by the numbers it has read, in DFU mode, out of it and at both speeds; the BOS
\* descriptor announces the length of the set that is then read; and the device descriptor
\* says that there is an association where the host finds one.
THEOREM DriversHold ==
  ASSUME \A b \in Builds : Enumerated(b)
  PROVE  Spec => []DriversBound
  BY DescribedHolds, Bound, PTL

\* For every set of builds whose packets fit an endpoint of high speed and whose input
\* alternates have one resolution, at both speeds and in both audio classes, and whatever
\* order the requests, resets, suspends and reboots come in: what decouple was told of a
\* stream is what the host has read of the alternate it selected, in the one record of each
\* kind that describes it, and the packets of the stream fit the endpoint it has read.
THEOREM StreamsHold ==
  ASSUME \A b \in Builds : Carried(b)
  PROVE  Spec => []StreamsCarried
  BY ToldHolds, StreamsRight, PTL
=============================================================================
