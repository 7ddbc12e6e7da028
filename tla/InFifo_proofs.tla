--------------------------- MODULE InFifo_proofs ---------------------------
(***************************************************************************)
(* Proofs about InFifo for every format, set of rates and of feedback      *)
(* values: where the packets are in the FIFO and how much of it they take, *)
(* that a packet under construction has room, and that a stream whose host *)
(* and converters keep pace loses nothing.                                 *)
(***************************************************************************)
EXTENDS InFifo, SequenceTheorems, WellFoundedInduction, TLAPS

-----------------------------------------------------------------------------
(***************************************************************************)
(* Induction over the natural numbers, for sets.                           *)
(***************************************************************************)
\* A set of natural numbers that is not empty has a least element.
LEMMA LeastElement ==
  ASSUME NEW T \in SUBSET Nat, T # {}
  PROVE  \E n \in T : \A m \in T : n <= m
  <1> DEFINE R == OpToRel(<, Nat)
  <1>1. IsWellFoundedOn(R, Nat)
    BY NatLessThanWellFounded
  <1>2. T \subseteq Nat
    OBVIOUS
  <1> HIDE DEF R
  <1>3. PICK n \in T : \A m \in T : ~ (<<m, n>> \in R)
    BY <1>1, <1>2, WFMin
  <1>4. ASSUME NEW m \in T PROVE n <= m
    <2>1. n \in Nat /\ m \in Nat
      BY <1>2
    <2>2. m < n => <<m, n>> \in R
      BY <2>1, SMT DEF R, OpToRel
    <2> QED
      BY <1>3, <2>1, <2>2
  <1> QED
    BY <1>4

\* A set that holds 0, and with a number the next, holds every natural number.
LEMMA Induction ==
  ASSUME NEW S, 0 \in S, \A n \in Nat : n \in S => n + 1 \in S
  PROVE  \A n \in Nat : n \in S
  <1> DEFINE Missing == {n \in Nat : n \notin S}
  <1> SUFFICES ASSUME Missing # {} PROVE FALSE
    OBVIOUS
  <1>1. PICK n \in Missing : \A m \in Missing : n <= m
    BY LeastElement
  <1>2. n \in Nat /\ n \notin S /\ n # 0
    BY <1>1
  <1>3. n - 1 \in Nat /\ (n - 1) + 1 = n
    BY <1>2
  <1>4. n - 1 \in S
    BY <1>1, <1>2, <1>3
  <1> QED
    BY <1>2, <1>3, <1>4

-----------------------------------------------------------------------------
(***************************************************************************)
(* Sizes.                                                                  *)
(***************************************************************************)
\* The sizes below are whole words, and no packet is larger than two of the
\* largest of the slowest rate.
Aligned == FrameBytes % 4 = 0
Few(n) == n \in Nat /\ \A r \in Rates : n <= 2 * ADCMax(r)
Alike ==
  /\ \A r \in Rates : Few(ADCMid(r))
  /\ \A speed \in Speeds, rem \in 0 .. One - 1 :
       (rem + speed) \div One >= 0 => Few((rem + speed) \div One)

\* More samples take more bytes.
LEMMA MoreBytes ==
  ASSUME NEW a \in Nat, NEW b \in Nat, NEW c \in Nat, a <= b
  PROVE  a * c \in Nat /\ b * c \in Nat /\ a * c <= b * c
  <1>1. PICK d \in Nat : b = a + d
    <2>1. b - a \in Nat /\ b = a + (b - a)
      OBVIOUS
    <2> QED
      BY <2>1
  <1>2. a * c \in Nat /\ d * c \in Nat
    BY Z3
  <1>3. b * c = a * c + d * c
    BY <1>1, Z3
  <1> QED
    BY <1>2, <1>3

\* Sizes of frames, packets and of the FIFO.
LEMMA FrameSize ==
  FrameBytes \in Nat /\ FrameBytes > 0
  <1>1. Chans \in Nat /\ Chans > 0 /\ SubSlot \in {2, 4}
    BY FormatAssumption
  <1> QED
    BY <1>1 DEF FrameBytes

LEMMA SampleCounts ==
  /\ MaxSamples \in Nat /\ MaxSamples >= 2
  /\ \A r \in Rates : /\ ADCMid(r) \in Nat /\ ADCMax(r) = ADCMid(r) + 1 /\ ADCMax(r) <= MaxSamples
                      /\ ADCMin(r) \in Nat /\ ADCMin(r) <= ADCMid(r)
  <1>1. FrameTime \in Nat /\ FrameTime > 0 /\ Rates \subseteq Nat \ {0}
    BY RatesAssumption
  <1>2. MaxRate \in Rates /\ \A s \in Rates : s <= MaxRate
    BY RatesAssumption DEF MaxRate
  <1>3. ASSUME NEW r \in Nat, r > 0
        PROVE  /\ r \div FrameTime \in Nat
               /\ r % FrameTime = 0 => r \div FrameTime >= 1
    <2>1. r \div FrameTime \in Nat
      BY <1>1, <1>3
    <2>2. ASSUME r % FrameTime = 0, r \div FrameTime = 0 PROVE FALSE
      <3>1. r = FrameTime * (r \div FrameTime) + (r % FrameTime)
        BY <1>1, <1>3, Z3
      <3>2. FrameTime * 0 = 0
        BY <1>1
      <3> QED
        BY <2>2, <3>1, <3>2, <1>3
    <2> QED
      BY <2>1, <2>2
  <1>4. ASSUME NEW a \in Nat, NEW b \in Nat, a <= b
        PROVE  a \div FrameTime <= b \div FrameTime
    BY <1>1, <1>4, Z3
  <1>5. MaxRate \in Nat /\ MaxRate > 0
    BY <1>1, <1>2
  <1>6. (MaxRate + FrameTime - 1) \div FrameTime \in Nat
        /\ (MaxRate + FrameTime - 1) \div FrameTime >= 1
    <2>1. FrameTime \div FrameTime = 1
      BY <1>1, Z3
    <2>2. FrameTime <= MaxRate + FrameTime - 1 /\ MaxRate + FrameTime - 1 \in Nat
      BY <1>1, <1>5
    <2>3. (MaxRate + FrameTime - 1) \div FrameTime \in Nat
      BY <2>2, <1>1
    <2> QED
      BY <2>1, <2>2, <2>3, <1>1, <1>4
  <1>7. MaxSamples \in Nat /\ MaxSamples >= 2
    BY <1>6 DEF MaxSamples
  <1>8. ASSUME NEW r \in Rates
        PROVE  /\ ADCMid(r) \in Nat /\ ADCMax(r) = ADCMid(r) + 1 /\ ADCMax(r) <= MaxSamples
               /\ ADCMin(r) \in Nat /\ ADCMin(r) <= ADCMid(r)
    <2>1. r \in Nat /\ r > 0 /\ r <= MaxRate
      BY <1>1, <1>2
    <2>2. r <= MaxRate + FrameTime - 1 /\ MaxRate + FrameTime - 1 \in Nat
      BY <1>1, <1>5, <2>1
    <2>3. r \div FrameTime <= (MaxRate + FrameTime - 1) \div FrameTime
      BY <1>4, <2>1, <2>2
    <2>4. r \div FrameTime \in Nat /\ (r % FrameTime = 0 => r \div FrameTime >= 1)
      BY <1>3, <2>1
    <2> QED
      BY <1>6, <2>3, <2>4 DEF ADCMid, ADCMax, ADCMin, MaxSamples
  <1> QED
    BY <1>7, <1>8

LEMMA FifoSize ==
  /\ MaxSamples * FrameBytes \in Nat
  /\ BUFF_SIZE_IN = 5 * (MaxSamples * FrameBytes + 4)
  /\ BUFF_SIZE_IN \in Nat /\ BUFF_SIZE_IN >= 20
  /\ fifoStart = 0 /\ fifoEnd = BUFF_SIZE_IN
  <1>1. MaxSamples * FrameBytes \in Nat
    BY FrameSize, SampleCounts, Z3
  <1> QED
    BY <1>1 DEF BUFF_SIZE_IN, MAX_DEVICE_AUD_PACKET_SIZE_IN, MAX_PACKETSIZE_IN, BUFFER_PACKET_COUNT,
                fifoStart, fifoEnd

\* What a packet takes.
LEMMA PacketSpace ==
  ASSUME NEW len \in Nat
  PROVE  /\ Space(len) \in Nat /\ Space(len) >= len + 4
         /\ len % 4 = 0 => Space(len) = len + 4 /\ RoundUp(len) = len
  BY DEF Space, RoundUp

\* n samples of every channel are whole words.
LEMMA WholeWords ==
  ASSUME Aligned, NEW n \in Nat
  PROVE  /\ n * FrameBytes \in Nat /\ (n * FrameBytes) % 4 = 0
         /\ Space(n * FrameBytes) = n * FrameBytes + 4 /\ RoundUp(n * FrameBytes) = n * FrameBytes
  <1>1. PICK k \in Nat : FrameBytes = 4 * k
    <2>1. FrameBytes = 4 * (FrameBytes \div 4) /\ FrameBytes \div 4 \in Nat
      BY FrameSize DEF Aligned
    <2> QED
      BY <2>1
  <1>2. n * k \in Nat
    BY Z3
  <1>3. n * FrameBytes = 4 * (n * k)
    BY <1>1, Z3
  <1>4. n * FrameBytes \in Nat /\ (n * FrameBytes) % 4 = 0
    BY <1>2, <1>3
  <1> QED
    BY <1>4, PacketSpace

-----------------------------------------------------------------------------
(***************************************************************************)
(* The bytes the first packets of the FIFO take.                           *)
(***************************************************************************)
Packets == {p \in [at : 0 .. fifoEnd - 1, len : Nat] :
              \E n \in Nat : Few(n) /\ p.len = n * FrameBytes}

LEMMA PacketTypes ==
  ASSUME Aligned, NEW p \in Packets
  PROVE  /\ p.at \in 0 .. fifoEnd - 1 /\ p.len \in Nat
         /\ p.len % 4 = 0 /\ Space(p.len) = p.len + 4 /\ Space(p.len) \in Nat
  <1>1. PICK n \in Nat : Few(n) /\ p.len = n * FrameBytes
    BY DEF Packets
  <1>2. p \in [at : 0 .. fifoEnd - 1, len : Nat]
    BY DEF Packets
  <1>3. p.at \in 0 .. fifoEnd - 1 /\ p.len \in Nat
    BY <1>2
  <1>4. p.len % 4 = 0 /\ Space(p.len) = p.len + 4
    BY <1>1, WholeWords
  <1> QED
    BY <1>3, <1>4

\* The recursion of Spaces has a solution ...
LEMMA SpacesDefined ==
  ASSUME NEW q, Len(q) \in Nat
  PROVE  Spaces(q) = [i \in 0 .. Len(q) |->
                        IF i = 0 THEN 0 ELSE Spaces(q)[i - 1] + Space(q[i].len)]
  <1> DEFINE Def(g, n) == [i \in 0 .. n |-> IF i = 0 THEN 0 ELSE g[i - 1] + Space(q[i].len)]
             Solved == {n \in Nat : \E g : g = Def(g, n)}
  <1>1. 0 \in Solved
    <2> DEFINE g == [i \in 0 .. 0 |-> 0]
    <2>1. g = Def(g, 0)
      OBVIOUS
    <2> QED
      BY <2>1
  <1>2. ASSUME NEW n \in Nat, n \in Solved PROVE n + 1 \in Solved
    <2>1. PICK g : g = Def(g, n)
      BY <1>2
    <2> DEFINE h == [i \in 0 .. n + 1 |-> IF i = n + 1 THEN g[n] + Space(q[n + 1].len) ELSE g[i]]
    <2>2. ASSUME NEW i \in 0 .. n + 1 PROVE h[i] = Def(h, n + 1)[i]
      <3>1. CASE i = n + 1
        BY <3>1
      <3>2. CASE i # n + 1
        <4>1. i \in 0 .. n
          BY <3>2
        <4>2. g[i] = IF i = 0 THEN 0 ELSE g[i - 1] + Space(q[i].len)
          BY <2>1, <4>1
        <4>3. i # 0 => i - 1 \in 0 .. n + 1 /\ i - 1 # n + 1
          BY <4>1
        <4> QED
          BY <4>1, <4>2, <4>3, <3>2
      <3> QED
        BY <3>1, <3>2
    <2>3. h = Def(h, n + 1)
      BY <2>2
    <2> HIDE DEF h, Def
    <2> QED
      BY <2>3
  <1> HIDE DEF Solved
  <1>3. Len(q) \in Solved
    BY <1>1, <1>2, Induction
  <1>4. \E g : g = Def(g, Len(q))
    BY <1>3 DEF Solved
  <1> QED
    BY <1>4, Zenon DEF Spaces

\* ... which is a sum.
LEMMA SpacesSum ==
  ASSUME Aligned, NEW q \in Seq(Packets)
  PROVE  /\ Spaces(q)[0] = 0
         /\ \A i \in 1 .. Len(q) : Spaces(q)[i] = Spaces(q)[i - 1] + Space(q[i].len)
         /\ \A i \in 0 .. Len(q) : Spaces(q)[i] \in Nat
  <1>1. Len(q) \in Nat /\ \A i \in 1 .. Len(q) : q[i] \in Packets
    OBVIOUS
  <1>2. Spaces(q) = [i \in 0 .. Len(q) |->
                       IF i = 0 THEN 0 ELSE Spaces(q)[i - 1] + Space(q[i].len)]
    BY <1>1, SpacesDefined
  <1> HIDE DEF Spaces
  <1>3. Spaces(q)[0] = 0
    BY <1>1, <1>2
  <1>4. \A i \in 1 .. Len(q) : Spaces(q)[i] = Spaces(q)[i - 1] + Space(q[i].len)
    <2> TAKE i \in 1 .. Len(q)
    <2>1. i \in 0 .. Len(q) /\ i # 0
      BY <1>1
    <2> QED
      BY <1>2, <2>1
  <1> DEFINE Counted == {n \in Nat : n <= Len(q) => Spaces(q)[n] \in Nat}
  <1>5. 0 \in Counted
    BY <1>3
  <1>6. ASSUME NEW n \in Nat, n \in Counted PROVE n + 1 \in Counted
    <2>1. CASE n + 1 <= Len(q)
      <3>1. n + 1 \in 1 .. Len(q) /\ (n + 1) - 1 = n /\ n <= Len(q)
        BY <2>1, <1>1
      <3>2. Spaces(q)[n + 1] = Spaces(q)[n] + Space(q[n + 1].len)
        BY <1>4, <3>1
      <3>3. Spaces(q)[n] \in Nat
        BY <1>6, <3>1
      <3>4. Space(q[n + 1].len) \in Nat
        BY <1>1, <3>1, PacketTypes
      <3> QED
        BY <3>2, <3>3, <3>4
    <2>2. CASE ~(n + 1 <= Len(q))
      BY <2>2
    <2> QED
      BY <2>1, <2>2
  <1>7. \A n \in Nat : n \in Counted
    <2> HIDE DEF Counted
    <2> QED
      BY <1>5, <1>6, Induction
  <1>8. \A i \in 0 .. Len(q) : Spaces(q)[i] \in Nat
    BY <1>1, <1>7
  <1> QED
    BY <1>3, <1>4, <1>8

\* The packets behind the i-th come at least its space further on.
LEMMA SpacesGrow ==
  ASSUME Aligned, NEW q \in Seq(Packets), NEW i \in 1 .. Len(q), NEW j \in i .. Len(q)
  PROVE  Spaces(q)[i - 1] + Space(q[i].len) <= Spaces(q)[j]
  <1> DEFINE Ahead == {n \in Nat : i + n <= Len(q) => Spaces(q)[i] <= Spaces(q)[i + n]}
  <1>1. Len(q) \in Nat /\ \A k \in 1 .. Len(q) : q[k] \in Packets
    OBVIOUS
  <1>2. /\ \A k \in 1 .. Len(q) : Spaces(q)[k] = Spaces(q)[k - 1] + Space(q[k].len)
        /\ \A k \in 0 .. Len(q) : Spaces(q)[k] \in Nat
    BY SpacesSum
  <1>3. 0 \in Ahead
    BY <1>1, <1>2
  <1>4. ASSUME NEW n \in Nat, n \in Ahead PROVE n + 1 \in Ahead
    <2>1. CASE i + (n + 1) <= Len(q)
      <3>1. /\ i + (n + 1) \in 1 .. Len(q) /\ (i + (n + 1)) - 1 = i + n
            /\ i + n \in 0 .. Len(q) /\ i \in 0 .. Len(q)
        BY <2>1, <1>1
      <3>2. Spaces(q)[i + (n + 1)] = Spaces(q)[i + n] + Space(q[i + (n + 1)].len)
        BY <1>2, <3>1
      <3>3. Space(q[i + (n + 1)].len) \in Nat
        BY <1>1, <3>1, PacketTypes
      <3>4. Spaces(q)[i] \in Nat /\ Spaces(q)[i + n] \in Nat
        BY <1>2, <3>1
      <3>5. Spaces(q)[i] <= Spaces(q)[i + n]
        BY <1>4, <3>1
      <3>6. Spaces(q)[i] <= Spaces(q)[i + (n + 1)]
        BY <3>2, <3>3, <3>4, <3>5
      <3> QED
        BY <3>6
    <2>2. CASE ~(i + (n + 1) <= Len(q))
      BY <2>2
    <2> QED
      BY <2>1, <2>2
  <1>5. j - i \in Nat /\ i + (j - i) = j
    BY <1>1
  <1>6. j - i \in Ahead
    <2> HIDE DEF Ahead
    <2> QED
      BY <1>3, <1>4, <1>5, Induction
  <1>7. Spaces(q)[i] <= Spaces(q)[j]
    BY <1>1, <1>5, <1>6
  <1> QED
    BY <1>2, <1>7

\* Where two sequences have the same packets, they take the same.
LEMMA SpacesAgree ==
  ASSUME Aligned, NEW q \in Seq(Packets), NEW s \in Seq(Packets), NEW k \in Nat, NEW m \in Nat,
         m <= Len(q), k + m <= Len(s), \A i \in 1 .. m : q[i] = s[k + i]
  PROVE  \A i \in 0 .. m : Spaces(q)[i] = Spaces(s)[k + i] - Spaces(s)[k]
  <1> DEFINE Same == {n \in Nat : n <= m => Spaces(q)[n] = Spaces(s)[k + n] - Spaces(s)[k]}
  <1>1. Len(q) \in Nat /\ Len(s) \in Nat
        /\ (\A i \in 1 .. Len(q) : q[i] \in Packets) /\ (\A i \in 1 .. Len(s) : s[i] \in Packets)
    OBVIOUS
  <1>2. /\ Spaces(q)[0] = 0
        /\ \A i \in 1 .. Len(q) : Spaces(q)[i] = Spaces(q)[i - 1] + Space(q[i].len)
        /\ \A i \in 1 .. Len(s) : Spaces(s)[i] = Spaces(s)[i - 1] + Space(s[i].len)
        /\ \A i \in 0 .. Len(q) : Spaces(q)[i] \in Nat
        /\ \A i \in 0 .. Len(s) : Spaces(s)[i] \in Nat
    BY SpacesSum
  <1>3. 0 \in Same
    <2>1. k + 0 = k /\ k \in 0 .. Len(s)
      BY <1>1
    <2>2. Spaces(s)[k] \in Nat
      BY <1>2, <2>1
    <2>3. Spaces(s)[k + 0] - Spaces(s)[k] = 0
      BY <2>1, <2>2
    <2> QED
      BY <1>2, <2>3
  <1>4. ASSUME NEW n \in Nat, n \in Same PROVE n + 1 \in Same
    <2>1. CASE n + 1 <= m
      <3>1. /\ n + 1 \in 1 .. Len(q) /\ (n + 1) - 1 = n /\ n \in 0 .. Len(q) /\ n <= m
            /\ k + (n + 1) \in 1 .. Len(s) /\ (k + (n + 1)) - 1 = k + n /\ k + n \in 0 .. Len(s)
            /\ k \in 0 .. Len(s) /\ n + 1 \in 1 .. m
        BY <2>1, <1>1
      <3>2. Spaces(q)[n + 1] = Spaces(q)[n] + Space(q[n + 1].len)
        BY <1>2, <3>1
      <3>3. Spaces(s)[k + (n + 1)] = Spaces(s)[k + n] + Space(s[k + (n + 1)].len)
        BY <1>2, <3>1
      <3>4. q[n + 1] = s[k + (n + 1)]
        BY <3>1
      <3>5. Spaces(q)[n] = Spaces(s)[k + n] - Spaces(s)[k]
        BY <1>4, <3>1
      <3>6. /\ Space(q[n + 1].len) \in Nat /\ Spaces(q)[n] \in Nat
            /\ Spaces(s)[k + n] \in Nat /\ Spaces(s)[k] \in Nat
        BY <1>1, <1>2, <3>1, PacketTypes
      <3>7. Spaces(q)[n + 1] = Spaces(s)[k + (n + 1)] - Spaces(s)[k]
        BY SMTT(30), <3>2, <3>3, <3>4, <3>5, <3>6
      <3> QED
        BY <3>7
    <2>2. CASE ~(n + 1 <= m)
      BY <2>2
    <2> QED
      BY <2>1, <2>2
  <1>5. \A n \in Nat : n \in Same
    <2> HIDE DEF Same
    <2> QED
      BY <1>3, <1>4, Induction
  <1> QED
    BY <1>5

-----------------------------------------------------------------------------
(***************************************************************************)
(* Where the packets are.                                                  *)
(***************************************************************************)
\* The packets q follow each other from rd to wr ...
Straight(q, rd, wr) ==
  /\ \A i \in 1 .. Len(q) : q[i].at = rd + Spaces(q)[i - 1]
  /\ wr = rd + Spaces(q)[Len(q)]

\* ... or the first w of them reach the end of the FIFO, and the others go on
\* from its start.
Folded(q, rd, wr, w) ==
  /\ \A i \in 1 .. w : q[i].at = rd + Spaces(q)[i - 1]
  /\ rd + Spaces(q)[w] >= fifoEnd
  /\ \A i \in w + 1 .. Len(q) : q[i].at = Spaces(q)[i - 1] - Spaces(q)[w]
  /\ wr = Spaces(q)[Len(q)] - Spaces(q)[w]

LaidOut(q, rd, wr, level) ==
  /\ q \in Seq(Packets)
  /\ rd \in 0 .. fifoEnd - 1 /\ wr \in 0 .. fifoEnd - 1
  /\ level = Spaces(q)[Len(q)] /\ level <= BUFF_SIZE_IN
  /\ Straight(q, rd, wr) \/ \E w \in 1 .. Len(q) : Folded(q, rd, wr, w)

\* The write pointer of a folded FIFO is not ahead of the read pointer.
LEMMA FoldedBehind ==
  ASSUME Aligned, NEW q, NEW rd, NEW wr, NEW level, LaidOut(q, rd, wr, level),
         NEW w \in 1 .. Len(q), Folded(q, rd, wr, w)
  PROVE  wr <= rd /\ Spaces(q)[w] \in Nat /\ level \in Nat /\ wr = level - Spaces(q)[w]
         /\ level - Spaces(q)[w] <= BUFF_SIZE_IN - Spaces(q)[w]
         /\ BUFF_SIZE_IN - Spaces(q)[w] <= rd
  <1>1. q \in Seq(Packets) /\ Len(q) \in Nat
    BY DEF LaidOut
  <1>2. Len(q) \in 0 .. Len(q) /\ w \in 0 .. Len(q)
    BY <1>1
  <1>3. Spaces(q)[w] \in Nat /\ Spaces(q)[Len(q)] \in Nat
    BY <1>1, <1>2, SpacesSum
  <1>4. /\ rd \in Nat /\ wr = Spaces(q)[Len(q)] - Spaces(q)[w] /\ level = Spaces(q)[Len(q)]
        /\ level <= BUFF_SIZE_IN /\ rd + Spaces(q)[w] >= BUFF_SIZE_IN
    BY FifoSize DEF LaidOut, Folded
  <1> QED
    BY SMTT(30), <1>3, <1>4, FifoSize

\* A packet is put at the write pointer.
LEMMA PutLaidOut ==
  ASSUME Aligned, NEW q, NEW rd, NEW wr, NEW level, LaidOut(q, rd, wr, level),
         NEW n \in Nat, Few(n), level + Space(n * FrameBytes) <= BUFF_SIZE_IN
  PROVE  LaidOut(Append(q, Packet(wr, n * FrameBytes)), rd,
                 Wrap(wr + Space(n * FrameBytes)), level + Space(n * FrameBytes))
  <1> DEFINE p == Packet(wr, n * FrameBytes)
             s == Append(q, p)
             size == Space(n * FrameBytes)
  <1>1. /\ q \in Seq(Packets) /\ Len(q) \in Nat /\ wr \in 0 .. fifoEnd - 1 /\ rd \in 0 .. fifoEnd - 1
        /\ level = Spaces(q)[Len(q)]
    BY DEF LaidOut
  <1>2. n * FrameBytes \in Nat /\ size = n * FrameBytes + 4 /\ size \in Nat /\ size > 0
    BY WholeWords
  <1>3. p.at = wr /\ p.len = n * FrameBytes /\ p \in Packets
    BY <1>1, <1>2 DEF Packets, Packet
  <1>4. wr \in Nat /\ rd \in Nat /\ wr < BUFF_SIZE_IN /\ rd < BUFF_SIZE_IN /\ BUFF_SIZE_IN \in Nat
        /\ fifoEnd = BUFF_SIZE_IN /\ fifoStart = 0
    BY <1>1, FifoSize
  <1> HIDE DEF size
  <1>5. Wrap(wr + size) = IF wr + size >= BUFF_SIZE_IN THEN 0 ELSE wr + size
    BY <1>4 DEF Wrap
  <1>6. Wrap(wr + size) \in 0 .. fifoEnd - 1
    BY <1>2, <1>4, <1>5
  <1> HIDE DEF p
  <1>7. /\ s \in Seq(Packets) /\ Len(s) = Len(q) + 1 /\ s[Len(q) + 1] = p
        /\ \A i \in 1 .. Len(q) : s[i] = q[i]
    BY <1>1, <1>3, AppendProperties
  <1> HIDE DEF s
  <1>8. /\ \A i \in 0 .. Len(q) : Spaces(q)[i] = Spaces(s)[i]
        /\ \A i \in 0 .. Len(s) : Spaces(s)[i] \in Nat
    <2>1. Spaces(s)[0] = 0 /\ \A i \in 0 .. Len(s) : Spaces(s)[i] \in Nat
      BY <1>7, SpacesSum
    <2>2. \A i \in 0 .. Len(q) : Spaces(q)[i] = Spaces(s)[0 + i] - Spaces(s)[0]
      <3>1. 0 \in Nat /\ Len(q) <= Len(q) /\ 0 + Len(q) <= Len(s)
            /\ \A i \in 1 .. Len(q) : q[i] = s[0 + i]
        BY <1>1, <1>7
      <3> QED
        BY <1>1, <1>7, <3>1, SpacesAgree
    <2>3. ASSUME NEW i \in 0 .. Len(q) PROVE Spaces(q)[i] = Spaces(s)[i]
      <3>1. 0 + i = i /\ i \in 0 .. Len(s)
        BY <1>1, <1>7
      <3>2. Spaces(s)[i] \in Nat
        BY <2>1, <3>1
      <3>3. Spaces(q)[i] = Spaces(s)[i] - 0
        BY <2>1, <2>2, <3>1
      <3> QED
        BY <3>2, <3>3
    <2> QED
      BY <2>1, <2>3
  <1>9. Spaces(s)[Len(s)] = level + size
    <2>1. Len(s) \in 1 .. Len(s) /\ Len(s) - 1 = Len(q) /\ Len(q) \in 0 .. Len(q)
      BY <1>1, <1>7
    <2>2. Spaces(s)[Len(s)] = Spaces(s)[Len(q)] + Space(s[Len(s)].len)
      BY <1>7, <2>1, SpacesSum
    <2>3. s[Len(s)].len = n * FrameBytes
      BY <1>3, <1>7
    <2> QED
      BY <1>1, <1>8, <2>1, <2>2, <2>3 DEF size
  <1>10. level \in Nat /\ level = Spaces(s)[Len(q)]
    <2>1. Len(q) \in 0 .. Len(q) /\ Len(q) \in 0 .. Len(s)
      BY <1>1, <1>7
    <2> QED
      BY <1>1, <1>8, <2>1
  <1>11. level + size <= BUFF_SIZE_IN
    BY DEF size
  <1>12. \A i \in 1 .. Len(q) : i - 1 \in 0 .. Len(q) /\ Spaces(s)[i - 1] = Spaces(q)[i - 1]
    <2> TAKE i \in 1 .. Len(q)
    <2>1. i - 1 \in 0 .. Len(q)
      BY <1>1
    <2> QED
      BY <1>8, <2>1
  <1>13. Straight(s, rd, Wrap(wr + size)) \/ \E w \in 1 .. Len(s) : Folded(s, rd, Wrap(wr + size), w)
    <2>1. CASE Straight(q, rd, wr)
      <3>1. wr = rd + level
        BY <2>1, <1>1 DEF Straight
      <3>2. ASSUME NEW i \in 1 .. Len(s) PROVE s[i].at = rd + Spaces(s)[i - 1]
        <4>1. CASE i \in 1 .. Len(q)
          BY <4>1, <2>1, <1>7, <1>12 DEF Straight
        <4>2. CASE i = Len(q) + 1
          <5>1. (Len(q) + 1) - 1 = Len(q)
            BY <1>1
          <5> QED
            BY <4>2, <5>1, <3>1, <1>3, <1>7, <1>10
        <4> QED
          BY <4>1, <4>2, <1>1, <1>7
      <3>3. CASE wr + size < BUFF_SIZE_IN
        <4>1. Wrap(wr + size) = rd + (level + size)
          BY SMTT(30), <3>1, <3>3, <1>2, <1>4, <1>5, <1>10
        <4> QED
          BY <3>2, <4>1, <1>9 DEF Straight
      <3>4. CASE wr + size >= BUFF_SIZE_IN
        <4>1. Len(s) \in 1 .. Len(s) /\ Len(s) + 1 .. Len(s) = {}
          BY <1>1, <1>7
        <4>2. Spaces(s)[Len(s)] \in Nat /\ Spaces(s)[Len(s)] - Spaces(s)[Len(s)] = 0
          BY <1>8, <4>1
        <4>3. rd + Spaces(s)[Len(s)] >= fifoEnd
          BY <3>1, <3>4, <1>2, <1>4, <1>9, <1>10
        <4>4. Wrap(wr + size) = 0
          BY <3>4, <1>5
        <4>5. Folded(s, rd, Wrap(wr + size), Len(s))
          BY <3>2, <4>1, <4>2, <4>3, <4>4 DEF Folded
        <4> QED
          BY <4>1, <4>5
      <3> QED
        BY <3>3, <3>4, <1>2, <1>4
    <2>2. CASE \E w \in 1 .. Len(q) : Folded(q, rd, wr, w)
      <3>1. PICK w \in 1 .. Len(q) : Folded(q, rd, wr, w)
        BY <2>2
      <3>2. /\ Spaces(q)[w] \in Nat /\ wr = level - Spaces(q)[w]
            /\ BUFF_SIZE_IN - Spaces(q)[w] <= rd
        BY <3>1, FoldedBehind
      <3>3. w \in 0 .. Len(q) /\ w \in 1 .. Len(s) /\ w \in Nat
        BY <1>1, <1>7
      <3>4. Spaces(s)[w] = Spaces(q)[w]
        BY <1>8, <3>3
      <3>5. Wrap(wr + size) = (level + size) - Spaces(q)[w]
        <4>1. wr + size = (level + size) - Spaces(q)[w]
          BY SMTT(30), <3>2, <1>2, <1>10
        <4>2. wr + size <= BUFF_SIZE_IN - Spaces(q)[w]
          <5>1. size \in Nat
            BY <1>2
          <5> QED
            BY SMTT(30), <4>1, <5>1, <3>2, <1>4, <1>10, <1>11
        <4>3. wr + size < BUFF_SIZE_IN
          <5>1. wr + size \in Nat
            BY <1>2, <1>4
          <5> QED
            BY <4>2, <5>1, <3>2, <1>4
        <4> QED
  BY <4>1, <4>3, <1>4, <1>2, <1>5
      <3>6. ASSUME NEW i \in 1 .. w PROVE s[i].at = rd + Spaces(s)[i - 1]
        <4>1. i \in 1 .. Len(q)
          BY <3>3, <1>1
        <4> QED
          BY <4>1, <3>1, <1>7, <1>12 DEF Folded
      <3>7. ASSUME NEW i \in w + 1 .. Len(s) PROVE s[i].at = Spaces(s)[i - 1] - Spaces(s)[w]
        <4>1. CASE i <= Len(q)
          <5>1. i \in 1 .. Len(q) /\ i \in w + 1 .. Len(q)
            BY <4>1, <3>3, <1>1
          <5> QED
            BY <5>1, <3>1, <3>4, <1>7, <1>12 DEF Folded
        <4>2. CASE i = Len(q) + 1
          <5>1. (Len(q) + 1) - 1 = Len(q)
            BY <1>1
          <5> QED
            BY <4>2, <5>1, <3>2, <3>4, <1>3, <1>7, <1>10
        <4>3. i <= Len(q) \/ i = Len(q) + 1
          BY <3>3, <1>1, <1>7
        <4> QED
          BY <4>1, <4>2, <4>3
      <3>8. rd + Spaces(s)[w] >= fifoEnd
        BY <3>1, <3>4 DEF Folded
      <3>9. Folded(s, rd, Wrap(wr + size), w)
        BY <3>4, <3>5, <3>6, <3>7, <3>8, <1>9 DEF Folded
      <3> QED
        BY <3>3, <3>9
    <2> QED
      BY <2>1, <2>2 DEF LaidOut
  <1>14. LaidOut(s, rd, Wrap(wr + size), level + size)
    BY <1>1, <1>6, <1>7, <1>9, <1>11, <1>13 DEF LaidOut
  <1> QED
    BY <1>14 DEF s, p, size

\* What is left when the first k packets of q are taken out.
LEMMA RestOf ==
  ASSUME NEW q \in Seq(Packets), NEW k \in 0 .. Len(q)
  PROVE  /\ SubSeq(q, k + 1, Len(q)) \in Seq(Packets)
         /\ Len(SubSeq(q, k + 1, Len(q))) = Len(q) - k
         /\ \A i \in 1 .. Len(q) - k : SubSeq(q, k + 1, Len(q))[i] = q[k + i]
  <1>1. Len(q) \in Nat /\ k \in Nat /\ k <= Len(q) /\ k + 1 \in Int
    OBVIOUS
  <1>2. \A i \in k + 1 .. Len(q) : q[i] \in Packets
    BY <1>1
  <1>3. /\ SubSeq(q, k + 1, Len(q)) \in Seq(Packets)
        /\ Len(SubSeq(q, k + 1, Len(q))) = IF k + 1 <= Len(q) THEN Len(q) - (k + 1) + 1 ELSE 0
        /\ \A i \in 1 .. Len(q) - (k + 1) + 1 : SubSeq(q, k + 1, Len(q))[i] = q[k + 1 + i - 1]
    BY <1>1, <1>2, SubSeqProperties
  <1>4. Len(q) - (k + 1) + 1 = Len(q) - k /\ (~(k + 1 <= Len(q)) => Len(q) - k = 0)
    BY <1>1
  <1>5. \A i \in 1 .. Len(q) - k : k + 1 + i - 1 = k + i
    BY <1>1
  <1> QED
    BY <1>3, <1>4, <1>5

\* Every packet ends where the next begins, the last at the write pointer.
LEMMA OneBehindTheOther ==
  ASSUME Aligned, NEW q, NEW rd, NEW wr, NEW level, LaidOut(q, rd, wr, level)
  PROVE  /\ \A i \in 1 .. Len(q) :
              Wrap(q[i].at + Space(q[i].len)) = IF i < Len(q) THEN q[i + 1].at ELSE wr
         /\ rd = IF q = <<>> THEN wr ELSE q[1].at
  <1>1. /\ q \in Seq(Packets) /\ Len(q) \in Nat /\ wr \in Nat /\ rd \in Nat
        /\ wr < BUFF_SIZE_IN /\ rd < BUFF_SIZE_IN
        /\ level = Spaces(q)[Len(q)] /\ level <= BUFF_SIZE_IN
    BY FifoSize DEF LaidOut
  <1>2. /\ \A i \in 1 .. Len(q) : q[i] \in Packets
        /\ \A i \in 1 .. Len(q) : Spaces(q)[i] = Spaces(q)[i - 1] + Space(q[i].len)
        /\ \A i \in 0 .. Len(q) : Spaces(q)[i] \in Nat
        /\ Spaces(q)[0] = 0
    BY <1>1, SpacesSum
  <1>3. \A x \in Nat : Wrap(x) = IF x >= BUFF_SIZE_IN THEN 0 ELSE x
    BY FifoSize DEF Wrap
  <1>4. rd = IF q = <<>> THEN wr ELSE q[1].at
    <2>1. CASE q = <<>>
      <3>1. Len(q) = 0 /\ 1 .. Len(q) = {}
        BY <2>1
      <3>2. Straight(q, rd, wr)
        BY <3>1 DEF LaidOut
      <3> QED
        BY <2>1, <3>1, <3>2, <1>1, <1>2 DEF Straight
    <2>2. CASE q # <<>>
      <3>1. Len(q) >= 1 /\ 1 \in 1 .. Len(q) /\ 1 - 1 = 0
        BY <2>2, <1>1
      <3>2. q[1].at = rd + Spaces(q)[1 - 1]
        <4>1. CASE Straight(q, rd, wr)
          BY <4>1, <3>1 DEF Straight
        <4>2. CASE \E w \in 1 .. Len(q) : Folded(q, rd, wr, w)
          <5>1. PICK w \in 1 .. Len(q) : Folded(q, rd, wr, w)
            BY <4>2
          <5>2. 1 \in 1 .. w
            BY <1>1
          <5> QED
            BY <5>1, <5>2 DEF Folded
        <4> QED
          BY <4>1, <4>2 DEF LaidOut
      <3> QED
        BY <2>2, <3>1, <3>2, <1>1, <1>2
    <2> QED
      BY <2>1, <2>2
  <1>5. ASSUME NEW i \in 1 .. Len(q)
        PROVE  Wrap(q[i].at + Space(q[i].len)) = IF i < Len(q) THEN q[i + 1].at ELSE wr
    <2>1. i \in Nat /\ i - 1 \in 0 .. Len(q) /\ i \in 0 .. Len(q) /\ Len(q) \in 0 .. Len(q)
      BY <1>1
    <2> DEFINE size == Space(q[i].len)
    <2>2. /\ Spaces(q)[i] = Spaces(q)[i - 1] + size
          /\ size \in Nat /\ Spaces(q)[i] \in Nat /\ Spaces(q)[i - 1] \in Nat
          /\ q[i].at \in 0 .. fifoEnd - 1
      BY <1>2, <2>1, PacketTypes
    <2>3. q[i].at \in Nat
      BY <2>2, FifoSize
    <2>4. ASSUME i < Len(q) PROVE i + 1 \in 1 .. Len(q) /\ (i + 1) - 1 = i
      BY <2>4, <1>1, <2>1
    <2>5. ASSUME i < Len(q) PROVE q[i + 1].at \in Nat /\ q[i + 1].at < BUFF_SIZE_IN
      <3>1. q[i + 1].at \in 0 .. fifoEnd - 1
        BY <2>4, <2>5, <1>2, PacketTypes
      <3> QED
        BY SMTT(30), <3>1, FifoSize
    <2>6. ~(i < Len(q)) => i = Len(q)
      BY <2>1, <1>1
    <2> HIDE DEF size
    <2>7. CASE Straight(q, rd, wr)
      <3>1. q[i].at + size = rd + Spaces(q)[i]
        BY SMTT(30), <2>7, <2>2, <1>1 DEF Straight
      <3>2. rd + Spaces(q)[i] = IF i < Len(q) THEN q[i + 1].at ELSE wr
        BY <2>7, <2>4, <2>6 DEF Straight
      <3>3. rd + Spaces(q)[i] < BUFF_SIZE_IN /\ rd + Spaces(q)[i] \in Nat
        BY <3>2, <2>5, <2>2, <1>1
      <3>4. Wrap(q[i].at + size) = rd + Spaces(q)[i]
        BY <3>1, <3>3, <1>3, FifoSize
      <3> QED
        BY <3>2, <3>4 DEF size
    <2>8. CASE \E w \in 1 .. Len(q) : Folded(q, rd, wr, w)
      <3>1. PICK w \in 1 .. Len(q) : Folded(q, rd, wr, w)
        BY <2>8
      <3>2. w \in Nat /\ Spaces(q)[w] \in Nat
        <4>1. w \in 0 .. Len(q)
          BY <1>1
        <4> QED
          BY <4>1, <1>2
      <3>3. CASE i < w
        <4>1. i \in 1 .. w /\ i + 1 \in 1 .. w /\ i < Len(q)
          BY <3>3, <3>2, <2>1, <1>1
        <4>2. q[i].at = rd + Spaces(q)[i - 1] /\ q[i + 1].at = rd + Spaces(q)[i]
          BY <4>1, <3>1, <2>4 DEF Folded
        <4>3. q[i].at + size = q[i + 1].at
          BY <4>2, <2>2, <1>1
        <4> QED
          BY <4>1, <4>3, <2>5, <1>3, FifoSize DEF size
      <3>4. CASE i = w
        <4>1. i \in 1 .. w
          BY <3>4, <3>2
        <4>2. q[i].at + size = rd + Spaces(q)[w]
          BY SMTT(30), <4>1, <3>1, <3>4, <2>2, <1>1 DEF Folded
        <4>3. rd + Spaces(q)[w] >= BUFF_SIZE_IN /\ rd + Spaces(q)[w] \in Nat
          BY <3>1, <3>2, <1>1, FifoSize DEF Folded
        <4>4. Wrap(q[i].at + size) = 0
          BY <4>2, <4>3, <1>3
        <4>5. i < Len(q) => q[i + 1].at = 0
          <5>1. ASSUME i < Len(q) PROVE i + 1 \in w + 1 .. Len(q)
            BY <3>4, <5>1, <1>1, <2>1
          <5>2. ASSUME i < Len(q) PROVE q[i + 1].at = Spaces(q)[i] - Spaces(q)[w]
            BY <5>1, <5>2, <2>4, <3>1 DEF Folded
          <5> QED
            BY <5>2, <3>2, <3>4
        <4>6. i = Len(q) => wr = 0
          BY <3>1, <3>2, <3>4 DEF Folded
        <4> QED
          BY <4>4, <4>5, <4>6, <2>6 DEF size
      <3>5. CASE i > w
        <4>1. i \in w + 1 .. Len(q)
          BY <3>5, <3>2, <2>1, <1>1
        <4>2. q[i].at + size = Spaces(q)[i] - Spaces(q)[w]
          <5>1. q[i].at = Spaces(q)[i - 1] - Spaces(q)[w]
            BY <4>1, <3>1 DEF Folded
          <5> QED
            BY <5>1, <3>2, <2>2
        <4>3. i < Len(q) => q[i + 1].at = Spaces(q)[i] - Spaces(q)[w]
          <5>1. ASSUME i < Len(q) PROVE i + 1 \in w + 1 .. Len(q)
            BY <3>5, <5>1, <3>2, <1>1, <2>1
          <5> QED
            BY <5>1, <2>4, <3>1 DEF Folded
        <4>4. i = Len(q) => wr = Spaces(q)[i] - Spaces(q)[w]
          BY <3>1 DEF Folded
        <4>5. q[i].at + size = IF i < Len(q) THEN q[i + 1].at ELSE wr
          BY <4>2, <4>3, <4>4, <2>6
        <4>6. q[i].at + size \in Nat /\ q[i].at + size < BUFF_SIZE_IN
          BY <4>5, <2>5, <2>6, <1>1, <2>2, <2>3
        <4> QED
          BY <4>5, <4>6, <1>3, FifoSize DEF size
      <3> QED
        BY <3>3, <3>4, <3>5, <3>2, <2>1
    <2> QED
      BY <2>7, <2>8 DEF LaidOut
  <1> QED
    BY <1>4, <1>5

\* The read pointer the overflow loop ends with is where the first packet it
\* leaves begins.
LEMMA ReadAfterIs ==
  ASSUME Aligned, NEW q, NEW rd, NEW wr, NEW level, LaidOut(q, rd, wr, level),
         NEW k \in 0 .. Len(q)
  PROVE  ReadAfter(q, rd, k) = IF k < Len(q) THEN q[k + 1].at ELSE wr
  <1> DEFINE Def(g) == [i \in 0 .. Len(q) |->
                          IF i = 0 THEN rd ELSE Wrap(g[i - 1] + Space(q[i].len))]
             f == CHOOSE g : g = Def(g)
             h == [i \in 0 .. Len(q) |-> IF i < Len(q) THEN q[i + 1].at ELSE wr]
  <1>1. q \in Seq(Packets) /\ Len(q) \in Nat
    BY DEF LaidOut
  <1>2. /\ \A i \in 1 .. Len(q) :
             Wrap(q[i].at + Space(q[i].len)) = IF i < Len(q) THEN q[i + 1].at ELSE wr
        /\ rd = IF q = <<>> THEN wr ELSE q[1].at
    BY OneBehindTheOther
  <1>3. ASSUME NEW i \in 0 .. Len(q) PROVE h[i] = Def(h)[i]
    <2>1. CASE i = 0
      <3>1. Def(h)[i] = rd
        BY <2>1
      <3>2. h[i] = IF 0 < Len(q) THEN q[0 + 1].at ELSE wr
        BY <2>1
      <3>3. 0 + 1 = 1 /\ (0 < Len(q) <=> q # <<>>)
        BY <1>1
      <3> QED
        BY <3>1, <3>2, <3>3, <1>2
    <2>2. CASE i # 0
      <3>1. i \in 1 .. Len(q) /\ i - 1 \in 0 .. Len(q) /\ (i - 1) + 1 = i /\ i - 1 < Len(q)
        BY <2>2, <1>1
      <3>2. h[i - 1] = q[i].at
        BY <3>1
      <3>3. Def(h)[i] = Wrap(q[i].at + Space(q[i].len))
        BY <2>2, <3>2
      <3>4. h[i] = IF i < Len(q) THEN q[i + 1].at ELSE wr
        OBVIOUS
      <3> QED
        BY <3>1, <3>3, <3>4, <1>2
    <2> QED
      BY <2>1, <2>2
  <1>4. h = Def(h)
    BY <1>3
  <1>5. f = Def(f)
    <2> HIDE DEF h, Def
    <2> QED
      BY <1>4
  <1> DEFINE Same == {n \in Nat : n <= Len(q) => f[n] = h[n]}
  <1> HIDE DEF f
  <1>6. f[0] = rd /\ \A i \in 1 .. Len(q) : f[i] = Wrap(f[i - 1] + Space(q[i].len))
    <2>1. f[0] = rd
      <3>1. 0 \in 0 .. Len(q)
        BY <1>1
      <3> QED
        BY <1>5, <3>1
    <2>2. ASSUME NEW i \in 1 .. Len(q) PROVE f[i] = Wrap(f[i - 1] + Space(q[i].len))
      <3>1. i \in 0 .. Len(q) /\ i # 0
        BY <1>1
      <3> QED
        BY <1>5, <3>1
    <2> QED
      BY <2>1, <2>2
  <1>7. h[0] = rd /\ \A i \in 1 .. Len(q) : h[i] = Wrap(h[i - 1] + Space(q[i].len))
    <2>1. h[0] = rd
      <3>1. 0 \in 0 .. Len(q)
        BY <1>1
      <3> QED
        BY <1>3, <3>1
    <2>2. ASSUME NEW i \in 1 .. Len(q) PROVE h[i] = Wrap(h[i - 1] + Space(q[i].len))
      <3>1. i \in 0 .. Len(q) /\ i # 0
        BY <1>1
      <3> QED
        BY <1>3, <3>1
    <2> QED
      BY <2>1, <2>2
  <1> HIDE DEF h
  <1>8. 0 \in Same
    BY <1>6, <1>7
  <1>9. ASSUME NEW n \in Nat, n \in Same PROVE n + 1 \in Same
    <2>1. CASE n + 1 <= Len(q)
      <3>1. n + 1 \in 1 .. Len(q) /\ (n + 1) - 1 = n /\ n <= Len(q)
        BY <2>1, <1>1
      <3>2. f[n] = h[n]
        BY <1>9, <3>1
      <3>3. f[n + 1] = h[n + 1]
        BY <3>1, <3>2, <1>6, <1>7
      <3> QED
        BY <3>3
    <2>2. CASE ~(n + 1 <= Len(q))
      BY <2>2
    <2> QED
      BY <2>1, <2>2
  <1>10. \A n \in Nat : n \in Same
    <2> HIDE DEF Same
    <2> QED
      BY <1>8, <1>9, Induction
  <1>11. k \in Nat /\ k <= Len(q)
    BY <1>1
  <1>12. f[k] = h[k]
    BY <1>10, <1>11
  <1>13. ReadAfter(q, rd, k) = f[k]
    BY Zenon DEF ReadAfter, f
  <1> QED
    BY <1>12, <1>13 DEF h

\* The first k packets are taken out.
LEMMA TakenOut ==
  ASSUME Aligned, NEW q, NEW rd, NEW wr, NEW level, LaidOut(q, rd, wr, level),
         NEW k \in 0 .. Len(q)
  PROVE  LaidOut(SubSeq(q, k + 1, Len(q)), ReadAfter(q, rd, k), wr, FillAfter(q, level, k))
  <1> DEFINE s == SubSeq(q, k + 1, Len(q))
             at == ReadAfter(q, rd, k)
             left == FillAfter(q, level, k)
  <1>1. /\ q \in Seq(Packets) /\ Len(q) \in Nat /\ k \in Nat /\ k <= Len(q)
        /\ rd \in 0 .. fifoEnd - 1 /\ wr \in 0 .. fifoEnd - 1 /\ rd \in Nat /\ wr \in Nat
        /\ level = Spaces(q)[Len(q)] /\ level <= BUFF_SIZE_IN
    BY FifoSize DEF LaidOut
  <1>2. /\ s \in Seq(Packets) /\ Len(s) = Len(q) - k
        /\ \A i \in 1 .. Len(q) - k : s[i] = q[k + i]
    BY <1>1, RestOf
  <1>3. at = IF k < Len(q) THEN q[k + 1].at ELSE wr
    BY ReadAfterIs
  <1>4. left = level - Spaces(q)[k]
    BY DEF FillAfter
  <1> HIDE DEF s, at, left
  <1>5. /\ \A i \in 1 .. Len(q) : q[i] \in Packets
        /\ \A i \in 0 .. Len(q) : Spaces(q)[i] \in Nat
        /\ Spaces(q)[0] = 0
    BY <1>1, SpacesSum
  <1>6. \A i \in 0 .. Len(s) : Spaces(s)[i] = Spaces(q)[k + i] - Spaces(q)[k]
    <2>1. Len(s) \in Nat /\ Len(s) <= Len(s) /\ k + Len(s) <= Len(q)
          /\ \A i \in 1 .. Len(s) : s[i] = q[k + i]
      BY <1>1, <1>2
    <2>2. q \in Seq(Packets) /\ s \in Seq(Packets) /\ k \in Nat
      BY <1>1, <1>2
    <2> DEFINE m == Len(s)
    <2>3. m \in Nat /\ m <= Len(s) /\ k + m <= Len(q) /\ \A i \in 1 .. m : s[i] = q[k + i]
      BY <2>1
    <2> HIDE DEF m
    <2>4. \A i \in 0 .. m : Spaces(s)[i] = Spaces(q)[k + i] - Spaces(q)[k]
      BY <2>2, <2>3, SpacesAgree
    <2> QED
      BY <2>4 DEF m
  <1>7. k \in 0 .. Len(q) /\ Len(q) \in 0 .. Len(q) /\ Spaces(q)[k] \in Nat /\ level \in Nat
    BY <1>1, <1>5
  <1>8. left = Spaces(s)[Len(s)]
    <2>1. Len(s) \in 0 .. Len(s) /\ k + Len(s) = Len(q)
      BY <1>1, <1>2
    <2> QED
      BY <2>1, <1>1, <1>4, <1>6
  <1>9. left <= BUFF_SIZE_IN
    BY SMTT(30), <1>1, <1>4, <1>7, FifoSize
  <1>10. at \in 0 .. fifoEnd - 1 /\ at \in Nat
    <2>1. ASSUME k < Len(q) PROVE q[k + 1].at \in 0 .. fifoEnd - 1
      <3>1. k + 1 \in 1 .. Len(q)
        BY <2>1, <1>1
      <3> QED
        BY <3>1, <1>5, PacketTypes
    <2> QED
      BY <2>1, <1>1, <1>3, FifoSize
  <1>11. \A i \in 1 .. Len(s) : /\ k + i \in 1 .. Len(q) /\ (k + i) - 1 \in 0 .. Len(q)
                                /\ s[i] = q[k + i]
                                /\ Spaces(s)[i - 1] = Spaces(q)[(k + i) - 1] - Spaces(q)[k]
                                /\ Spaces(q)[(k + i) - 1] \in Nat
    <2> TAKE i \in 1 .. Len(s)
    <2>1. /\ k + i \in 1 .. Len(q) /\ (k + i) - 1 \in 0 .. Len(q)
          /\ i \in 1 .. Len(q) - k /\ i - 1 \in 0 .. Len(s) /\ k + (i - 1) = (k + i) - 1
      BY <1>1, <1>2
    <2>2. Spaces(s)[i - 1] = Spaces(q)[k + (i - 1)] - Spaces(q)[k]
      BY <2>1, <1>6
    <2> QED
      BY <2>1, <2>2, <1>2, <1>5
  \* The first k packets did not fold: what is left stays as it is.
  <1>12. ASSUME NEW c \in Int, at = c + Spaces(q)[k],
                \A i \in k + 1 .. Len(q) : q[i].at = c + Spaces(q)[i - 1],
                wr = c + Spaces(q)[Len(q)]
         PROVE  Straight(s, at, wr)
    <2>1. ASSUME NEW i \in 1 .. Len(s) PROVE s[i].at = at + Spaces(s)[i - 1]
      <3>1. k + i \in k + 1 .. Len(q)
        BY <1>1, <1>11
      <3>2. s[i].at = c + Spaces(q)[(k + i) - 1]
        BY <3>1, <1>11, <1>12
      <3>3. Spaces(s)[i - 1] = Spaces(q)[(k + i) - 1] - Spaces(q)[k]
            /\ Spaces(q)[(k + i) - 1] \in Nat
        BY <1>11
      <3> QED
        BY <3>2, <3>3, <1>7, <1>12
    <2>2. wr = at + Spaces(s)[Len(s)]
      <3> DEFINE gone == Spaces(q)[k]
                 there == Spaces(q)[Len(q)]
      <3>1. /\ at = c + gone /\ wr = c + there /\ gone \in Nat /\ there \in Nat
            /\ left = there - gone
        BY <1>1, <1>4, <1>7, <1>12
      <3> HIDE DEF gone, there
      <3>2. wr = at + left
        BY <3>1
      <3> QED
        BY <1>8, <3>2
    <2> QED
      BY <2>1, <2>2 DEF Straight
  <1>13. Straight(s, at, wr) \/ \E v \in 1 .. Len(s) : Folded(s, at, wr, v)
    <2>1. CASE Straight(q, rd, wr)
      <3>1. at = rd + Spaces(q)[k]
        <4>1. CASE k < Len(q)
          <5>1. k + 1 \in 1 .. Len(q) /\ (k + 1) - 1 = k
            BY <4>1, <1>1
          <5>2. q[k + 1].at = rd + Spaces(q)[(k + 1) - 1]
            BY <5>1, <2>1 DEF Straight
          <5> QED
            BY <4>1, <5>1, <5>2, <1>3
        <4>2. CASE k = Len(q)
          BY <4>2, <2>1, <1>1, <1>3 DEF Straight
        <4> QED
          BY <4>1, <4>2, <1>1
      <3>2. \A i \in k + 1 .. Len(q) : q[i].at = rd + Spaces(q)[i - 1]
        <4>1. \A i \in k + 1 .. Len(q) : i \in 1 .. Len(q)
          BY <1>1
        <4> QED
          BY <4>1, <2>1 DEF Straight
      <3>3. wr = rd + Spaces(q)[Len(q)] /\ rd \in Int
        BY <2>1, <1>1 DEF Straight
      <3> QED
        BY <3>1, <3>2, <3>3, <1>12
    <2>2. CASE \E w \in 1 .. Len(q) : Folded(q, rd, wr, w)
      <3>1. PICK w \in 1 .. Len(q) : Folded(q, rd, wr, w)
        BY <2>2
      <3>2. w \in Nat /\ w <= Len(q) /\ w \in 0 .. Len(q) /\ Spaces(q)[w] \in Nat
        <4>1. w \in Nat /\ w <= Len(q) /\ w \in 0 .. Len(q)
          BY <1>1
        <4> QED
          BY <4>1, <1>5
      <3>3. CASE k < w
        <4>1. k + 1 \in 1 .. w /\ (k + 1) - 1 = k /\ k < Len(q)
          BY <3>2, <3>3, <1>1
        <4>2. at = rd + Spaces(q)[k]
          BY <4>1, <3>1, <1>3 DEF Folded
        <4>3. w - k \in 1 .. Len(s) /\ w - k \in 0 .. Len(s) /\ k + (w - k) = w
          BY <3>2, <3>3, <1>1, <1>2
        <4>4. Spaces(s)[w - k] = Spaces(q)[w] - Spaces(q)[k]
          BY <4>3, <1>6
        <4>5. ASSUME NEW i \in 1 .. w - k PROVE s[i].at = at + Spaces(s)[i - 1]
          <5>1. i \in 1 .. Len(s) /\ k + i \in 1 .. w
            BY <4>3, <3>2, <1>1, <1>2
          <5>2. q[k + i].at = rd + Spaces(q)[(k + i) - 1]
            BY <5>1, <3>1 DEF Folded
          <5>3. /\ s[i] = q[k + i] /\ Spaces(q)[(k + i) - 1] \in Nat
                /\ Spaces(s)[i - 1] = Spaces(q)[(k + i) - 1] - Spaces(q)[k]
            BY <5>1, <1>11
          <5> QED
            BY SMTT(30), <5>2, <5>3, <4>2, <1>1, <1>7
        <4>6. at + Spaces(s)[w - k] >= fifoEnd
          <5>1. rd + Spaces(q)[w] >= fifoEnd
            BY <3>1 DEF Folded
          <5>2. at + Spaces(s)[w - k] = rd + Spaces(q)[w]
            BY <4>2, <4>4, <3>2, <1>1, <1>7
          <5> QED
            BY <5>1, <5>2
        <4>7. ASSUME NEW i \in (w - k) + 1 .. Len(s)
              PROVE  s[i].at = Spaces(s)[i - 1] - Spaces(s)[w - k]
          <5>1. i \in 1 .. Len(s) /\ k + i \in w + 1 .. Len(q)
            BY <4>3, <3>2, <1>1, <1>2
          <5>2. q[k + i].at = Spaces(q)[(k + i) - 1] - Spaces(q)[w]
            BY <5>1, <3>1 DEF Folded
          <5>3. /\ s[i] = q[k + i] /\ Spaces(q)[(k + i) - 1] \in Nat
                /\ Spaces(s)[i - 1] = Spaces(q)[(k + i) - 1] - Spaces(q)[k]
            BY <5>1, <1>11
          <5> QED
            BY SMTT(30), <5>2, <5>3, <4>4, <3>2, <1>7
        <4>8. wr = Spaces(s)[Len(s)] - Spaces(s)[w - k]
          <5>1. wr = level - Spaces(q)[w]
            BY <3>1, <1>1 DEF Folded
          <5> QED
            BY SMTT(30), <5>1, <4>4, <3>2, <1>4, <1>7, <1>8
        <4>9. Folded(s, at, wr, w - k)
          BY <4>5, <4>6, <4>7, <4>8 DEF Folded
        <4> QED
          BY <4>3, <4>9
      <3>4. CASE k >= w
        <4> DEFINE c == 0 - Spaces(q)[w]
        <4>1. c \in Int /\ \A x \in Nat : c + x = x - Spaces(q)[w]
          BY <3>2
        <4>2. ASSUME NEW i \in k + 1 .. Len(q) PROVE q[i].at = c + Spaces(q)[i - 1]
          <5>1. i \in w + 1 .. Len(q) /\ i - 1 \in 0 .. Len(q)
            BY <3>2, <3>4, <1>1
          <5>2. q[i].at = Spaces(q)[i - 1] - Spaces(q)[w] /\ Spaces(q)[i - 1] \in Nat
            BY <5>1, <3>1, <1>5 DEF Folded
          <5> QED
            BY <5>2, <4>1
        <4>3. wr = c + Spaces(q)[Len(q)]
          <5>1. wr = Spaces(q)[Len(q)] - Spaces(q)[w]
            BY <3>1 DEF Folded
          <5> QED
            BY <5>1, <4>1, <1>1, <1>7
        <4>4. at = c + Spaces(q)[k]
          <5>1. CASE k < Len(q)
            <6>1. k + 1 \in k + 1 .. Len(q) /\ (k + 1) - 1 = k
              BY <5>1, <1>1
            <6>2. q[k + 1].at = c + Spaces(q)[(k + 1) - 1]
              BY <4>2, <6>1
            <6> QED
              BY <5>1, <6>1, <6>2, <1>3
          <5>2. CASE k = Len(q)
            BY <5>2, <4>3, <1>1, <1>3
          <5> QED
            BY <5>1, <5>2, <1>1
        <4> HIDE DEF c
        <4> QED
          BY <4>1, <4>2, <4>3, <4>4, <1>12
      <3> QED
        BY <3>2, <3>3, <3>4, <1>1
    <2> QED
      BY <2>1, <2>2 DEF LaidOut
  <1>14. LaidOut(s, at, wr, left)
    BY <1>1, <1>2, <1>8, <1>9, <1>10, <1>13 DEF LaidOut
  <1> QED
    BY <1>14 DEF s, at, left

\* The length word at the read pointer is that of the oldest packet.
LEMMA OldestLength ==
  ASSUME Aligned, NEW wr, NEW level, LaidOut(stored, rdptr, wr, level), stored # <<>>
  PROVE  LengthAt(rdptr) = stored[1].len
  <1>1. /\ stored \in Seq(Packets) /\ Len(stored) \in Nat /\ Len(stored) >= 1
        /\ DOMAIN stored = 1 .. Len(stored) /\ 1 \in 1 .. Len(stored) /\ 1 - 1 = 0
        /\ rdptr \in Nat
    BY FifoSize DEF LaidOut
  <1>2. stored[1].at = rdptr
    BY OneBehindTheOther
  <1>3. /\ \A i \in 1 .. Len(stored) : stored[i] \in Packets
        /\ \A i \in 0 .. Len(stored) : Spaces(stored)[i] \in Nat
        /\ Spaces(stored)[0] = 0
    BY <1>1, SpacesSum
  <1>4. ASSUME NEW i \in 1 .. Len(stored), stored[i].at = rdptr, i # 1 PROVE FALSE
    <2>1. /\ i \in Nat /\ i - 1 \in 1 .. Len(stored) /\ i - 1 \in 0 .. Len(stored)
          /\ Len(stored) \in i .. Len(stored) /\ Len(stored) \in 0 .. Len(stored)
          /\ i \in i .. Len(stored)
      BY <1>1, <1>4
    <2>2. Spaces(stored)[i - 1] > 0
      <3>1. Spaces(stored)[0] + Space(stored[1].len) <= Spaces(stored)[i - 1]
        BY <1>1, <2>1, SpacesGrow
      <3>2. Space(stored[1].len) \in Nat /\ Space(stored[1].len) > 0
        <4>1. Space(stored[1].len) = stored[1].len + 4 /\ stored[1].len \in Nat
          BY <1>1, <1>3, PacketTypes
        <4> QED
          BY <4>1
      <3> QED
        BY <3>1, <3>2, <1>3, <2>1
    <2>3. CASE stored[i].at = rdptr + Spaces(stored)[i - 1]
      BY <2>1, <2>2, <2>3, <1>1, <1>3, <1>4
    <2>4. CASE \E w \in 1 .. Len(stored) : Folded(stored, rdptr, wr, w) /\ i > w
      <3>1. PICK w \in 1 .. Len(stored) : Folded(stored, rdptr, wr, w) /\ i > w
        BY <2>4
      <3>2. wr <= rdptr /\ Spaces(stored)[w] \in Nat
            /\ wr = level - Spaces(stored)[w] /\ level = Spaces(stored)[Len(stored)]
        <4>1. level = Spaces(stored)[Len(stored)]
          BY DEF LaidOut
        <4>2. Folded(stored, rdptr, wr, w)
          BY <3>1
        <4> QED
          BY <4>1, <4>2, FoldedBehind
      <3>3. i \in w + 1 .. Len(stored)
        BY <3>1, <2>1, <1>1
      <3>4. stored[i].at = Spaces(stored)[i - 1] - Spaces(stored)[w]
        BY <3>1, <3>3 DEF Folded
      <3>5. Spaces(stored)[i - 1] + Space(stored[i].len) <= Spaces(stored)[Len(stored)]
        BY <1>1, <2>1, SpacesGrow
      <3>6. Space(stored[i].len) = stored[i].len + 4 /\ stored[i].len \in Nat
        BY <1>3, PacketTypes
      <3>7. Spaces(stored)[i - 1] \in Nat /\ Spaces(stored)[Len(stored)] \in Nat
        BY <1>3, <2>1
      <3>8. Spaces(stored)[i - 1] + 4 <= Spaces(stored)[Len(stored)]
        BY <3>5, <3>6, <3>7
      <3> QED
        BY SMTT(30), <3>2, <3>4, <3>7, <3>8, <1>1, <1>4
    <2>5. stored[i].at = rdptr + Spaces(stored)[i - 1]
          \/ \E w \in 1 .. Len(stored) : Folded(stored, rdptr, wr, w) /\ i > w
      <3>1. CASE Straight(stored, rdptr, wr)
        BY <3>1 DEF Straight
      <3>2. CASE \E w \in 1 .. Len(stored) : Folded(stored, rdptr, wr, w)
        <4>1. PICK w \in 1 .. Len(stored) : Folded(stored, rdptr, wr, w)
          BY <3>2
        <4>2. CASE i > w
          BY <4>1, <4>2
        <4>3. CASE i <= w
          <5>1. i \in 1 .. w
            BY <4>3, <1>1, <2>1
          <5> QED
            BY <4>1, <5>1 DEF Folded
        <4> QED
          BY <4>2, <4>3, <2>1, <1>1
      <3> QED
        BY <3>1, <3>2 DEF LaidOut
    <2> QED
      BY <2>3, <2>4, <2>5
  <1>5. \E i \in DOMAIN stored : stored[i].at = rdptr
    BY <1>1, <1>2
  <1> DEFINE found == CHOOSE i \in DOMAIN stored : stored[i].at = rdptr
  <1>6. found \in DOMAIN stored /\ stored[found].at = rdptr
    BY <1>5
  <1>7. LengthAt(rdptr) = stored[found].len
    BY <1>5 DEF LengthAt
  <1> HIDE DEF found
  <1>8. found = 1
    BY <1>1, <1>4, <1>6
  <1> QED
    BY <1>7, <1>8

\* What the FIFO has left begins at the write pointer.
LEMMA RoomFree ==
  ASSUME Aligned, NEW q, NEW rd, NEW wr, NEW level, LaidOut(q, rd, wr, level),
         NEW len \in Nat, level + 4 + len <= BUFF_SIZE_IN, NEW i \in 1 .. Len(q)
  PROVE  (wr .. wr + 3 + len) \intersect (q[i].at .. q[i].at + 3 + q[i].len) = {}
  <1>1. /\ q \in Seq(Packets) /\ Len(q) \in Nat /\ rd \in Nat /\ wr \in Nat
        /\ level = Spaces(q)[Len(q)]
    BY FifoSize DEF LaidOut
  <1>2. /\ i \in Nat /\ i - 1 \in 0 .. Len(q) /\ i \in 0 .. Len(q) /\ Len(q) \in 0 .. Len(q)
        /\ i \in i .. Len(q) /\ Len(q) \in i .. Len(q)
    BY <1>1
  <1>3. /\ Spaces(q)[i - 1] \in Nat /\ level \in Nat
        /\ Spaces(q)[i - 1] + (q[i].len + 4) <= level
        /\ q[i].len \in Nat /\ q[i].at \in Nat
    <2>1. q[i] \in Packets
      BY <1>1
    <2>2. Space(q[i].len) = q[i].len + 4 /\ q[i].len \in Nat /\ q[i].at \in Nat
      BY <2>1, PacketTypes, FifoSize
    <2>3. Spaces(q)[i - 1] + Space(q[i].len) <= Spaces(q)[Len(q)]
      BY <1>1, <1>2, SpacesGrow
    <2>4. Spaces(q)[i - 1] \in Nat /\ Spaces(q)[Len(q)] \in Nat
      BY <1>1, <1>2, SpacesSum
    <2> QED
      BY <2>2, <2>3, <2>4, <1>1
  <1> DEFINE at == q[i].at
             size == q[i].len
             before == Spaces(q)[i - 1]
  <1>4. /\ before \in Nat /\ level \in Nat /\ before + (size + 4) <= level
        /\ size \in Nat /\ at \in Nat /\ BUFF_SIZE_IN \in Nat
    BY <1>3, FifoSize
  <1>5. \/ at = rd + before /\ wr = rd + level
        \/ \E w \in 1 .. Len(q) :
             /\ Spaces(q)[w] \in Nat /\ wr = level - Spaces(q)[w] /\ BUFF_SIZE_IN - Spaces(q)[w] <= rd
             /\ at = rd + before \/ at = before - Spaces(q)[w]
    <2>1. CASE Straight(q, rd, wr)
      BY <2>1, <1>1 DEF Straight
    <2>2. CASE \E w \in 1 .. Len(q) : Folded(q, rd, wr, w)
      <3>1. PICK w \in 1 .. Len(q) : Folded(q, rd, wr, w)
        BY <2>2
      <3>2. /\ Spaces(q)[w] \in Nat /\ wr = level - Spaces(q)[w]
            /\ BUFF_SIZE_IN - Spaces(q)[w] <= rd
        BY <3>1, FoldedBehind
      <3>3. i \in 1 .. w \/ i \in w + 1 .. Len(q)
        BY <1>1, <1>2
      <3>4. at = rd + before \/ at = before - Spaces(q)[w]
        BY <3>1, <3>3 DEF Folded
      <3> QED
        BY <3>2, <3>4
    <2> QED
      BY <2>1, <2>2 DEF LaidOut
  <1> HIDE DEF at, size, before
  <1>6. at + size + 4 <= wr \/ wr + 4 + len <= at
    <2>1. CASE at = rd + before /\ wr = rd + level
      BY <2>1, <1>1, <1>4
    <2>2. ASSUME NEW f \in Nat, wr = level - f, BUFF_SIZE_IN - f <= rd,
                 at = rd + before \/ at = before - f
          PROVE  at + size + 4 <= wr \/ wr + 4 + len <= at
      <3>1. CASE at = rd + before
        <4>1. wr + 4 + len <= BUFF_SIZE_IN - f
          BY <2>2, <1>4
        <4>2. at >= rd
          BY <3>1, <1>1, <1>4
        <4>3. /\ wr + 4 + len \in Int /\ BUFF_SIZE_IN - f \in Int /\ rd \in Int /\ at \in Int
              /\ BUFF_SIZE_IN - f <= rd
          BY SMTT(30), <2>2, <1>1, <1>4
        <4>4. wr + 4 + len <= at
          BY <4>1, <4>2, <4>3
        <4> QED
          BY <4>4
      <3>2. CASE at = before - f
        BY <2>2, <3>2, <1>1, <1>4
      <3> QED
        BY <2>2, <3>1, <3>2
    <2> QED
      BY <1>5, <2>1, <2>2
  <1>7. (wr .. wr + 3 + len) \intersect (at .. at + 3 + size) = {}
    BY <1>1, <1>4, <1>6
  <1> QED
    BY <1>7 DEF at, size

\* An empty FIFO.
LEMMA EmptyLaidOut == LaidOut(<<>>, fifoStart, fifoStart, 0)
  <1>1. <<>> \in Seq(Packets) /\ Len(<<>>) = 0
    OBVIOUS
  <1>2. Spaces(<<>>)[0] = 0
    <2>1. Len(<<>>) \in Nat
      BY <1>1
    <2>2. Spaces(<<>>) = [i \in 0 .. Len(<<>>) |->
                            IF i = 0 THEN 0 ELSE Spaces(<<>>)[i - 1] + Space(<<>>[i].len)]
      BY <2>1, SpacesDefined
    <2>3. 0 \in 0 .. Len(<<>>)
      BY <1>1
    <2> QED
      BY <2>2, <2>3
  <1>3. fifoStart \in 0 .. fifoEnd - 1 /\ fifoStart = 0 /\ 0 <= BUFF_SIZE_IN
    BY FifoSize
  <1>4. Straight(<<>>, fifoStart, fifoStart)
    BY <1>1, <1>2, <1>3 DEF Straight
  <1> QED
    BY <1>1, <1>2, <1>3, <1>4 DEF LaidOut

-----------------------------------------------------------------------------
(***************************************************************************)
(* The invariant: the packets are laid out between the pointers, and what  *)
(* they leave is enough for the packet under construction.                 *)
(***************************************************************************)
RoomInv ==
  /\ Few(totalSampsToWrite)
  /\ totalSampsToWrite * FrameBytes <= maxPacketSize
  /\ fill + 4 + Larger(totalSampsToWrite, 1) * FrameBytes <= BUFF_SIZE_IN
  /\ ~inUnderflow => stored # <<>>

KindInv ==
  /\ sampsToWrite \in 0 .. totalSampsToWrite
  /\ speedRem \in 0 .. One - 1
  /\ inUnderflow \in BOOLEAN
  /\ maxPacketSize \in Nat /\ maxPacketSize >= MaxSamples * FrameBytes
  /\ sampFreq \in Rates /\ freqChange \in BOOLEAN
  /\ armed \in {NoBuffer, Zeros} \union 0 .. fifoEnd - 1
  /\ sent \in BOOLEAN /\ hostFlag \in BOOLEAN
  /\ pc \in {"cmd", "sent"} /\ skew \in Int

FifoInv == LaidOut(stored, rdptr, wrptr, fill) /\ RoomInv /\ KindInv

\* A packet of a rate's own size fits.
LEMMA RateFits ==
  ASSUME NEW r \in Rates
  PROVE  /\ ADCMid(r) \in Nat /\ ADCMid(r) * FrameBytes <= MaxSamples * FrameBytes
         /\ 0 + 4 + Larger(ADCMid(r), 1) * FrameBytes <= BUFF_SIZE_IN
  <1>1. ADCMid(r) \in Nat /\ ADCMid(r) <= MaxSamples /\ MaxSamples \in Nat /\ MaxSamples >= 2
        /\ FrameBytes \in Nat
    BY SampleCounts, FrameSize
  <1>2. Larger(ADCMid(r), 1) \in Nat /\ Larger(ADCMid(r), 1) <= MaxSamples
    BY <1>1 DEF Larger
  <1>3. ADCMid(r) * FrameBytes <= MaxSamples * FrameBytes
    BY <1>1, MoreBytes
  <1>4. Larger(ADCMid(r), 1) * FrameBytes \in Nat
        /\ Larger(ADCMid(r), 1) * FrameBytes <= MaxSamples * FrameBytes
    BY <1>1, <1>2, MoreBytes
  <1> QED
    BY <1>1, <1>3, <1>4, FifoSize

\* What the run begins with.
LEMMA FifoInit ==
  ASSUME Aligned, Alike, Init
  PROVE  FifoInv
  <1>1. DefaultRate \in Rates /\ One \in Nat /\ One > 0
    BY RatesAssumption, SpeedsAssumption
  <1>2. LaidOut(stored, rdptr, wrptr, fill)
    BY EmptyLaidOut DEF Init
  <1>3. maxPacketSize \in Nat /\ maxPacketSize >= MaxSamples * FrameBytes
    BY FifoSize DEF Init, MAX_DEVICE_AUD_PACKET_SIZE_IN, MAX_PACKETSIZE_IN
  <1>4. RoomInv
    <2>1. Few(totalSampsToWrite)
      BY <1>1 DEF Init, Alike
    <2>2. totalSampsToWrite * FrameBytes <= maxPacketSize
      BY <1>1, <1>3, RateFits, FifoSize, FrameSize DEF Init
    <2>3. fill + 4 + Larger(totalSampsToWrite, 1) * FrameBytes <= BUFF_SIZE_IN
      BY <1>1, RateFits DEF Init
    <2> QED
      BY <2>1, <2>2, <2>3 DEF RoomInv, Init
  <1>5. KindInv
    <2>1. sampsToWrite \in 0 .. totalSampsToWrite
      BY <1>1, RateFits DEF Init
    <2>2. speedRem \in 0 .. One - 1
      BY <1>1 DEF Init
    <2>3. /\ inUnderflow \in BOOLEAN /\ sampFreq \in Rates /\ freqChange \in BOOLEAN
          /\ armed \in {NoBuffer, Zeros} \union 0 .. fifoEnd - 1
          /\ sent \in BOOLEAN /\ hostFlag \in BOOLEAN
          /\ pc \in {"cmd", "sent"}
      BY <1>1, Zenon DEF Init
    <2>4. skew \in Int
      BY DEF Init
    <2> QED
      BY <1>3, <2>1, <2>2, <2>3, <2>4 DEF KindInv
  <1> QED
    BY <1>2, <1>4, <1>5 DEF FifoInv

\* The FIFO is emptied.
LEMMA EmptiedFifo ==
  ASSUME Aligned, Alike, FifoInv, EmptyFifo,
         maxPacketSize' \in Nat /\ maxPacketSize' >= MaxSamples * FrameBytes,
         speedRem' \in 0 .. One - 1, sampFreq' \in Rates /\ freqChange' \in BOOLEAN,
         UNCHANGED <<sent, hostFlag, pc, skew>>
  PROVE  FifoInv'
  <1>1. sampFreq \in Rates
    BY DEF FifoInv, KindInv
  <1>2. LaidOut(stored, rdptr, wrptr, fill)'
    <2>1. LaidOut(stored', rdptr', wrptr', fill')
      BY EmptyLaidOut DEF EmptyFifo
    <2> QED
      BY <2>1 DEF LaidOut, Straight, Folded, Spaces
  <1>3. RoomInv'
    <2>1. Few(totalSampsToWrite')
      BY <1>1 DEF EmptyFifo, Alike
    <2>2. totalSampsToWrite' * FrameBytes <= maxPacketSize'
      <3>1. /\ ADCMid(sampFreq) * FrameBytes <= MaxSamples * FrameBytes
            /\ totalSampsToWrite' = ADCMid(sampFreq) /\ ADCMid(sampFreq) \in Nat
        BY <1>1, RateFits DEF EmptyFifo
      <3>2. ADCMid(sampFreq) * FrameBytes \in Nat
        BY <3>1, FrameSize, Z3
      <3> QED
        BY <3>1, <3>2, FifoSize
    <2>3. fill' + 4 + Larger(totalSampsToWrite', 1) * FrameBytes <= BUFF_SIZE_IN
      BY <1>1, RateFits DEF EmptyFifo
    <2> QED
      BY <2>1, <2>2, <2>3 DEF RoomInv, EmptyFifo, Few, Larger
  <1>4. KindInv'
    <2>1. sampsToWrite' \in 0 .. totalSampsToWrite'
      BY <1>1, RateFits DEF EmptyFifo
    <2>2. armed' = Zeros /\ inUnderflow'
      BY DEF EmptyFifo
    <2> QED
      BY <2>1, <2>2 DEF FifoInv, KindInv
  <1> QED
    BY <1>2, <1>3, <1>4 DEF FifoInv

LEMMA ChangeFifo ==
  ASSUME Aligned, Alike, FifoInv, SampleRateChange \/ InputStart
  PROVE  FifoInv'
  <1>1. One \in Nat /\ One > 0
    BY SpeedsAssumption
  <1>2. CASE SampleRateChange
    <2>1. /\ EmptyFifo /\ speedRem' = 0 /\ freqChange' = FALSE
          /\ UNCHANGED <<maxPacketSize, sampFreq, sent, hostFlag, pc, skew>>
      BY <1>2 DEF SampleRateChange
    <2>2. maxPacketSize' \in Nat /\ maxPacketSize' >= MaxSamples * FrameBytes
      BY <2>1 DEF FifoInv, KindInv
    <2>3. sampFreq' \in Rates /\ freqChange' \in BOOLEAN
      BY <2>1 DEF FifoInv, KindInv
    <2>4. speedRem' \in 0 .. One - 1
      BY <1>1, <2>1
    <2> QED
      BY <2>1, <2>2, <2>3, <2>4, EmptiedFifo
  <1>3. CASE InputStart
    <2>1. /\ EmptyFifo /\ maxPacketSize' = MaxSamples * MaxSubSlot * Chans
          /\ UNCHANGED <<speedRem, sampFreq, freqChange, sent, hostFlag, pc, skew>>
      BY <1>3 DEF InputStart, cmdVars
    <2>2. maxPacketSize' \in Nat /\ maxPacketSize' >= MaxSamples * FrameBytes
      <3>1. /\ MaxSubSlot \in Nat /\ SubSlot \in Nat /\ SubSlot <= MaxSubSlot
            /\ Chans \in Nat /\ MaxSamples \in Nat
        BY FormatAssumption, SampleCounts
      <3>2. SubSlot * Chans \in Nat /\ MaxSubSlot * Chans \in Nat
            /\ SubSlot * Chans <= MaxSubSlot * Chans
        BY <3>1, MoreBytes
      <3>3. FrameBytes = SubSlot * Chans
        BY <3>1, Z3 DEF FrameBytes
      <3>4. /\ FrameBytes * MaxSamples \in Nat /\ (MaxSubSlot * Chans) * MaxSamples \in Nat
            /\ FrameBytes * MaxSamples <= (MaxSubSlot * Chans) * MaxSamples
        <4> DEFINE most == MaxSubSlot * Chans
        <4>1. FrameBytes \in Nat /\ most \in Nat /\ FrameBytes <= most
          BY <3>2, <3>3
        <4> HIDE DEF most
        <4>2. /\ FrameBytes * MaxSamples \in Nat /\ most * MaxSamples \in Nat
              /\ FrameBytes * MaxSamples <= most * MaxSamples
          BY <3>1, <4>1, MoreBytes
        <4> QED
          BY <4>2 DEF most
      <3>5. MaxSamples * FrameBytes = FrameBytes * MaxSamples
        BY <3>1, FrameSize, Z3
      <3>6. MaxSamples * MaxSubSlot * Chans = (MaxSubSlot * Chans) * MaxSamples
        BY <3>1, Z3
      <3> QED
        BY <2>1, <3>4, <3>5, <3>6
    <2>3. sampFreq' \in Rates /\ freqChange' \in BOOLEAN /\ speedRem' \in 0 .. One - 1
      BY <2>1 DEF FifoInv, KindInv
    <2> QED
      BY <2>1, <2>2, <2>3, EmptiedFifo
  <1> QED
    BY <1>2, <1>3

\* The steps that leave the FIFO alone.
LEMMA OtherFifo ==
  ASSUME FifoInv, StoreFrame \/ HostPoll \/ EpSent \/ (\E r \in Rates : EpSampleRate(r))
                  \/ NoCommand \/ NothingSent \/ UNCHANGED vars
  PROVE  FifoInv'
  <1>1. UNCHANGED <<stored, rdptr, wrptr, fill, totalSampsToWrite, maxPacketSize, inUnderflow, speedRem>>
    BY DEF StoreFrame, HostPoll, EpSent, EpSampleRate, NoCommand, NothingSent, vars
  <1>2. LaidOut(stored, rdptr, wrptr, fill)' /\ RoomInv'
    BY <1>1 DEF FifoInv, LaidOut, Straight, Folded, Spaces, RoomInv, Few, Larger
  <1>3. totalSampsToWrite \in Nat
    BY DEF FifoInv, RoomInv, Few
  <1>4. KindInv'
    <2>1. CASE StoreFrame
      BY <2>1, <1>1, <1>3 DEF FifoInv, KindInv, StoreFrame, cmdVars, usbVars
    <2>2. CASE HostPoll
      BY <2>2, <1>1 DEF FifoInv, KindInv, HostPoll, cmdVars, usbVars
    <2>3. CASE EpSent
      BY <2>3, <1>1 DEF FifoInv, KindInv, EpSent, cmdVars, usbVars
    <2>4. CASE \E r \in Rates : EpSampleRate(r)
      BY <2>4, <1>1 DEF FifoInv, KindInv, EpSampleRate, cmdVars, usbVars
    <2>5. CASE NoCommand
      BY <2>5, <1>1 DEF FifoInv, KindInv, NoCommand, cmdVars, usbVars
    <2>6. CASE NothingSent
      BY <2>6, <1>1 DEF FifoInv, KindInv, NothingSent, cmdVars, usbVars
    <2>7. CASE UNCHANGED vars
      BY <2>7 DEF FifoInv, KindInv, vars, cmdVars, usbVars
    <2> QED
      BY <2>1, <2>2, <2>3, <2>4, <2>5, <2>6, <2>7
  <1> QED
    BY <1>2, <1>4 DEF FifoInv

\* The size of the next packet, whatever the feedback value is.
LEMMA NextSize ==
  ASSUME Alike, FifoInv, NEW speed \in Speeds
  PROVE  /\ Few(NextTotal(speed)) /\ NextTotal(speed) * FrameBytes <= maxPacketSize
         /\ (speedRem + speed) % One \in 0 .. One - 1
  <1>1. /\ One \in Nat /\ One > 0 /\ speed \in Int
        /\ speedRem \in 0 .. One - 1 /\ maxPacketSize \in Nat
    BY SpeedsAssumption DEF FifoInv, KindInv
  <1> DEFINE total == (speedRem + speed) \div One
  <1>2. total \in Int
    BY <1>1
  <1>3. total >= 0 => Few(total)
    BY <1>1 DEF Alike
  <1>4. Few(0)
    <2>1. ASSUME NEW r \in Rates PROVE 0 <= 2 * ADCMax(r)
      BY SampleCounts
    <2> QED
      BY <2>1 DEF Few
  <1>5. 0 * FrameBytes = 0
    BY FrameSize
  <1>6. NextTotal(speed) = IF total < 0 \/ total * FrameBytes > maxPacketSize THEN 0 ELSE total
    BY DEF NextTotal
  <1>7. (speedRem + speed) % One \in 0 .. One - 1
    BY <1>1
  <1> HIDE DEF total
  <1>8. CASE total < 0 \/ total * FrameBytes > maxPacketSize
    BY <1>1, <1>4, <1>5, <1>6, <1>7, <1>8
  <1>9. CASE ~(total < 0 \/ total * FrameBytes > maxPacketSize)
    <2>1. total \in Nat /\ Few(total)
      BY <1>2, <1>3, <1>9
    <2>2. total * FrameBytes \in Nat
      BY <2>1, FrameSize, MoreBytes
    <2>3. total * FrameBytes <= maxPacketSize
      BY <1>1, <1>9, <2>2
    <2> QED
      BY <1>6, <1>7, <1>9, <2>1, <2>3
  <1> QED
    BY <1>8, <1>9

\* The overflow loop ends with no more than two packets of the current rate,
\* and leaves the last packet if there was another.
LEMMA Dropped ==
  ASSUME Aligned, Alike, NEW q, NEW rd, NEW wr, NEW level, LaidOut(q, rd, wr, level),
         Len(q) >= 1, sampFreq \in Rates
  PROVE  /\ DropCount(q, level) \in 1 .. Len(q)
         /\ FillAfter(q, level, DropCount(q, level)) <= 2 * Space(ADCMax(sampFreq) * FrameBytes)
         /\ Len(q) >= 2 => DropCount(q, level) <= Len(q) - 1
  <1> DEFINE limit == 2 * Space(ADCMax(sampFreq) * FrameBytes)
             Enough == {k \in 1 .. Len(q) : FillAfter(q, level, k) <= limit}
  <1>1. q \in Seq(Packets) /\ Len(q) \in Nat /\ level = Spaces(q)[Len(q)]
    BY DEF LaidOut
  <1>2. /\ ADCMax(sampFreq) \in Nat /\ ADCMax(sampFreq) * FrameBytes \in Nat
        /\ Space(ADCMax(sampFreq) * FrameBytes) = ADCMax(sampFreq) * FrameBytes + 4
        /\ limit = 2 * (ADCMax(sampFreq) * FrameBytes) + 8
    <2>1. ADCMax(sampFreq) \in Nat
      BY SampleCounts
    <2> QED
      BY SMTT(30), <2>1, WholeWords
  <1>3. /\ \A i \in 0 .. Len(q) : Spaces(q)[i] \in Nat
        /\ \A i \in 1 .. Len(q) : Spaces(q)[i] = Spaces(q)[i - 1] + Space(q[i].len)
        /\ \A i \in 1 .. Len(q) : q[i] \in Packets
    BY <1>1, SpacesSum
  <1> DEFINE n == Len(q)
  <1>4. /\ n \in Nat /\ n \in 1 .. n /\ n \in 0 .. n /\ n - 1 \in 0 .. n /\ n >= 1
        /\ (n >= 2 => n - 1 \in 1 .. n)
    BY <1>1
  <1>5. Len(q) \in Enough
    <2>1. Spaces(q)[n] - Spaces(q)[n] = 0
      BY <1>3, <1>4
    <2>2. FillAfter(q, level, n) = 0
      BY <2>1, <1>1 DEF FillAfter
    <2>3. 0 <= limit
      BY <1>2
    <2> QED
      BY <1>4, <2>2, <2>3
  <1>6. Len(q) >= 2 => Len(q) - 1 \in Enough
    <2>1. Spaces(q)[n] = Spaces(q)[n - 1] + Space(q[n].len)
      BY <1>3, <1>4
    <2>2. PICK m \in Nat : Few(m) /\ q[n].len = m * FrameBytes
      BY <1>3, <1>4 DEF Packets
    <2>3. m <= 2 * ADCMax(sampFreq)
      BY <2>2 DEF Few
    <2>4. /\ m * FrameBytes \in Nat
          /\ m * FrameBytes <= 2 * (ADCMax(sampFreq) * FrameBytes)
      <3> DEFINE twice == 2 * ADCMax(sampFreq)
      <3>1. twice \in Nat /\ FrameBytes \in Nat
        BY <1>2, FrameSize
      <3>2. twice * FrameBytes = 2 * (ADCMax(sampFreq) * FrameBytes)
        BY <1>2, FrameSize, Z3
      <3>3. m <= twice
        BY <2>3
      <3> HIDE DEF twice
      <3>4. m * FrameBytes \in Nat /\ m * FrameBytes <= twice * FrameBytes
        BY <3>1, <3>3, MoreBytes
      <3> QED
        BY <3>2, <3>4
    <2>5. Space(q[n].len) = m * FrameBytes + 4
      BY <2>2, WholeWords
    <2>6. FillAfter(q, level, n - 1) = m * FrameBytes + 4
      <3>1. Spaces(q)[n - 1] \in Nat
        BY <1>3, <1>4
      <3>2. FillAfter(q, level, n - 1) = Spaces(q)[n] - Spaces(q)[n - 1]
        BY <1>1 DEF FillAfter
      <3> QED
        BY <2>1, <2>4, <2>5, <3>1, <3>2
    <2>7. FillAfter(q, level, n - 1) <= limit
      BY <1>2, <2>4, <2>6
    <2> QED
      BY <1>4, <2>7
  <1> HIDE DEF limit, n
  <1>7. PICK k \in Enough : \A j \in Enough : k <= j
    <2>1. Enough \in SUBSET Nat /\ Enough # {}
      BY <1>1, <1>5
    <2> HIDE DEF Enough
    <2> QED
      BY <2>1, LeastElement
  <1>8. DropCount(q, level) = CHOOSE i \in 1 .. Len(q) :
          FillAfter(q, level, i) <= limit /\ \A j \in 1 .. i - 1 : ~(FillAfter(q, level, j) <= limit)
    BY DEF DropCount, limit
  <1>9. /\ k \in 1 .. Len(q) /\ FillAfter(q, level, k) <= limit
        /\ \A j \in 1 .. k - 1 : ~(FillAfter(q, level, j) <= limit)
    <2>1. ASSUME NEW j \in 1 .. k - 1, FillAfter(q, level, j) <= limit PROVE FALSE
      <3>1. j \in 1 .. Len(q) /\ j \in Nat /\ k \in Nat /\ j < k
        BY <1>1, <1>7
      <3>2. j \in Enough
        BY <2>1, <3>1
      <3>3. k <= j
        BY <1>7, <3>2
      <3> QED
        BY <3>1, <3>3
    <2> QED
      BY <1>7, <2>1
  <1> DEFINE drop == DropCount(q, level)
  <1>10. /\ drop \in 1 .. Len(q) /\ FillAfter(q, level, drop) <= limit
         /\ \A j \in 1 .. drop - 1 : ~(FillAfter(q, level, j) <= limit)
    BY <1>8, <1>9
  <1>11. Len(q) >= 2 => drop <= Len(q) - 1
    <2>1. ASSUME Len(q) >= 2, ~(drop <= Len(q) - 1) PROVE FALSE
      <3>1. Len(q) - 1 \in 1 .. drop - 1
        BY <2>1, <1>1, <1>10
      <3>2. FillAfter(q, level, Len(q) - 1) <= limit
        BY <1>6, <2>1
      <3> QED
        BY <1>10, <3>1, <3>2
    <2> QED
      BY <2>1
  <1> QED
    BY <1>10, <1>11 DEF limit

\* FIFO bytes and packets: there are some of the one when there are some of the other.
LEMMA FillCounts ==
  ASSUME Aligned, NEW q, NEW rd, NEW wr, NEW level, LaidOut(q, rd, wr, level)
  PROVE  level \in Nat /\ (q = <<>> => level = 0)
         /\ (q # <<>> => 1 \in 1 .. Len(q) /\ level >= Space(q[1].len))
  <1>1. q \in Seq(Packets) /\ level = Spaces(q)[Len(q)] /\ Len(q) \in Nat
    BY DEF LaidOut
  <1>2. Len(q) \in 0 .. Len(q)
    BY <1>1
  <1>3. Spaces(q)[0] = 0 /\ level \in Nat
    BY <1>1, <1>2, SpacesSum
  <1>4. ASSUME q # <<>> PROVE 1 \in 1 .. Len(q) /\ level >= Space(q[1].len)
    <2>1. 1 \in 1 .. Len(q) /\ Len(q) \in 1 .. Len(q) /\ 1 - 1 = 0
      BY <1>1, <1>4
    <2>2. Spaces(q)[1 - 1] + Space(q[1].len) <= Spaces(q)[Len(q)]
      BY <1>1, <2>1, SpacesGrow
    <2>3. Space(q[1].len) \in Nat
      BY <1>1, <2>1, PacketTypes
    <2> QED
      BY <2>1, <2>2, <2>3, <1>1, <1>3
  <1> QED
    BY <1>1, <1>3, <1>4

\* The packet that is committed lies behind the others: it has room.
LEMMA CommitLaidOut ==
  ASSUME Aligned, FifoInv
  PROVE  LET len == totalSampsToWrite * FrameBytes
         IN LaidOut(Append(stored, Packet(wrptr, len)), rdptr, Wrap(wrptr + Space(len)),
                    fill + Space(len))
  <1> DEFINE n == totalSampsToWrite
             len == n * FrameBytes
             level == fill + Space(len)
  <1>1. /\ n \in Nat /\ Few(n) /\ LaidOut(stored, rdptr, wrptr, fill)
        /\ fill + 4 + Larger(n, 1) * FrameBytes <= BUFF_SIZE_IN
    BY DEF FifoInv, RoomInv, Few
  <1> HIDE DEF n
  <1>2. len \in Nat /\ Space(len) = len + 4
    BY <1>1, WholeWords
  <1>3. fill \in Nat
    BY <1>1, FillCounts
  <1>4. level <= BUFF_SIZE_IN
    <2>1. Larger(n, 1) \in Nat /\ n <= Larger(n, 1)
      BY <1>1 DEF Larger
    <2>2. Larger(n, 1) * FrameBytes \in Nat /\ len <= Larger(n, 1) * FrameBytes
      BY <2>1, <1>1, FrameSize, MoreBytes
    <2> HIDE DEF len
    <2> QED
      BY <2>2, <1>1, <1>2, <1>3, FifoSize
  <1> QED
    BY <1>1, <1>4, PutLaidOut DEF n

\* A packet is committed; an overflowing FIFO loses its oldest.
LEMMA CommitFifo ==
  ASSUME Aligned, Alike, FifoInv, NEW speed \in Speeds, CommitPacket(speed)
  PROVE  FifoInv'
  <1> DEFINE n == totalSampsToWrite
             len == n * FrameBytes
             q == Append(stored, Packet(wrptr, len))
             level == fill + Space(len)
             total == NextTotal(speed)
             spaceRequired == Larger(total, 1) * FrameBytes + 4
             drop == IF spaceRequired > BUFF_SIZE_IN - level THEN DropCount(q, level) ELSE 0
  <1>1. /\ wrptr' = Wrap(wrptr + Space(len))
        /\ rdptr' = ReadAfter(q, rdptr, drop)
        /\ fill' = FillAfter(q, level, drop)
        /\ stored' = SubSeq(q, drop + 1, Len(q))
        /\ speedRem' = (speedRem + speed) % One
        /\ totalSampsToWrite' = total
        /\ sampsToWrite' = total
    BY DEF CommitPacket
  <1>2. UNCHANGED <<inUnderflow, maxPacketSize, sampFreq, freqChange, armed, sent, hostFlag, pc>>
        /\ skew' = IF Paced THEN skew + 1 ELSE skew
    BY DEF CommitPacket, cmdVars, usbVars
  <1>3. /\ n \in Nat /\ Few(n) /\ LaidOut(stored, rdptr, wrptr, fill)
        /\ fill + 4 + Larger(n, 1) * FrameBytes <= BUFF_SIZE_IN
        /\ sampFreq \in Rates /\ maxPacketSize \in Nat
        /\ ~inUnderflow => stored # <<>>
    BY DEF FifoInv, RoomInv, KindInv, Few
  <1>4. Few(total) /\ total \in Nat /\ total * FrameBytes <= maxPacketSize
        /\ (speedRem + speed) % One \in 0 .. One - 1
    BY NextSize DEF Few
  <1> HIDE DEF n, total
  <1>5. len \in Nat /\ Space(len) = len + 4
    BY <1>3, WholeWords
  <1>6. stored \in Seq(Packets) /\ Len(stored) \in Nat /\ fill \in Nat
    <2>1. stored \in Seq(Packets) /\ fill = Spaces(stored)[Len(stored)]
      BY <1>3 DEF LaidOut
    <2>2. Len(stored) \in Nat /\ Len(stored) \in 0 .. Len(stored)
      BY <2>1
    <2> QED
      BY <2>1, <2>2, SpacesSum
  <1>8. LaidOut(q, rdptr, Wrap(wrptr + Space(len)), level)
    BY CommitLaidOut DEF n, len
  <1>9. Len(q) = Len(stored) + 1 /\ Len(q) \in Nat
    <2>1. Packet(wrptr, len) \in Packets
      BY <1>3, <1>5 DEF Packets, Packet, LaidOut
    <2> QED
      BY <1>6, <2>1, AppendProperties
  <1>10. level \in Nat
    BY <1>5, <1>6
  <1> HIDE DEF len, q, level
  <1>11. Larger(total, 1) \in Nat /\ Larger(total, 1) * FrameBytes \in Nat
    <2>1. Larger(total, 1) \in Nat
      BY <1>4 DEF Larger
    <2> QED
      BY <2>1, FrameSize, MoreBytes
  <1>12. /\ drop \in 0 .. Len(q)
         /\ FillAfter(q, level, drop) + spaceRequired <= BUFF_SIZE_IN
         /\ Len(q) >= 2 => drop <= Len(q) - 1
    <2>1. CASE spaceRequired > BUFF_SIZE_IN - level
      <3>1. drop = DropCount(q, level)
        BY <2>1
      <3>2. /\ DropCount(q, level) \in 1 .. Len(q)
            /\ FillAfter(q, level, DropCount(q, level)) <= 2 * Space(ADCMax(sampFreq) * FrameBytes)
            /\ Len(q) >= 2 => DropCount(q, level) <= Len(q) - 1
        BY <1>3, <1>6, <1>8, <1>9, Dropped
      <3>3. /\ ADCMax(sampFreq) \in Nat /\ ADCMax(sampFreq) >= 1 /\ ADCMax(sampFreq) <= MaxSamples
            /\ MaxSamples \in Nat /\ FrameBytes \in Nat
        BY <1>3, SampleCounts, FrameSize
      <3> DEFINE most == ADCMax(sampFreq) * FrameBytes
      <3>4. /\ most \in Nat /\ Space(most) = most + 4 /\ most <= MaxSamples * FrameBytes
            /\ MaxSamples * FrameBytes \in Nat
        BY <3>3, MoreBytes, WholeWords
      <3>5. Larger(total, 1) <= 2 * ADCMax(sampFreq)
        BY <1>3, <1>4, <3>3 DEF Larger, Few
      <3>6. Larger(total, 1) * FrameBytes <= 2 * most
        <4> DEFINE twice == 2 * ADCMax(sampFreq)
        <4>1. twice \in Nat /\ Larger(total, 1) <= twice
          BY <3>3, <3>5
        <4>2. twice * FrameBytes = 2 * most
          BY <3>3, Z3
        <4> HIDE DEF twice, most
        <4>3. Larger(total, 1) * FrameBytes <= twice * FrameBytes
          BY <1>11, <3>3, <4>1, MoreBytes
        <4> QED
          BY <4>2, <4>3
      <3>7. FillAfter(q, level, DropCount(q, level)) \in Int
        <4>1. DropCount(q, level) \in 0 .. Len(q)
          BY <3>2, <1>9
        <4>2. q \in Seq(Packets)
          BY <1>8 DEF LaidOut
        <4>3. Spaces(q)[DropCount(q, level)] \in Nat
          BY <4>1, <4>2, SpacesSum
        <4> QED
          BY <4>3, <1>10 DEF FillAfter
      <3> DEFINE left == FillAfter(q, level, DropCount(q, level))
                 next == Larger(total, 1) * FrameBytes
                 full == MaxSamples * FrameBytes
      <3>8. /\ left \in Int /\ left <= 2 * (most + 4) /\ next \in Nat /\ next <= 2 * most
            /\ most \in Nat /\ most <= full /\ full \in Nat /\ BUFF_SIZE_IN = 5 * (full + 4)
        BY <3>2, <3>4, <3>6, <3>7, <1>11, FifoSize
      <3> HIDE DEF left, next, full, most
      <3>9. left + (next + 4) <= BUFF_SIZE_IN
        BY <3>8
      <3> QED
        BY <3>1, <3>2, <3>9, <1>9 DEF left, next
    <2>2. CASE ~(spaceRequired > BUFF_SIZE_IN - level)
      <3>1. drop = 0
        BY <2>2
      <3>2. q \in Seq(Packets)
        BY <1>8 DEF LaidOut
      <3>3. FillAfter(q, level, 0) = level
        BY <3>2, <1>10, SpacesSum DEF FillAfter
      <3>4. level + spaceRequired <= BUFF_SIZE_IN
        BY <2>2, <1>10, <1>11, FifoSize
      <3> QED
        BY <3>1, <3>3, <3>4, <1>9
    <2> QED
      BY <2>1, <2>2
  <1> DEFINE taken == drop
  <1>13. /\ taken \in 0 .. Len(q) /\ FillAfter(q, level, taken) + spaceRequired <= BUFF_SIZE_IN
         /\ Len(q) >= 2 => taken <= Len(q) - 1
         /\ rdptr' = ReadAfter(q, rdptr, taken) /\ fill' = FillAfter(q, level, taken)
         /\ stored' = SubSeq(q, taken + 1, Len(q)) /\ wrptr' = Wrap(wrptr + Space(len))
    BY <1>1, <1>12 DEF q, level, len, n, total
  <1> HIDE DEF taken
  <1>14. LaidOut(stored', rdptr', wrptr', fill')
    BY <1>8, <1>13, TakenOut
  <1>15. LaidOut(stored, rdptr, wrptr, fill)'
    BY <1>14 DEF LaidOut, Straight, Folded, Spaces
  <1>16. RoomInv'
    <2>1. Few(totalSampsToWrite')
      BY <1>1, <1>4 DEF total
    <2>2. totalSampsToWrite' * FrameBytes <= maxPacketSize'
      BY <1>1, <1>2, <1>4 DEF total
    <2>3. fill' + 4 + Larger(totalSampsToWrite', 1) * FrameBytes <= BUFF_SIZE_IN
      <3>1. fill' \in Int
        <4>1. q \in Seq(Packets) /\ Spaces(q)[taken] \in Nat
          BY <1>8, <1>13, SpacesSum DEF LaidOut
        <4> QED
          BY <4>1, <1>10, <1>13 DEF FillAfter
      <3>2. totalSampsToWrite' = total
        BY <1>1 DEF total
      <3> DEFINE next == Larger(total, 1) * FrameBytes
      <3>3. next \in Nat /\ fill' + (next + 4) <= BUFF_SIZE_IN
        BY <1>11, <1>13
      <3> HIDE DEF next
      <3>4. fill' + 4 + next <= BUFF_SIZE_IN
        BY <3>1, <3>3, FifoSize
      <3> QED
        BY <3>2, <3>4 DEF next
    <2>4. ~inUnderflow' => stored' # <<>>
      <3>1. ASSUME ~inUnderflow PROVE stored' # <<>>
        <4>1. Len(stored) >= 1
          BY <3>1, <1>3, <1>6
        <4>2. Len(q) >= 2 /\ taken <= Len(q) - 1
          BY <4>1, <1>6, <1>9, <1>13
        <4>3. q \in Seq(Packets)
          BY <1>8 DEF LaidOut
        <4>4. Len(stored') = Len(q) - taken
          BY <1>13, <4>3, RestOf
        <4>5. Len(stored') >= 1
          BY <4>2, <4>4, <1>9, <1>13
        <4> QED
          BY <4>5
      <3> QED
        BY <1>2, <3>1
    <2> QED
      BY <2>1, <2>2, <2>3, <2>4 DEF RoomInv, Few, Larger
  <1>17. KindInv'
    <2>1. sampsToWrite' \in 0 .. totalSampsToWrite'
      BY <1>1, <1>4 DEF total
    <2>2. speedRem' \in 0 .. One - 1
      BY <1>1, <1>4
    <2>3. skew' \in Int
      BY <1>2 DEF FifoInv, KindInv
    <2>4. /\ inUnderflow' \in BOOLEAN /\ sampFreq' \in Rates /\ freqChange' \in BOOLEAN
          /\ armed' \in {NoBuffer, Zeros} \union 0 .. fifoEnd - 1
          /\ sent' \in BOOLEAN /\ hostFlag' \in BOOLEAN
          /\ pc' \in {"cmd", "sent"}
      BY <1>2 DEF FifoInv, KindInv
    <2>5. maxPacketSize' \in Nat /\ maxPacketSize' >= MaxSamples * FrameBytes
      BY <1>2 DEF FifoInv, KindInv
    <2> QED
      BY <2>1, <2>2, <2>3, <2>4, <2>5 DEF KindInv
  <1> QED
    BY <1>15, <1>16, <1>17 DEF FifoInv

\* In underflow zeros were sent, and it may be over.
LEMMA ZerosFifo ==
  ASSUME Aligned, FifoInv, ZerosSent
  PROVE  FifoInv'
  <1>1. UNCHANGED <<wrptr, rdptr, fill, stored, sampsToWrite, totalSampsToWrite, speedRem,
                    maxPacketSize, sampFreq, freqChange, sent, skew>>
        /\ inUnderflow' = ~TwoPackets /\ armed' = (IF TwoPackets THEN rdptr ELSE Zeros)
        /\ hostFlag' = FALSE /\ pc' = "cmd"
    BY DEF ZerosSent, cmdVars
  <1>2. LaidOut(stored, rdptr, wrptr, fill)'
    BY ZenonT(30), <1>1 DEF FifoInv, LaidOut, Straight, Folded, Spaces
  <1>3. ~inUnderflow' => stored # <<>>
    <2>1. ASSUME TwoPackets PROVE fill > 0
      <3>1. sampFreq \in Rates /\ ADCMin(sampFreq) \in Nat
        BY SampleCounts DEF FifoInv, KindInv
      <3> DEFINE minPkt == Space(ADCMin(sampFreq) * FrameBytes)
      <3>2. minPkt \in Nat /\ minPkt >= 4
        <4>1. ADCMin(sampFreq) * FrameBytes \in Nat
          BY <3>1, FrameSize, MoreBytes
        <4> QED
          BY <4>1, PacketSpace
      <3>3. fill >= 2 * minPkt
        BY <2>1 DEF TwoPackets
      <3>4. fill \in Nat
        BY FillCounts DEF FifoInv
      <3> HIDE DEF minPkt
      <3> QED
        BY <3>2, <3>3, <3>4
    <2>2. stored = <<>> => fill = 0
      BY FillCounts DEF FifoInv
    <2>3. ~inUnderflow' => TwoPackets
      BY <1>1, Zenon
    <2>4. fill > 0 => fill # 0
      OBVIOUS
    <2> QED
      BY <2>1, <2>2, <2>3, <2>4, Zenon
  <1>4. RoomInv'
    BY <1>1, <1>3 DEF FifoInv, RoomInv, Few, Larger
  <1>5. armed' \in {NoBuffer, Zeros} \union 0 .. fifoEnd - 1
    BY <1>1 DEF FifoInv, LaidOut
  <1>6. inUnderflow' \in BOOLEAN
    BY <1>1, Zenon
  <1>7. KindInv'
    BY <1>1, <1>5, <1>6 DEF FifoInv, KindInv
  <1> QED
    BY <1>2, <1>4, <1>7 DEF FifoInv

\* What the main loop does when the oldest packet was sent.
LEMMA SentPacket ==
  ASSUME Aligned, FifoInv, PacketSent
  PROVE  /\ 1 \in 1 .. Len(stored)
         /\ rdptr' = ReadAfter(stored, rdptr, 1) /\ fill' = FillAfter(stored, fill, 1)
         /\ stored' = SubSeq(stored, 1 + 1, Len(stored))
         /\ fill >= Space(LengthAt(rdptr))
         /\ fill' = fill - Space(stored[1].len)
  <1>1. LaidOut(stored, rdptr, wrptr, fill) /\ stored # <<>>
    BY DEF FifoInv, RoomInv, PacketSent
  <1>2. stored \in Seq(Packets) /\ Len(stored) \in Nat /\ 1 \in 1 .. Len(stored) /\ 1 \in 0 .. Len(stored)
    <2>1. stored \in Seq(Packets) /\ Len(stored) \in Nat
      BY <1>1 DEF LaidOut
    <2> QED
      BY <1>1, <2>1
  <1>3. LengthAt(rdptr) = stored[1].len
    BY <1>1, OldestLength
  <1>4. rdptr' = Wrap(rdptr + Space(stored[1].len)) /\ fill' = fill - Space(stored[1].len)
        /\ stored' = SubSeq(stored, 2, Len(stored))
    BY <1>3 DEF PacketSent
  <1>5. rdptr = stored[1].at
        /\ Wrap(stored[1].at + Space(stored[1].len)) = IF 1 < Len(stored) THEN stored[1 + 1].at ELSE wrptr
    BY <1>1, <1>2, OneBehindTheOther
  <1>6. ReadAfter(stored, rdptr, 1) = IF 1 < Len(stored) THEN stored[1 + 1].at ELSE wrptr
    BY <1>1, <1>2, ReadAfterIs
  <1>7. Spaces(stored)[1] = Space(stored[1].len)
    <2>1. Spaces(stored)[1] = Spaces(stored)[1 - 1] + Space(stored[1].len) /\ Spaces(stored)[0] = 0
      BY <1>2, SpacesSum
    <2>2. Space(stored[1].len) \in Nat
      BY <1>2, PacketTypes
    <2> QED
      BY <2>1, <2>2
  <1>8. FillAfter(stored, fill, 1) = fill - Space(stored[1].len)
    BY <1>7 DEF FillAfter
  <1>9. fill >= Space(stored[1].len)
    BY <1>1, FillCounts
  <1>10. 1 + 1 = 2
    OBVIOUS
  <1> QED
    BY <1>2, <1>3, <1>4, <1>5, <1>6, <1>8, <1>9, <1>10

LEMMA PacketFifo ==
  ASSUME Aligned, FifoInv, PacketSent
  PROVE  FifoInv'
  <1>1. UNCHANGED <<wrptr, sampsToWrite, totalSampsToWrite, speedRem, maxPacketSize,
                    sampFreq, freqChange, sent, skew>>
        /\ inUnderflow' = (fill' = 0) /\ armed' = (IF fill' = 0 THEN Zeros ELSE rdptr')
        /\ hostFlag' = FALSE /\ pc' = "cmd"
    BY DEF PacketSent, cmdVars
  <1>2. /\ 1 \in 0 .. Len(stored) /\ LaidOut(stored, rdptr, wrptr, fill)
        /\ rdptr' = ReadAfter(stored, rdptr, 1) /\ fill' = FillAfter(stored, fill, 1)
        /\ stored' = SubSeq(stored, 1 + 1, Len(stored))
    <2>1. 1 \in 1 .. Len(stored) => 1 \in 0 .. Len(stored)
      OBVIOUS
    <2> QED
      BY <2>1, SentPacket DEF FifoInv
  <1>3. LaidOut(stored', rdptr', wrptr', fill')
    BY <1>1, <1>2, TakenOut
  <1>4. LaidOut(stored, rdptr, wrptr, fill)'
    BY <1>3 DEF LaidOut, Straight, Folded, Spaces
  <1>5. fill' \in Nat /\ fill \in Nat /\ fill' <= fill /\ (stored' = <<>> => fill' = 0)
    <2>1. fill' \in Nat /\ (stored' = <<>> => fill' = 0)
      BY <1>3, FillCounts
    <2>2. fill \in Nat
      BY <1>2, FillCounts
    <2>3. fill' = fill - Space(stored[1].len) /\ 1 \in 1 .. Len(stored) /\ stored \in Seq(Packets)
      BY SentPacket DEF FifoInv, LaidOut
    <2>4. Space(stored[1].len) \in Nat
      BY <2>3, PacketTypes
    <2> QED
      BY <2>1, <2>2, <2>3, <2>4
  <1>6. RoomInv'
    <2> DEFINE next == Larger(totalSampsToWrite, 1) * FrameBytes
    <2>1. fill + 4 + next <= BUFF_SIZE_IN /\ next \in Nat
      <3>1. Larger(totalSampsToWrite, 1) \in Nat
        BY DEF FifoInv, RoomInv, Few, Larger
      <3> QED
        BY <3>1, FrameSize, MoreBytes DEF FifoInv, RoomInv
    <2> HIDE DEF next
    <2>2. fill' + 4 + next <= BUFF_SIZE_IN
      BY <1>5, <2>1, FifoSize
    <2>3. fill' + 4 + Larger(totalSampsToWrite', 1) * FrameBytes <= BUFF_SIZE_IN
      BY <1>1, <2>2 DEF next
    <2>4. ~inUnderflow' => stored' # <<>>
      BY <1>1, <1>5
    <2> QED
      BY <1>1, <2>3, <2>4 DEF FifoInv, RoomInv, Few, Larger
  <1>7. armed' \in {NoBuffer, Zeros} \union 0 .. fifoEnd - 1
    BY <1>1, <1>3 DEF LaidOut
  <1>8. inUnderflow' \in BOOLEAN
    BY <1>1, Zenon
  <1>9. KindInv'
    BY <1>1, <1>7, <1>8 DEF FifoInv, KindInv
  <1> QED
    BY <1>4, <1>6, <1>9 DEF FifoInv

\* Every step keeps the invariant.
LEMMA FifoNext ==
  ASSUME Aligned, Alike, FifoInv, [Next]_vars
  PROVE  FifoInv'
  <1>1. CASE \E speed \in Speeds : CommitPacket(speed)
    BY <1>1, CommitFifo
  <1>2. CASE SampleRateChange \/ InputStart
    BY <1>2, ChangeFifo
  <1>3. CASE ZerosSent
    BY <1>3, ZerosFifo
  <1>4. CASE PacketSent
    BY <1>4, PacketFifo
  <1>5. CASE StoreFrame \/ HostPoll \/ EpSent \/ (\E r \in Rates : EpSampleRate(r))
             \/ NoCommand \/ NothingSent \/ UNCHANGED vars
    BY <1>5, OtherFifo
  <1> QED
    BY <1>1, <1>2, <1>3, <1>4, <1>5 DEF Next, Interrupt, MainLoop

LEMMA FifoInvHolds ==
  ASSUME Aligned, Alike
  PROVE  Spec => []FifoInv
  <1>1. Init => FifoInv
    BY FifoInit
  <1>2. FifoInv /\ [Next]_vars => FifoInv'
    BY FifoNext
  <1> QED
    BY <1>1, <1>2, PTL DEF Spec

\* FifoConsistent: the packets in memory follow each other from the read pointer to the
\* write pointer and take what the fill level says, over every wrap, every packet
\* the interrupt drops and every change of rate or format.
THEOREM InFifoHolds ==
  ASSUME Aligned, Alike
  PROVE  Spec => []FifoConsistent
  <1>1. ASSUME FifoInv PROVE FifoConsistent
    <2>1. LaidOut(stored, rdptr, wrptr, fill) /\ RoomInv /\ KindInv
      BY <1>1 DEF FifoInv
    <2>2. stored \in Seq([at : 0 .. fifoEnd - 1, len : Nat])
      <3>1. Packets \subseteq [at : 0 .. fifoEnd - 1, len : Nat]
        BY DEF Packets
      <3>2. stored \in Seq(Packets)
        BY <2>1 DEF LaidOut
      <3> DEFINE Records == [at : 0 .. fifoEnd - 1, len : Nat]
      <3>3. Packets \subseteq Records
        BY <3>1
      <3> HIDE DEF Records
      <3>4. stored \in Seq(Records)
        <4>1. Len(stored) \in Nat /\ DOMAIN stored = 1 .. Len(stored)
              /\ stored = [i \in 1 .. Len(stored) |-> stored[i]]
              /\ \A i \in 1 .. Len(stored) : stored[i] \in Packets
          BY <3>2
        <4>2. \A i \in 1 .. Len(stored) : stored[i] \in Records
          BY <4>1, <3>3
        <4> QED
          BY <4>1, <4>2
      <3> QED
        BY <3>4 DEF Records
    <2>3. fill \in 0 .. BUFF_SIZE_IN
      <3>1. fill \in Nat /\ fill <= BUFF_SIZE_IN
        BY <2>1, FillCounts DEF LaidOut
      <3> QED
        BY <3>1, FifoSize
    <2>4. wrptr \in 0 .. fifoEnd - 1 /\ rdptr \in 0 .. fifoEnd - 1
      BY <2>1 DEF LaidOut
    <2>5. TypeOK
      BY <2>1, <2>2, <2>3, <2>4 DEF TypeOK, RoomInv, KindInv, Few
    <2>6. fill = Spaces(stored)[Len(stored)]
      BY <2>1 DEF LaidOut
    <2>7. /\ \A i \in 1 .. Len(stored) :
               Wrap(stored[i].at + Space(stored[i].len))
                 = IF i < Len(stored) THEN stored[i + 1].at ELSE wrptr
          /\ rdptr = IF stored = <<>> THEN wrptr ELSE stored[1].at
      BY <2>1, OneBehindTheOther
    <2> QED
      BY <2>5, <2>6, <2>7 DEF FifoConsistent
  <1> QED
    BY <1>1, FifoInvHolds, PTL

\* AssertsHold: none of the three assertions of decouple fails.  The packet under
\* construction always has room, and a packet that is sent is still in the FIFO,
\* as the overflow loop never drops the last.
THEOREM NoAssertFails ==
  ASSUME Aligned, Alike
  PROVE  Spec => []AssertsHold
  <1>1. ASSUME FifoInv PROVE AssertsHold
    <2>1. LaidOut(stored, rdptr, wrptr, fill) /\ RoomInv /\ KindInv
      BY <1>1 DEF FifoInv
    <2> DEFINE n == totalSampsToWrite
               len == n * FrameBytes
               next == Larger(n, 1) * FrameBytes
    <2>2. n \in Nat /\ len <= maxPacketSize /\ fill + 4 + next <= BUFF_SIZE_IN /\ fill \in Nat
      BY <2>1, FillCounts DEF RoomInv, Few
    <2>3. RoundUp(len) = len /\ len \in Nat
      BY <2>2, WholeWords
    <2>4. next \in Nat /\ len <= next
      <3>1. Larger(n, 1) \in Nat /\ n <= Larger(n, 1)
        BY <2>2 DEF Larger
      <3> QED
        BY <2>2, <3>1, FrameSize, MoreBytes
    <2> HIDE DEF len, next
    <2>5. fill + 4 + len <= BUFF_SIZE_IN
      BY <2>2, <2>3, <2>4, FifoSize
    <2>6. ASSUME ~inUnderflow PROVE fill >= Space(LengthAt(rdptr))
      <3>1. stored # <<>>
        BY <2>1, <2>6 DEF RoomInv
      <3>2. LengthAt(rdptr) = stored[1].len
        BY <2>1, <3>1, OldestLength
      <3> QED
        BY <2>1, <3>1, <3>2, FillCounts
    <2> QED
      BY <2>2, <2>3, <2>5, <2>6 DEF AssertsHold, len
  <1> QED
    BY <1>1, FifoInvHolds, PTL

\* WritesHitNoPacket: the interrupt never stores a frame over a packet that is still
\* to be sent, whatever the host and the feedback do.
THEOREM WritesHold ==
  ASSUME Aligned, Alike
  PROVE  Spec => []WritesHitNoPacket
  <1>1. ASSUME FifoInv PROVE WritesHitNoPacket
    <2>1. LaidOut(stored, rdptr, wrptr, fill) /\ RoomInv
      BY <1>1 DEF FifoInv
    <2> DEFINE next == Larger(totalSampsToWrite, 1) * FrameBytes
    <2>2. next \in Nat /\ fill + 4 + next <= BUFF_SIZE_IN
      <3>1. Larger(totalSampsToWrite, 1) \in Nat
        BY <2>1 DEF RoomInv, Few, Larger
      <3> QED
        BY <2>1, <3>1, FrameSize, MoreBytes DEF RoomInv
    <2>3. DOMAIN stored = 1 .. Len(stored)
      BY <2>1 DEF LaidOut
    <2> HIDE DEF next
    <2>4. ASSUME NEW i \in DOMAIN stored
          PROVE  (wrptr .. wrptr + 3 + next)
                   \intersect (stored[i].at .. stored[i].at + 3 + stored[i].len) = {}
      BY <2>1, <2>2, <2>3, RoomFree
    <2> QED
      BY <2>4 DEF WritesHitNoPacket, next
  <1> QED
    BY <1>1, FifoInvHolds, PTL


-----------------------------------------------------------------------------
(***************************************************************************)
(* A stream that keeps pace: one rate, feedback that is right, AudioHub    *)
(* and the host within two packets of each other, and decouple quick       *)
(* enough to arm a buffer before the next packet is committed.             *)
(***************************************************************************)
Steady ==
  /\ Paced /\ Prompt /\ Lead + Lag <= 2
  /\ Rates = {DefaultRate}
  /\ \A speed \in Speeds, rem \in 0 .. One - 1 :
       /\ (rem + speed) \div One >= ADCMin(DefaultRate)
       /\ (rem + speed) \div One <= ADCMax(DefaultRate)

Smallest == ADCMin(DefaultRate) * FrameBytes
Largest  == ADCMax(DefaultRate) * FrameBytes

\* A buffer is armed or on its way back.  With the one that is armed, the
\* packets in memory are no more than three and the host's lag, less what
\* AudioHub is ahead.
AheadInv ==
  /\ ~inUnderflow /\ armed = NoBuffer => sent \/ hostFlag
  /\ ~inUnderflow => Len(stored) - skew + (IF armed = NoBuffer THEN 0 ELSE 1) <= 3 + Lag
  /\ skew \in -Lag .. Lead
SizedInv ==
  /\ totalSampsToWrite >= ADCMin(DefaultRate) /\ totalSampsToWrite <= ADCMax(DefaultRate)
  /\ \A i \in 1 .. Len(stored) : stored[i].len >= Smallest /\ stored[i].len <= Largest
PacedInv == FifoInv /\ AheadInv /\ SizedInv /\ ArmedIsOldest

LEMMA SteadySizes ==
  ASSUME Aligned
  PROVE  /\ DefaultRate \in Rates
         /\ ADCMin(DefaultRate) \in Nat /\ ADCMax(DefaultRate) \in Nat
         /\ ADCMid(DefaultRate) >= ADCMin(DefaultRate) /\ ADCMid(DefaultRate) <= ADCMax(DefaultRate)
         /\ Smallest \in Nat /\ Largest \in Nat /\ Smallest <= Largest
         /\ Space(Smallest) = Smallest + 4
         /\ Largest <= MaxSamples * FrameBytes
  <1>1. DefaultRate \in Rates
    BY RatesAssumption
  <1>2. /\ ADCMin(DefaultRate) \in Nat /\ ADCMax(DefaultRate) \in Nat /\ ADCMid(DefaultRate) \in Nat
        /\ ADCMid(DefaultRate) >= ADCMin(DefaultRate) /\ ADCMid(DefaultRate) <= ADCMax(DefaultRate)
        /\ ADCMax(DefaultRate) <= MaxSamples /\ MaxSamples \in Nat
    BY <1>1, SampleCounts
  <1>3. ADCMin(DefaultRate) <= ADCMax(DefaultRate)
    BY <1>2
  <1>4. Smallest \in Nat /\ Largest \in Nat /\ Smallest <= Largest
    BY <1>2, <1>3, FrameSize, MoreBytes DEF Smallest, Largest
  <1>5. Largest <= MaxSamples * FrameBytes
    BY <1>2, FrameSize, MoreBytes DEF Largest
  <1>6. Space(Smallest) = Smallest + 4
    BY <1>2, WholeWords DEF Smallest
  <1> QED
    BY <1>1, <1>2, <1>4, <1>5, <1>6

LEMMA SteadyAlike ==
  ASSUME Aligned, Steady
  PROVE  Alike
  <1>1. Rates = {DefaultRate} /\ ADCMax(DefaultRate) \in Nat /\ ADCMid(DefaultRate) \in Nat
        /\ ADCMid(DefaultRate) <= ADCMax(DefaultRate)
    BY SteadySizes, SampleCounts DEF Steady
  <1>2. \A n \in Nat : n <= ADCMax(DefaultRate) => Few(n)
    <2> TAKE n \in Nat
    <2>1. n <= ADCMax(DefaultRate) => n <= 2 * ADCMax(DefaultRate)
      BY <1>1
    <2> QED
      BY <1>1, <2>1 DEF Few
  <1>3. ASSUME NEW speed \in Speeds, NEW rem \in 0 .. One - 1, (rem + speed) \div One >= 0
        PROVE  Few((rem + speed) \div One)
    <2>1. (rem + speed) \div One \in Int
      BY SpeedsAssumption
    <2>2. (rem + speed) \div One <= ADCMax(DefaultRate)
      BY DEF Steady
    <2> DEFINE total == (rem + speed) \div One
    <2> HIDE DEF total
    <2>3. total \in Nat
      BY <2>1, <1>3 DEF total
    <2> QED
      BY <1>2, <2>2, <2>3 DEF total
  <1>4. \A r \in Rates : Few(ADCMid(r))
    BY <1>1, <1>2
  <1> QED
    BY <1>3, <1>4 DEF Alike

\* The next packet is of the rate's size.
LEMMA NextSteady ==
  ASSUME Aligned, Steady, FifoInv, NEW speed \in Speeds
  PROVE  /\ NextTotal(speed) \in Nat
         /\ NextTotal(speed) >= ADCMin(DefaultRate) /\ NextTotal(speed) <= ADCMax(DefaultRate)
  <1> DEFINE total == (speedRem + speed) \div One
  <1>1. /\ One \in Nat /\ One > 0 /\ speed \in Int /\ speedRem \in 0 .. One - 1
        /\ maxPacketSize \in Nat /\ maxPacketSize >= MaxSamples * FrameBytes
    BY SpeedsAssumption DEF FifoInv, KindInv
  <1>2. total \in Int /\ total >= ADCMin(DefaultRate) /\ total <= ADCMax(DefaultRate)
    BY <1>1 DEF Steady
  <1>3. ADCMin(DefaultRate) \in Nat /\ ADCMax(DefaultRate) \in Nat /\ Largest \in Nat
        /\ Largest <= MaxSamples * FrameBytes /\ MaxSamples * FrameBytes \in Nat
    BY SteadySizes, FifoSize
  <1> HIDE DEF total
  <1>4. total \in Nat
    BY <1>2, <1>3
  <1>5. total * FrameBytes \in Nat /\ total * FrameBytes <= Largest
    BY <1>2, <1>3, <1>4, FrameSize, MoreBytes DEF Largest
  <1>6. ~(total < 0 \/ total * FrameBytes > maxPacketSize)
    <2> DEFINE full == MaxSamples * FrameBytes
               bytes == total * FrameBytes
    <2>1. /\ full \in Nat /\ bytes \in Nat /\ bytes <= Largest /\ Largest <= full /\ Largest \in Nat
          /\ maxPacketSize \in Nat /\ maxPacketSize >= full
      BY <1>1, <1>3, <1>5
    <2> HIDE DEF full, bytes
    <2>2. ~(bytes > maxPacketSize)
      BY <2>1
    <2> QED
      BY <2>2, <1>4 DEF bytes
  <1>7. NextTotal(speed) = total
    BY <1>6 DEF NextTotal, total
  <1> QED
    BY <1>2, <1>4, <1>7

\* Three packets take at least three of the smallest, four at most four of
\* the largest.
LEMMA FewPackets ==
  ASSUME Aligned, NEW q \in Seq(Packets),
         \A i \in 1 .. Len(q) : q[i].len >= Smallest /\ q[i].len <= Largest
  PROVE  /\ Len(q) >= 3 => Spaces(q)[Len(q)] >= 3 * (Smallest + 4)
         /\ Len(q) <= 4 => Spaces(q)[Len(q)] <= 4 * (Largest + 4)
  <1>1. Len(q) \in Nat /\ Smallest \in Nat /\ Largest \in Nat
    BY SteadySizes
  <1>2. /\ Spaces(q)[0] = 0
        /\ \A i \in 1 .. Len(q) : Spaces(q)[i] = Spaces(q)[i - 1] + Space(q[i].len)
        /\ \A i \in 0 .. Len(q) : Spaces(q)[i] \in Nat
    BY SpacesSum
  <1>3. ASSUME NEW i \in 1 .. Len(q)
        PROVE  /\ Spaces(q)[i] \in Nat /\ Spaces(q)[i - 1] \in Nat
               /\ Spaces(q)[i] >= Spaces(q)[i - 1] + (Smallest + 4)
               /\ Spaces(q)[i] <= Spaces(q)[i - 1] + (Largest + 4)
    <2>1. q[i].len \in Nat /\ Space(q[i].len) = q[i].len + 4
      BY PacketTypes
    <2>2. i \in 0 .. Len(q) /\ i - 1 \in 0 .. Len(q)
      BY <1>1
    <2>3. Spaces(q)[i] \in Nat /\ Spaces(q)[i - 1] \in Nat
      BY <1>2, <2>2
    <2>4. Spaces(q)[i] = Spaces(q)[i - 1] + (q[i].len + 4)
      BY <1>2, <2>1
    <2>5. q[i].len >= Smallest /\ q[i].len <= Largest
      OBVIOUS
    <2> DEFINE before == Spaces(q)[i - 1]
               now == Spaces(q)[i]
               len == q[i].len
    <2>6. before \in Nat /\ now \in Nat /\ now = before + (len + 4)
          /\ len \in Nat /\ len >= Smallest /\ len <= Largest
      BY <2>1, <2>3, <2>4, <2>5
    <2> HIDE DEF before, now, len
    <2>7. now >= before + (Smallest + 4) /\ now <= before + (Largest + 4)
      BY <1>1, <2>6
    <2> QED
      BY <2>6, <2>7 DEF before, now
  <1> DEFINE s(i) == Spaces(q)[i]
  <1>4. s(0) = 0
    BY <1>2
  <1>5. \A i \in 1 .. Len(q) : /\ s(i) \in Nat /\ s(i - 1) \in Nat
                               /\ s(i) >= s(i - 1) + (Smallest + 4)
                               /\ s(i) <= s(i - 1) + (Largest + 4)
    BY <1>3
  <1> HIDE DEF s
  <1>6. Len(q) >= 1 => s(1) \in Nat /\ s(1) >= Smallest + 4 /\ s(1) <= Largest + 4
    <2>1. Len(q) >= 1 => 1 \in 1 .. Len(q) /\ 1 - 1 = 0
      BY <1>1
    <2> QED
      BY <1>1, <1>4, <1>5, <2>1
  <1>7. Len(q) >= 2 => s(2) \in Nat /\ s(2) >= 2 * (Smallest + 4) /\ s(2) <= 2 * (Largest + 4)
    <2>1. Len(q) >= 2 => 2 \in 1 .. Len(q) /\ 2 - 1 = 1 /\ Len(q) >= 1
      BY <1>1
    <2> QED
      BY <1>1, <1>5, <1>6, <2>1
  <1>8. Len(q) >= 3 => s(3) \in Nat /\ s(3) >= 3 * (Smallest + 4) /\ s(3) <= 3 * (Largest + 4)
    <2>1. Len(q) >= 3 => 3 \in 1 .. Len(q) /\ 3 - 1 = 2 /\ Len(q) >= 2
      BY <1>1
    <2> QED
      BY SMTT(30), <1>1, <1>5, <1>7, <2>1
  <1>9. Len(q) >= 4 => s(4) \in Nat /\ s(4) <= 4 * (Largest + 4)
    <2>1. Len(q) >= 4 => 4 \in 1 .. Len(q) /\ 4 - 1 = 3 /\ Len(q) >= 3
      BY <1>1
    <2> QED
      BY <1>1, <1>5, <1>8, <2>1
  <1> DEFINE n == Len(q)
             lo == Smallest + 4
             hi == Largest + 4
  <1>10. n >= 3 => s(n) >= 3 * lo
    <2>1. CASE n > 3
      <3>1. 4 \in 1 .. Len(q) /\ Len(q) \in 4 .. Len(q) /\ 4 - 1 = 3 /\ Len(q) \in 1 .. Len(q)
            /\ Len(q) >= 3
        BY <2>1, <1>1
      <3>2. Spaces(q)[4 - 1] + Space(q[4].len) <= Spaces(q)[Len(q)]
        BY <3>1, SpacesGrow
      <3>3. Space(q[4].len) \in Nat
        BY <3>1, PacketTypes
      <3>4. s(3) + Space(q[4].len) <= s(n) /\ s(n) \in Nat
        <4>1. s(3) + Space(q[4].len) <= s(n)
          BY <3>1, <3>2 DEF s
        <4>2. s(n) \in Nat
          BY <3>1, <1>5
        <4> QED
          BY <4>1, <4>2
      <3>5. s(3) \in Nat /\ s(3) >= 3 * lo
        BY <3>1, <1>8
      <3>6. lo \in Nat
        BY <1>1
      <3> HIDE DEF n, lo
      <3> QED
        BY <3>3, <3>4, <3>5, <3>6
    <2>2. CASE n = 3
      BY <2>2, <1>8
    <2>3. n \in Nat
      BY <1>1
    <2> HIDE DEF n, lo
    <2> QED
      BY <2>1, <2>2, <2>3
  <1>11. n <= 4 => s(n) <= 4 * hi
    <2>1. n \in Nat /\ hi \in Nat
      BY <1>1
    <2>2. n >= 1 => s(1) <= hi /\ s(1) \in Nat
      BY <1>6
    <2>3. n >= 2 => s(2) <= 2 * hi /\ s(2) \in Nat
      BY <1>7
    <2>4. n >= 3 => s(3) <= 3 * hi /\ s(3) \in Nat
      BY <1>8
    <2>5. n >= 4 => s(4) <= 4 * hi /\ s(4) \in Nat
      BY <1>9
    <2> HIDE DEF n, hi
    <2>6. n <= 4 => n = 0 \/ n = 1 \/ n = 2 \/ n = 3 \/ n = 4
      BY <2>1
    <2> QED
      BY <1>4, <2>1, <2>2, <2>3, <2>4, <2>5, <2>6
  <1> QED
    BY <1>10, <1>11 DEF s

LEMMA PacedInit ==
  ASSUME Aligned, Steady, Init
  PROVE  PacedInv
  <1>1. FifoInv
    BY SteadyAlike, FifoInit
  <1>2. inUnderflow /\ armed = NoBuffer /\ skew = 0 /\ stored = <<>>
        /\ totalSampsToWrite = ADCMid(DefaultRate)
    BY DEF Init
  <1>3. AheadInv
    BY <1>2, PaceAssumption DEF AheadInv
  <1>4. SizedInv
    BY <1>2, SteadySizes DEF SizedInv
  <1>5. ArmedIsOldest
    BY <1>2 DEF ArmedIsOldest
  <1> QED
    BY <1>1, <1>3, <1>4, <1>5 DEF PacedInv

\* A packet that is committed out of underflow finds room for the next: none
\* is dropped.
LEMMA NoneDropped ==
  ASSUME Aligned, Steady, PacedInv, ~inUnderflow, NEW speed \in Speeds, CommitPacket(speed)
  PROVE  /\ rdptr' = rdptr
         /\ stored' = Append(stored, Packet(wrptr, totalSampsToWrite * FrameBytes))
  <1> DEFINE len == totalSampsToWrite * FrameBytes
             q == Append(stored, Packet(wrptr, len))
             level == fill + Space(len)
             total == NextTotal(speed)
             next == Larger(total, 1) * FrameBytes
             spaceRequired == Larger(total, 1) * FrameBytes + 4
             drop == IF spaceRequired > BUFF_SIZE_IN - level THEN DropCount(q, level) ELSE 0
  <1>1. /\ rdptr' = ReadAfter(q, rdptr, drop) /\ stored' = SubSeq(q, drop + 1, Len(q))
        /\ skew < Lead /\ ~sent /\ ~hostFlag
    BY DEF CommitPacket, Steady
  <1>2. FifoInv /\ AheadInv /\ SizedInv /\ Alike
    BY SteadyAlike DEF PacedInv
  <1>3. armed # NoBuffer
    BY <1>1, <1>2 DEF AheadInv
  <1>4. Len(stored) <= 3
    <2>1. Len(stored) - skew + 1 <= 3 + Lag
      BY <1>2, <1>3 DEF AheadInv
    <2>2. Lead \in Nat /\ Lag \in Nat /\ Lead + Lag <= 2 /\ skew \in Int /\ skew < Lead
      BY <1>1, <1>2, PaceAssumption DEF Steady, AheadInv
    <2>3. Len(stored) \in Nat
      BY <1>2 DEF FifoInv, LaidOut
    <2> QED
      BY <2>1, <2>2, <2>3
  <1>5. LaidOut(stored, rdptr, wrptr, fill) /\ totalSampsToWrite \in Nat /\ Few(totalSampsToWrite)
        /\ fill + 4 + Larger(totalSampsToWrite, 1) * FrameBytes <= BUFF_SIZE_IN
    BY <1>2 DEF FifoInv, RoomInv, Few
  <1>6. len \in Nat /\ Space(len) = len + 4 /\ len >= Smallest /\ len <= Largest
    <2>1. totalSampsToWrite >= ADCMin(DefaultRate) /\ totalSampsToWrite <= ADCMax(DefaultRate)
      BY <1>2 DEF SizedInv
    <2>2. ADCMin(DefaultRate) \in Nat /\ ADCMax(DefaultRate) \in Nat
      BY SteadySizes
    <2>3. len >= Smallest /\ len <= Largest
      BY <1>5, <2>1, <2>2, FrameSize, MoreBytes, SteadySizes DEF Smallest, Largest
    <2> QED
      BY <1>5, <2>3, WholeWords
  <1>8. LaidOut(q, rdptr, Wrap(wrptr + Space(len)), level)
    BY <1>2, CommitLaidOut
  <1>9. /\ stored \in Seq(Packets) /\ Packet(wrptr, len) \in Packets
        /\ q \in Seq(Packets) /\ Len(q) = Len(stored) + 1 /\ Len(stored) \in Nat
        /\ \A i \in 1 .. Len(stored) : q[i] = stored[i]
        /\ q[Len(stored) + 1] = Packet(wrptr, len)
    <2>1. stored \in Seq(Packets) /\ q \in Seq(Packets)
      BY <1>5, <1>8 DEF LaidOut
    <2>2. Packet(wrptr, len) \in Packets
      BY <1>5, <1>6 DEF Packets, Packet, LaidOut
    <2> QED
      BY <2>1, <2>2, AppendProperties
  <1> HIDE DEF len
  <1>10. \A i \in 1 .. Len(q) : q[i].len >= Smallest /\ q[i].len <= Largest
    <2> TAKE i \in 1 .. Len(q)
    <2>1. CASE i \in 1 .. Len(stored)
      <3>1. stored[i].len >= Smallest /\ stored[i].len <= Largest
        BY <1>2, <2>1 DEF SizedInv
      <3>2. q[i] = stored[i]
        BY <1>9, <2>1
      <3> QED
        BY <3>1, <3>2
    <2>2. CASE i \notin 1 .. Len(stored)
      <3>1. i = Len(stored) + 1
        <4>1. i \in 1 .. Len(stored) + 1
          BY <1>9
        <4> HIDE DEF q
        <4> QED
          BY <4>1, <2>2, <1>9
      <3>2. q[i] = Packet(wrptr, len)
        BY <1>9, <3>1
      <3>3. q[i].len = len
        BY <3>2 DEF Packet
      <3> QED
        BY <1>6, <3>3
    <2> QED
      BY <2>1, <2>2
  <1>11. level <= 4 * (Largest + 4) /\ level \in Nat
    <2> HIDE DEF q, level
    <2>1. level = Spaces(q)[Len(q)]
      BY <1>8 DEF LaidOut
    <2>2. Len(q) <= 4
      BY <1>4, <1>9
    <2>3. Spaces(q)[Len(q)] <= 4 * (Largest + 4)
      BY <1>9, <1>10, <2>2, FewPackets
    <2>4. level \in Nat
      BY <1>8, FillCounts
    <2> QED
      BY <2>1, <2>3, <2>4
  <1>12. next \in Nat /\ next <= MaxSamples * FrameBytes
    <2>1. total \in Nat /\ total <= ADCMax(DefaultRate)
      BY <1>2, NextSteady
    <2>2. ADCMax(DefaultRate) <= MaxSamples /\ MaxSamples \in Nat /\ MaxSamples >= 2
          /\ ADCMax(DefaultRate) \in Nat
      BY SteadySizes, SampleCounts
    <2> HIDE DEF total
    <2>3. Larger(total, 1) \in Nat /\ Larger(total, 1) <= MaxSamples
      BY <2>1, <2>2 DEF Larger
    <2> QED
      BY <2>2, <2>3, FrameSize, MoreBytes
  <1>13. ~(spaceRequired > BUFF_SIZE_IN - level)
    <2> DEFINE full == MaxSamples * FrameBytes
    <2>1. /\ full \in Nat /\ BUFF_SIZE_IN = 5 * (full + 4)
          /\ Largest \in Nat /\ Largest <= full /\ next \in Nat /\ next <= full
          /\ level \in Nat /\ level <= 4 * (Largest + 4)
      BY <1>11, <1>12, FifoSize, SteadySizes
    <2> HIDE DEF full, next, level
    <2>2. ~(next + 4 > BUFF_SIZE_IN - level)
      BY <2>1
    <2> QED
      BY <2>2 DEF next
  <1>14. drop = 0
    BY <1>13
  <1> HIDE DEF drop, q, level
  <1>15. rdptr' = ReadAfter(q, rdptr, 0) /\ stored' = SubSeq(q, 0 + 1, Len(q))
    BY <1>1, <1>14
  <1>16. Len(q) \in Nat /\ Len(q) > 0 /\ 0 \in 0 .. Len(q) /\ 0 + 1 \in 1 .. Len(q)
    BY <1>9
  <1>17. ReadAfter(q, rdptr, 0) = q[1].at /\ rdptr = q[1].at
    <2>1. ReadAfter(q, rdptr, 0) = IF 0 < Len(q) THEN q[0 + 1].at ELSE Wrap(wrptr + Space(len))
      BY <1>8, <1>16, ReadAfterIs
    <2>2. q # <<>>
      BY <1>16
    <2>3. rdptr = IF q = <<>> THEN Wrap(wrptr + Space(len)) ELSE q[1].at
      BY <1>8, OneBehindTheOther
    <2> QED
      BY <1>16, <2>1, <2>2, <2>3
  <1>18. SubSeq(q, 0 + 1, Len(q)) = q
    <2>1. /\ SubSeq(q, 0 + 1, Len(q)) \in Seq(Packets) /\ Len(SubSeq(q, 0 + 1, Len(q))) = Len(q) - 0
          /\ \A i \in 1 .. Len(q) - 0 : SubSeq(q, 0 + 1, Len(q))[i] = q[0 + i]
      BY <1>9, <1>16, RestOf
    <2> DEFINE s == SubSeq(q, 0 + 1, Len(q))
    <2>2. /\ s \in Seq(Packets) /\ Len(s) = Len(q)
          /\ \A i \in 1 .. Len(q) : s[i] = q[i]
      BY <2>1, <1>16
    <2> HIDE DEF s
    <2>3. s = q
      BY <2>2, <1>9
    <2> QED
      BY <2>3 DEF s
  <1> QED
    BY <1>15, <1>17, <1>18 DEF q, len

\* The steps that leave the FIFO alone.
LEMMA OtherPaced ==
  ASSUME Aligned, Steady, PacedInv,
         StoreFrame \/ HostPoll \/ EpSent \/ (\E r \in Rates : EpSampleRate(r))
           \/ NoCommand \/ NothingSent \/ UNCHANGED vars
  PROVE  PacedInv'
  <1>1. FifoInv'
    BY OtherFifo DEF PacedInv
  <1>2. UNCHANGED <<stored, rdptr, totalSampsToWrite, inUnderflow>>
    BY DEF StoreFrame, HostPoll, EpSent, EpSampleRate, NoCommand, NothingSent, vars
  <1>3. SizedInv'
    BY <1>2 DEF PacedInv, SizedInv
  <1>4. ArmedIsOldest'
    BY <1>2 DEF PacedInv, ArmedIsOldest, StoreFrame, HostPoll, EpSent, EpSampleRate, NoCommand,
                NothingSent, vars, usbVars
  <1>5. AheadInv'
    <2>1. CASE HostPoll
      <3>1. armed # NoBuffer /\ armed' = NoBuffer /\ sent' = TRUE /\ skew' = skew - 1 /\ skew > -Lag
        BY <2>1 DEF HostPoll, Steady
      <3>2. skew \in -Lag .. Lead /\ Lag \in Nat /\ Lead \in Nat /\ Len(stored) \in Nat
        BY PaceAssumption DEF PacedInv, AheadInv, FifoInv, LaidOut
      <3>3. ~inUnderflow => Len(stored) - skew + 1 <= 3 + Lag
        BY <3>1 DEF PacedInv, AheadInv
      <3>4. skew' \in -Lag .. Lead
        BY <3>1, <3>2
      <3>5. Len(stored) - skew + 1 = Len(stored) - skew' + 0
        BY <3>1, <3>2
      <3> QED
        BY <1>2, <3>1, <3>3, <3>4, <3>5 DEF AheadInv
    <2>2. CASE EpSent
      <3>1. UNCHANGED <<armed, skew>> /\ hostFlag' = TRUE
        BY <2>2 DEF EpSent
      <3> QED
        BY <1>2, <3>1 DEF PacedInv, AheadInv
    <2>3. CASE StoreFrame \/ (\E r \in Rates : EpSampleRate(r)) \/ NoCommand \/ NothingSent
                 \/ UNCHANGED vars
      <3>1. UNCHANGED <<armed, skew, sent, hostFlag>>
        BY <2>3 DEF StoreFrame, EpSampleRate, NoCommand, NothingSent, vars, usbVars
      <3> QED
        BY <1>2, <3>1 DEF PacedInv, AheadInv
    <2> QED
      BY <2>1, <2>2, <2>3
  <1> QED
    BY <1>1, <1>3, <1>4, <1>5 DEF PacedInv

LEMMA ChangePaced ==
  ASSUME Aligned, Steady, PacedInv, SampleRateChange \/ InputStart
  PROVE  PacedInv'
  <1>1. FifoInv' /\ FifoInv
    BY SteadyAlike, ChangeFifo DEF PacedInv
  <1>2. EmptyFifo /\ UNCHANGED skew
    BY DEF SampleRateChange, InputStart
  <1>3. inUnderflow' = TRUE /\ armed' = Zeros /\ stored' = <<>>
        /\ totalSampsToWrite' = ADCMid(sampFreq)
    BY <1>2 DEF EmptyFifo
  <1>4. sampFreq = DefaultRate
    BY <1>1 DEF FifoInv, KindInv, Steady
  <1>5. AheadInv'
    BY <1>2, <1>3 DEF PacedInv, AheadInv
  <1>6. SizedInv'
    <2>1. Len(stored') = 0
      BY <1>3
    <2>2. \A i \in 1 .. Len(stored') : stored'[i].len >= Smallest /\ stored'[i].len <= Largest
      BY <2>1
    <2>3. totalSampsToWrite' = ADCMid(DefaultRate)
      BY <1>3, <1>4
    <2> QED
      BY <2>2, <2>3, SteadySizes DEF SizedInv
  <1>7. ArmedIsOldest'
    BY <1>3 DEF ArmedIsOldest
  <1> QED
    BY <1>1, <1>5, <1>6, <1>7 DEF PacedInv

\* Underflow is left with two packets in memory: three of the smallest would take more.
LEMMA ZerosPaced ==
  ASSUME Aligned, Steady, PacedInv, ZerosSent
  PROVE  PacedInv'
  <1>1. FifoInv'
    BY ZerosFifo DEF PacedInv
  <1>2. UNCHANGED <<rdptr, stored, totalSampsToWrite, skew>>
        /\ inUnderflow' = ~TwoPackets /\ armed' = (IF TwoPackets THEN rdptr ELSE Zeros)
    BY DEF ZerosSent
  <1>3. TwoPackets => Len(stored) <= 2
    <2>1. LaidOut(stored, rdptr, wrptr, fill) /\ sampFreq = DefaultRate
      BY DEF PacedInv, FifoInv, KindInv, Steady
    <2>2. stored \in Seq(Packets) /\ fill = Spaces(stored)[Len(stored)] /\ Len(stored) \in Nat
      BY <2>1 DEF LaidOut
    <2>3. Len(stored) >= 3 => fill >= 3 * (Smallest + 4)
      BY <2>2, FewPackets DEF PacedInv, SizedInv
    <2>4. TwoPackets => fill < 3 * (Smallest + 4)
      BY <2>1, SteadySizes DEF TwoPackets, Smallest
    <2>5. fill \in Nat /\ Smallest \in Nat
      BY <2>1, FillCounts, SteadySizes
    <2> QED
      BY <2>2, <2>3, <2>4, <2>5
  <1>4. rdptr \in Nat /\ rdptr # NoBuffer
    <2>1. rdptr \in Nat
      BY FifoSize DEF PacedInv, FifoInv, LaidOut
    <2> QED
      BY <2>1 DEF NoBuffer
  <1>5. armed' # NoBuffer
    BY <1>2, <1>4 DEF Zeros, NoBuffer
  <1>6. ~inUnderflow' => TwoPackets
    BY <1>2, Zenon
  <1>7. AheadInv'
    <2>1. skew \in -Lag .. Lead /\ Lag \in Nat /\ Lead \in Nat /\ Len(stored) \in Nat
      BY PaceAssumption DEF PacedInv, AheadInv, FifoInv, LaidOut
    <2>2. Len(stored) <= 2 => Len(stored) - skew + 1 <= 3 + Lag
      BY <2>1
    <2>3. ~inUnderflow' => Len(stored') - skew' + 1 <= 3 + Lag
      BY <1>2, <1>3, <1>6, <2>2
    <2> QED
      BY <1>2, <1>5, <2>1, <2>3 DEF AheadInv
  <1>8. SizedInv'
    BY <1>2 DEF PacedInv, SizedInv
  <1>9. ArmedIsOldest'
    <2>1. armed' \notin {NoBuffer, Zeros} => TwoPackets
      BY <1>2
    <2>2. TwoPackets => armed' = rdptr'
      BY <1>2
    <2>3. TwoPackets => ~inUnderflow'
      BY <1>2, Zenon
    <2> QED
      BY <2>1, <2>2, <2>3 DEF ArmedIsOldest
  <1> QED
    BY <1>1, <1>7, <1>8, <1>9 DEF PacedInv

LEMMA PacketPaced ==
  ASSUME Aligned, Steady, PacedInv, PacketSent
  PROVE  PacedInv'
  <1>1. FifoInv' /\ FifoInv
    BY PacketFifo DEF PacedInv
  <1>2. ~inUnderflow /\ UNCHANGED <<totalSampsToWrite, skew>> /\ stored' = SubSeq(stored, 2, Len(stored))
        /\ inUnderflow' = (fill' = 0) /\ armed' = (IF fill' = 0 THEN Zeros ELSE rdptr')
    BY DEF PacketSent
  <1>3. rdptr' # NoBuffer
    <2>1. rdptr' \in Nat
      BY <1>1, FifoSize DEF FifoInv, LaidOut
    <2> QED
      BY <2>1 DEF NoBuffer
  <1>4. armed' # NoBuffer
    BY <1>2, <1>3 DEF Zeros, NoBuffer
  <1>5. /\ 1 \in 0 .. Len(stored) /\ stored \in Seq(Packets) /\ Len(stored) \in Nat
        /\ stored' = SubSeq(stored, 1 + 1, Len(stored))
    <2>1. 1 \in 1 .. Len(stored)
      BY <1>1, SentPacket
    <2>2. stored \in Seq(Packets)
      BY <1>1 DEF FifoInv, LaidOut
    <2>3. stored' = SubSeq(stored, 1 + 1, Len(stored))
      BY <1>1, SentPacket
    <2> QED
      BY <2>1, <2>2, <2>3
  <1>6. /\ stored' \in Seq(Packets) /\ Len(stored') = Len(stored) - 1
        /\ \A i \in 1 .. Len(stored) - 1 : stored'[i] = stored[1 + i]
    BY <1>5, RestOf
  <1>7. AheadInv'
    <2>1. skew \in -Lag .. Lead /\ Lag \in Nat /\ Lead \in Nat
      BY PaceAssumption DEF PacedInv, AheadInv
    <2>2. Len(stored) - skew + (IF armed = NoBuffer THEN 0 ELSE 1) <= 3 + Lag
      BY <1>2 DEF PacedInv, AheadInv
    <2>3. Len(stored) - skew <= 3 + Lag
      BY <1>5, <2>1, <2>2
    <2>4. Len(stored') - skew' + 1 <= 3 + Lag
      BY <1>2, <1>5, <1>6, <2>1, <2>3
    <2> QED
      BY <1>2, <1>4, <2>1, <2>4 DEF AheadInv
  <1>8. SizedInv'
    <2>1. ASSUME NEW i \in 1 .. Len(stored')
          PROVE  stored'[i].len >= Smallest /\ stored'[i].len <= Largest
      <3>1. i \in 1 .. Len(stored) - 1 /\ 1 + i \in 1 .. Len(stored)
        BY <1>5, <1>6
      <3>2. stored'[i] = stored[1 + i]
        BY <1>6, <3>1
      <3> QED
        BY <3>1, <3>2 DEF PacedInv, SizedInv
    <2> QED
      BY <1>2, <2>1 DEF PacedInv, SizedInv
  <1>9. ArmedIsOldest'
    <2>1. armed' \notin {NoBuffer, Zeros} => fill' # 0 /\ armed' = rdptr'
      BY <1>2
    <2>2. fill' # 0 => ~inUnderflow'
      BY <1>2, Zenon
    <2> QED
      BY <2>1, <2>2 DEF ArmedIsOldest
  <1> QED
    BY <1>1, <1>7, <1>8, <1>9 DEF PacedInv

LEMMA CommitPaced ==
  ASSUME Aligned, Steady, PacedInv, NEW speed \in Speeds, CommitPacket(speed)
  PROVE  PacedInv'
  <1> DEFINE p == Packet(wrptr, totalSampsToWrite * FrameBytes)
             q == Append(stored, p)
             level == fill + Space(totalSampsToWrite * FrameBytes)
             drop == IF Larger(NextTotal(speed), 1) * FrameBytes + 4 > BUFF_SIZE_IN - level
                       THEN DropCount(q, level) ELSE 0
  <1>1. FifoInv' /\ FifoInv /\ Alike
    BY SteadyAlike, CommitFifo DEF PacedInv
  <1>2. /\ stored' = SubSeq(q, drop + 1, Len(q)) /\ totalSampsToWrite' = NextTotal(speed)
        /\ skew < Lead /\ skew' = skew + 1 /\ UNCHANGED <<inUnderflow, armed, sent, hostFlag>>
    BY DEF CommitPacket, Steady, usbVars
  <1>3. ~inUnderflow => rdptr' = rdptr /\ stored' = q
    BY NoneDropped
  <1>4. stored \in Seq(Packets) /\ Len(stored) \in Nat /\ p \in Packets
        /\ totalSampsToWrite \in Nat
    <2>1. LaidOut(stored, rdptr, wrptr, fill) /\ Few(totalSampsToWrite) /\ totalSampsToWrite \in Nat
      BY <1>1 DEF FifoInv, RoomInv, Few
    <2>2. totalSampsToWrite * FrameBytes \in Nat
      BY <2>1, WholeWords
    <2>3. p \in Packets
      BY <2>1, <2>2 DEF Packets, Packet, LaidOut
    <2> QED
      BY <2>1, <2>3 DEF LaidOut
  <1>5. /\ q \in Seq(Packets) /\ Len(q) = Len(stored) + 1
        /\ \A i \in 1 .. Len(stored) : q[i] = stored[i]
        /\ q[Len(stored) + 1] = p
    BY <1>4, AppendProperties
  <1>6. AheadInv'
    <2>1. skew \in -Lag .. Lead /\ Lag \in Nat /\ Lead \in Nat
      BY PaceAssumption DEF PacedInv, AheadInv
    <2>2. skew' \in -Lag .. Lead
      BY <1>2, <2>1
    <2>3. ~inUnderflow => Len(stored') - skew' = Len(stored) - skew
      <3>1. ASSUME ~inUnderflow PROVE Len(stored') = Len(stored) + 1
        BY <3>1, <1>3, <1>5
      <3>2. Len(stored') = Len(stored) + 1 => Len(stored') - skew' = Len(stored) - skew
        <4>1. skew' = skew + 1 /\ skew \in Int /\ Len(stored) \in Nat
          BY <1>2, <1>4, <2>1
        <4> QED
          BY <4>1
      <3> QED
        BY <3>1, <3>2
    <2> QED
      BY <1>2, <2>2, <2>3 DEF PacedInv, AheadInv
  <1>7. \A i \in 1 .. Len(q) : q[i].len >= Smallest /\ q[i].len <= Largest
    <2>1. p.len >= Smallest /\ p.len <= Largest
      <3>1. totalSampsToWrite >= ADCMin(DefaultRate) /\ totalSampsToWrite <= ADCMax(DefaultRate)
        BY DEF PacedInv, SizedInv
      <3>2. p.len = totalSampsToWrite * FrameBytes
        BY DEF Packet
      <3> HIDE DEF p
      <3> QED
        BY SMTT(30), <1>4, <3>1, <3>2, FrameSize, MoreBytes, SteadySizes DEF Smallest, Largest
    <2> TAKE i \in 1 .. Len(q)
    <2> HIDE DEF q, p
    <2>2. CASE i \in 1 .. Len(stored)
      BY <1>5, <2>2 DEF PacedInv, SizedInv
    <2>3. CASE i \notin 1 .. Len(stored)
      <3>1. i = Len(stored) + 1
        BY <1>4, <1>5, <2>3
      <3> QED
        BY <1>5, <2>1, <3>1
    <2> QED
      BY <2>2, <2>3
  <1>8. SizedInv'
    <2>1. totalSampsToWrite' >= ADCMin(DefaultRate) /\ totalSampsToWrite' <= ADCMax(DefaultRate)
      BY <1>1, <1>2, NextSteady
    <2>2. drop \in 0 .. Len(q)
      <3>1. LaidOut(q, rdptr, Wrap(wrptr + Space(totalSampsToWrite * FrameBytes)), level)
        BY <1>1, CommitLaidOut
      <3>2. Len(q) >= 1 /\ sampFreq \in Rates /\ Len(q) \in Nat
        BY <1>1, <1>4, <1>5 DEF FifoInv, KindInv
      <3> HIDE DEF q, level
      <3>3. DropCount(q, level) \in 1 .. Len(q)
        BY <1>1, <3>1, <3>2, Dropped
      <3> QED
        BY <3>2, <3>3
    <2> DEFINE taken == drop
    <2>3. taken \in 0 .. Len(q) /\ stored' = SubSeq(q, taken + 1, Len(q))
      BY <1>2, <2>2
    <2> HIDE DEF taken, q
    <2>4. /\ Len(stored') = Len(q) - taken
          /\ \A i \in 1 .. Len(q) - taken : stored'[i] = q[taken + i]
      BY <1>5, <2>3, RestOf
    <2>5. ASSUME NEW i \in 1 .. Len(stored')
          PROVE  stored'[i].len >= Smallest /\ stored'[i].len <= Largest
      <3>1. i \in 1 .. Len(q) - taken /\ taken + i \in 1 .. Len(q)
        BY <1>4, <1>5, <2>3, <2>4
      <3> QED
        BY <1>7, <2>4, <3>1
    <2> QED
      BY <2>1, <2>5 DEF SizedInv
  <1>9. ArmedIsOldest'
    BY <1>2, <1>3 DEF PacedInv, ArmedIsOldest
  <1> QED
    BY <1>1, <1>6, <1>8, <1>9 DEF PacedInv

LEMMA PacedNext ==
  ASSUME Aligned, Steady, PacedInv, [Next]_vars
  PROVE  PacedInv'
  <1>1. CASE \E speed \in Speeds : CommitPacket(speed)
    BY <1>1, CommitPaced
  <1>2. CASE SampleRateChange \/ InputStart
    BY <1>2, ChangePaced
  <1>3. CASE ZerosSent
    BY <1>3, ZerosPaced
  <1>4. CASE PacketSent
    BY <1>4, PacketPaced
  <1>5. CASE StoreFrame \/ HostPoll \/ EpSent \/ (\E r \in Rates : EpSampleRate(r))
             \/ NoCommand \/ NothingSent \/ UNCHANGED vars
    BY <1>5, OtherPaced
  <1> QED
    BY <1>1, <1>2, <1>3, <1>4, <1>5 DEF Next, Interrupt, MainLoop

LEMMA PacedInvHolds ==
  ASSUME Aligned, Steady
  PROVE  Spec => []PacedInv
  <1>1. Init => PacedInv
    BY PacedInit
  <1>2. PacedInv /\ [Next]_vars => PacedInv'
    BY PacedNext
  <1> QED
    BY <1>1, <1>2, PTL DEF Spec

\* ArmedIsOldest: what the endpoint is armed with is zeros, or out of underflow the
\* packet at the read pointer, which the interrupt leaves alone while the
\* stream keeps pace.
THEOREM OldestArmed ==
  ASSUME Aligned, Steady
  PROVE  Spec => []ArmedIsOldest
  <1>1. PacedInv => ArmedIsOldest
    BY DEF PacedInv
  <1> QED
    BY <1>1, PacedInvHolds, PTL

\* NoDropOutsideUnderflow: five packets are enough for a stream that keeps pace:
\* out of underflow the interrupt never drops one.
THEOREM NothingDropped ==
  ASSUME Aligned, Steady
  PROVE  Spec => NoDropOutsideUnderflow
  <1>1. ASSUME PacedInv, [Next]_vars, Interrupt, ~inUnderflow
        PROVE  rdptr' = rdptr
    <2>1. CASE StoreFrame
      BY <2>1 DEF StoreFrame
    <2>2. CASE \E speed \in Speeds : CommitPacket(speed)
      BY <1>1, <2>2, NoneDropped
    <2> QED
      BY <1>1, <2>1, <2>2 DEF Interrupt
  <1>2. PacedInv /\ [Next]_vars => [Interrupt /\ ~inUnderflow => rdptr' = rdptr]_vars
    BY <1>1
  <1> QED
    BY <1>2, PacedInvHolds, PTL DEF Spec, NoDropOutsideUnderflow

=============================================================================
