--------------------------- MODULE OutFifo_proofs ---------------------------
(***************************************************************************)
(* Proofs about OutFifo for every size and length of packets.  However far *)
(* the host runs ahead there is one packet in hand at a time, and it is    *)
(* written inside outAudioBuff.  For a host that stays a packet and a      *)
(* length word short of a full FIFO, no packet is written over one that is *)
(* still to be played, and the reader comes out where the writer put the   *)
(* next.                                                                   *)
(***************************************************************************)
EXTENDS OutFifo, SequenceTheorems, TLAPS

\* The packet is in one place: XUD waits for it, XUA_Buffer_Ep or decouple has
\* not seen it yet, decouple is at it, or decouple is in overflow.
InOnePlace ==
    \/ armed # NoAddr /\ received = NoAddr /\ ~hostFlag /\ pc = "poll" /\ ~outOverflow
    \/ armed = NoAddr /\ received # NoAddr /\ ~hostFlag /\ pc = "poll" /\ ~outOverflow
    \/ armed = NoAddr /\ received = NoAddr /\ hostFlag /\ pc = "poll" /\ ~outOverflow
    \/ armed = NoAddr /\ received = NoAddr /\ ~hostFlag /\ pc # "poll" /\ ~outOverflow
    \/ armed = NoAddr /\ received = NoAddr /\ ~hostFlag /\ pc = "poll" /\ outOverflow

\* The places a length word may be, and the types the argument needs.
Slots == {a \in 0 .. fifoEnd - 1 : a % 4 = 0}
PlaceInv ==
    /\ wrptr \in Slots /\ buffer \in Slots /\ armed \in Slots \cup {NoAddr}
    /\ loc.wr \in Slots /\ loc.released \in Slots /\ loc.len \in 0 .. MaxPacket
    /\ DOMAIN loc = {"rd", "wr", "len", "released"}
    /\ header \in [Addresses -> 0 .. MaxPacket]
    /\ received \in 0 .. MaxPacket \cup {NoAddr}
    /\ hostFlag \in BOOLEAN /\ outOverflow \in BOOLEAN

-----------------------------------------------------------------------------
(***************************************************************************)
(* Sizes.                                                                  *)
(***************************************************************************)
\* The room behind the FIFO is enough for a packet at its last word.
LEMMA LastSlot ==
  ASSUME MaxPacket % 4 = 0, NEW a \in Slots
  PROVE  a + 4 + MaxPacket <= ArrayBytes
  <1>1. PICK q \in Int : MaxPacket + 4 = 4 * q
    <2>1. MaxPacket = 4 * (MaxPacket \div 4)
      BY PacketAssumption
    <2>2. MaxPacket + 4 = 4 * (MaxPacket \div 4 + 1) /\ MaxPacket \div 4 + 1 \in Int
      BY <2>1, PacketAssumption
    <2> QED
      BY <2>2
  <1>2. MAX_DEVICE_AUD_PACKET_SIZE_OUT = 4 * q /\ BUFF_SIZE_OUT = 20 * q
    BY <1>1, PacketAssumption DEF MAX_DEVICE_AUD_PACKET_SIZE_OUT, BUFF_SIZE_OUT, BUFFER_PACKET_COUNT
  <1>3. (20 * q) \div 4 = 5 * q /\ (4 * q) \div 4 = q
    OBVIOUS
  <1>4. ArrayBytes = 24 * q
    BY <1>2, <1>3 DEF ArrayBytes
  <1>5. a \in Int /\ a <= 20 * q - 4
    BY <1>2 DEF Slots, fifoEnd
  <1> QED
    BY <1>1, <1>4, <1>5, PacketAssumption

\* A packet is moved over in whole words.
LEMMA NextSlot ==
  ASSUME NEW a \in Slots, NEW len \in 0 .. MaxPacket
  PROVE  Wrap(a + PacketSpace(len)) \in Slots
  <1>1. BUFF_SIZE_OUT \in Nat /\ BUFF_SIZE_OUT > 0 /\ len \in Nat
    BY PacketAssumption
    DEF MAX_DEVICE_AUD_PACKET_SIZE_OUT, BUFF_SIZE_OUT, BUFFER_PACKET_COUNT
  <1>2. PacketSpace(len) \in Nat /\ PacketSpace(len) % 4 = 0
    BY <1>1 DEF PacketSpace, RoundUp
  <1>3. a \in Nat /\ a % 4 = 0
    BY DEF Slots
  <1>4. a + PacketSpace(len) \in Nat /\ (a + PacketSpace(len)) % 4 = 0
    BY <1>2, <1>3
  <1> QED
    BY <1>1, <1>4 DEF Wrap, Slots, fifoStart, fifoEnd

\* The start of the FIFO is a place for a packet, and every place is an address.
LEMMA FirstSlot ==
  fifoStart \in Slots /\ fifoStart # NoAddr /\ Slots \subseteq Addresses /\ NoAddr \notin Slots
  <1>1. /\ BUFF_SIZE_OUT \in Nat /\ BUFF_SIZE_OUT > 0
        /\ MAX_DEVICE_AUD_PACKET_SIZE_OUT \in Nat /\ MAX_DEVICE_AUD_PACKET_SIZE_OUT >= 4
        /\ BUFF_SIZE_OUT = 5 * MAX_DEVICE_AUD_PACKET_SIZE_OUT
    BY PacketAssumption
    DEF MAX_DEVICE_AUD_PACKET_SIZE_OUT, BUFF_SIZE_OUT, BUFFER_PACKET_COUNT
  <1>2. ArrayBytes + MAX_DEVICE_AUD_PACKET_SIZE_OUT \in Int
        /\ ArrayBytes + MAX_DEVICE_AUD_PACKET_SIZE_OUT >= BUFF_SIZE_OUT
    BY <1>1 DEF ArrayBytes
  <1>3. fifoStart \in Slots /\ fifoStart # NoAddr /\ NoAddr \notin Slots
    BY <1>1 DEF Slots, fifoStart, fifoEnd, NoAddr
  <1>4. Slots \subseteq Addresses
    BY <1>1, <1>2 DEF Slots, Addresses, fifoEnd
  <1> QED
    BY <1>3, <1>4

-----------------------------------------------------------------------------
(***************************************************************************)
(* The steps.                                                              *)
(***************************************************************************)
Inv == InOnePlace /\ PlaceInv

\* XUD has received a packet.
LEMMA HostPacketPlace ==
  ASSUME Inv, NEW len \in Lens, HostPacket(len)
  PROVE  Inv'
  <1>1. len \in 0 .. MaxPacket /\ len # NoAddr
    BY LensAssumption, PacketAssumption DEF NoAddr
  <1>2. 0 \in 0 .. MaxPacket
    BY PacketAssumption
  <1>3. header' \in [Addresses -> 0 .. MaxPacket]
    BY <1>2 DEF Inv, PlaceInv, HostPacket
  <1>4. PlaceInv'
    BY <1>1, <1>3 DEF Inv, PlaceInv, HostPacket, readVars
  <1>5. InOnePlace'
    BY <1>1 DEF Inv, InOnePlace, HostPacket
  <1> QED
    BY <1>4, <1>5 DEF Inv

\* XUA_Buffer_Ep writes its length.
LEMMA EpReceivePlace ==
  ASSUME Inv, EpReceive
  PROVE  Inv'
  <1>1. received \in 0 .. MaxPacket /\ received # NoAddr
    BY DEF Inv, PlaceInv, EpReceive
  <1>2. header' \in [Addresses -> 0 .. MaxPacket]
    BY <1>1 DEF Inv, PlaceInv, EpReceive
  <1>3. PlaceInv'
    BY <1>2 DEF Inv, PlaceInv, EpReceive, readVars
  <1>4. InOnePlace'
    BY <1>1 DEF Inv, InOnePlace, EpReceive
  <1> QED
    BY <1>3, <1>4 DEF Inv

\* The interrupt moves the read pointer and takes length words out.
LEMMA InterruptPlace ==
  ASSUME Inv, Interrupt
  PROVE  Inv'
  <1>1. 0 \in 0 .. MaxPacket
    BY PacketAssumption
  <1>2. UNCHANGED <<wrptr, outOverflow, hostFlag, usbVars, pc, loc>>
    BY DEF Interrupt, UnderflowFrame, PlayFrame
  <1>3. header' = header \/ \E at : header' = [header EXCEPT ![at] = 0]
    BY DEF Interrupt, UnderflowFrame, PlayFrame, EndOfPacket
  <1>4. header' \in [Addresses -> 0 .. MaxPacket]
    BY <1>1, <1>3 DEF Inv, PlaceInv
  <1> QED
    BY <1>2, <1>4 DEF Inv, PlaceInv, InOnePlace, usbVars

\* decouple reads the length of the packet ...
LEMMA TakePacketPlace ==
  ASSUME Inv, TakePacket
  PROVE  Inv'
  <1>1. header[buffer] \in 0 .. MaxPacket
    BY FirstSlot DEF Inv, PlaceInv
  <1>2. PlaceInv'
    BY <1>1 DEF Inv, PlaceInv, TakePacket, readVars, usbVars
  <1>3. InOnePlace'
    BY DEF Inv, InOnePlace, TakePacket, usbVars
  <1> QED
    BY <1>2, <1>3 DEF Inv

\* ... moves the write pointer over it, or discards it ...
LEMMA CommitPlace ==
  ASSUME Inv, Commit
  PROVE  Inv'
  <1>1. InOnePlace'
    BY DEF Inv, InOnePlace, Commit, usbVars
  <1>2. CASE loc.len >= FrameBytes /\ loc.released = loc.wr
    <2>1. Wrap(loc.wr + PacketSpace(loc.len)) \in Slots
      BY NextSlot DEF Inv, PlaceInv
    <2>2. /\ wrptr' = Wrap(loc.wr + PacketSpace(loc.len))
          /\ loc' = [loc EXCEPT !.wr = Wrap(loc.wr + PacketSpace(loc.len))]
          /\ UNCHANGED <<header, hostFlag, outOverflow, usbVars>>
      BY <1>2 DEF Commit
    <2> HIDE DEF Slots
    <2>3. /\ DOMAIN loc' = {"rd", "wr", "len", "released"} /\ loc'.wr \in Slots
          /\ loc'.len = loc.len /\ loc'.released = loc.released
      BY <2>1, <2>2 DEF Inv, PlaceInv
    <2> QED
      BY <1>1, <2>1, <2>2, <2>3 DEF Inv, PlaceInv, usbVars
  <1>3. CASE ~(loc.len >= FrameBytes /\ loc.released = loc.wr)
    <2>1. 0 \in 0 .. MaxPacket
      BY PacketAssumption
    <2>2. header' = [header EXCEPT ![loc.released] = 0]
          /\ UNCHANGED <<wrptr, loc, hostFlag, outOverflow, usbVars>>
      BY <1>3 DEF Commit
    <2>3. header' \in [Addresses -> 0 .. MaxPacket]
      BY <2>1, <2>2 DEF Inv, PlaceInv
    <2> QED
      BY <1>1, <2>2, <2>3 DEF Inv, PlaceInv, usbVars
  <1> QED
    BY <1>2, <1>3

\* ... and arms the next, or goes into overflow.
LEMMA ArmOrOverflowPlace ==
  ASSUME Inv, ArmOrOverflow
  PROVE  Inv'
  <1>1. 0 \in Slots /\ 0 \in 0 .. MaxPacket
    BY FirstSlot, PacketAssumption DEF fifoStart
  <1>2. loc.wr \in Slots /\ loc.wr # NoAddr
    BY FirstSlot DEF Inv, PlaceInv
  <1>3. \/ buffer' = loc.wr /\ armed' = loc.wr /\ UNCHANGED outOverflow
        \/ outOverflow' = TRUE /\ UNCHANGED <<buffer, armed>>
    BY DEF ArmOrOverflow
  <1>4. pc = "space" /\ pc' = "poll" /\ loc' = NoLocals /\ UNCHANGED <<wrptr, hostFlag, header, received>>
    BY DEF ArmOrOverflow
  <1>5. /\ DOMAIN loc' = {"rd", "wr", "len", "released"} /\ loc'.wr = 0 /\ loc'.len = 0
        /\ loc'.released = 0
    BY <1>4 DEF NoLocals
  <1>6. PlaceInv'
    BY <1>1, <1>2, <1>3, <1>4, <1>5 DEF Inv, PlaceInv
  <1>7. InOnePlace'
    BY <1>2, <1>3, <1>4 DEF Inv, InOnePlace
  <1> QED
    BY <1>6, <1>7 DEF Inv

\* Out of overflow the endpoint is armed: nothing else was in hand.
LEMMA LeaveOverflowPlace ==
  ASSUME Inv, LeaveOverflow
  PROVE  Inv'
  <1>1. wrptr \in Slots /\ wrptr # NoAddr
    BY FirstSlot DEF Inv, PlaceInv
  <1> QED
    BY <1>1 DEF Inv, InOnePlace, PlaceInv, LeaveOverflow, readVars

\* The stream is reset: the endpoint is armed again only in overflow.
LEMMA ResetPlace ==
  ASSUME Inv, NEW start, Reset(start)
  PROVE  Inv'
  <1>1. 0 \in 0 .. MaxPacket
    BY PacketAssumption
  <1>2. header' \in [Addresses -> 0 .. MaxPacket]
    BY <1>1 DEF Inv, PlaceInv, Reset
  <1>3. PlaceInv'
    BY <1>2, FirstSlot DEF Inv, PlaceInv, Reset
  <1>4. InOnePlace'
    BY FirstSlot DEF Inv, InOnePlace, Reset
  <1> QED
    BY <1>3, <1>4 DEF Inv

-----------------------------------------------------------------------------
\* At the start the endpoint is armed at the start of the FIFO.
LEMMA PlaceInit == ASSUME Init PROVE Inv
  <1>1. 0 \in Slots /\ 0 # NoAddr /\ 0 \in 0 .. MaxPacket
    BY FirstSlot, PacketAssumption DEF fifoStart
  <1>2. PlaceInv
    BY <1>1 DEF Init, PlaceInv, fifoStart, NoLocals
  <1>3. InOnePlace
    BY <1>1 DEF Init, InOnePlace, fifoStart
  <1> QED
    BY <1>2, <1>3 DEF Inv

\* What holds of the packet in hand and of the places it may be holds in every state.
LEMMA InvHolds == Spec => []Inv
  <1>1. Init => Inv
    BY PlaceInit
  <1>2. Inv /\ [Next]_vars => Inv'
    <2> SUFFICES ASSUME Inv, [Next]_vars PROVE Inv'
      OBVIOUS
    <2>1. CASE UNCHANGED vars
      BY <2>1 DEF Inv, InOnePlace, PlaceInv, vars
    <2> QED
      BY <2>1, HostPacketPlace, EpReceivePlace, InterruptPlace, TakePacketPlace, CommitPlace,
         ArmOrOverflowPlace, LeaveOverflowPlace, ResetPlace DEF Next, MainLoop
  <1> QED
    BY <1>1, <1>2, PTL DEF Spec

\* Whatever the sizes and lengths of packets, the channels and the pace of the host:
\* there is one packet in hand, so that decouple arms the endpoint only when
\* XUD is not writing to it and XUA_Buffer_Ep has nothing left to report.
THEOREM OnePacketInHand == Spec => []InOnePlace
  <1>1. Inv => InOnePlace
    BY DEF Inv
  <1> QED
    BY <1>1, InvHolds, PTL

\* Where packets are a whole number of words neither the packet nor its length word
\* ends past outAudioBuff, wherever the write pointer has come to.
THEOREM WritesInArray ==
  ASSUME MaxPacket % 4 = 0
  PROVE  Spec => []WritesStayInArray
  <1>1. Inv => WritesStayInArray
    <2> SUFFICES ASSUME Inv PROVE WritesStayInArray
      OBVIOUS
    <2>1. buffer \in Slots /\ (armed # NoAddr => armed \in Slots)
      BY DEF Inv, PlaceInv
    <2>2. buffer + 4 + MaxPacket <= ArrayBytes /\ buffer \in Int
      BY <2>1, LastSlot DEF Slots
    <2>3. ArrayBytes \in Int
      BY PacketAssumption
      DEF ArrayBytes, BUFF_SIZE_OUT, MAX_DEVICE_AUD_PACKET_SIZE_OUT, BUFFER_PACKET_COUNT
    <2>4. buffer + 4 <= ArrayBytes
      BY <2>2, <2>3, PacketAssumption
    <2>5. armed # NoAddr => armed + 4 + MaxPacket <= ArrayBytes
      BY <2>1, LastSlot
    <2>6. outOverflow => armed = NoAddr /\ received = NoAddr /\ ~hostFlag
      BY DEF Inv, InOnePlace
    <2> QED
      BY <2>4, <2>5, <2>6 DEF WritesStayInArray
  <1> QED
    BY <1>1, InvHolds, PTL
-----------------------------------------------------------------------------
(***************************************************************************)
(* The packets of the FIFO.  Seen from the write pointer, those ahead of   *)
(* it were written on its last lap and those behind it on this one; a      *)
(* packet and what follows it never meet the write pointer again before    *)
(* they are played.                                                        *)
(***************************************************************************)
Packets  == [at : Slots, len : FrameBytes .. MaxPacket]
End(p)   == p.at + PacketSpace(p.len)
Ahead(p) == p.at > wrptr

\* Where the oldest packet starts, or would
Base == IF held = <<>> THEN wrptr ELSE held[1].at

\* The packets h, oldest first, with the write pointer at w.
Layout(h, w) ==
  /\ h \in Seq(Packets)
  /\ \A i \in 1..Len(h) : h[i].at > w \/ End(h[i]) <= w
  /\ \A i, j \in 1..Len(h) : i < j =>
       \/ h[i].at > w /\ h[j].at < w
       \/ End(h[i]) <= h[j].at /\ (h[i].at > w <=> h[j].at > w)
  /\ \A i \in 1..Len(h) : Wrap(End(h[i])) = IF i < Len(h) THEN h[i + 1].at ELSE w

HeldInv ==
  /\ Layout(held, wrptr)
  /\ \A i \in 1..Len(held) : i > 1 \/ outUnderflow => header[held[i].at] = held[i].len

\* The bytes of memory that so many bytes of samples are unpacked from
Advanced(played) == IF SubSlot = 3 THEN 4 * (played \div 3 - played \div 12) ELSE played
Whole(played)    == IF SubSlot = 3 THEN played % 3 = 0 ELSE played % 4 = 0
Unpacked(played) == IF SubSlot = 3 THEN (played \div 3) % 4 ELSE 0

ReadInv ==
  /\ outUnderflow \in BOOLEAN /\ unpackState \in 0..3
  /\ SubSlot # 3 => unpackState = 0
  /\ outUnderflow => remaining = 0 /\ rdptr = Base
  /\ ~outUnderflow =>
       /\ held # <<>> /\ remaining \in FrameBytes .. held[1].len
       /\ LET played == held[1].len - remaining
          IN Whole(played) /\ unpackState = Unpacked(played) /\ rdptr = held[1].at + 4 + Advanced(played)

\* A packet of this length fits in front of the packets ahead, and does not
\* take the write pointer round to where the oldest packet starts.
RoomFor(h, w, len) ==
  h # <<>> =>
    IF h[1].at > w THEN w + PacketSpace(len) < h[1].at
    ELSE w + PacketSpace(len) >= fifoEnd => h[1].at > 0
Room(len) == RoomFor(held, wrptr, len)

\* The packet in hand: it is at the write pointer unless the FIFO was emptied under it.
\* What decouple has read of the read pointer is behind it.
AtWrite(a) == held = <<>> \/ a = wrptr
HandInv ==
  /\ loc \in [rd : Addresses, wr : Slots, len : 0 .. MaxPacket, released : Slots]
  /\ pc \in {"poll", "commit", "space"}
  /\ armed # NoAddr =>
       /\ AtWrite(armed) /\ AtWrite(buffer)
       /\ held # <<>> /\ Ahead(held[1]) => wrptr + MAX_DEVICE_AUD_PACKET_SIZE_OUT <= rdptr
  /\ received # NoAddr => AtWrite(buffer) /\ Room(received)
  /\ hostFlag => AtWrite(buffer) /\ Room(header[buffer])
  /\ pc = "commit" =>
       /\ loc.wr = wrptr /\ AtWrite(loc.released) /\ Room(loc.len)
       /\ loc.released = wrptr => header[wrptr] = loc.len
       /\ held # <<>> /\ Ahead(held[1]) => wrptr + PacketSpace(loc.len) < loc.rd /\ loc.rd <= rdptr
       /\ Base <= wrptr /\ wrptr + PacketSpace(loc.len) >= fifoEnd => 0 < loc.rd /\ loc.rd <= rdptr
  /\ pc = "space" =>
       /\ loc.wr = wrptr
       /\ held # <<>> /\ Ahead(held[1]) => wrptr < loc.rd /\ loc.rd <= rdptr

FifoInv == Inv /\ HeldInv /\ ReadInv /\ HandInv
-----------------------------------------------------------------------------
(***************************************************************************)
(* The numbers.                                                            *)
(***************************************************************************)
\* Packets are whole words, and so are frames of 16 and 32 bit samples.
Aligned == MaxPacket % 4 = 0 /\ (SubSlot = 2 => Chans % 2 = 0)

\* The host is never further ahead than the FIFO less a packet and a length word.
HostPaced == MaxBacklog + MAX_DEVICE_AUD_PACKET_SIZE_OUT + 4 <= BUFF_SIZE_OUT

\* The sizes in terms of the largest packet.
LEMMA Sizes ==
  ASSUME Aligned
  PROVE  /\ FrameBytes \in Nat \ {0} /\ FrameBytes <= MaxPacket
         /\ SubSlot # 3 => FrameBytes % 4 = 0
         /\ SubSlot = 3 => FrameBytes = 3 * Chans
         /\ MaxPacket \in Nat /\ MaxPacket % 4 = 0
         /\ MAX_DEVICE_AUD_PACKET_SIZE_OUT = MaxPacket + 4
         /\ fifoEnd = 5 * (MaxPacket + 4) /\ BUFF_SIZE_OUT = fifoEnd /\ fifoStart = 0
         /\ ArrayBytes = 6 * (MaxPacket + 4)
  <1>1. Chans \in Nat \ {0} /\ SubSlot \in {2, 3, 4} /\ MaxPacket \in Nat /\ MaxPacket >= FrameBytes
    BY ChansAssumption, SubSlotAssumption, PacketAssumption DEF FrameBytes
  <1>2. /\ FrameBytes \in Nat \ {0} /\ (SubSlot # 3 => FrameBytes % 4 = 0)
        /\ SubSlot = 3 => FrameBytes = 3 * Chans
    <2>1. CASE SubSlot = 2
      <3>1. FrameBytes = 2 * Chans /\ Chans % 2 = 0
        BY <1>1, <2>1 DEF FrameBytes, Aligned
      <3> QED
        BY <1>1, <2>1, <3>1
    <2>2. CASE SubSlot = 3
      <3>1. FrameBytes = 3 * Chans
        BY <1>1, <2>2 DEF FrameBytes
      <3> QED
        BY <1>1, <2>2, <3>1
    <2>3. CASE SubSlot = 4
      <3>1. FrameBytes = 4 * Chans
        BY <1>1, <2>3 DEF FrameBytes
      <3> QED
        BY <1>1, <2>3, <3>1
    <2> QED
      BY <1>1, <2>1, <2>2, <2>3
  <1>3. /\ MAX_DEVICE_AUD_PACKET_SIZE_OUT = MaxPacket + 4 /\ BUFF_SIZE_OUT = 5 * (MaxPacket + 4)
        /\ fifoEnd = 5 * (MaxPacket + 4) /\ fifoStart = 0 /\ MaxPacket % 4 = 0
    BY <1>1
    DEF MAX_DEVICE_AUD_PACKET_SIZE_OUT, BUFF_SIZE_OUT, BUFFER_PACKET_COUNT, fifoEnd, fifoStart, Aligned
  <1>4. ArrayBytes = 6 * (MaxPacket + 4)
    BY <1>1, <1>3 DEF ArrayBytes
  <1> QED
    BY <1>1, <1>2, <1>3, <1>4

\* A packet takes at most seven bytes more than it is long.
LEMMA SpaceBounds ==
  ASSUME Aligned, NEW len \in 0 .. MaxPacket
  PROVE  /\ PacketSpace(len) \in Nat /\ PacketSpace(len) % 4 = 0
         /\ len + 4 <= PacketSpace(len) /\ PacketSpace(len) <= len + 7
         /\ PacketSpace(len) <= MaxPacket + 4
  <1>1. MaxPacket \in Nat /\ MaxPacket % 4 = 0
    BY Sizes
  <1> QED
    BY <1>1 DEF PacketSpace, RoundUp

\* Three byte samples are unpacked from words, four from three: the read pointer is
\* where the bytes played so far end, frame after frame, ...
LEMMA FrameAdvances ==
  ASSUME Aligned, NEW played \in Nat, Whole(played)
  PROVE  LET u == Unpacked(played) IN
         /\ u \in 0..3 /\ Advanced(played) + FrameAdvance(u) = Advanced(played + FrameBytes)
         /\ Whole(played + FrameBytes)
         /\ Unpacked(played + FrameBytes) = IF SubSlot = 3 THEN (u + Chans) % 4 ELSE u
  <1>1. CASE SubSlot # 3
    BY <1>1, Sizes DEF Whole, Unpacked, Advanced, FrameAdvance
  <1>2. CASE SubSlot = 3
    <2> DEFINE n == played \div 3  q == n \div 4  u == n % 4  v == (u + Chans) \div 4
    <2>1. played = 3 * n /\ n \in Nat /\ Chans \in Nat /\ FrameBytes = 3 * Chans
      BY <1>2, Sizes, ChansAssumption DEF Whole
    <2>2. n = 4 * q + u /\ q \in Nat /\ u \in 0..3 /\ v \in Nat
      BY <2>1
    <2>3. played \div 12 = q
      BY <2>1
    <2> HIDE DEF n
    <2>4. (n + Chans) \div 4 = q + v /\ (n + Chans) % 4 = (u + Chans) % 4
      BY <2>1, <2>2
    <2>5. /\ (played + FrameBytes) \div 3 = n + Chans /\ (played + FrameBytes) % 3 = 0
          /\ (played + FrameBytes) \div 12 = (n + Chans) \div 4
      BY <2>1
    <2>6. u \div 4 = 0
      BY <2>2
    <2>7. Advanced(played) = 4 * (n - q) /\ Advanced(played + FrameBytes) = 4 * ((n + Chans) - (q + v))
      BY <1>2, <2>3, <2>4, <2>5 DEF Advanced, n
    <2>8. FrameAdvance(u) = 4 * (((u + Chans) - v) - (u - 0))
      BY <1>2, <2>6 DEF FrameAdvance
    <2>9. Unpacked(played) = u /\ Unpacked(played + FrameBytes) = (n + Chans) % 4
      BY <1>2, <2>5 DEF Unpacked, n
    <2> HIDE DEF q, u, v
    <2>10. Advanced(played) + FrameAdvance(u) = Advanced(played + FrameBytes)
      BY <2>1, <2>2, <2>7, <2>8
    <2>11. Whole(played + FrameBytes)
      BY <1>2, <2>5 DEF Whole
    <2> QED
      BY <1>2, <2>2, <2>4, <2>9, <2>10, <2>11 DEF u
  <1> QED
    BY <1>1, <1>2

\* ... and over the tail that is skipped it comes to where the writer put the next packet.
LEMMA TailSkipped ==
  ASSUME Aligned, NEW len \in Nat, NEW played \in 0 .. len, Whole(played)
  PROVE  LET left == len - played  u == Unpacked(played)
             skip == IF left # 0 THEN 4 * ((left + 3 - u) \div 4) ELSE 0
         IN  /\ Advanced(played) + skip = RoundUp(len) /\ Advanced(played) \in Nat
             /\ Advanced(played) <= RoundUp(len)
  <1> DEFINE left == len - played  u == Unpacked(played)
             skip == IF left # 0 THEN 4 * ((left + 3 - u) \div 4) ELSE 0
  <1>1. left \in Nat /\ len = played + left /\ played \in Nat
    OBVIOUS
  <1>2. CASE SubSlot # 3
    <2>1. u = 0 /\ Advanced(played) = played /\ played % 4 = 0
      BY <1>2 DEF Unpacked, Advanced, Whole
    <2> HIDE DEF left, u
    <2>2. (played + left + 3) \div 4 = played \div 4 + (left + 3) \div 4 /\ played = 4 * (played \div 4)
      BY <1>1, <2>1
    <2>3. skip = 4 * ((left + 3) \div 4)
      BY <1>1, <2>1
    <2> QED
      BY <1>1, <2>1, <2>2, <2>3 DEF RoundUp, left, u
  <1>3. CASE SubSlot = 3
    <2> DEFINE n == played \div 3  q == n \div 4
    <2>1. played = 3 * n /\ n \in Nat
      BY <1>1, <1>3 DEF Whole
    <2>2. u = n % 4 /\ n = 4 * q + u /\ q \in Nat /\ u \in 0..3 /\ played \div 12 = q
      BY <1>3, <2>1 DEF Unpacked
    <2>3. Advanced(played) = 4 * (n - q)
      BY <1>3, <2>2 DEF Advanced
    <2> HIDE DEF n, q, u, left
    <2>4. RoundUp(len) = 4 * ((12 * q + 3 * u + left + 3) \div 4)
      BY <1>1, <2>1, <2>2 DEF RoundUp
    <2>5. (12 * q + 3 * u + left + 3) \div 4 = 3 * q + u + (left + 3 - u) \div 4
      BY <1>1, <2>2
    <2>6. left = 0 => (left + 3 - u) \div 4 = 0
      BY <2>2
    <2>7. (left + 3 - u) \div 4 \in Nat
      BY <1>1, <2>2
    <2>8. skip = 4 * ((left + 3 - u) \div 4)
      BY <2>6, <2>7
    <2> QED
      BY <2>2, <2>3, <2>4, <2>5, <2>7, <2>8 DEF left, u
  <1> QED
    BY <1>2, <1>3
-----------------------------------------------------------------------------
(***************************************************************************)
(* Layouts.                                                                *)
(***************************************************************************)
\* Places are in the FIFO, and words of it.
LEMMA SlotBounds ==
  ASSUME Aligned, NEW a \in Slots
  PROVE  a \in Nat /\ a <= fifoEnd - 4 /\ a % 4 = 0
  <1>1. fifoEnd = 5 * (MaxPacket + 4) /\ MaxPacket \in Nat /\ MaxPacket % 4 = 0
    BY Sizes
  <1> QED
    BY <1>1 DEF Slots

\* One packet of a layout.
LEMMA PacketFacts ==
  ASSUME Aligned, NEW h, NEW w \in Slots, Layout(h, w), NEW i \in 1..Len(h)
  PROVE  /\ h[i] \in Packets /\ h[i].at \in Slots /\ h[i].at \in Nat /\ h[i].at <= fifoEnd - 4 /\ h[i].at # w
         /\ h[i].len \in FrameBytes .. MaxPacket /\ h[i].len \in 0 .. MaxPacket
         /\ PacketSpace(h[i].len) \in Nat /\ h[i].len + 4 <= PacketSpace(h[i].len)
         /\ PacketSpace(h[i].len) <= MaxPacket + 4
         /\ End(h[i]) = h[i].at + PacketSpace(h[i].len)
         /\ h[i].at + 4 < End(h[i]) /\ End(h[i]) <= fifoEnd + MaxPacket
         /\ h[i].at > w \/ End(h[i]) <= w
  <1>1. /\ fifoEnd = 5 * (MaxPacket + 4) /\ MaxPacket \in Nat /\ MaxPacket % 4 = 0
        /\ FrameBytes \in Nat \ {0}
    BY Sizes
  <1>2. h \in Seq(Packets) /\ (h[i].at > w \/ End(h[i]) <= w)
    BY DEF Layout
  <1>3. h[i] \in Packets
    <2> HIDE DEF Packets
    <2> QED
      BY <1>2, ElementOfSeq
  <1>4. h[i].at \in Slots /\ h[i].len \in FrameBytes .. MaxPacket
    BY <1>3 DEF Packets
  <1>5. h[i].len \in 0 .. MaxPacket /\ h[i].len >= 1
    BY <1>1, <1>4
  <1>6. h[i].at \in Nat /\ h[i].at <= fifoEnd - 4 /\ w \in Nat
    BY <1>4, SlotBounds
  <1>7. /\ PacketSpace(h[i].len) \in Nat /\ h[i].len + 4 <= PacketSpace(h[i].len)
        /\ PacketSpace(h[i].len) <= MaxPacket + 4
    BY <1>5, SpaceBounds
  <1>8. End(h[i]) = h[i].at + PacketSpace(h[i].len)
    BY DEF End
  <1>9. h[i].at + 4 < End(h[i]) /\ End(h[i]) <= fifoEnd + MaxPacket
    <2> DEFINE at == h[i].at  len == h[i].len  space == PacketSpace(len)  end == End(h[i])
    <2>1. at \in Nat /\ len \in Nat /\ len >= 1 /\ space \in Nat /\ end = at + space
      BY <1>1, <1>5, <1>6, <1>7, <1>8
    <2>2. len + 4 <= space /\ space <= MaxPacket + 4 /\ at <= fifoEnd - 4
      BY <1>6, <1>7
    <2> HIDE DEF at, len, space, end
    <2>3. at + 4 < end /\ end <= fifoEnd + MaxPacket
      BY <1>1, <2>1, <2>2
    <2> QED
      BY <2>3 DEF at, end
  <1>10. h[i].at # w
    BY <1>2, <1>6, <1>7, <1>8, <1>9
  <1> QED
    BY <1>2, <1>3, <1>4, <1>5, <1>6, <1>7, <1>8, <1>9, <1>10

\* Two packets of a layout: they are apart, and what is ahead is older.
LEMMA PairFacts ==
  ASSUME Aligned, NEW h, NEW w \in Slots, Layout(h, w), NEW i \in 1..Len(h), NEW j \in 1..Len(h), i < j
  PROVE  /\ h[i].at # h[j].at
         /\ h[j].at > w => h[i].at > w /\ End(h[i]) <= h[j].at
         /\ ~(h[i].at > w) => ~(h[j].at > w) /\ End(h[i]) <= h[j].at
  <1>1. \/ h[i].at > w /\ h[j].at < w
        \/ End(h[i]) <= h[j].at /\ (h[i].at > w <=> h[j].at > w)
    BY DEF Layout
  <1>2. w \in Nat
    BY SlotBounds
  <1>3. h[i].at \in Nat /\ h[i].at + 4 < End(h[i]) /\ End(h[i]) \in Int
    BY PacketFacts
  <1>4. h[j].at \in Nat
    BY PacketFacts
  <1> QED
    BY <1>1, <1>2, <1>3, <1>4

\* The first packet is played: the others stay where they are.
LEMMA TailLayout ==
  ASSUME Aligned, NEW h, NEW w \in Slots, Layout(h, w), Len(h) >= 1
  PROVE  LET t == SubSeq(h, 2, Len(h)) IN
         /\ Layout(t, w) /\ Len(t) = Len(h) - 1
         /\ \A i \in 1..Len(t) : i + 1 \in 1..Len(h) /\ t[i] = h[i + 1]
         /\ t = <<>> <=> Len(h) = 1
  <1> DEFINE t == SubSeq(h, 2, Len(h))
  <1>1. h \in Seq(Packets)
    BY DEF Layout
  <1>2. Len(h) \in Nat
    BY <1>1, LenProperties
  <1>3. \A i \in 2..Len(h) : h[i] \in Packets
    <2> SUFFICES ASSUME NEW i \in 2..Len(h) PROVE h[i] \in Packets
      OBVIOUS
    <2>1. i \in 1..Len(h)
      BY <1>2
    <2> QED
      BY <2>1, PacketFacts
  <1>4. /\ t \in Seq(Packets) /\ Len(t) = IF 2 <= Len(h) THEN Len(h) - 1 ELSE 0
        /\ \A i \in 1..(Len(h) - 1) : t[i] = h[i + 1]
    <2> HIDE DEF Packets
    <2>1. /\ t \in Seq(Packets) /\ Len(t) = IF 2 <= Len(h) THEN Len(h) - 2 + 1 ELSE 0
          /\ \A i \in 1..(Len(h) - 2 + 1) : t[i] = h[2 + i - 1]
      BY <1>2, <1>3, SubSeqProperties
    <2>2. Len(t) = IF 2 <= Len(h) THEN Len(h) - 1 ELSE 0
      BY <1>2, <2>1
    <2>3. \A i \in 1..(Len(h) - 1) : t[i] = h[i + 1]
      <3> SUFFICES ASSUME NEW i \in 1..(Len(h) - 1) PROVE t[i] = h[i + 1]
        OBVIOUS
      <3>1. i \in 1..(Len(h) - 2 + 1) /\ 2 + i - 1 = i + 1
        BY <1>2
      <3> HIDE DEF t
      <3> QED
        BY <2>1, <3>1
    <2> QED
      BY <2>1, <2>2, <2>3
  <1> HIDE DEF t
  <1>5. Len(t) = Len(h) - 1
    <2>1. Len(t) = IF 2 <= Len(h) THEN Len(h) - 1 ELSE 0
      BY <1>4
    <2> QED
      BY <1>2, <2>1
  <1>6. \A i \in 1..Len(t) : i + 1 \in 1..Len(h) /\ t[i] = h[i + 1]
    BY <1>2, <1>4, <1>5
  <1>7. t = <<>> <=> Len(h) = 1
    <2> HIDE DEF Packets
    <2>1. t = <<>> <=> Len(t) = 0
      BY <1>4, EmptySeq
    <2> QED
      BY <1>2, <1>5, <2>1
  <1>8. \A i \in 1..Len(t) : t[i].at > w \/ End(t[i]) <= w
    BY <1>6, PacketFacts
  <1>9. ASSUME NEW i \in 1..Len(t), NEW j \in 1..Len(t), i < j
        PROVE  \/ t[i].at > w /\ t[j].at < w
               \/ End(t[i]) <= t[j].at /\ (t[i].at > w <=> t[j].at > w)
    <2>1. i + 1 \in 1..Len(h) /\ t[i] = h[i + 1] /\ j + 1 \in 1..Len(h) /\ t[j] = h[j + 1] /\ i + 1 < j + 1
      BY <1>2, <1>5, <1>6, <1>9
    <2> QED
      BY <2>1 DEF Layout
  <1>10. ASSUME NEW i \in 1..Len(t)
         PROVE  Wrap(End(t[i])) = IF i < Len(t) THEN t[i + 1].at ELSE w
    <2>1. i + 1 \in 1..Len(h) /\ t[i] = h[i + 1]
      BY <1>6
    <2>2. Wrap(End(h[i + 1])) = IF i + 1 < Len(h) THEN h[i + 1 + 1].at ELSE w
      BY <2>1 DEF Layout
    <2>3. i < Len(t) <=> i + 1 < Len(h)
      BY <1>2, <1>5
    <2>4. CASE i < Len(t)
      <3>1. i + 1 \in 1..Len(t) /\ i + 1 < Len(h)
        BY <1>2, <1>5, <2>4
      <3>2. t[i + 1] = h[i + 1 + 1]
        BY <1>6, <3>1
      <3> QED
        BY <2>1, <2>2, <2>4, <3>1, <3>2
    <2>5. CASE ~(i < Len(t))
      BY <2>1, <2>2, <2>3, <2>5
    <2> QED
      BY <2>4, <2>5
  <1>11. Layout(t, w)
    BY <1>4, <1>8, <1>9, <1>10 DEF Layout
  <1> QED
    BY <1>5, <1>6, <1>7, <1>11 DEF t

\* A packet is put at the write pointer: it is the youngest.
LEMMA AppendLayout ==
  ASSUME Aligned, NEW h, NEW w \in Slots, Layout(h, w), NEW len \in FrameBytes .. MaxPacket,
         RoomFor(h, w, len), NEW v, v = Wrap(w + PacketSpace(len))
  PROVE  /\ v \in Slots /\ Layout(Append(h, Packet(w, len)), v)
         /\ v = w + PacketSpace(len) \/ (v = 0 /\ w + PacketSpace(len) >= fifoEnd)
         /\ \A i \in 1..Len(h) : h[i].at > v => h[i].at > w \/ v = 0
  <1> DEFINE p == Packet(w, len)  s == Append(h, p)  n == Len(h)  end == w + PacketSpace(len)
  <1>1. /\ fifoEnd = 5 * (MaxPacket + 4) /\ MaxPacket \in Nat /\ fifoStart = 0 /\ FrameBytes \in Nat \ {0}
    BY Sizes
  <1>2. len \in 0 .. MaxPacket /\ len >= 1 /\ w \in Nat /\ w <= fifoEnd - 4
    BY <1>1, SlotBounds
  <1>3. PacketSpace(len) \in Nat /\ len + 4 <= PacketSpace(len) /\ PacketSpace(len) <= MaxPacket + 4
    BY <1>2, SpaceBounds
  <1>4. h \in Seq(Packets) /\ n \in Nat
    BY LenProperties DEF Layout
  <1>5. p \in Packets /\ p.at = w /\ p.len = len /\ End(p) = end
    BY DEF Packets, Packet, End
  <1>6. /\ s \in Seq(Packets) /\ Len(s) = n + 1 /\ s[n + 1] = p
        /\ \A i \in 1..n : s[i] = h[i]
    <2> HIDE DEF p
    <2> QED
      BY <1>4, <1>5, AppendProperties
  <1>7. v \in Slots
    BY <1>2, NextSlot
  <1>8. v \in Nat /\ end \in Nat /\ w < end
    BY <1>2, <1>3, <1>7, SlotBounds
  <1>9. (v = end /\ end < fifoEnd) \/ (v = 0 /\ end >= fifoEnd)
    <2>1. v = IF end >= fifoEnd THEN 0 ELSE end
      BY <1>1 DEF Wrap
    <2> HIDE DEF end
    <2> QED
      BY <1>1, <1>8, <2>1
  <1>10. \A i \in 1..n : /\ h[i].at \in Nat /\ End(h[i]) \in Nat /\ h[i].at < End(h[i])
                         /\ h[i].at > w \/ End(h[i]) <= w
    <2> SUFFICES ASSUME NEW i \in 1..n
                 PROVE  /\ h[i].at \in Nat /\ End(h[i]) \in Nat /\ h[i].at < End(h[i])
                        /\ h[i].at > w \/ End(h[i]) <= w
      OBVIOUS
    <2>1. h[i].at \in Nat /\ PacketSpace(h[i].len) \in Nat /\ End(h[i]) = h[i].at + PacketSpace(h[i].len)
      BY PacketFacts
    <2>2. h[i].at + 4 < End(h[i]) /\ (h[i].at > w \/ End(h[i]) <= w)
      BY PacketFacts
    <2> QED
      BY <2>1, <2>2
  <1>11. \A i \in 1..n : /\ h[i].at > w => h[1].at > w /\ h[1].at <= h[i].at
                         /\ ~(h[1].at > w) => h[1].at <= h[i].at
    <2> SUFFICES ASSUME NEW i \in 1..n
                 PROVE  /\ h[i].at > w => h[1].at > w /\ h[1].at <= h[i].at
                        /\ ~(h[1].at > w) => h[1].at <= h[i].at
      OBVIOUS
    <2>1. 1 \in 1..n /\ h[1].at \in Nat /\ h[i].at \in Nat /\ End(h[1]) \in Nat /\ h[1].at < End(h[1])
      BY <1>4, <1>10
    <2>2. CASE i = 1
      BY <2>1, <2>2
    <2>3. CASE i # 1
      <3>1. 1 < i
        BY <1>4, <2>3
      <3>2. /\ h[i].at > w => h[1].at > w /\ End(h[1]) <= h[i].at
            /\ ~(h[1].at > w) => ~(h[i].at > w) /\ End(h[1]) <= h[i].at
        BY <2>1, <3>1, PairFacts
      <3> QED
        BY <2>1, <3>2
    <2> QED
      BY <2>2, <2>3
  <1>12. n >= 1 => IF h[1].at > w THEN end < h[1].at ELSE end >= fifoEnd => h[1].at > 0
    <2>1. n >= 1 => h # <<>>
      BY <1>4
    <2> QED
      BY <2>1 DEF RoomFor
  \* Those ahead of the write pointer now, and those ahead of it then.
  <1>13. \A i \in 1..n : /\ v = end => (h[i].at > v <=> h[i].at > w) /\ (h[i].at > v \/ End(h[i]) <= v)
                         /\ v # end => h[i].at > v /\ ~(h[i].at > w)
    <2> SUFFICES ASSUME NEW i \in 1..n
                 PROVE  /\ v = end => (h[i].at > v <=> h[i].at > w) /\ (h[i].at > v \/ End(h[i]) <= v)
                        /\ v # end => h[i].at > v /\ ~(h[i].at > w)
      OBVIOUS
    <2>1. /\ h[i].at \in Nat /\ End(h[i]) \in Nat /\ h[i].at < End(h[i])
          /\ h[i].at > w \/ End(h[i]) <= w
      BY <1>10
    <2>2. /\ h[i].at > w => h[1].at > w /\ h[1].at <= h[i].at
          /\ ~(h[1].at > w) => h[1].at <= h[i].at
      BY <1>11
    <2>3. 1 \in 1..n /\ h[1].at \in Nat /\ h[1].at <= fifoEnd - 4
      <3>1. 1 \in 1..n
        BY <1>4
      <3> QED
        BY <3>1, PacketFacts
    <2>4. IF h[1].at > w THEN end < h[1].at ELSE end >= fifoEnd => h[1].at > 0
      BY <1>4, <1>12
    <2> DEFINE a == h[i].at  e == End(h[i])  b == h[1].at
    <2>5. /\ a \in Nat /\ e \in Nat /\ a < e /\ (a > w \/ e <= w) /\ (a > w => b > w /\ b <= a)
          /\ (~(b > w) => b <= a) /\ b \in Nat /\ b <= fifoEnd - 4
          /\ IF b > w THEN end < b ELSE end >= fifoEnd => b > 0
      BY <2>1, <2>2, <2>3, <2>4
    <2> HIDE DEF a, e, b, end
    <2>6. /\ v = end => (a > v <=> a > w) /\ (a > v \/ e <= v)
          /\ v # end => a > v /\ ~(a > w)
      BY <1>1, <1>2, <1>8, <1>9, <2>5
    <2> QED
      BY <2>6 DEF a, e
  <1>14. v # end => w > v
    BY <1>1, <1>2, <1>3, <1>9
  <1>15. \A i \in 1..n + 1 : s[i].at > v \/ End(s[i]) <= v
    <2> SUFFICES ASSUME NEW i \in 1..n + 1 PROVE s[i].at > v \/ End(s[i]) <= v
      OBVIOUS
    <2>1. CASE i = n + 1
      <3>1. s[i].at = w /\ End(s[i]) = end
        BY <1>5, <1>6, <2>1
      <3> QED
        BY <1>8, <1>14, <3>1
    <2>2. CASE i # n + 1
      <3>1. i \in 1..n
        BY <1>4, <2>2
      <3>2. s[i] = h[i]
        BY <1>6, <3>1
      <3> HIDE DEF end, s
      <3> QED
        BY <1>13, <3>1, <3>2
    <2> QED
      BY <2>1, <2>2
  <1>16. ASSUME NEW i \in 1..n + 1, NEW j \in 1..n + 1, i < j
         PROVE  \/ s[i].at > v /\ s[j].at < v
                \/ End(s[i]) <= s[j].at /\ (s[i].at > v <=> s[j].at > v)
    <2>1. i \in 1..n /\ s[i] = h[i]
      <3>1. i \in 1..n
        BY <1>4, <1>16
      <3> QED
        BY <1>6, <3>1
    <2>2. CASE j = n + 1
      <3>1. s[j].at = w
        BY <1>5, <1>6, <2>2
      <3>2. /\ v = end => (h[i].at > v <=> h[i].at > w) /\ (h[i].at > v \/ End(h[i]) <= v)
            /\ v # end => h[i].at > v /\ ~(h[i].at > w)
        BY <1>13, <2>1
      <3>3. h[i].at > w \/ End(h[i]) <= w
        BY <1>10, <2>1
      <3>4. h[i].at \in Nat /\ End(h[i]) \in Nat
        BY <1>10, <2>1
      <3> HIDE DEF end, s
      <3> QED
        BY <1>2, <1>8, <1>14, <2>1, <3>1, <3>2, <3>3, <3>4
    <2>3. CASE j # n + 1
      <3>1. j \in 1..n
        BY <1>4, <2>3
      <3>2. s[j] = h[j]
        BY <1>6, <3>1
      <3>3. \/ h[i].at > w /\ h[j].at < w
            \/ End(h[i]) <= h[j].at /\ (h[i].at > w <=> h[j].at > w)
        BY <1>16, <2>1, <3>1 DEF Layout
      <3>4. /\ v = end => (h[i].at > v <=> h[i].at > w)
            /\ v # end => h[i].at > v /\ ~(h[i].at > w)
        BY <1>13, <2>1
      <3>5. /\ v = end => (h[j].at > v <=> h[j].at > w)
            /\ v # end => h[j].at > v /\ ~(h[j].at > w)
        BY <1>13, <3>1
      <3>6. h[i].at \in Nat /\ h[j].at \in Nat
        BY <1>10, <2>1, <3>1
      <3> HIDE DEF end, s
      <3> QED
        BY <1>2, <1>8, <2>1, <3>2, <3>3, <3>4, <3>5, <3>6
    <2> QED
      BY <2>2, <2>3
  <1>17. ASSUME NEW i \in 1..n + 1
         PROVE  Wrap(End(s[i])) = IF i < n + 1 THEN s[i + 1].at ELSE v
    <2>1. CASE i = n + 1
      <3>1. End(s[i]) = end
        BY <1>5, <1>6, <2>1
      <3> QED
        BY <1>4, <2>1, <3>1
    <2>2. CASE i # n + 1
      <3>1. i \in 1..n
        BY <1>4, <2>2
      <3>2. s[i] = h[i] /\ Wrap(End(h[i])) = IF i < n THEN h[i + 1].at ELSE w
        BY <1>6, <3>1 DEF Layout
      <3>3. CASE i < n
        <4>1. i + 1 \in 1..n
          BY <1>4, <3>1, <3>3
        <4>2. s[i + 1] = h[i + 1]
          BY <1>6, <4>1
        <4> HIDE DEF s
        <4> QED
          BY <1>4, <3>1, <3>2, <3>3, <4>2
      <3>4. CASE ~(i < n)
        <4>1. i = n
          BY <1>4, <3>1, <3>4
        <4>2. s[i + 1].at = w
          BY <1>5, <1>6, <4>1
        <4> HIDE DEF s
        <4> QED
          BY <1>4, <3>2, <3>4, <4>1, <4>2
      <3> QED
        BY <3>3, <3>4
    <2> QED
      BY <2>1, <2>2
  <1>18. Layout(s, v)
    <2> HIDE DEF s
    <2> QED
      BY <1>6, <1>15, <1>16, <1>17 DEF Layout
  <1>19. v = end \/ (v = 0 /\ end >= fifoEnd)
    BY <1>9
  <1>20. \A i \in 1..n : h[i].at > v => h[i].at > w \/ v = 0
    <2> HIDE DEF end
    <2> QED
      BY <1>9, <1>13
  <1> QED
    BY <1>7, <1>18, <1>19, <1>20
-----------------------------------------------------------------------------
(***************************************************************************)
(* The reader.                                                             *)
(***************************************************************************)
LEMMA HeldFacts ==
  ASSUME Aligned, FifoInv
  PROVE  /\ wrptr \in Slots /\ wrptr \in Nat /\ wrptr <= fifoEnd - 4
         /\ Layout(held, wrptr) /\ Len(held) \in Nat /\ (held = <<>> <=> Len(held) = 0)
  <1>1. wrptr \in Slots /\ Layout(held, wrptr)
    BY DEF FifoInv, Inv, PlaceInv, HeldInv
  <1>2. held \in Seq(Packets)
    BY <1>1 DEF Layout
  <1>3. Len(held) \in Nat /\ (held = <<>> <=> Len(held) = 0)
    BY <1>2, LenProperties, EmptySeq
  <1> QED
    BY <1>1, <1>3, SlotBounds

\* The oldest packet.
LEMMA FirstFacts ==
  ASSUME Aligned, FifoInv, held # <<>>
  PROVE  /\ 1 \in 1..Len(held) /\ held[1].at \in Slots /\ held[1].at \in Nat /\ held[1].at <= fifoEnd - 4
         /\ held[1].at # wrptr
         /\ held[1].len \in FrameBytes .. MaxPacket /\ held[1].len \in 0 .. MaxPacket
         /\ End(held[1]) = held[1].at + (RoundUp(held[1].len) + 4)
         /\ End(held[1]) \in Nat /\ held[1].at + 4 < End(held[1])
         /\ End(held[1]) <= held[1].at + MaxPacket + 4 /\ MaxPacket \in Nat
         /\ held[1].at > wrptr \/ End(held[1]) <= wrptr
  <1>1. 1 \in 1..Len(held)
    BY HeldFacts
  <1>2. wrptr \in Slots /\ Layout(held, wrptr)
    BY HeldFacts
  <1>3. /\ held[1].at \in Slots /\ held[1].at \in Nat /\ held[1].at <= fifoEnd - 4 /\ held[1].at # wrptr
        /\ held[1].len \in FrameBytes .. MaxPacket /\ held[1].len \in 0 .. MaxPacket
        /\ PacketSpace(held[1].len) \in Nat /\ PacketSpace(held[1].len) <= MaxPacket + 4
        /\ End(held[1]) = held[1].at + PacketSpace(held[1].len)
        /\ held[1].at + 4 < End(held[1])
        /\ held[1].at > wrptr \/ End(held[1]) <= wrptr
    BY <1>1, <1>2, PacketFacts
  <1>4. PacketSpace(held[1].len) = RoundUp(held[1].len) + 4
    BY DEF PacketSpace
  <1>5. MaxPacket \in Nat
    BY Sizes
  <1>6. End(held[1]) \in Nat /\ End(held[1]) <= held[1].at + MaxPacket + 4
    BY <1>3, <1>5
  <1> QED
    BY <1>1, <1>3, <1>4, <1>5, <1>6

\* The packet that follows it.
LEMMA SecondFacts ==
  ASSUME Aligned, FifoInv, Len(held) >= 2
  PROVE  /\ 2 \in 1..Len(held) /\ held[2].at \in Nat /\ held[2].at # wrptr /\ held[2].at <= fifoEnd - 4
         /\ held[2].len \in FrameBytes .. MaxPacket
         /\ held[2].at > wrptr => held[1].at > wrptr /\ End(held[1]) <= held[2].at
         /\ ~(held[1].at > wrptr) => ~(held[2].at > wrptr) /\ End(held[1]) <= held[2].at
         /\ Wrap(End(held[1])) = held[2].at /\ header[held[2].at] = held[2].len
  <1>1. 1 \in 1..Len(held) /\ 2 \in 1..Len(held) /\ Len(held) \in Nat
    BY HeldFacts
  <1>2. wrptr \in Slots /\ Layout(held, wrptr)
    BY HeldFacts
  <1>3. /\ held[2].at \in Nat /\ held[2].at # wrptr /\ held[2].len \in FrameBytes .. MaxPacket
        /\ held[2].at <= fifoEnd - 4
    BY <1>1, <1>2, PacketFacts
  <1>4. /\ held[2].at > wrptr => held[1].at > wrptr /\ End(held[1]) <= held[2].at
        /\ ~(held[1].at > wrptr) => ~(held[2].at > wrptr) /\ End(held[1]) <= held[2].at
    BY <1>1, <1>2, PairFacts
  <1>5. Wrap(End(held[1])) = IF 1 < Len(held) THEN held[1 + 1].at ELSE wrptr
    BY <1>1, <1>2 DEF Layout
  <1>6. Wrap(End(held[1])) = held[2].at
    BY <1>1, <1>5
  <1>7. header[held[2].at] = held[2].len
    BY <1>1 DEF FifoInv, HeldInv
  <1> QED
    BY <1>1, <1>3, <1>4, <1>6, <1>7

\* While playing, the bytes played are whole words and the read pointer is as far.
LEMMA PlayedFacts ==
  ASSUME Aligned, FifoInv, ~outUnderflow, NEW played, played = held[1].len - remaining
  PROVE  /\ held # <<>> /\ played \in Nat /\ remaining \in Nat /\ remaining >= FrameBytes
         /\ held[1].len = played + remaining /\ played \in 0 .. held[1].len /\ held[1].len \in Nat
         /\ Whole(played) /\ unpackState = Unpacked(played) /\ rdptr = held[1].at + 4 + Advanced(played)
         /\ Advanced(played) \in Nat /\ Advanced(played) <= RoundUp(held[1].len) /\ RoundUp(held[1].len) \in Int
  <1>1. /\ held # <<>> /\ remaining \in FrameBytes .. held[1].len /\ Whole(played)
        /\ unpackState = Unpacked(played) /\ rdptr = held[1].at + 4 + Advanced(played)
    BY DEF FifoInv, ReadInv
  <1>2. held[1].len \in FrameBytes .. MaxPacket /\ FrameBytes \in Nat /\ MaxPacket \in Nat
    BY <1>1, FirstFacts, Sizes
  <1> DEFINE len == held[1].len
  <1>3. /\ played \in Nat /\ remaining \in Nat /\ remaining >= FrameBytes /\ len = played + remaining
        /\ played \in 0 .. len /\ len \in Nat
    <2>1. len \in FrameBytes .. MaxPacket /\ remaining \in FrameBytes .. len /\ played = len - remaining
      BY <1>1, <1>2
    <2> HIDE DEF len
    <2> QED
      BY <1>2, <2>1
  <1> HIDE DEF len
  <1>4. Advanced(played) \in Nat /\ Advanced(played) <= RoundUp(len)
    BY <1>1, <1>3, TailSkipped
  <1>5. RoundUp(len) \in Int
    BY <1>3 DEF RoundUp
  <1> QED
    BY <1>1, <1>3, <1>4, <1>5 DEF len

\* The read pointer is in the oldest packet.
LEMMA ReaderInside ==
  ASSUME Aligned, FifoInv
  PROVE  /\ rdptr \in Nat
         /\ held = <<>> => outUnderflow /\ rdptr = wrptr
         /\ held # <<>> => held[1].at <= rdptr /\ rdptr <= End(held[1])
         /\ outUnderflow => rdptr <= fifoEnd - 4
  <1>1. CASE held = <<>>
    <2>1. outUnderflow /\ rdptr = wrptr
      BY <1>1 DEF FifoInv, ReadInv, Base
    <2> QED
      BY <1>1, <2>1, HeldFacts
  <1>2. CASE held # <<>> /\ outUnderflow
    <2>1. rdptr = held[1].at
      BY <1>2 DEF FifoInv, ReadInv, Base
    <2> QED
      BY <1>2, <2>1, FirstFacts
  <1>3. CASE held # <<>> /\ ~outUnderflow
    <2> DEFINE played == held[1].len - remaining
    <2>1. /\ rdptr = held[1].at + 4 + Advanced(played)
          /\ Advanced(played) \in Nat /\ Advanced(played) <= RoundUp(held[1].len)
          /\ RoundUp(held[1].len) \in Int
      BY <1>3, PlayedFacts
    <2>2. held[1].at \in Nat /\ End(held[1]) = held[1].at + (RoundUp(held[1].len) + 4)
      BY <1>3, FirstFacts
    <2> HIDE DEF played
    <2>3. rdptr \in Nat /\ held[1].at <= rdptr /\ rdptr <= End(held[1])
      BY <2>1, <2>2
    <2> QED
      BY <1>3, <2>3
  <1>4. outUnderflow \in BOOLEAN
    BY DEF FifoInv, ReadInv
  <1> QED
    BY <1>1, <1>2, <1>3, <1>4

\* What a step of the interrupt does: nothing, a frame of the oldest packet, the start of
\* the oldest packet, the start of the next, or the end of the last.
Silence == UNCHANGED <<rdptr, remaining, unpackState, outUnderflow, header, held>>
Frame ==
  /\ ~outUnderflow /\ UNCHANGED <<outUnderflow, header, held>>
  /\ remaining' = remaining - FrameBytes /\ remaining' >= FrameBytes
  /\ rdptr' = rdptr + FrameAdvance(unpackState)
  /\ unpackState' = IF SubSlot = 3 THEN (unpackState + Chans) % 4 ELSE unpackState
Open(i) ==
  /\ outUnderflow' = FALSE /\ rdptr' = held[i].at + 4 /\ remaining' = held[i].len /\ unpackState' = 0
  /\ header' = [header EXCEPT ![held[i].at] = 0]
OpenFirst == outUnderflow /\ Len(held) >= 1 /\ held' = held /\ Open(1)
OpenNext  == ~outUnderflow /\ Len(held) >= 2 /\ held' = SubSeq(held, 2, Len(held)) /\ Open(2)
Drained ==
  /\ ~outUnderflow /\ outUnderflow' = TRUE /\ Len(held) = 1 /\ held' = SubSeq(held, 2, Len(held))
  /\ rdptr' = wrptr /\ remaining' = 0 /\ unpackState' \in 0..3 /\ (SubSlot # 3 => unpackState' = 0)
  /\ UNCHANGED header

\* The end of a packet, with the place of the next.
LEMMA EndReads ==
  ASSUME NEW rd, NEW left, NEW u, EndOfPacket(rd, left, u),
         NEW at, at = Wrap(rd + (IF left # 0 THEN 4 * ((left + 3 - u) \div 4) ELSE 0))
  PROVE  /\ outUnderflow' = (at = wrptr)
         /\ rdptr' = IF at = wrptr THEN at ELSE at + 4
         /\ remaining' = IF at = wrptr THEN 0 ELSE header[at]
         /\ unpackState' = IF at = wrptr THEN u ELSE 0
         /\ header' = IF at = wrptr THEN header ELSE [header EXCEPT ![at] = 0]
         /\ held' = IF outUnderflow THEN held ELSE SubSeq(held, 2, Len(held))
  BY DEF EndOfPacket

\* In underflow: silence, or the oldest packet is opened.
LEMMA UnderflowKinds ==
  ASSUME Aligned, FifoInv, UnderflowFrame
  PROVE  Silence \/ OpenFirst
  <1>1. outUnderflow /\ remaining = 0 /\ rdptr = Base /\ unpackState \in Int
    BY DEF UnderflowFrame, FifoInv, ReadInv
  <1>2. /\ FrameBytes \in Nat \ {0} /\ MAX_DEVICE_AUD_PACKET_SIZE_OUT = MaxPacket + 4 /\ MaxPacket \in Nat
        /\ fifoStart = 0
    BY Sizes
  <1>3. remaining < FrameBytes
    BY <1>1, <1>2
  <1>4. CASE ~(Filled >= OUT_BUFFER_PREFILL)
    BY <1>4 DEF UnderflowFrame, Silence, readVars
  <1>5. CASE Filled >= OUT_BUFFER_PREFILL
    <2>1. EndOfPacket(rdptr, remaining, unpackState)
      BY <1>3, <1>5 DEF UnderflowFrame
    <2>2. wrptr \in Nat /\ rdptr \in Nat /\ rdptr <= fifoEnd - 4 /\ fifoEnd \in Int
      <3>1. fifoEnd \in Int
        BY <1>2, Sizes
      <3> QED
        BY <1>1, <3>1, HeldFacts, ReaderInside
    <2>3. rdptr # wrptr
      <3>1. OUT_BUFFER_PREFILL > 0
        BY <1>2 DEF OUT_BUFFER_PREFILL
      <3>2. rdptr = wrptr => Filled = 0
        BY <2>2 DEF Filled
      <3> QED
        BY <1>2, <1>5, <3>1, <3>2 DEF OUT_BUFFER_PREFILL
    <2>4. held # <<>> /\ rdptr = held[1].at
      BY <1>1, <2>3 DEF Base
    <2>5. Len(held) >= 1 /\ 1 \in 1..Len(held)
      BY <2>4, HeldFacts
    <2>6. rdptr = Wrap(rdptr + (IF remaining # 0 THEN 4 * ((remaining + 3 - unpackState) \div 4) ELSE 0))
      <3>1. rdptr + 0 = rdptr /\ ~(rdptr >= fifoEnd)
        BY <2>2
      <3> QED
        BY <1>1, <3>1 DEF Wrap
    <2>7. header[held[1].at] = held[1].len
      BY <1>1, <2>5 DEF FifoInv, HeldInv
    <2>8. /\ outUnderflow' = (rdptr = wrptr) /\ rdptr' = IF rdptr = wrptr THEN rdptr ELSE rdptr + 4
          /\ remaining' = IF rdptr = wrptr THEN 0 ELSE header[rdptr]
          /\ unpackState' = IF rdptr = wrptr THEN unpackState ELSE 0
          /\ header' = IF rdptr = wrptr THEN header ELSE [header EXCEPT ![rdptr] = 0]
          /\ held' = IF outUnderflow THEN held ELSE SubSeq(held, 2, Len(held))
      BY <2>1, <2>6, EndReads
    <2>9. /\ outUnderflow' = FALSE /\ rdptr' = held[1].at + 4 /\ remaining' = held[1].len
          /\ unpackState' = 0 /\ header' = [header EXCEPT ![held[1].at] = 0] /\ held' = held
      BY <1>1, <2>3, <2>4, <2>7, <2>8
    <2> QED
      BY <1>1, <2>5, <2>9 DEF OpenFirst, Open
  <1> QED
    BY <1>4, <1>5

\* While playing: a frame, at the end of a packet the next one, or the last is over.
LEMMA PlayKinds ==
  ASSUME Aligned, FifoInv, PlayFrame
  PROVE  Frame \/ OpenNext \/ Drained
  <1> DEFINE rd == rdptr + FrameAdvance(unpackState)  left == remaining - FrameBytes
             u == IF SubSlot = 3 THEN (unpackState + Chans) % 4 ELSE unpackState
             len == held[1].len  played == len - remaining  next == played + FrameBytes
  <1>1. ~outUnderflow
    BY DEF PlayFrame
  <1>2. /\ held # <<>> /\ played \in Nat /\ remaining \in Nat /\ remaining >= FrameBytes
        /\ len = played + remaining /\ len \in Nat /\ Whole(played) /\ unpackState = Unpacked(played)
        /\ rdptr = held[1].at + 4 + Advanced(played) /\ Advanced(played) \in Nat
    BY <1>1, PlayedFacts
  <1>3. FrameBytes \in Nat \ {0}
    BY Sizes
  <1>4. /\ IF left < FrameBytes THEN EndOfPacket(rd, left, u)
           ELSE /\ rdptr' = rd /\ remaining' = left /\ unpackState' = u
                /\ UNCHANGED <<outUnderflow, header, held>>
    BY DEF PlayFrame
  <1>5. next \in Nat /\ next \in 0 .. len /\ left = len - next /\ left \in Nat
    <2> HIDE DEF len
    <2> QED
      BY <1>2, <1>3
  <1>6. CASE ~(left < FrameBytes)
    <2>1. /\ rdptr' = rd /\ remaining' = left /\ unpackState' = u
          /\ UNCHANGED <<outUnderflow, header, held>>
      BY <1>4, <1>6
    <2>2. left >= FrameBytes
      BY <1>3, <1>5, <1>6
    <2> QED
      BY <1>1, <2>1, <2>2 DEF Frame
  <1>7. CASE left < FrameBytes
    <2>1. /\ Advanced(played) + FrameAdvance(unpackState) = Advanced(next)
          /\ Whole(next) /\ Unpacked(next) = u
      <3> HIDE DEF played
      <3> QED
        BY <1>2, FrameAdvances
    <2>2. u \in 0..3 /\ (SubSlot # 3 => u = 0)
      <3>1. u = Unpacked(next)
        BY <2>1
      <3> HIDE DEF u, next
      <3> QED
        BY <1>5, <3>1 DEF Unpacked
    <2> DEFINE skip == IF left # 0 THEN 4 * ((left + 3 - u) \div 4) ELSE 0  at == Wrap(rd + skip)
    <2>3. Advanced(next) + skip = RoundUp(len) /\ Advanced(next) \in Nat
      <3>1. left = len - next /\ u = Unpacked(next)
        BY <1>5, <2>1
      <3> HIDE DEF next, len, left, u
      <3> QED
        BY <1>2, <1>5, <2>1, <3>1, TailSkipped
    <2>4. rd + skip = End(held[1])
      <3>1. FrameAdvance(unpackState) \in Int
        <4>1. unpackState \in Int /\ Chans \in Int
          BY ChansAssumption DEF FifoInv, ReadInv
        <4> QED
          BY <1>3, <4>1 DEF FrameAdvance
      <3>2. skip \in Int /\ RoundUp(len) \in Int
        <4>1. skip \in Int
          <5> HIDE DEF left, u
          <5> QED
            BY <1>5, <2>2
        <4> HIDE DEF len
        <4> QED
          BY <1>2, <4>1 DEF RoundUp
      <3>3. held[1].at \in Nat /\ End(held[1]) = held[1].at + (RoundUp(len) + 4)
        BY <1>2, FirstFacts
      <3> DEFINE f == FrameAdvance(unpackState)
      <3>4. rd = rdptr + f
        OBVIOUS
      <3> HIDE DEF f, rd, skip, played, len, next
      <3>5. rd = held[1].at + 4 + Advanced(next)
        BY <1>2, <2>1, <3>1, <3>3, <3>4 DEF f
      <3> QED
        BY <2>3, <3>2, <3>3, <3>5
    <2>5. EndOfPacket(rd, left, u)
      BY <1>4, <1>7
    <2>6. /\ outUnderflow' = (at = wrptr) /\ rdptr' = IF at = wrptr THEN at ELSE at + 4
          /\ remaining' = IF at = wrptr THEN 0 ELSE header[at]
          /\ unpackState' = IF at = wrptr THEN u ELSE 0
          /\ header' = IF at = wrptr THEN header ELSE [header EXCEPT ![at] = 0]
          /\ held' = SubSeq(held, 2, Len(held))
      <3>1. at = Wrap(rd + (IF left # 0 THEN 4 * ((left + 3 - u) \div 4) ELSE 0))
        OBVIOUS
      <3> HIDE DEF rd, left, u, at
      <3> QED
        BY <1>1, <2>5, <3>1, EndReads
    <2>7. at = Wrap(End(held[1]))
      <3> HIDE DEF rd, skip
      <3> QED
        BY <2>4
    <2> HIDE DEF at, u
    <2>8. CASE Len(held) >= 2
      <3>1. at = held[2].at /\ at # wrptr /\ header[at] = held[2].len
        BY <2>7, <2>8, SecondFacts
      <3>2. /\ outUnderflow' = FALSE /\ rdptr' = held[2].at + 4 /\ remaining' = held[2].len
            /\ unpackState' = 0 /\ header' = [header EXCEPT ![held[2].at] = 0]
            /\ held' = SubSeq(held, 2, Len(held))
        BY <2>6, <3>1
      <3> QED
        BY <1>1, <2>8, <3>2 DEF OpenNext, Open
    <2>9. CASE ~(Len(held) >= 2)
      <3>1. Len(held) = 1 /\ 1 \in 1..Len(held)
        <4>1. Len(held) \in Nat /\ Len(held) # 0
          BY <1>2, HeldFacts
        <4> QED
          BY <2>9, <4>1
      <3>2. Wrap(End(held[1])) = IF 1 < Len(held) THEN held[1 + 1].at ELSE wrptr
        BY <3>1, HeldFacts DEF Layout
      <3>3. at = wrptr
        BY <2>7, <3>1, <3>2
      <3>4. /\ outUnderflow' = TRUE /\ rdptr' = wrptr /\ remaining' = 0 /\ unpackState' = u
            /\ header' = header /\ held' = SubSeq(held, 2, Len(held))
        BY <2>6, <3>3
      <3> QED
        BY <1>1, <2>2, <3>1, <3>4 DEF Drained
    <2> QED
      BY <2>8, <2>9
  <1> QED
    BY <1>6, <1>7

\* The interrupt does one of these and touches nothing else.
LEMMA InterruptKinds ==
  ASSUME Aligned, FifoInv, Interrupt
  PROVE  /\ Silence \/ Frame \/ OpenFirst \/ OpenNext \/ Drained
         /\ UNCHANGED <<wrptr, outOverflow, hostFlag, buffer, armed, received, pc, loc>>
  <1>1. Silence \/ Frame \/ OpenFirst \/ OpenNext \/ Drained
    BY UnderflowKinds, PlayKinds DEF Interrupt
  <1>2. UNCHANGED <<wrptr, outOverflow, hostFlag, buffer, armed, received, pc, loc>>
    BY DEF Interrupt, UnderflowFrame, PlayFrame, usbVars
  <1> QED
    BY <1>1, <1>2

\* A packet is played to its end: the next is the oldest.
LEMMA PlayedOut ==
  ASSUME Aligned, FifoInv, held' = SubSeq(held, 2, Len(held)), Len(held) >= 1
  PROVE  /\ Layout(held', wrptr) /\ Len(held') = Len(held) - 1
         /\ \A i \in 1..Len(held') : i + 1 \in 1..Len(held) /\ held'[i] = held[i + 1]
         /\ held' = <<>> <=> Len(held) = 1
         /\ Len(held) >= 2 => held'[1] = held[2]
  <1> DEFINE t == SubSeq(held, 2, Len(held))
  <1>1. wrptr \in Slots /\ Layout(held, wrptr) /\ Len(held) \in Nat
    BY HeldFacts
  <1>2. /\ Layout(t, wrptr) /\ Len(t) = Len(held) - 1
        /\ \A i \in 1..Len(t) : i + 1 \in 1..Len(held) /\ t[i] = held[i + 1]
        /\ t = <<>> <=> Len(held) = 1
    BY <1>1, TailLayout
  <1>3. held' = t
    OBVIOUS
  <1> HIDE DEF t
  <1>4. Len(held) >= 2 => t[1] = held[2]
    <2> SUFFICES ASSUME Len(held) >= 2 PROVE t[1] = held[2]
      OBVIOUS
    <2>1. 1 \in 1..Len(t)
      BY <1>1, <1>2
    <2>2. t[1] = held[1 + 1]
      BY <1>2, <2>1
    <2> QED
      BY <2>2
  <1> QED
    BY <1>2, <1>3, <1>4

\* Room left for a packet stays when the oldest packet is played.
LEMMA RoomStays ==
  ASSUME Aligned, FifoInv,
         held' # <<>> => held # <<>> /\ held'[1].at \in Nat,
         held' # <<>> /\ held'[1].at > wrptr => held[1].at > wrptr /\ held[1].at <= held'[1].at,
         held' # <<>> /\ ~(held[1].at > wrptr) => held[1].at <= held'[1].at,
         NEW len, Room(len), PacketSpace(len) \in Int
  PROVE  RoomFor(held', wrptr, len)
  <1> SUFFICES ASSUME held' # <<>>
               PROVE  IF held'[1].at > wrptr THEN wrptr + PacketSpace(len) < held'[1].at
                      ELSE wrptr + PacketSpace(len) >= fifoEnd => held'[1].at > 0
    BY DEF RoomFor
  <1>1. held[1].at \in Nat /\ held[1].at <= fifoEnd - 4 /\ wrptr \in Nat
    BY FirstFacts, HeldFacts
  <1>2. IF held[1].at > wrptr THEN wrptr + PacketSpace(len) < held[1].at
        ELSE wrptr + PacketSpace(len) >= fifoEnd => held[1].at > 0
    BY DEF Room, RoomFor
  <1>3. fifoEnd \in Int
    BY Sizes
  <1> QED
    BY <1>1, <1>2, <1>3

\* The interrupt only moves forward: a packet ahead of the write pointer was ahead of it
\* before, the read pointer moves away from the write pointer behind it, and comes up to it
\* from behind; the length word at the write pointer is left alone.
LEMMA InterruptForward ==
  ASSUME Aligned, FifoInv, Interrupt
  PROVE  /\ rdptr' \in Nat
         /\ held = <<>> => held' = <<>> /\ header' = header
         /\ held' # <<>> => held'[1].at \in Nat
         /\ held' # <<>> /\ held'[1].at > wrptr =>
              held[1].at > wrptr /\ held[1].at <= held'[1].at /\ rdptr <= rdptr'
         /\ held' # <<>> /\ ~(held[1].at > wrptr) => held[1].at <= held'[1].at
         /\ Base <= wrptr => rdptr <= rdptr'
         /\ header'[wrptr] = header[wrptr]
  <1>1. rdptr \in Nat /\ wrptr \in Nat
    BY ReaderInside, HeldFacts
  <1>2. held # <<>> => held[1].at \in Nat
    BY FirstFacts
  <1>3. CASE Silence
    BY <1>1, <1>2, <1>3 DEF Silence
  <1>4. CASE Frame
    <2>1. FrameAdvance(unpackState) \in Nat
      <3> DEFINE played == held[1].len - remaining
      <3>1. ~outUnderflow
        BY <1>4 DEF Frame
      <3>2. played \in Nat /\ Whole(played) /\ unpackState = Unpacked(played) /\ unpackState \in Nat
        BY <3>1, PlayedFacts DEF FifoInv, ReadInv
      <3>3. CASE SubSlot = 3
        <4> DEFINE u == unpackState  s == u + Chans
        <4>1. u \in Nat /\ s \in Nat /\ s >= u /\ s - u = Chans /\ Chans >= 1 /\ u <= 3
          BY <3>2, ChansAssumption DEF FifoInv, ReadInv
        <4>2. u \div 4 = 0
          <5> HIDE DEF u
          <5> QED
            BY <4>1
        <4>3. s \div 4 <= s - u
          <5> HIDE DEF s, u
          <5> QED
            BY <4>1
        <4>4. FrameAdvance(unpackState) = 4 * ((s - s \div 4) - (u - u \div 4))
          BY <3>3 DEF FrameAdvance
        <4>5. s \div 4 \in Nat
          <5> HIDE DEF s
          <5> QED
            BY <4>1
        <4> HIDE DEF s, u
        <4> QED
          BY <4>1, <4>2, <4>3, <4>4, <4>5
      <3>4. CASE SubSlot # 3
        BY <3>4, Sizes DEF FrameAdvance
      <3> QED
        BY <3>3, <3>4
    <2>2. held # <<>>
      BY <1>4, PlayedFacts DEF Frame
    <2>3. rdptr' = rdptr + FrameAdvance(unpackState) /\ header' = header /\ held' = held
      BY <1>4 DEF Frame
    <2> QED
      BY <1>1, <1>2, <2>1, <2>2, <2>3
  <1>5. CASE OpenFirst
    <2>1. held # <<>> /\ held' = held /\ rdptr' = held[1].at + 4 /\ outUnderflow
          /\ header' = [header EXCEPT ![held[1].at] = 0]
      BY <1>5, HeldFacts DEF OpenFirst, Open
    <2>2. rdptr = held[1].at /\ held[1].at # wrptr
      BY <2>1, FirstFacts DEF FifoInv, ReadInv, Base
    <2>3. header'[wrptr] = header[wrptr]
      BY <2>1, <2>2 DEF FifoInv, Inv, PlaceInv
    <2> QED
      BY <1>1, <1>2, <2>1, <2>2, <2>3
  <1>6. CASE OpenNext
    <2>1. /\ Len(held) >= 2 /\ held' = SubSeq(held, 2, Len(held)) /\ rdptr' = held[2].at + 4
          /\ header' = [header EXCEPT ![held[2].at] = 0]
      BY <1>6 DEF OpenNext, Open
    <2>2. held # <<>> /\ Len(held) >= 1
      BY <2>1, HeldFacts
    <2>3. held' # <<>> /\ held'[1] = held[2]
      <3>1. Len(held) # 1
        BY <2>1
      <3> QED
        BY <2>1, <2>2, <3>1, PlayedOut
    <2>4. /\ held[2].at \in Nat /\ held[2].at # wrptr
          /\ held[2].at > wrptr => held[1].at > wrptr /\ End(held[1]) <= held[2].at
          /\ ~(held[1].at > wrptr) => ~(held[2].at > wrptr) /\ End(held[1]) <= held[2].at
      BY <2>1, SecondFacts
    <2>5. /\ rdptr <= End(held[1]) /\ held[1].at + 4 < End(held[1]) /\ End(held[1]) \in Nat
      BY <2>2, FirstFacts, ReaderInside
    <2>6. header'[wrptr] = header[wrptr]
      BY <2>1, <2>4 DEF FifoInv, Inv, PlaceInv
    <2>7. Base = held[1].at
      BY <2>2 DEF Base
    <2>8. held'[1].at = held[2].at
      BY <2>3
    <2> DEFINE a == held[1].at  b == held[2].at  e == End(held[1])
    <2>9. /\ a \in Nat /\ b \in Nat /\ e \in Nat /\ rdptr <= e /\ a + 4 < e /\ rdptr' = b + 4
          /\ b > wrptr => a > wrptr /\ e <= b
          /\ ~(a > wrptr) => ~(b > wrptr) /\ e <= b
      BY <1>2, <2>1, <2>2, <2>4, <2>5
    <2> HIDE DEF a, b, e
    <2>10. /\ rdptr' \in Nat
           /\ b > wrptr => a > wrptr /\ a <= b /\ rdptr <= rdptr'
           /\ ~(a > wrptr) => a <= b
           /\ a <= wrptr => rdptr <= rdptr'
      BY <1>1, <2>9
    <2> QED
      BY <2>2, <2>3, <2>4, <2>6, <2>7, <2>8, <2>10 DEF a, b
  <1>7. CASE Drained
    <2>1. /\ Len(held) = 1 /\ held' = SubSeq(held, 2, Len(held)) /\ rdptr' = wrptr /\ header' = header
      BY <1>7 DEF Drained
    <2>2. held # <<>> /\ Len(held) >= 1
      BY <2>1, HeldFacts
    <2>3. held' = <<>>
      BY <2>1, <2>2, PlayedOut
    <2>4. /\ rdptr <= End(held[1]) /\ End(held[1]) \in Nat
          /\ held[1].at > wrptr \/ End(held[1]) <= wrptr
      BY <2>2, FirstFacts, ReaderInside
    <2>5. Base = held[1].at
      BY <2>2 DEF Base
    <2> QED
      BY <1>1, <1>2, <2>1, <2>2, <2>3, <2>4, <2>5
  <1> QED
    BY <1>3, <1>4, <1>5, <1>6, <1>7, InterruptKinds

\* The reader and the packets after a step of the interrupt.
LEMMA InterruptReads ==
  ASSUME Aligned, FifoInv, Interrupt
  PROVE  HeldInv' /\ ReadInv'
  <1>1. wrptr' = wrptr
    BY InterruptKinds
  <1>2. wrptr \in Slots /\ wrptr \in Nat /\ Layout(held, wrptr) /\ Len(held) \in Nat
    BY HeldFacts
  <1>3. header \in [Addresses -> 0 .. MaxPacket]
    BY DEF FifoInv, Inv, PlaceInv
  <1>4. HeldInv /\ ReadInv
    BY DEF FifoInv
  <1>5. CASE Silence
    <2>1. HeldInv'
      BY <1>1, <1>4, <1>5 DEF Silence, HeldInv
    <2>2. ReadInv'
      BY <1>1, <1>4, <1>5 DEF Silence, ReadInv, Base
    <2> QED
      BY <2>1, <2>2
  <1>6. CASE Frame
    <2>1. HeldInv'
      BY <1>1, <1>4, <1>6 DEF Frame, HeldInv
    <2> DEFINE len == held[1].len  played == len - remaining  next == played + FrameBytes
    <2>2. /\ held # <<>> /\ played \in Nat /\ remaining \in Nat /\ len = played + remaining /\ len \in Nat
          /\ Whole(played) /\ unpackState = Unpacked(played)
          /\ rdptr = held[1].at + 4 + Advanced(played) /\ Advanced(played) \in Nat
      BY <1>6, PlayedFacts DEF Frame
    <2>3. /\ ~outUnderflow /\ outUnderflow' = outUnderflow /\ held' = held
          /\ remaining' = remaining - FrameBytes /\ remaining' >= FrameBytes
          /\ rdptr' = rdptr + FrameAdvance(unpackState)
          /\ unpackState' = IF SubSlot = 3 THEN (unpackState + Chans) % 4 ELSE unpackState
      BY <1>6 DEF Frame
    <2>4. FrameBytes \in Nat \ {0} /\ held[1].at \in Nat
      BY <2>2, FirstFacts, Sizes
    <2>5. /\ Unpacked(played) \in 0..3 /\ Advanced(played) + FrameAdvance(Unpacked(played)) = Advanced(next)
          /\ Whole(next)
          /\ Unpacked(next) = IF SubSlot = 3 THEN (Unpacked(played) + Chans) % 4 ELSE Unpacked(played)
      <3> HIDE DEF played
      <3> QED
        BY <2>2, FrameAdvances
    <2>6. next = len - remaining' /\ remaining' \in FrameBytes .. len /\ next \in Nat
      <3> HIDE DEF len
      <3> QED
        BY <2>2, <2>3, <2>4
    <2>7. unpackState' = Unpacked(next)
      BY <2>2, <2>3, <2>5
    <2>8. unpackState' \in 0..3 /\ (SubSlot # 3 => unpackState' = 0)
      <3> HIDE DEF next
      <3> QED
        BY <2>6, <2>7 DEF Unpacked
    <2>9. rdptr' = held[1].at + 4 + Advanced(next)
      <3>1. Advanced(next) \in Int
        <4> HIDE DEF next
        <4> QED
          BY <2>6 DEF Advanced
      <3>2. FrameAdvance(Unpacked(played)) \in Int
        <4>1. Unpacked(played) \in Int /\ Chans \in Int
          BY <2>5, ChansAssumption
        <4> HIDE DEF played
        <4> QED
          BY <2>4, <4>1 DEF FrameAdvance
      <3>3. rdptr' = held[1].at + 4 + Advanced(played) + FrameAdvance(Unpacked(played))
        BY <2>2, <2>3
      <3> HIDE DEF next, played
      <3> QED
        BY <2>2, <2>4, <2>5, <3>1, <3>2, <3>3
    <2>10. outUnderflow' \in BOOLEAN
      BY <1>4, <2>3 DEF ReadInv
    <2>11. LET past == held'[1].len - remaining'
           IN Whole(past) /\ unpackState' = Unpacked(past) /\ rdptr' = held'[1].at + 4 + Advanced(past)
      <3>1. held'[1].len - remaining' = next
        BY <2>3, <2>6
      <3> HIDE DEF next
      <3> QED
        BY <2>3, <2>5, <2>7, <2>9, <3>1
    <2>12. ReadInv'
      BY <2>2, <2>3, <2>6, <2>8, <2>10, <2>11 DEF ReadInv
    <2> QED
      BY <2>1, <2>12
  <1>7. Whole(0) /\ Unpacked(0) = 0 /\ Advanced(0) = 0
    BY DEF Whole, Unpacked, Advanced
  <1>8. CASE OpenFirst
    <2>1. /\ Len(held) >= 1 /\ held' = held /\ outUnderflow' = FALSE /\ rdptr' = held[1].at + 4
          /\ remaining' = held[1].len /\ unpackState' = 0 /\ header' = [header EXCEPT ![held[1].at] = 0]
          /\ outUnderflow
      BY <1>8 DEF OpenFirst, Open
    <2>2. held # <<>> /\ 1 \in 1..Len(held)
      BY <2>1, HeldFacts
    <2>3. held[1].len \in FrameBytes .. MaxPacket /\ held[1].at \in Nat /\ FrameBytes \in Nat /\ MaxPacket \in Nat
      BY <2>2, FirstFacts, Sizes
    <2>4. ASSUME NEW i \in 1..Len(held), i > 1
          PROVE  header'[held[i].at] = held[i].len
      <3>1. held[1].at # held[i].at
        BY <1>2, <2>2, <2>4, PairFacts
      <3>2. header[held[i].at] = held[i].len
        BY <1>4, <2>4 DEF HeldInv
      <3> QED
        BY <1>3, <2>1, <3>1, <3>2
    <2>5. HeldInv'
      BY <1>1, <1>2, <2>1, <2>4 DEF HeldInv
    <2>6. held[1].len \in FrameBytes .. held[1].len /\ held[1].len - held[1].len = 0
      BY <2>3
    <2>7. LET past == held'[1].len - remaining'
          IN Whole(past) /\ unpackState' = Unpacked(past) /\ rdptr' = held'[1].at + 4 + Advanced(past)
      <3>1. held'[1].len - remaining' = 0 /\ held[1].at + 4 + 0 = held[1].at + 4
        BY <2>1, <2>3, <2>6
      <3> QED
        BY <1>7, <2>1, <3>1
    <2>8. ~outUnderflow' /\ outUnderflow' \in BOOLEAN
      BY <2>1
    <2>9. held' # <<>> /\ remaining' \in FrameBytes .. held'[1].len
          /\ unpackState' \in 0..3 /\ unpackState' = 0
      BY <2>1, <2>2, <2>6
    <2>10. ReadInv'
      BY <2>7, <2>8, <2>9 DEF ReadInv
    <2> QED
      BY <2>5, <2>10
  <1>9. CASE OpenNext
    <2>1. /\ Len(held) >= 2 /\ held' = SubSeq(held, 2, Len(held)) /\ outUnderflow' = FALSE
          /\ rdptr' = held[2].at + 4
          /\ remaining' = held[2].len /\ unpackState' = 0 /\ header' = [header EXCEPT ![held[2].at] = 0]
      BY <1>9 DEF OpenNext, Open
    <2>2. Len(held) >= 1 /\ Len(held) # 1
      BY <1>2, <2>1
    <2>3. /\ Layout(held', wrptr) /\ Len(held') = Len(held) - 1 /\ held' # <<>> /\ held'[1] = held[2]
          /\ \A i \in 1..Len(held') : i + 1 \in 1..Len(held) /\ held'[i] = held[i + 1]
      BY <2>1, <2>2, PlayedOut
    <2>4. held[2].len \in FrameBytes .. MaxPacket /\ held[2].at \in Nat /\ FrameBytes \in Nat /\ MaxPacket \in Nat
          /\ 2 \in 1..Len(held)
      BY <2>1, SecondFacts, Sizes
    <2>5. ASSUME NEW i \in 1..Len(held'), i > 1
          PROVE  header'[held'[i].at] = held'[i].len
      <3>1. i + 1 \in 1..Len(held) /\ held'[i] = held[i + 1] /\ 2 < i + 1 /\ i + 1 > 1
        BY <1>2, <2>3, <2>5
      <3>2. held[2].at # held[i + 1].at
        BY <1>2, <2>4, <3>1, PairFacts
      <3>3. header[held[i + 1].at] = held[i + 1].len
        BY <1>4, <3>1 DEF HeldInv
      <3> QED
        BY <1>3, <2>1, <3>1, <3>2, <3>3
    <2>6. HeldInv'
      BY <1>1, <2>1, <2>3, <2>5 DEF HeldInv
    <2>7. held[2].len \in FrameBytes .. held[2].len /\ held[2].len - held[2].len = 0
      BY <2>4
    <2>8. LET past == held'[1].len - remaining'
          IN Whole(past) /\ unpackState' = Unpacked(past) /\ rdptr' = held'[1].at + 4 + Advanced(past)
      <3>1. held'[1].len - remaining' = 0 /\ held[2].at + 4 + 0 = held[2].at + 4
        BY <2>1, <2>3, <2>4, <2>7
      <3> QED
        BY <1>7, <2>1, <2>3, <3>1
    <2>9. ~outUnderflow' /\ outUnderflow' \in BOOLEAN
      BY <2>1
    <2>10. held' # <<>> /\ remaining' \in FrameBytes .. held'[1].len
           /\ unpackState' \in 0..3 /\ unpackState' = 0
      BY <2>1, <2>3, <2>7
    <2>11. ReadInv'
      BY <2>8, <2>9, <2>10 DEF ReadInv
    <2> QED
      BY <2>6, <2>11
  <1>10. CASE Drained
    <2>1. /\ Len(held) = 1 /\ held' = SubSeq(held, 2, Len(held)) /\ outUnderflow' = TRUE
          /\ rdptr' = wrptr /\ remaining' = 0 /\ unpackState' \in 0..3 /\ (SubSlot # 3 => unpackState' = 0)
      BY <1>10 DEF Drained
    <2>2. Layout(held', wrptr) /\ Len(held') = 0 /\ held' = <<>>
      BY <2>1, PlayedOut
    <2>3. HeldInv'
      BY <1>1, <2>2 DEF HeldInv
    <2>4. ReadInv'
      BY <1>1, <2>1, <2>2 DEF ReadInv, Base
    <2> QED
      BY <2>3, <2>4
  <1> QED
    BY <1>5, <1>6, <1>8, <1>9, <1>10, InterruptKinds

\* What the packet in hand may rely on.
LEMMA InterruptHand ==
  ASSUME Aligned, FifoInv, Interrupt
  PROVE  HandInv'
  <1>1. UNCHANGED <<wrptr, outOverflow, hostFlag, buffer, armed, received, pc, loc>>
    BY InterruptKinds
  <1>2. /\ held = <<>> => held' = <<>> /\ header' = header
        /\ held' # <<>> => held'[1].at \in Nat
        /\ held' # <<>> /\ held'[1].at > wrptr =>
             held[1].at > wrptr /\ held[1].at <= held'[1].at /\ rdptr <= rdptr'
        /\ held' # <<>> /\ ~(held[1].at > wrptr) => held[1].at <= held'[1].at
        /\ Base <= wrptr => rdptr <= rdptr'
        /\ header'[wrptr] = header[wrptr]
    BY InterruptForward
  <1>3. HandInv /\ rdptr \in Nat /\ rdptr' \in Nat /\ wrptr \in Nat
    <2> QED
      BY InterruptForward, ReaderInside, HeldFacts DEF FifoInv
  <1>4. ASSUME NEW a, AtWrite(a) PROVE AtWrite(a)'
    BY <1>1, <1>2, <1>4 DEF AtWrite
  <1>5. ASSUME NEW len \in 0 .. MaxPacket, Room(len) PROVE RoomFor(held', wrptr, len)
    <2>1. PacketSpace(len) \in Int
      BY SpaceBounds
    <2> QED
      BY <1>2, <1>5, <2>1, RoomStays
  <1>6. header[buffer] \in 0 .. MaxPacket
    BY FirstSlot DEF FifoInv, Inv, PlaceInv
  <1>7. loc' \in [rd : Addresses, wr : Slots, len : 0 .. MaxPacket, released : Slots]
        /\ pc' \in {"poll", "commit", "space"} /\ loc.len \in 0 .. MaxPacket
        /\ loc.rd \in Addresses
    BY <1>1, <1>3 DEF HandInv
  <1>8. ASSUME armed' # NoAddr
        PROVE  /\ AtWrite(armed)' /\ AtWrite(buffer)'
               /\ held' # <<>> /\ Ahead(held[1])' => wrptr' + MAX_DEVICE_AUD_PACKET_SIZE_OUT <= rdptr'
    <2>1. /\ AtWrite(armed) /\ AtWrite(buffer)
          /\ held # <<>> /\ Ahead(held[1]) => wrptr + MAX_DEVICE_AUD_PACKET_SIZE_OUT <= rdptr
      BY <1>1, <1>3, <1>8 DEF HandInv
    <2>2. MAX_DEVICE_AUD_PACKET_SIZE_OUT \in Int
      BY Sizes
    <2>3. AtWrite(armed)' /\ AtWrite(buffer)'
      BY <1>1, <2>1, <1>4
    <2>4. ASSUME held' # <<>>, held'[1].at > wrptr
          PROVE  wrptr + MAX_DEVICE_AUD_PACKET_SIZE_OUT <= rdptr'
      <3>1. wrptr + MAX_DEVICE_AUD_PACKET_SIZE_OUT <= rdptr /\ rdptr <= rdptr'
        BY <1>2, <2>1, <2>4 DEF Ahead
      <3> QED
        BY <1>3, <2>2, <3>1
    <2> QED
      BY <1>1, <2>3, <2>4 DEF Ahead
  <1>9. ASSUME received' # NoAddr PROVE AtWrite(buffer)' /\ Room(received)'
    <2>1. AtWrite(buffer) /\ Room(received)
      BY <1>1, <1>3, <1>9 DEF HandInv
    <2>2. received \in 0 .. MaxPacket
      BY <1>1, <1>9 DEF FifoInv, Inv, PlaceInv
    <2>3. RoomFor(held', wrptr, received)
      BY <1>5, <2>1, <2>2
    <2> QED
      BY <1>1, <1>4, <2>1, <2>3 DEF Room
  <1>10. ASSUME hostFlag' PROVE AtWrite(buffer)' /\ Room(header[buffer])'
    <2>1. AtWrite(buffer) /\ Room(header[buffer])
      BY <1>1, <1>3, <1>10 DEF HandInv
    <2>2. RoomFor(held', wrptr, header[buffer])
      BY <1>5, <1>6, <2>1
    <2>3. header'[buffer] = header[buffer]
      BY <1>2, <2>1 DEF AtWrite
    <2> QED
      BY <1>1, <1>4, <2>1, <2>2, <2>3 DEF Room
  <1>11. ASSUME pc' = "commit"
         PROVE /\ loc'.wr = wrptr' /\ AtWrite(loc.released)' /\ Room(loc.len)'
               /\ loc'.released = wrptr' => header'[wrptr'] = loc'.len
               /\ held' # <<>> /\ Ahead(held[1])' =>
                    wrptr' + PacketSpace(loc'.len) < loc'.rd /\ loc'.rd <= rdptr'
               /\ Base' <= wrptr' /\ wrptr' + PacketSpace(loc'.len) >= fifoEnd => 0 < loc'.rd /\ loc'.rd <= rdptr'
    <2>1. /\ loc.wr = wrptr /\ AtWrite(loc.released) /\ Room(loc.len)
          /\ loc.released = wrptr => header[wrptr] = loc.len
          /\ held # <<>> /\ Ahead(held[1]) => wrptr + PacketSpace(loc.len) < loc.rd /\ loc.rd <= rdptr
          /\ Base <= wrptr /\ wrptr + PacketSpace(loc.len) >= fifoEnd => 0 < loc.rd /\ loc.rd <= rdptr
      BY <1>1, <1>3, <1>11 DEF HandInv
    <2>2. AtWrite(loc.released)'
      BY <1>1, <1>4, <2>1
    <2>3. RoomFor(held', wrptr, loc.len)
      BY <1>5, <1>7, <2>1
    <2>4. loc.rd \in Int /\ PacketSpace(loc.len) \in Nat /\ fifoEnd \in Int
      BY <1>7, SpaceBounds, Sizes DEF Addresses
    <2>5. ASSUME held' # <<>>, held'[1].at > wrptr
          PROVE  wrptr + PacketSpace(loc.len) < loc.rd /\ loc.rd <= rdptr'
      <3>1. wrptr + PacketSpace(loc.len) < loc.rd /\ loc.rd <= rdptr /\ rdptr <= rdptr'
        BY <1>2, <2>1, <2>5 DEF Ahead
      <3> QED
        BY <1>3, <2>4, <3>1
    <2>6. ASSUME wrptr + PacketSpace(loc.len) >= fifoEnd
          PROVE  0 < loc.rd /\ loc.rd <= rdptr'
      <3>1. Base <= wrptr
        <4>1. CASE held = <<>>
          BY <1>3, <4>1 DEF Base
        <4>2. CASE held # <<>>
          <5>1. held[1].at \in Nat /\ held[1].at <= fifoEnd - 4
            BY <4>2, FirstFacts
          <5>2. held[1].at > wrptr => wrptr + PacketSpace(loc.len) < held[1].at
            BY <2>1, <4>2 DEF Room, RoomFor
          <5>3. ~(held[1].at > wrptr)
            BY <1>3, <2>4, <2>6, <5>1, <5>2
          <5> QED
            BY <1>3, <4>2, <5>1, <5>3 DEF Base
        <4> QED
          BY <4>1, <4>2
      <3>2. 0 < loc.rd /\ loc.rd <= rdptr /\ rdptr <= rdptr'
        BY <1>2, <2>1, <2>6, <3>1
      <3> QED
        BY <1>3, <2>4, <3>2
    <2> QED
      BY <1>1, <1>2, <2>1, <2>2, <2>3, <2>5, <2>6 DEF Room, Ahead
  <1>12. ASSUME pc' = "space"
         PROVE /\ loc'.wr = wrptr'
               /\ held' # <<>> /\ Ahead(held[1])' => wrptr' < loc'.rd /\ loc'.rd <= rdptr'
    <2>1. /\ loc.wr = wrptr
          /\ held # <<>> /\ Ahead(held[1]) => wrptr < loc.rd /\ loc.rd <= rdptr
      BY <1>1, <1>3, <1>12 DEF HandInv
    <2>2. loc.rd \in Int
      BY <1>7, Sizes DEF Addresses
    <2>3. ASSUME held' # <<>>, held'[1].at > wrptr
          PROVE  wrptr < loc.rd /\ loc.rd <= rdptr'
      <3>1. wrptr < loc.rd /\ loc.rd <= rdptr /\ rdptr <= rdptr'
        BY <1>2, <2>1, <2>3 DEF Ahead
      <3> QED
        BY <1>3, <2>2, <3>1
    <2> QED
      BY <1>1, <2>1, <2>3 DEF Ahead
  <1> QED
    BY <1>7, <1>8, <1>9, <1>10, <1>11, <1>12 DEF HandInv
-----------------------------------------------------------------------------
(***************************************************************************)
(* The steps of the other actors.                                          *)
(***************************************************************************)
\* Where the length words of the packets are nothing else is written.
LEMMA HeaderPlaces ==
  ASSUME Aligned, FifoInv, NEW i \in 1..Len(held), NEW a, AtWrite(a)
  PROVE  /\ held[i].at # a /\ held[i].at \in Addresses /\ a = wrptr /\ held # <<>>
         /\ i > 1 \/ outUnderflow => header[held[i].at] = held[i].len
  <1>1. held # <<>>
    BY HeldFacts
  <1>2. a = wrptr
    BY <1>1 DEF AtWrite
  <1>3. held[i].at # wrptr /\ held[i].at \in Slots
    BY HeldFacts, PacketFacts
  <1>4. held[i].at \in Addresses
    BY <1>3, FirstSlot
  <1>5. i > 1 \/ outUnderflow => header[held[i].at] = held[i].len
    BY DEF FifoInv, HeldInv
  <1> QED
    BY <1>1, <1>2, <1>3, <1>4, <1>5

\* The read pointer is an address, also where the last packet of the FIFO ends.
LEMMA RdptrAddress == ASSUME Aligned, FifoInv PROVE rdptr \in Addresses
  <1>1. /\ MaxPacket \in Nat /\ fifoEnd = 5 * (MaxPacket + 4) /\ ArrayBytes = 6 * (MaxPacket + 4)
        /\ MAX_DEVICE_AUD_PACKET_SIZE_OUT = MaxPacket + 4
    BY Sizes
  <1>2. rdptr \in Nat
    BY ReaderInside
  <1>3. CASE held = <<>>
    <2>1. rdptr = wrptr /\ wrptr \in Slots
      BY <1>3, ReaderInside, HeldFacts
    <2> QED
      BY <2>1, FirstSlot
  <1>4. CASE held # <<>>
    <2>1. /\ rdptr <= End(held[1]) /\ End(held[1]) \in Nat /\ End(held[1]) <= held[1].at + MaxPacket + 4
          /\ held[1].at <= fifoEnd - 4 /\ held[1].at \in Nat
      BY <1>4, FirstFacts, ReaderInside
    <2>2. rdptr <= 7 * (MaxPacket + 4)
      BY <1>1, <1>2, <2>1
    <2> QED
      BY <1>1, <1>2, <2>2 DEF Addresses
  <1> QED
    BY <1>3, <1>4

\* A host that keeps its pace leaves room.
LEMMA PacedRoom ==
  ASSUME Aligned, HostPaced, FifoInv, NEW len \in 0 .. MaxPacket, Filled + 4 + len <= MaxBacklog
  PROVE  Room(len)
  <1> SUFFICES ASSUME held # <<>>
               PROVE  IF held[1].at > wrptr THEN wrptr + PacketSpace(len) < held[1].at
                      ELSE wrptr + PacketSpace(len) >= fifoEnd => held[1].at > 0
    BY DEF Room, RoomFor
  <1>1. /\ MaxPacket \in Nat /\ fifoEnd = 5 * (MaxPacket + 4) /\ BUFF_SIZE_OUT = fifoEnd
        /\ MAX_DEVICE_AUD_PACKET_SIZE_OUT = MaxPacket + 4
    BY Sizes
  <1>2. MaxBacklog \in Nat /\ MaxBacklog + MaxPacket + 8 <= fifoEnd
    BY <1>1, BacklogAssumption DEF HostPaced
  <1>3. PacketSpace(len) \in Nat /\ PacketSpace(len) <= len + 7
    BY SpaceBounds
  <1> DEFINE at == held[1].at  e == End(held[1])
  <1>4. /\ at \in Nat /\ e \in Nat /\ e <= at + MaxPacket + 4
        /\ at > wrptr \/ e <= wrptr
    BY FirstFacts
  <1>5. rdptr \in Nat /\ at <= rdptr /\ rdptr <= e /\ wrptr \in Nat
    BY ReaderInside, HeldFacts
  <1> HIDE DEF at, e
  <1>6. CASE at > wrptr
    <2>1. Filled = wrptr - rdptr + fifoEnd
      BY <1>1, <1>4, <1>5, <1>6 DEF Filled
    <2>2. wrptr - rdptr + fifoEnd + 4 + len <= MaxBacklog
      BY <2>1
    <2>3. wrptr + len + 7 < at
      BY <1>1, <1>2, <1>4, <1>5, <2>2
    <2>4. wrptr + PacketSpace(len) < at
      BY <1>3, <1>4, <1>5, <2>3
    <2> QED
      BY <1>6, <2>4 DEF at
  <1>7. CASE ~(at > wrptr)
    <2>1. Filled = wrptr - rdptr
      BY <1>4, <1>5, <1>7 DEF Filled
    <2>2. wrptr - rdptr + 4 + len <= MaxBacklog
      BY <2>1
    <2>3. ASSUME wrptr + PacketSpace(len) >= fifoEnd PROVE at > 0
      BY <1>1, <1>2, <1>3, <1>4, <1>5, <2>2, <2>3
    <2> QED
      BY <1>7, <2>3 DEF at
  <1> QED
    BY <1>6, <1>7

\* XUD has received a packet: it is written at the write pointer, where there is room.
LEMMA HostPacketFifo ==
  ASSUME Aligned, HostPaced, FifoInv, NEW len \in Lens, HostPacket(len)
  PROVE  FifoInv'
  <1>1. len \in 0 .. MaxPacket
    BY LensAssumption
  <1>2. Inv'
    BY HostPacketPlace DEF FifoInv
  <1>3. /\ armed # NoAddr /\ received' = len /\ armed' = NoAddr
        /\ Filled + 4 + len <= MaxBacklog
        /\ header' = [a \in Addresses |-> IF a \in armed + 4 .. armed + 3 + len THEN 0 ELSE header[a]]
        /\ UNCHANGED <<wrptr, rdptr, remaining, unpackState, outUnderflow, outOverflow, buffer, hostFlag,
                       pc, loc, held>>
    BY DEF HostPacket, readVars
  <1>4. AtWrite(armed) /\ AtWrite(buffer) /\ ~hostFlag /\ pc = "poll"
    BY <1>3 DEF FifoInv, Inv, InOnePlace, HandInv
  <1>5. Room(len)
    BY <1>1, <1>3, PacedRoom
  <1>6. ASSUME NEW i \in 1..Len(held), i > 1 \/ outUnderflow
        PROVE  header'[held[i].at] = held[i].len
    <2>1. held[i].at \in Addresses /\ armed = wrptr /\ held # <<>> /\ header[held[i].at] = held[i].len
      BY <1>4, <1>6, HeaderPlaces
    <2>2. held[i].at \notin armed + 4 .. armed + 3 + len
      <3>1. wrptr \in Slots /\ wrptr \in Nat /\ Layout(held, wrptr) /\ Len(held) \in Nat
        BY HeldFacts
      <3>2. /\ held[i].at \in Nat /\ End(held[i]) \in Int /\ held[i].at + 4 < End(held[i])
            /\ held[i].at > wrptr \/ End(held[i]) <= wrptr
        BY <3>1, PacketFacts
      <3>3. PacketSpace(len) \in Nat /\ len + 4 <= PacketSpace(len) /\ len \in Nat
        BY <1>1, SpaceBounds, Sizes
      <3>4. CASE held[i].at > wrptr
        <4>1. held[1].at > wrptr /\ held[1].at <= held[i].at
          <5>1. CASE i = 1
            BY <3>2, <3>4, <5>1
          <5>2. CASE i # 1
            <6>1. 1 \in 1..Len(held) /\ 1 < i
              BY <3>1, <5>2
            <6>2. held[1].at > wrptr /\ End(held[1]) <= held[i].at
              BY <3>1, <3>4, <6>1, PairFacts
            <6>3. held[1].at \in Nat /\ End(held[1]) \in Nat /\ held[1].at + 4 < End(held[1])
              BY <2>1, FirstFacts
            <6> QED
              BY <3>2, <6>2, <6>3
          <5> QED
            BY <5>1, <5>2
        <4>2. wrptr + PacketSpace(len) < held[1].at /\ held[1].at \in Nat
          BY <1>5, <2>1, <4>1, FirstFacts DEF Room, RoomFor
        <4> QED
          BY <2>1, <3>1, <3>2, <3>3, <4>1, <4>2
      <3>5. CASE ~(held[i].at > wrptr)
        BY <2>1, <3>1, <3>2, <3>5
      <3> QED
        BY <3>4, <3>5
    <2> QED
      BY <1>3, <2>1, <2>2
  <1>7. HeldInv'
    BY <1>3, <1>6 DEF FifoInv, HeldInv
  <1>8. ReadInv'
    BY <1>3 DEF FifoInv, ReadInv, Base
  <1>9. Room(len)' /\ AtWrite(buffer)'
    BY <1>3, <1>4, <1>5 DEF Room, AtWrite
  <1>10. HandInv'
    <2>1. HandInv
      BY DEF FifoInv
    <2> QED
      BY <1>3, <1>4, <1>9, <2>1 DEF HandInv
  <1> QED
    BY <1>2, <1>7, <1>8, <1>10 DEF FifoInv

\* XUA_Buffer_Ep writes its length in front of it.
LEMMA EpReceiveFifo ==
  ASSUME Aligned, FifoInv, EpReceive
  PROVE  FifoInv'
  <1>1. Inv'
    BY EpReceivePlace DEF FifoInv
  <1>2. /\ received # NoAddr /\ header' = [header EXCEPT ![buffer] = received] /\ hostFlag' = TRUE
        /\ received' = NoAddr
        /\ UNCHANGED <<wrptr, rdptr, remaining, unpackState, outUnderflow, outOverflow, buffer, armed,
                       pc, loc, held>>
    BY DEF EpReceive, readVars
  <1>3. AtWrite(buffer) /\ Room(received) /\ armed = NoAddr /\ pc = "poll" /\ HandInv
    BY <1>2 DEF FifoInv, Inv, InOnePlace, HandInv
  <1>4. header \in [Addresses -> 0 .. MaxPacket] /\ buffer \in Addresses
    BY FirstSlot DEF FifoInv, Inv, PlaceInv
  <1>5. ASSUME NEW i \in 1..Len(held), i > 1 \/ outUnderflow
        PROVE  header'[held[i].at] = held[i].len
    <2>1. held[i].at # buffer /\ held[i].at \in Addresses /\ header[held[i].at] = held[i].len
      <3>1. buffer = wrptr /\ held[i].at # buffer
        BY <1>3, HeaderPlaces
      <3> QED
        BY <1>3, <1>5, <3>1, HeaderPlaces
    <2> QED
      BY <1>2, <1>4, <2>1
  <1>6. HeldInv'
    BY <1>2, <1>5 DEF FifoInv, HeldInv
  <1>7. ReadInv'
    BY <1>2 DEF FifoInv, ReadInv, Base
  <1>8. Room(header[buffer])' /\ AtWrite(buffer)'
    <2>1. header'[buffer] = received
      BY <1>2, <1>4
    <2> QED
      BY <1>2, <1>3, <2>1 DEF Room, AtWrite
  <1>9. HandInv'
    BY <1>2, <1>3, <1>8 DEF HandInv
  <1> QED
    BY <1>1, <1>6, <1>7, <1>9 DEF FifoInv

\* decouple reads the pointers and the length.
LEMMA TakePacketFifo ==
  ASSUME Aligned, FifoInv, TakePacket
  PROVE  FifoInv'
  <1>1. Inv'
    BY TakePacketPlace DEF FifoInv
  <1>2. /\ hostFlag /\ hostFlag' = FALSE /\ pc = "poll" /\ pc' = "commit"
        /\ loc' = [rd |-> rdptr, wr |-> wrptr, len |-> header[buffer], released |-> buffer]
        /\ UNCHANGED <<wrptr, rdptr, remaining, unpackState, outUnderflow, outOverflow, header, buffer, armed,
                       received, held>>
    BY DEF TakePacket, readVars, usbVars
  <1>3. AtWrite(buffer) /\ Room(header[buffer]) /\ armed = NoAddr /\ received = NoAddr
    BY <1>2 DEF FifoInv, Inv, InOnePlace, HandInv
  <1>4. HeldInv'
    BY <1>2 DEF FifoInv, HeldInv
  <1>5. ReadInv'
    BY <1>2 DEF FifoInv, ReadInv, Base
  <1> DEFINE len == header[buffer]
  <1>6. len \in 0 .. MaxPacket /\ buffer \in Slots /\ wrptr \in Slots
    BY FirstSlot DEF FifoInv, Inv, PlaceInv
  <1>7. /\ MaxPacket \in Nat /\ fifoEnd = 5 * (MaxPacket + 4) /\ ArrayBytes = 6 * (MaxPacket + 4)
        /\ MAX_DEVICE_AUD_PACKET_SIZE_OUT = MaxPacket + 4
    BY Sizes
  <1>8. wrptr \in Nat /\ wrptr <= fifoEnd - 4 /\ rdptr \in Nat
    BY HeldFacts, ReaderInside
  <1>9. PacketSpace(len) \in Nat /\ PacketSpace(len) <= MaxPacket + 4
    BY <1>6, SpaceBounds
  <1>10. rdptr \in Addresses
    BY RdptrAddress
  <1>11. held # <<>> /\ held[1].at > wrptr => wrptr + PacketSpace(len) < rdptr
    <2> SUFFICES ASSUME held # <<>>, held[1].at > wrptr PROVE wrptr + PacketSpace(len) < rdptr
      OBVIOUS
    <2>1. wrptr + PacketSpace(len) < held[1].at /\ held[1].at <= rdptr /\ held[1].at \in Nat
      BY <1>3, FirstFacts, ReaderInside DEF Room, RoomFor
    <2> HIDE DEF len
    <2> QED
      BY <1>8, <1>9, <2>1
  <1>12. Base <= wrptr /\ wrptr + PacketSpace(len) >= fifoEnd => 0 < rdptr
    <2> SUFFICES ASSUME Base <= wrptr, wrptr + PacketSpace(len) >= fifoEnd PROVE 0 < rdptr
      OBVIOUS
    <2>1. CASE held = <<>>
      <3>1. rdptr = wrptr
        BY <2>1, ReaderInside
      <3> HIDE DEF len
      <3> QED
        BY <1>7, <1>8, <1>9, <3>1
    <2>2. CASE held # <<>>
      <3>1. held[1].at <= wrptr /\ held[1].at <= rdptr /\ held[1].at \in Nat
        BY <2>2, FirstFacts, ReaderInside DEF Base
      <3>2. held[1].at > 0
        BY <1>3, <1>8, <2>2, <3>1 DEF Room, RoomFor
      <3> QED
        BY <1>8, <3>1, <3>2
    <2> QED
      BY <2>1, <2>2
  <1>13. /\ loc'.wr = wrptr /\ loc'.released = buffer /\ loc'.len = len /\ loc'.rd = rdptr
         /\ loc' \in [rd : Addresses, wr : Slots, len : 0 .. MaxPacket, released : Slots]
    <2> HIDE DEF len
    <2>1. loc' = [rd |-> rdptr, wr |-> wrptr, len |-> len, released |-> buffer]
      BY <1>2 DEF len
    <2> QED
      BY <1>6, <1>10, <2>1
  <1>14. AtWrite(loc.released)' /\ Room(loc.len)'
    BY <1>2, <1>3, <1>13 DEF AtWrite, Room
  <1>15. loc'.released = wrptr' => header'[wrptr'] = loc'.len
    BY <1>2, <1>13
  <1>16. /\ held' # <<>> /\ Ahead(held[1])' => wrptr' + PacketSpace(loc'.len) < loc'.rd /\ loc'.rd <= rdptr'
         /\ Base' <= wrptr' /\ wrptr' + PacketSpace(loc'.len) >= fifoEnd => 0 < loc'.rd /\ loc'.rd <= rdptr'
    <2> HIDE DEF len
    <2>1. /\ held' # <<>> /\ Ahead(held[1])' => wrptr + PacketSpace(len) < rdptr
          /\ Base' = Base
      BY <1>2, <1>11 DEF Ahead, Base
    <2>2. rdptr <= rdptr
      BY <1>8
    <2> QED
      BY <1>2, <1>12, <1>13, <2>1, <2>2
  <1>17. HandInv'
    BY <1>2, <1>3, <1>13, <1>14, <1>15, <1>16 DEF HandInv
  <1> QED
    BY <1>1, <1>4, <1>5, <1>17 DEF FifoInv

\* The write pointer moves over the packet, ...
LEMMA AcceptFifo ==
  ASSUME Aligned, FifoInv, Commit, loc.len >= FrameBytes, loc.released = loc.wr
  PROVE  FifoInv'
  <1>1. Inv'
    BY CommitPlace DEF FifoInv
  <1> DEFINE len == loc.len  w == wrptr  v == Wrap(w + PacketSpace(len))  p == Packet(w, len)
             s == Append(held, p)
  <1>2. /\ loc.wr = w /\ loc.released = w /\ Room(len) /\ header[w] = len
        /\ held # <<>> /\ held[1].at > w => w + PacketSpace(len) < loc.rd /\ loc.rd <= rdptr
        /\ Base <= w /\ w + PacketSpace(len) >= fifoEnd => 0 < loc.rd /\ loc.rd <= rdptr
        /\ loc \in [rd : Addresses, wr : Slots, len : 0 .. MaxPacket, released : Slots]
    BY DEF Commit, FifoInv, HandInv, Ahead
  <1>3. /\ wrptr' = v /\ loc' = [loc EXCEPT !.wr = v] /\ held' = s /\ pc' = "space"
        /\ UNCHANGED <<header, rdptr, remaining, unpackState, outUnderflow, outOverflow, hostFlag,
                       buffer, armed, received>>
    BY <1>2 DEF Commit, readVars, usbVars
  <1>4. armed = NoAddr /\ received = NoAddr /\ ~hostFlag
    BY DEF Commit, FifoInv, Inv, InOnePlace
  <1>5. w \in Slots /\ w \in Nat /\ w <= fifoEnd - 4 /\ Layout(held, w) /\ Len(held) \in Nat
        /\ (held = <<>> <=> Len(held) = 0)
    BY HeldFacts
  <1>6. len \in FrameBytes .. MaxPacket /\ len \in 0 .. MaxPacket /\ loc.rd \in Addresses
    <2>1. FrameBytes \in Nat /\ MaxPacket \in Nat
      BY Sizes
    <2>2. loc.len \in 0 .. MaxPacket /\ loc.rd \in Addresses
      BY <1>2
    <2> QED
      BY <2>1, <2>2
  <1>7. RoomFor(held, w, len)
    BY <1>2 DEF Room
  <1>8. /\ v \in Slots /\ Layout(s, v)
        /\ v = w + PacketSpace(len) \/ (v = 0 /\ w + PacketSpace(len) >= fifoEnd)
    <2> HIDE DEF len, v
    <2>1. v = Wrap(w + PacketSpace(len))
      BY DEF v
    <2> QED
      BY <1>5, <1>6, <1>7, <2>1, AppendLayout
  <1>9. Len(s) = Len(held) + 1 /\ s # <<>> /\ s[Len(held) + 1] = p
        /\ \A i \in 1..Len(held) : s[i] = held[i]
    <2>1. held \in Seq(Packets) /\ p \in Packets
      <3> HIDE DEF w, len
      <3> QED
        BY <1>5, <1>6 DEF Layout, Packets, Packet
    <2> HIDE DEF p
    <2> QED
      BY <2>1, AppendProperties
  <1>10. p.at = w /\ p.len = len
    BY DEF Packet
  <1>11. held # <<>> => s[1] = held[1]
    BY <1>5, <1>9
  <1>12. held = <<>> => s[1] = p
    BY <1>5, <1>9
  <1>13. ASSUME NEW i \in 1..Len(s), i > 1 \/ outUnderflow
         PROVE  header[s[i].at] = s[i].len
    <2>1. CASE i = Len(held) + 1
      BY <1>2, <1>9, <1>10, <2>1
    <2>2. CASE i # Len(held) + 1
      <3>1. i \in 1..Len(held)
        <4>1. Len(s) = Len(held) + 1
          BY <1>9
        <4> HIDE DEF s
        <4> QED
          BY <1>5, <2>2, <4>1
      <3>2. s[i] = held[i]
        BY <1>9, <3>1
      <3>3. header[held[i].at] = held[i].len
        BY <1>13, <3>1 DEF FifoInv, HeldInv
      <3> QED
        BY <3>2, <3>3
    <2> QED
      BY <2>1, <2>2
  <1>14. HeldInv'
    <2> HIDE DEF s, v
    <2> QED
      BY <1>3, <1>8, <1>13 DEF HeldInv
  <1>15. ReadInv'
    <2> HIDE DEF s, v
    <2>1. ReadInv
      BY DEF FifoInv
    <2>2. outUnderflow' => remaining' = 0 /\ rdptr' = Base'
      <3>1. CASE held = <<>>
        BY <1>3, <1>9, <1>10, <1>12, <2>1, <3>1 DEF ReadInv, Base
      <3>2. CASE held # <<>>
        BY <1>3, <1>9, <1>11, <2>1, <3>2 DEF ReadInv, Base
      <3> QED
        BY <3>1, <3>2
    <2>3. ~outUnderflow' =>
       /\ held' # <<>> /\ remaining' \in FrameBytes .. held'[1].len
       /\ LET played == held'[1].len - remaining'
          IN Whole(played) /\ unpackState' = Unpacked(played) /\ rdptr' = held'[1].at + 4 + Advanced(played)
      BY <1>3, <1>9, <1>11, <2>1 DEF ReadInv
    <2>4. outUnderflow' \in BOOLEAN /\ unpackState' \in 0..3 /\ (SubSlot # 3 => unpackState' = 0)
      BY <1>3, <2>1 DEF ReadInv
    <2> QED
      BY <2>2, <2>3, <2>4 DEF ReadInv
  <1>16. /\ loc'.wr = v /\ loc'.rd = loc.rd
         /\ loc' \in [rd : Addresses, wr : Slots, len : 0 .. MaxPacket, released : Slots]
    <2> HIDE DEF v
    <2> QED
      BY <1>2, <1>3, <1>8
  <1>17. ASSUME s[1].at > v PROVE v < loc.rd /\ loc.rd <= rdptr
    <2>1. PacketSpace(len) \in Nat /\ PacketSpace(len) >= 4 /\ fifoEnd \in Int /\ loc.rd \in Int /\ rdptr \in Nat
      <3>1. len \in Nat /\ fifoEnd \in Int /\ rdptr \in Nat /\ loc.rd \in Int
        BY <1>6, Sizes, ReaderInside DEF Addresses
      <3>2. PacketSpace(len) \in Nat /\ len + 4 <= PacketSpace(len)
        BY <1>6, SpaceBounds
      <3> HIDE DEF len
      <3> QED
        BY <3>1, <3>2
    <2>2. CASE v = w + PacketSpace(len)
      <3>1. held # <<>>
        <4> SUFFICES ASSUME held = <<>> PROVE FALSE
          OBVIOUS
        <4>1. s[1].at = w
          BY <1>10, <1>12
        <4> HIDE DEF s, v, len, w
        <4> QED
          BY <1>5, <1>17, <2>1, <2>2, <4>1
      <3>2. s[1] = held[1] /\ held[1].at \in Nat
        BY <1>11, <3>1, FirstFacts
      <3>3. held[1].at > w
        <4> HIDE DEF s, v, len, w
        <4> QED
          BY <1>5, <1>17, <2>1, <2>2, <3>2
      <3>4. w + PacketSpace(len) < loc.rd /\ loc.rd <= rdptr
        BY <1>2, <3>1, <3>3
      <3> HIDE DEF s, v, len, w
      <3> QED
        BY <2>2, <3>4
    <2>3. CASE v = 0 /\ w + PacketSpace(len) >= fifoEnd
      <3>1. Base <= w
        <4>1. CASE held = <<>>
          BY <1>5, <4>1 DEF Base
        <4>2. CASE held # <<>>
          <5>1. held[1].at \in Nat /\ held[1].at <= fifoEnd - 4
            BY <4>2, FirstFacts
          <5>2. held[1].at > w => w + PacketSpace(len) < held[1].at
            BY <1>7, <4>2 DEF RoomFor
          <5>3. ~(held[1].at > w)
            <6> HIDE DEF s, v, len, w
            <6> QED
              BY <1>5, <2>1, <2>3, <5>1, <5>2
          <5> QED
            BY <1>5, <4>2, <5>1, <5>3 DEF Base
        <4> QED
          BY <4>1, <4>2
      <3>2. 0 < loc.rd /\ loc.rd <= rdptr
        BY <1>2, <2>3, <3>1
      <3> HIDE DEF s, v, len, w
      <3> QED
        BY <2>3, <3>2
    <2> QED
      BY <1>8, <2>2, <2>3
  <1>18. HandInv'
    <2> HIDE DEF s, v, len, w
    <2> QED
      BY <1>3, <1>4, <1>16, <1>17 DEF HandInv, Ahead
  <1> QED
    BY <1>1, <1>14, <1>15, <1>18 DEF FifoInv

\* ... or it is discarded ...
LEMMA DiscardFifo ==
  ASSUME Aligned, FifoInv, Commit, ~(loc.len >= FrameBytes /\ loc.released = loc.wr)
  PROVE  FifoInv'
  <1>1. Inv'
    BY CommitPlace DEF FifoInv
  <1>2. /\ loc.wr = wrptr /\ AtWrite(loc.released)
        /\ held # <<>> /\ Ahead(held[1]) => wrptr + PacketSpace(loc.len) < loc.rd /\ loc.rd <= rdptr
        /\ loc \in [rd : Addresses, wr : Slots, len : 0 .. MaxPacket, released : Slots]
    BY DEF Commit, FifoInv, HandInv
  <1>3. /\ header' = [header EXCEPT ![loc.released] = 0] /\ pc' = "space"
        /\ UNCHANGED <<wrptr, loc, held, rdptr, remaining, unpackState, outUnderflow, outOverflow, hostFlag,
                       buffer, armed, received>>
    BY DEF Commit, readVars, usbVars
  <1>4. armed = NoAddr /\ received = NoAddr /\ ~hostFlag
    BY DEF Commit, FifoInv, Inv, InOnePlace
  <1>5. ASSUME NEW i \in 1..Len(held), i > 1 \/ outUnderflow
        PROVE  header'[held[i].at] = held[i].len
    <2>1. held[i].at # loc.released /\ held[i].at \in Addresses /\ header[held[i].at] = held[i].len
      <3>1. loc.released = wrptr /\ held[i].at # loc.released
        BY <1>2, HeaderPlaces
      <3> QED
        BY <1>2, <1>5, <3>1, HeaderPlaces
    <2>2. header \in [Addresses -> 0 .. MaxPacket]
      BY DEF FifoInv, Inv, PlaceInv
    <2> QED
      BY <1>3, <2>1, <2>2
  <1>6. HeldInv'
    BY <1>3, <1>5 DEF FifoInv, HeldInv
  <1>7. ReadInv'
    BY <1>3 DEF FifoInv, ReadInv, Base
  <1>8. ASSUME held # <<>>, Ahead(held[1]) PROVE wrptr < loc.rd /\ loc.rd <= rdptr
    <2>1. PacketSpace(loc.len) \in Nat /\ wrptr \in Nat /\ loc.rd \in Int
      <3>1. loc.len \in 0 .. MaxPacket /\ loc.rd \in Addresses
        BY <1>2
      <3> QED
        BY <3>1, SpaceBounds, HeldFacts DEF Addresses
    <2>2. wrptr + PacketSpace(loc.len) < loc.rd /\ loc.rd <= rdptr
      BY <1>2, <1>8
    <2> QED
      BY <2>1, <2>2
  <1>9. held' # <<>> /\ Ahead(held[1])' => wrptr' < loc'.rd /\ loc'.rd <= rdptr'
    BY <1>3, <1>8 DEF Ahead
  <1>10. HandInv'
    BY <1>2, <1>3, <1>4, <1>9 DEF HandInv
  <1> QED
    BY <1>1, <1>6, <1>7, <1>10 DEF FifoInv

\* ... and the next is armed where there is room for a whole one.
LEMMA ArmOrOverflowFifo ==
  ASSUME Aligned, FifoInv, ArmOrOverflow
  PROVE  FifoInv'
  <1>1. Inv'
    BY ArmOrOverflowPlace DEF FifoInv
  <1>2. pc = "space" /\ pc' = "poll" /\ loc' = NoLocals
        /\ UNCHANGED <<wrptr, rdptr, remaining, unpackState, outUnderflow, hostFlag, header, received, held>>
    BY DEF ArmOrOverflow, readVars
  <1>3. /\ loc.wr = wrptr
        /\ held # <<>> /\ Ahead(held[1]) => wrptr < loc.rd /\ loc.rd <= rdptr
        /\ loc \in [rd : Addresses, wr : Slots, len : 0 .. MaxPacket, released : Slots]
    BY <1>2 DEF FifoInv, HandInv
  <1>4. armed = NoAddr /\ received = NoAddr /\ ~hostFlag
    BY <1>2 DEF FifoInv, Inv, InOnePlace
  <1>5. HeldInv'
    BY <1>2 DEF FifoInv, HeldInv
  <1>6. ReadInv'
    BY <1>2 DEF FifoInv, ReadInv, Base
  <1>7. loc' \in [rd : Addresses, wr : Slots, len : 0 .. MaxPacket, released : Slots]
    <2>1. 0 \in Slots /\ 0 \in Addresses /\ 0 \in 0 .. MaxPacket
      BY FirstSlot, PacketAssumption DEF fifoStart
    <2> QED
      BY <1>2, <2>1 DEF NoLocals
  <1> DEFINE space == IF rdptr = fifoStart THEN fifoEnd - wrptr ELSE loc.rd - loc.wr
  <1>8. CASE EnoughSpace(space)
    <2>1. buffer' = wrptr /\ armed' = wrptr
      BY <1>3, <1>8 DEF ArmOrOverflow
    <2>2. AtWrite(armed)' /\ AtWrite(buffer)'
      BY <1>2, <2>1 DEF AtWrite
    <2>3. ASSUME held # <<>>, Ahead(held[1]) PROVE wrptr + MAX_DEVICE_AUD_PACKET_SIZE_OUT <= rdptr
      <3>1. wrptr < loc.rd /\ loc.rd <= rdptr
        BY <1>3, <2>3
      <3>2. wrptr \in Nat /\ rdptr \in Nat /\ loc.rd \in Int
        BY <1>3, HeldFacts, ReaderInside DEF Addresses
      <3>3. fifoStart = 0 /\ MAX_DEVICE_AUD_PACKET_SIZE_OUT \in Int
        BY Sizes
      <3>4. space = loc.rd - wrptr
        BY <1>3, <3>1, <3>2, <3>3
      <3>5. space <= 0 \/ space >= MAX_DEVICE_AUD_PACKET_SIZE_OUT
        BY <1>8 DEF EnoughSpace
      <3> HIDE DEF space
      <3> QED
        BY <3>1, <3>2, <3>3, <3>4, <3>5
    <2>4. held' # <<>> /\ Ahead(held[1])' => wrptr' + MAX_DEVICE_AUD_PACKET_SIZE_OUT <= rdptr'
      BY <1>2, <2>3 DEF Ahead
    <2> QED
      BY <1>1, <1>2, <1>4, <1>5, <1>6, <1>7, <2>2, <2>4 DEF FifoInv, HandInv
  <1>9. CASE ~EnoughSpace(space)
    <2>1. UNCHANGED <<buffer, armed>>
      BY <1>9 DEF ArmOrOverflow
    <2> QED
      BY <1>1, <1>2, <1>4, <1>5, <1>6, <1>7, <2>1 DEF FifoInv, HandInv
  <1> QED
    BY <1>8, <1>9

\* Half of the FIFO is more than a packet.
LEMMA LeaveOverflowFifo ==
  ASSUME Aligned, FifoInv, LeaveOverflow
  PROVE  FifoInv'
  <1>1. Inv'
    BY LeaveOverflowPlace DEF FifoInv
  <1>2. /\ pc = "poll" /\ ~hostFlag /\ outOverflow /\ buffer' = wrptr /\ armed' = wrptr
        /\ UNCHANGED <<wrptr, rdptr, remaining, unpackState, outUnderflow, hostFlag, header, received, pc, loc, held>>
    BY DEF LeaveOverflow, readVars
  <1>3. HeldInv'
    BY <1>2 DEF FifoInv, HeldInv
  <1>4. ReadInv'
    BY <1>2 DEF FifoInv, ReadInv, Base
  <1>5. received = NoAddr
    BY <1>2 DEF FifoInv, Inv, InOnePlace
  <1>6. AtWrite(armed)' /\ AtWrite(buffer)'
    BY <1>2 DEF AtWrite
  <1>7. ASSUME held # <<>>, Ahead(held[1]) PROVE wrptr + MAX_DEVICE_AUD_PACKET_SIZE_OUT <= rdptr
    <2>1. wrptr \in Nat /\ rdptr \in Nat /\ held[1].at <= rdptr /\ held[1].at > wrptr /\ held[1].at \in Nat
      BY <1>7, HeldFacts, FirstFacts, ReaderInside DEF Ahead
    <2>2. ~(rdptr <= wrptr)
      BY <2>1
    <2>3. rdptr - wrptr >= BUFF_SIZE_OUT \div 2
      BY <2>2 DEF LeaveOverflow, HalfFree
    <2>4. /\ MaxPacket \in Nat /\ BUFF_SIZE_OUT = 5 * (MaxPacket + 4)
          /\ MAX_DEVICE_AUD_PACKET_SIZE_OUT = MaxPacket + 4
      BY Sizes
    <2>5. BUFF_SIZE_OUT \div 2 >= MaxPacket + 4 /\ BUFF_SIZE_OUT \div 2 \in Int
      BY <2>4
    <2> QED
      BY <2>1, <2>3, <2>4, <2>5
  <1>8. held' # <<>> /\ Ahead(held[1])' => wrptr' + MAX_DEVICE_AUD_PACKET_SIZE_OUT <= rdptr'
    BY <1>2, <1>7 DEF Ahead
  <1>9. HandInv'
    BY <1>2, <1>5, <1>6, <1>8 DEF FifoInv, HandInv
  <1> QED
    BY <1>1, <1>3, <1>4, <1>9 DEF FifoInv

\* A FIFO without packets.
LEMMA EmptyLayout == ASSUME NEW w PROVE Layout(<<>>, w)
  <1>1. <<>> \in Seq(Packets) /\ Len(<<>>) = 0
    OBVIOUS
  <1>2. 1..Len(<<>>) = {}
    BY <1>1
  <1> QED
    BY <1>1, <1>2 DEF Layout

\* The stream is reset: nothing is left that a packet in hand could meet.
LEMMA ResetFifo ==
  ASSUME Aligned, FifoInv, NEW start, Reset(start)
  PROVE  FifoInv'
  <1>1. Inv'
    BY ResetPlace DEF FifoInv
  <1>2. /\ pc = "poll" /\ held' = <<>> /\ wrptr' = 0 /\ rdptr' = 0 /\ remaining' = 0 /\ outUnderflow' = TRUE
        /\ unpackState' = (IF start THEN 0 ELSE unpackState)
        /\ UNCHANGED <<buffer, hostFlag, received, pc, loc>>
    BY DEF Reset, fifoStart
  <1>3. HeldInv'
    <2>1. 1..Len(held') = {}
      BY <1>2
    <2> QED
      BY <1>2, <2>1, EmptyLayout DEF HeldInv
  <1>4. ReadInv'
    <2>1. unpackState \in 0..3 /\ (SubSlot # 3 => unpackState = 0)
      BY DEF FifoInv, ReadInv
    <2>2. unpackState' \in 0..3 /\ (SubSlot # 3 => unpackState' = 0)
      BY <1>2, <2>1
    <2>3. outUnderflow' \in BOOLEAN /\ outUnderflow'
      BY <1>2
    <2> QED
      BY <1>2, <2>2, <2>3 DEF ReadInv, Base
  <1>5. HandInv'
    <2>1. loc \in [rd : Addresses, wr : Slots, len : 0 .. MaxPacket, released : Slots]
      BY DEF FifoInv, HandInv
    <2> QED
      BY <1>2, <2>1 DEF HandInv, AtWrite, Room, RoomFor
  <1> QED
    BY <1>1, <1>3, <1>4, <1>5 DEF FifoInv

\* It holds at the start, ...
LEMMA FifoInit == ASSUME Aligned, Init PROVE FifoInv
  <1>1. Inv
    BY PlaceInit
  <1>2. /\ wrptr = 0 /\ rdptr = 0 /\ held = <<>> /\ remaining = 0 /\ unpackState = 0 /\ outUnderflow = TRUE
        /\ hostFlag = FALSE /\ received = NoAddr /\ pc = "poll" /\ loc = NoLocals
    BY DEF Init, fifoStart
  <1>3. HeldInv
    <2>1. 1..Len(held) = {}
      BY <1>2
    <2> QED
      BY <1>2, <2>1, EmptyLayout DEF HeldInv
  <1>4. ReadInv
    <2>1. outUnderflow \in BOOLEAN /\ outUnderflow
      BY <1>2
    <2> QED
      BY <1>2, <2>1 DEF ReadInv, Base
  <1>5. HandInv
    <2>1. 0 \in Slots /\ 0 \in Addresses /\ 0 \in 0 .. MaxPacket
      BY FirstSlot, PacketAssumption DEF fifoStart
    <2>2. loc \in [rd : Addresses, wr : Slots, len : 0 .. MaxPacket, released : Slots]
      BY <1>2, <2>1 DEF NoLocals
    <2> QED
      BY <1>2, <2>2 DEF HandInv, AtWrite
  <1> QED
    BY <1>1, <1>3, <1>4, <1>5 DEF FifoInv

\* ... every step keeps it, ...
LEMMA FifoStep == ASSUME Aligned, HostPaced, FifoInv, [Next]_vars PROVE FifoInv'
  <1>1. CASE UNCHANGED vars
    <2>1. Inv'
      BY <1>1 DEF FifoInv, Inv, InOnePlace, PlaceInv, vars
    <2>2. HeldInv'
      BY <1>1 DEF FifoInv, HeldInv, vars
    <2>3. ReadInv'
      BY <1>1 DEF FifoInv, ReadInv, Base, vars
    <2>4. HandInv'
      BY <1>1 DEF FifoInv, HandInv, AtWrite, Room, Ahead, Base, vars
    <2> QED
      BY <2>1, <2>2, <2>3, <2>4 DEF FifoInv
  <1>2. CASE Interrupt
    <2>1. Inv'
      BY <1>2, InterruptPlace DEF FifoInv
    <2> QED
      BY <1>2, <2>1, InterruptReads, InterruptHand DEF FifoInv
  <1>3. CASE Commit
    BY <1>3, AcceptFifo, DiscardFifo
  <1>4. CASE \E len \in Lens : HostPacket(len)
    BY <1>4, HostPacketFifo
  <1>5. CASE \E start \in BOOLEAN : Reset(start)
    BY <1>5, ResetFifo
  <1> QED
    BY <1>1, <1>2, <1>3, <1>4, <1>5, EpReceiveFifo, TakePacketFifo, ArmOrOverflowFifo, LeaveOverflowFifo
    DEF Next, MainLoop

\* ... and so it always holds.
LEMMA FifoInvHolds == ASSUME Aligned, HostPaced PROVE Spec => []FifoInv
  BY FifoInit, FifoStep, PTL DEF Spec
-----------------------------------------------------------------------------
\* FifoConsistent: in a stream of whole words from a host that keeps its pace, the reader is
\* in the oldest packet, as many bytes in as were played, and comes out where the writer put the
\* next one; it takes the FIFO for empty only when every packet has been played.
THEOREM FifoHolds ==
  ASSUME Aligned, HostPaced
  PROVE  Spec => []FifoConsistent
  <1>1. ASSUME FifoInv PROVE FifoConsistent
    <2>1. /\ fifoEnd = 5 * (MaxPacket + 4) /\ MaxPacket \in Nat /\ ArrayBytes = 6 * (MaxPacket + 4)
          /\ MAX_DEVICE_AUD_PACKET_SIZE_OUT = MaxPacket + 4 /\ FrameBytes \in Nat /\ FrameBytes <= MaxPacket
      BY Sizes
    <2>2. Inv /\ ReadInv /\ HandInv
      BY <1>1 DEF FifoInv
    <2>3. Slots \subseteq 0 .. fifoEnd - 1
      BY DEF Slots
    <2>4. rdptr \in Addresses
      BY <1>1, RdptrAddress
    <2>5. remaining \in 0 .. MaxPacket
      <3>1. CASE outUnderflow
        BY <2>1, <2>2, <3>1 DEF ReadInv
      <3>2. CASE ~outUnderflow
        <4>1. held # <<>> /\ remaining \in FrameBytes .. held[1].len
          BY <2>2, <3>2 DEF ReadInv
        <4>2. held[1].len \in FrameBytes .. MaxPacket
          BY <1>1, <4>1, FirstFacts
        <4> QED
          BY <2>1, <4>1, <4>2
      <3> QED
        BY <3>1, <3>2
    <2>6. held \in Seq([at : 0 .. fifoEnd - 1, len : FrameBytes .. MaxPacket])
      <3>1. held \in Seq(Packets)
        BY <1>1, HeldFacts DEF Layout
      <3> DEFINE S == [at : 0 .. fifoEnd - 1, len : FrameBytes .. MaxPacket]
      <3>2. Packets \subseteq S
        BY <2>3 DEF Packets
      <3> HIDE DEF S
      <3>3. held \in Seq(S)
        BY <3>1, <3>2, SeqMonotonic
      <3> QED
        BY <3>3 DEF S
    <2>7. TypeOK
      <3>1. wrptr \in 0 .. fifoEnd - 1 /\ buffer \in 0 .. fifoEnd - 1 /\ armed \in {NoAddr} \union 0 .. fifoEnd - 1
        BY <2>2, <2>3 DEF Inv, PlaceInv
      <3>2. outOverflow \in BOOLEAN /\ hostFlag \in BOOLEAN /\ header \in [Addresses -> 0 .. MaxPacket]
            /\ received \in {NoAddr} \union 0 .. MaxPacket
        BY <2>2 DEF Inv, PlaceInv
      <3>3. outUnderflow \in BOOLEAN /\ unpackState \in 0 .. 3
        BY <2>2 DEF ReadInv
      <3>4. loc \in [rd : Addresses, wr : Slots, len : 0 .. MaxPacket, released : Slots]
            /\ pc \in {"poll", "commit", "space"}
        BY <2>2 DEF HandInv
      <3>5. loc \in [rd : Addresses, wr : 0 .. fifoEnd - 1, len : 0 .. MaxPacket, released : 0 .. fifoEnd - 1]
        <4> HIDE DEF Slots
        <4> QED
          BY <2>3, <3>4
      <3> QED
        BY <2>4, <2>5, <2>6, <3>1, <3>2, <3>3, <3>4, <3>5 DEF TypeOK
    <2>8. ~outUnderflow =>
       /\ held # <<>>
       /\ LET played == held[1].len - remaining
          IN rdptr = held[1].at + 4 + (IF SubSlot = 3 THEN 4 * (played \div 3 - played \div 12) ELSE played)
      BY <2>2 DEF ReadInv, Advanced
    <2>9. outUnderflow /\ rdptr = wrptr => held = <<>>
      BY <1>1, <2>2, FirstFacts DEF ReadInv, Base
    <2> QED
      BY <2>7, <2>8, <2>9 DEF FifoConsistent
  <1> QED
    BY <1>1, FifoInvHolds, PTL

\* ArmedSpaceFree: whatever packet such a host sends next, XUD writes it inside the array, to
\* memory no packet is in that has been accepted and not been played.
THEOREM SpaceHolds ==
  ASSUME Aligned, HostPaced
  PROVE  Spec => []ArmedSpaceFree
  <1>1. ASSUME FifoInv, armed # NoAddr, NEW i \in DOMAIN held
        PROVE  Unread(i) \intersect (armed .. armed + 3 + MaxPacket) = {}
    <2>1. i \in 1..Len(held) /\ wrptr \in Slots /\ wrptr \in Nat /\ Layout(held, wrptr) /\ Len(held) \in Nat
      <3>1. held \in Seq(Packets)
        BY <1>1, HeldFacts DEF Layout
      <3>2. DOMAIN held = 1..Len(held)
        BY <3>1, LenProperties
      <3> QED
        BY <1>1, <3>2, HeldFacts
    <2>2. held # <<>>
      BY <1>1, <2>1, HeldFacts
    <2>3. armed = wrptr /\ (held[1].at > wrptr => wrptr + MaxPacket + 4 <= rdptr)
      <3>1. AtWrite(armed) /\ (held # <<>> /\ Ahead(held[1]) => wrptr + MAX_DEVICE_AUD_PACKET_SIZE_OUT <= rdptr)
        BY <1>1 DEF FifoInv, HandInv
      <3>2. MAX_DEVICE_AUD_PACKET_SIZE_OUT = MaxPacket + 4 /\ MaxPacket \in Nat
        BY Sizes
      <3> QED
        BY <2>1, <2>2, <3>1, <3>2 DEF AtWrite, Ahead
    <2> DEFINE at == held[i].at  len == held[i].len  e == End(held[i])
               from == IF i = 1 /\ ~outUnderflow THEN rdptr ELSE at
    <2>4. /\ at \in Nat /\ len \in Nat /\ e \in Int /\ at + len + 4 <= e
          /\ at > wrptr \/ e <= wrptr
      <3>1. /\ at \in Nat /\ len \in 0 .. MaxPacket /\ PacketSpace(len) \in Nat /\ len + 4 <= PacketSpace(len)
            /\ e = at + PacketSpace(len) /\ (at > wrptr \/ e <= wrptr)
        BY <2>1, PacketFacts
      <3>2. MaxPacket \in Nat
        BY Sizes
      <3> HIDE DEF at, len, e
      <3> QED
        BY <3>1, <3>2
    <2>5. Unread(i) = from .. (at + 3 + len)
      BY DEF Unread
    <2>6. rdptr \in Nat /\ held[1].at <= rdptr /\ rdptr <= End(held[1]) /\ MaxPacket \in Nat
          /\ held[1].at \in Nat /\ End(held[1]) \in Nat
      BY <1>1, <2>2, ReaderInside, FirstFacts, Sizes
    <2>7. CASE at > wrptr
      <3>1. held[1].at > wrptr /\ (i # 1 => End(held[1]) <= at)
        <4>1. CASE i = 1
          BY <2>7, <4>1
        <4>2. CASE i # 1
          <5>1. 1 \in 1..Len(held) /\ 1 < i
            BY <2>1, <4>2
          <5> QED
            BY <2>1, <2>7, <5>1, PairFacts
        <4> QED
          BY <4>1, <4>2
      <3>2. rdptr <= from
        <4>1. CASE i = 1 /\ outUnderflow
          <5>1. rdptr = held[1].at
            BY <1>1, <2>2, <4>1 DEF FifoInv, ReadInv, Base
          <5> QED
            BY <2>6, <4>1, <5>1
        <4>2. CASE i = 1 /\ ~outUnderflow
          BY <2>6, <4>2
        <4>3. CASE i # 1
          <5>1. from = at /\ End(held[1]) <= at
            BY <3>1, <4>3
          <5> HIDE DEF from, at
          <5> QED
            BY <2>4, <2>6, <5>1
        <4> QED
          BY <4>1, <4>2, <4>3
      <3>3. from \in Nat
        BY <2>4, <2>6
      <3>4. wrptr + MaxPacket + 4 <= rdptr
        BY <2>3, <3>1
      <3>5. armed = wrptr /\ armed + 3 + MaxPacket < from
        <4> HIDE DEF from
        <4> QED
          BY <2>1, <2>3, <2>6, <3>2, <3>3, <3>4
      <3> DEFINE last == armed + 3 + MaxPacket  end == at + 3 + len
      <3>6. last \in Int /\ end \in Int
        BY <2>1, <2>4, <2>6, <3>5
      <3> HIDE DEF from, last, end
      <3>7. last < from
        BY <3>5 DEF last
      <3>8. (from .. end) \intersect (armed .. last) = {}
        BY <2>1, <3>3, <3>5, <3>6, <3>7
      <3> QED
        BY <2>5, <3>8 DEF end, last
    <2>8. CASE ~(at > wrptr)
      <3>1. from \in Nat
        BY <2>4, <2>6
      <3> HIDE DEF from, at, len, e
      <3> QED
        BY <2>1, <2>3, <2>4, <2>5, <2>6, <2>8, <3>1
    <2> QED
      BY <2>7, <2>8
  <1>2. FifoInv => (armed # NoAddr =>
          \A i \in DOMAIN held : Unread(i) \intersect (armed .. armed + 3 + MaxPacket) = {})
    BY <1>1
  <1>3. WritesStayInArray /\ FifoInv => ArmedSpaceFree
    BY <1>2 DEF ArmedSpaceFree
  <1>4. MaxPacket % 4 = 0
    BY DEF Aligned
  <1> QED
    BY <1>3, <1>4, FifoInvHolds, WritesInArray, PTL
=============================================================================
