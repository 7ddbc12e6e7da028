------------------------------ MODULE OutFifo ------------------------------
(***************************************************************************)
(* The playback FIFO of XUA_Buffer_Decouple: outAudioBuff, filled by the   *)
(* USB endpoint one packet at a time and drained by the audio interrupt    *)
(* one sample frame at a time.                                             *)
(*                                                                         *)
(*   XUD             writes the payload of a packet where it was armed     *)
(*   XUA_Buffer_Ep   writes the length word in front of it, sets the flag  *)
(*   decouple        moves the write pointer on, arms the next packet      *)
(*   interrupt       sends a frame to AudioHub, moves the read pointer on  *)
(*                                                                         *)
(* The interrupt preempts the main loop of decouple between any two reads  *)
(* of the pointers; the other two run on cores of their own.  Addresses    *)
(* are byte offsets from aud_from_host_fifo_start.  The samples themselves *)
(* are left out: the model knows which bytes a packet occupies and where   *)
(* its length word is.                                                     *)
(***************************************************************************)
EXTENDS Integers, Sequences

CONSTANTS
  Chans,      \* g_numUsbChan_Out
  SubSlot,    \* g_curSubSlot_Out, bytes of a sample
  MaxPacket,  \* MAX_PACKETSIZE_OUT, bytes
  Lens,       \* the packet lengths the host may send
  MaxBacklog  \* bytes the host lets build up in the FIFO

ASSUME ChansAssumption   == Chans \in Nat \ {0}
ASSUME SubSlotAssumption == SubSlot \in {2, 3, 4}
ASSUME PacketAssumption  == MaxPacket \in Nat /\ MaxPacket >= Chans * SubSlot
ASSUME LensAssumption    == Lens \subseteq 0 .. MaxPacket
ASSUME BacklogAssumption == MaxBacklog \in Nat

BUFFER_PACKET_COUNT == 5
FrameBytes == Chans * SubSlot
\* The +4 is the length word stored in front of a packet
MAX_DEVICE_AUD_PACKET_SIZE_OUT == MaxPacket + 4
BUFF_SIZE_OUT      == MAX_DEVICE_AUD_PACKET_SIZE_OUT * BUFFER_PACKET_COUNT
OUT_BUFFER_PREFILL == MAX_DEVICE_AUD_PACKET_SIZE_OUT
fifoStart == 0
fifoEnd   == BUFF_SIZE_OUT
ArrayNoSlack == 4 * (BUFF_SIZE_OUT \div 4)   \* mutant of ArrayBytes: no room behind the FIFO
\* outAudioBuff is an array of words
ArrayBytes == 4 * ((BUFF_SIZE_OUT \div 4) + (MAX_DEVICE_AUD_PACKET_SIZE_OUT \div 4))

NoAddr == -1
NoLocals == [rd |-> 0, wr |-> 0, len |-> 0, released |-> 0]
RoundUp(n) == 4 * ((n + 3) \div 4)
\* What a packet takes in the FIFO, with its length word
PacketNoHeader(len) == RoundUp(len)   \* mutant of PacketSpace: no length word
PacketSpace(len) == RoundUp(len) + 4
Wrap(p) == IF p >= fifoEnd THEN fifoStart ELSE p

VARIABLES
  wrptr, rdptr,  \* g_aud_from_host_wrptr, g_aud_from_host_rdptr
  remaining,     \* aud_data_remaining_to_device
  unpackState,   \* modulo 4
  outUnderflow, outOverflow,
  buffer,        \* g_aud_from_host_buffer: where the length word goes
  hostFlag,      \* g_aud_from_host_flag
  header,        \* the length words in memory that may still be read, 0 elsewhere
  armed,         \* payload - 4 of the packet XUD waits for, or NoAddr
  received,      \* length of a packet XUA_Buffer_Ep has not seen yet, or NoAddr
  pc,            \* decouple: "poll", "commit", "space"
  loc,           \* its locals: read and write pointer, length, released buffer
  held           \* history: the packets accepted and not yet played to the end, oldest first

vars == <<wrptr, rdptr, remaining, unpackState, outUnderflow, outOverflow, buffer,
          hostFlag, header, armed, received, pc, loc, held>>
usbVars  == <<buffer, armed, received>>
readVars == <<rdptr, remaining, unpackState, outUnderflow>>

Addresses == 0 .. ArrayBytes + MAX_DEVICE_AUD_PACKET_SIZE_OUT

\* A packet of the FIFO: its length word at p.at, then p.len bytes
Packet(at, len) == [at |-> at, len |-> len]

Init ==
  /\ wrptr = fifoStart /\ rdptr = fifoStart
  /\ remaining = 0 /\ unpackState = 0
  /\ outUnderflow = TRUE /\ outOverflow = FALSE
  /\ buffer = fifoStart
  /\ hostFlag = FALSE
  /\ header = [a \in Addresses |-> 0]
  /\ armed = fifoStart
  /\ received = NoAddr
  /\ pc = "poll"
  /\ loc = NoLocals
  /\ held = <<>>
-----------------------------------------------------------------------------
Filled == IF wrptr < rdptr THEN wrptr - rdptr + BUFF_SIZE_OUT ELSE wrptr - rdptr

\* The host sends a packet to the armed endpoint; what was in memory there
\* is gone.  A host that follows the feedback endpoint sends about as much
\* as is played: MaxBacklog is by how much it may be ahead.
HostPacket(len) ==
  /\ armed # NoAddr /\ received = NoAddr
  /\ Filled + 4 + len <= MaxBacklog
  /\ received' = len
  /\ armed' = NoAddr
  /\ header' = [a \in Addresses |-> IF a \in armed + 4 .. armed + 3 + len THEN 0 ELSE header[a]]
  /\ UNCHANGED <<wrptr, readVars, outOverflow, buffer, hostFlag, pc, loc, held>>

\* XUA_Buffer_Ep stores the length and tells decouple.
EpReceive ==
  /\ received # NoAddr
  /\ header' = [header EXCEPT ![buffer] = received]
  /\ hostFlag' = TRUE
  /\ received' = NoAddr
  /\ UNCHANGED <<wrptr, readVars, outOverflow, buffer, armed, pc, loc, held>>
-----------------------------------------------------------------------------
(***************************************************************************)
(* The interrupt, once per sample frame (playback half of                  *)
(* handle_audio_request).                                                  *)
(***************************************************************************)
AdvanceUnpacked(u) == FrameBytes   \* mutant of FrameAdvance: no words are unpacked
\* How far the read pointer moves over a frame: three bytes samples are
\* unpacked from words, every fourth one without a read.
FrameAdvance(u) ==
  IF SubSlot = 3 THEN 4 * (((u + Chans) - (u + Chans) \div 4) - (u - u \div 4))
                 ELSE FrameBytes

\* At the end of a packet: skip a tail shorter than a frame, wrap, open the
\* next packet unless the FIFO is empty.  rd, left and u are the read
\* pointer, the bytes left and the unpack state so far.
EndOfPacket(rd, left, u) ==
  LET skip == IF left # 0 THEN 4 * ((left + 3 - u) \div 4) ELSE 0
      at   == Wrap(rd + skip)
      empty == at = wrptr
  IN  /\ outUnderflow' = empty
      /\ rdptr' = IF empty THEN at ELSE at + 4
      /\ remaining' = IF empty THEN 0 ELSE header[at]
      /\ unpackState' = IF empty THEN u ELSE 0
      /\ header' = IF empty THEN header ELSE [header EXCEPT ![at] = 0]
      /\ held' = IF outUnderflow THEN held ELSE SubSeq(held, 2, Len(held))

\* Pre-buffering: silence is sent until a packet's worth is in the FIFO.
UnderflowFrame ==
  /\ outUnderflow
  /\ IF Filled >= OUT_BUFFER_PREFILL
       THEN IF remaining < FrameBytes
              THEN EndOfPacket(rdptr, remaining, unpackState)
              ELSE outUnderflow' = FALSE /\ UNCHANGED <<rdptr, remaining, unpackState, header, held>>
       ELSE UNCHANGED <<readVars, header, held>>
  /\ UNCHANGED <<wrptr, outOverflow, hostFlag, usbVars, pc, loc>>

\* Playing: one frame of the packet, then the next packet if it was the last.
PlayFrame ==
  /\ ~outUnderflow
  /\ LET rd   == rdptr + FrameAdvance(unpackState)
         left == remaining - FrameBytes
         u    == IF SubSlot = 3 THEN (unpackState + Chans) % 4 ELSE unpackState
     IN IF left < FrameBytes
          THEN EndOfPacket(rd, left, u)
          ELSE /\ rdptr' = rd /\ remaining' = left /\ unpackState' = u
               /\ UNCHANGED <<outUnderflow, header, held>>
  /\ UNCHANGED <<wrptr, outOverflow, hostFlag, usbVars, pc, loc>>
-----------------------------------------------------------------------------
(***************************************************************************)
(* The main loop of decouple.                                              *)
(***************************************************************************)
\* A packet has arrived: the pointers, the length and the buffer it was
\* received in are read.
TakePacket ==
  /\ pc = "poll" /\ hostFlag
  /\ hostFlag' = FALSE
  /\ loc' = [rd |-> rdptr, wr |-> wrptr, len |-> header[buffer], released |-> buffer]
  /\ pc' = "commit"
  /\ UNCHANGED <<wrptr, readVars, outOverflow, header, usbVars, held>>

\* The write pointer moves over it, unless it is too small or was received
\* where the FIFO no longer expects it.
Commit ==
  /\ pc = "commit"
  /\ IF loc.len >= FrameBytes /\ loc.released = loc.wr
       THEN LET wr == Wrap(loc.wr + PacketSpace(loc.len))
            IN /\ wrptr' = wr /\ loc' = [loc EXCEPT !.wr = wr]
               /\ held' = Append(held, Packet(loc.wr, loc.len))
               /\ UNCHANGED header
       ELSE /\ header' = [header EXCEPT ![loc.released] = 0]
            /\ UNCHANGED <<wrptr, loc, held>>
  /\ pc' = "space"
  /\ UNCHANGED <<readVars, outOverflow, hostFlag, usbVars>>

SpaceForFrame(space) == space <= 0 \/ space >= FrameBytes + 4   \* mutant of EnoughSpace
EnoughSpace(space) == space <= 0 \/ space >= MAX_DEVICE_AUD_PACKET_SIZE_OUT

\* With the space up to the read pointer (read before the commit, and read
\* again for the special case) the next packet is armed, or decouple is in
\* overflow.
ArmOrOverflow ==
  /\ pc = "space"
  /\ LET space == IF rdptr = fifoStart THEN fifoEnd - wrptr ELSE loc.rd - loc.wr
     IN IF EnoughSpace(space)
          THEN buffer' = loc.wr /\ armed' = loc.wr /\ UNCHANGED outOverflow
          ELSE outOverflow' = TRUE /\ UNCHANGED <<buffer, armed>>
  /\ pc' = "poll"
  /\ loc' = NoLocals
  /\ UNCHANGED <<wrptr, readVars, hostFlag, header, received, held>>

AllFree(space) == space > BUFF_SIZE_OUT        \* mutant of HalfFree: never the case
HalfFree(space) == space >= BUFF_SIZE_OUT \div 2

\* Out of overflow once half of the FIFO is free.
LeaveOverflow ==
  /\ pc = "poll" /\ ~hostFlag /\ outOverflow
  /\ LET space == IF rdptr <= wrptr THEN rdptr - wrptr + BUFF_SIZE_OUT ELSE rdptr - wrptr
     IN HalfFree(space)
  /\ outOverflow' = FALSE
  /\ buffer' = wrptr /\ armed' = wrptr
  /\ UNCHANGED <<wrptr, readVars, hostFlag, header, received, pc, loc, held>>

\* A sample rate change or the start of the output stream empties the FIFO,
\* with interrupts disabled.  In overflow the endpoint is armed again, but
\* g_aud_from_host_buffer keeps its old value.  Only a stream start clears
\* unpackState.
Reset(start) ==
  /\ pc = "poll"
  /\ wrptr' = fifoStart /\ rdptr' = fifoStart
  /\ remaining' = 0
  /\ outUnderflow' = TRUE
  /\ unpackState' = IF start THEN 0 ELSE unpackState
  /\ armed' = IF outOverflow THEN fifoStart ELSE armed
  /\ outOverflow' = FALSE
  /\ header' = [a \in Addresses |-> IF a = buffer THEN header[a] ELSE 0]
  /\ held' = <<>>
  /\ UNCHANGED <<buffer, hostFlag, received, pc, loc>>
-----------------------------------------------------------------------------
Interrupt == UnderflowFrame \/ PlayFrame
MainLoop  == TakePacket \/ Commit \/ ArmOrOverflow \/ LeaveOverflow

Next == \/ \E len \in Lens : HostPacket(len)
        \/ EpReceive
        \/ Interrupt
        \/ MainLoop
        \/ \E start \in BOOLEAN : Reset(start)

\* The cores and the interrupt run for ever; the host may stop sending and
\* never has to change the stream.
Fairness == WF_vars(EpReceive) /\ WF_vars(Interrupt) /\ WF_vars(MainLoop)

Spec == Init /\ [][Next]_vars /\ Fairness
-----------------------------------------------------------------------------
TypeOK ==
  /\ wrptr \in 0 .. fifoEnd - 1 /\ rdptr \in Addresses
  /\ remaining \in 0 .. MaxPacket /\ unpackState \in 0 .. 3
  /\ outUnderflow \in BOOLEAN /\ outOverflow \in BOOLEAN /\ hostFlag \in BOOLEAN
  /\ buffer \in 0 .. fifoEnd - 1 /\ armed \in {NoAddr} \union 0 .. fifoEnd - 1
  /\ header \in [Addresses -> 0 .. MaxPacket]
  /\ received \in {NoAddr} \union 0 .. MaxPacket
  /\ pc \in {"poll", "commit", "space"}
  /\ loc \in [rd : Addresses, wr : 0 .. fifoEnd - 1, len : 0 .. MaxPacket,
               released : 0 .. fifoEnd - 1]
  /\ held \in Seq([at : 0 .. fifoEnd - 1, len : FrameBytes .. MaxPacket])

\* The bytes of the i-th packet that are still to be read.
Unread(i) == LET p == held[i]
             IN (IF i = 1 /\ ~outUnderflow THEN rdptr ELSE p.at) .. (p.at + 3 + p.len)

\* Neither a packet nor its length word ends past outAudioBuff, which has room for one
\* packet behind the FIFO.  In overflow nothing is on its way from the host, so that
\* arming the endpoint again when a stream is reset hits no transfer.
WritesStayInArray ==
  /\ buffer + 4 <= ArrayBytes
  /\ armed # NoAddr => armed + 4 + MaxPacket <= ArrayBytes
  /\ outOverflow => armed = NoAddr /\ received = NoAddr /\ ~hostFlag

\* "if we have enough space left then send a new buffer pointer back to the
\* buffer thread" (decouple.xc:1008): whatever packet the host sends next, it
\* is written inside the array, to memory no accepted packet is still in.
ArmedSpaceFree ==
  /\ WritesStayInArray
  /\ armed # NoAddr =>
       \A i \in DOMAIN held : Unread(i) \intersect (armed .. armed + 3 + MaxPacket) = {}

\* The pointers are in the FIFO.  While playing, the reader is in the oldest packet, as many bytes in as
\* were played, and the packets follow each other where the writer put them:
\* the writer rounds a packet up to words, and the reader has to come out at
\* the same place.  It takes the FIFO for empty (and the host gets silence)
\* only when every accepted packet has been played.
FifoConsistent ==
  /\ TypeOK
  /\ ~outUnderflow =>
       /\ held # <<>>
       /\ LET played == held[1].len - remaining
          IN rdptr = held[1].at + 4 + (IF SubSlot = 3 THEN 4 * (played \div 3 - played \div 12) ELSE played)
  /\ outUnderflow /\ rdptr = wrptr => held = <<>>

\* The endpoint is armed again after every packet: overflow does not last
\* while the audio interrupt runs.
EndpointRearmed == armed = NoAddr ~> armed # NoAddr
=============================================================================
