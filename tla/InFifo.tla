------------------------------- MODULE InFifo -------------------------------
(***************************************************************************)
(* The record FIFO of XUA_Buffer_Decouple: audioBuffIn, filled by the      *)
(* audio interrupt one sample frame at a time and drained by the USB       *)
(* endpoint one packet at a time.                                          *)
(*                                                                         *)
(*   interrupt       stores a frame; commits the packet it belongs to when *)
(*                   it is complete, and sizes the next one from feedback  *)
(*   XUD             sends the armed buffer when the host polls            *)
(*   XUA_Buffer_Ep   sets g_aud_to_host_flag when it was sent              *)
(*   decouple        moves the read pointer on and arms the next buffer,   *)
(*                   with interrupts disabled                              *)
(*                                                                         *)
(* A packet of a (micro)frame has Rate / FrameTime samples, give or take   *)
(* one.  The sizes are scaled down with FrameTime, which is 8000 or 1000   *)
(* in the device, and so is the 16.16 fixed point of the feedback value:   *)
(* One stands for 2^16.                                                    *)
(***************************************************************************)
EXTENDS Integers, Sequences

CONSTANTS
  Chans,        \* g_numUsbChan_In
  SubSlot,      \* g_curSubSlot_In, bytes of a sample
  MaxSubSlot,   \* MAX_SUBSLOT_BYTES: the largest subslot of any format, IN or OUT
  Rates,        \* sample rates
  DefaultRate,  \* DEFAULT_FREQ
  FrameTime,    \* USB frames per second
  One,          \* 2^16
  Speeds,       \* the feedback values the run allows
  Lead, Lag,    \* packets AudioHub may run ahead of the host's polls, and behind
  Paced,        \* whether they keep to that
  Prompt        \* whether decouple arms the next buffer before a packet is committed

MaxRate == CHOOSE r \in Rates : \A s \in Rates : s <= r
FrameBytes == Chans * SubSlot
MaxSamples == ((MaxRate + FrameTime - 1) \div FrameTime) + 1
MAX_PACKETSIZE_IN == MaxSamples * FrameBytes
MAX_DEVICE_AUD_PACKET_SIZE_IN == MAX_PACKETSIZE_IN + 4
ThreePackets == 3   \* mutant of BUFFER_PACKET_COUNT
BUFFER_PACKET_COUNT == 5
BUFF_SIZE_IN == MAX_DEVICE_AUD_PACKET_SIZE_IN * BUFFER_PACKET_COUNT
fifoStart == 0
fifoEnd   == BUFF_SIZE_IN
\* audioBuffIn is an array of words
ArrayBytes == 4 * ((BUFF_SIZE_IN \div 4) + (MAX_DEVICE_AUD_PACKET_SIZE_IN \div 4))

ASSUME FormatAssumption == Chans \in Nat \ {0} /\ SubSlot \in {2, 4} /\ MaxSubSlot \in SubSlot .. 4
ASSUME RatesAssumption  == /\ Rates \subseteq Nat \ {0} /\ DefaultRate \in Rates
                           /\ FrameTime \in Nat \ {0}
                           /\ \E r \in Rates : \A s \in Rates : s <= r
ASSUME SpeedsAssumption == One \in Nat \ {0} /\ Speeds \subseteq Int
ASSUME PaceAssumption   == Lead \in Nat /\ Lag \in Nat /\ Paced \in BOOLEAN /\ Prompt \in BOOLEAN

NoBuffer == -1
Zeros    == -2  \* aud_to_host_zeros

VARIABLES
  wrptr, rdptr, fill,      \* g_aud_to_host_wrptr, _rdptr, _fill_level
  sampsToWrite, totalSampsToWrite, speedRem,
  inUnderflow,
  maxPacketSize,           \* g_maxPacketSize
  stored,                  \* the packets in memory between the pointers, oldest first
  sampFreq,                \* g_streamChange_sampFreq
  freqChange,              \* g_streamChange_flag is a rate change
  armed,                   \* the buffer XUD sends from
  sent,                    \* it was sent, XUA_Buffer_Ep has not seen it
  hostFlag,                \* g_aud_to_host_flag
  pc,                      \* main loop of decouple: before "cmd" or "sent"
  skew                     \* packets AudioHub is ahead of the host

vars == <<wrptr, rdptr, fill, sampsToWrite, totalSampsToWrite, speedRem, inUnderflow,
          maxPacketSize, stored, sampFreq, freqChange, armed, sent, hostFlag, pc, skew>>
usbVars == <<armed, sent, hostFlag>>
cmdVars == <<sampFreq, freqChange>>

Larger(a, b) == IF a > b THEN a ELSE b
RoundUp(n) == 4 * ((n + 3) \div 4)
Wrap(p) == IF p >= fifoEnd THEN fifoStart ELSE p
\* Bytes a packet takes in the FIFO, with its length word
Space(len) == RoundUp(len) + 4
Packet(at, len) == [at |-> at, len |-> len]
\* Bytes the first i packets of q take
Spaces(q) ==
  LET sum[i \in 0 .. Len(q)] == IF i = 0 THEN 0 ELSE sum[i - 1] + Space(q[i].len)
  IN sum
\* The length word at a; memory without a packet reads as 0
LengthAt(a) == IF \E i \in DOMAIN stored : stored[i].at = a
                 THEN stored[CHOOSE i \in DOMAIN stored : stored[i].at = a].len ELSE 0

\* GetADCCounts: samples in a packet
ADCMid(r) == r \div FrameTime
ADCMax(r) == ADCMid(r) + 1
ADCMin(r) == IF r % FrameTime = 0 THEN ADCMid(r) - 1 ELSE ADCMid(r)

Init ==
  /\ wrptr = fifoStart /\ rdptr = fifoStart /\ fill = 0
  /\ sampsToWrite = ADCMid(DefaultRate) /\ totalSampsToWrite = ADCMid(DefaultRate)
  /\ speedRem = 0
  /\ inUnderflow = TRUE
  /\ maxPacketSize = MAX_DEVICE_AUD_PACKET_SIZE_IN
  /\ stored = <<>>
  /\ sampFreq = DefaultRate /\ freqChange = FALSE
  /\ armed = NoBuffer /\ sent = FALSE /\ hostFlag = FALSE
  /\ pc = "cmd"
  /\ skew = 0
-----------------------------------------------------------------------------
(***************************************************************************)
(* The interrupt (record half of handle_audio_request).                    *)
(***************************************************************************)
\* A frame of a packet that is not complete yet.
StoreFrame ==
  /\ sampsToWrite > 1
  /\ sampsToWrite' = sampsToWrite - 1
  /\ UNCHANGED <<wrptr, rdptr, fill, totalSampsToWrite, speedRem, inUnderflow, maxPacketSize,
                 stored, cmdVars, usbVars, pc, skew>>

\* The size of the next packet: the integer part of the accumulated
\* feedback, or nothing when the feedback is well off.
NextTotal(speed) ==
  LET total == (speedRem + speed) \div One
  IN IF total < 0 \/ total * FrameBytes > maxPacketSize THEN 0 ELSE total

\* The oldest of the packets q of an overflowing FIFO are dropped, at least
\* one, until two packets of the current rate are left.
FillAfter(q, level, k) == level - Spaces(q)[k]
ReadAfter(q, rd, k) ==
  LET rdptrs[i \in 0 .. Len(q)] ==
        IF i = 0 THEN rd ELSE Wrap(rdptrs[i - 1] + Space(q[i].len))
  IN rdptrs[k]
DropNone(q, level) == 0     \* mutant of DropCount: the overflow is not handled
DropCount(q, level) ==
  LET enough(k) == FillAfter(q, level, k) <= 2 * Space(ADCMax(sampFreq) * FrameBytes)
  IN CHOOSE k \in 1 .. Len(q) : enough(k) /\ \A j \in 1 .. k - 1 : ~enough(j)

\* The last frame of a packet commits it.
CommitPacket(speed) ==
  /\ sampsToWrite <= 1
  /\ Paced => skew < Lead
  /\ Prompt => ~sent /\ ~hostFlag
  /\ LET len   == totalSampsToWrite * FrameBytes
         q     == Append(stored, Packet(wrptr, len))
         level == fill + Space(len)
         total == NextTotal(speed)
         spaceRequired == Larger(total, 1) * FrameBytes + 4
         drop == IF spaceRequired > BUFF_SIZE_IN - level THEN DropCount(q, level) ELSE 0
     IN /\ wrptr' = Wrap(wrptr + Space(len))
        /\ rdptr' = ReadAfter(q, rdptr, drop)
        /\ fill' = FillAfter(q, level, drop)
        /\ stored' = SubSeq(q, drop + 1, Len(q))
        /\ speedRem' = (speedRem + speed) % One
        /\ totalSampsToWrite' = total
        /\ sampsToWrite' = total
  /\ skew' = IF Paced THEN skew + 1 ELSE skew
  /\ UNCHANGED <<inUnderflow, maxPacketSize, cmdVars, usbVars, pc>>
-----------------------------------------------------------------------------
\* The host polls the endpoint and XUD sends the armed buffer.
HostPoll ==
  /\ armed # NoBuffer
  /\ Paced => skew > -Lag
  /\ armed' = NoBuffer
  /\ sent' = TRUE
  /\ skew' = IF Paced THEN skew - 1 ELSE skew
  /\ UNCHANGED <<wrptr, rdptr, fill, sampsToWrite, totalSampsToWrite, speedRem, inUnderflow,
                 maxPacketSize, stored, cmdVars, hostFlag, pc>>

\* Mutant of EpSent: decouple is not told.
EpSentLost ==
  /\ sent
  /\ sent' = FALSE
  /\ UNCHANGED <<wrptr, rdptr, fill, sampsToWrite, totalSampsToWrite, speedRem, inUnderflow,
                 maxPacketSize, stored, cmdVars, armed, hostFlag, pc, skew>>
\* XUA_Buffer_Ep informs decouple.
EpSent ==
  /\ sent
  /\ sent' = FALSE
  /\ hostFlag' = TRUE
  /\ UNCHANGED <<wrptr, rdptr, fill, sampsToWrite, totalSampsToWrite, speedRem, inUnderflow,
                 maxPacketSize, stored, cmdVars, armed, pc, skew>>

\* XUA_Buffer_Ep has received a new sample rate from Endpoint0.
EpSampleRate(r) ==
  /\ ~freqChange
  /\ sampFreq' = r
  /\ freqChange' = TRUE
  /\ UNCHANGED <<wrptr, rdptr, fill, sampsToWrite, totalSampsToWrite, speedRem, inUnderflow,
                 maxPacketSize, stored, usbVars, pc, skew>>
-----------------------------------------------------------------------------
(***************************************************************************)
(* The main loop of decouple.                                              *)
(***************************************************************************)
\* Mutants of EmptyFifo: the fill level is kept, and the armed buffer.
EmptyKeepsFill ==
  /\ wrptr' = fifoStart /\ rdptr' = fifoStart /\ stored' = <<>>
  /\ inUnderflow' = TRUE /\ armed' = Zeros
  /\ sampsToWrite' = ADCMid(sampFreq) /\ totalSampsToWrite' = ADCMid(sampFreq)
  /\ UNCHANGED fill
EmptyKeepsArmed ==
  /\ wrptr' = fifoStart /\ rdptr' = fifoStart /\ stored' = <<>>
  /\ inUnderflow' = TRUE /\ fill' = 0
  /\ sampsToWrite' = ADCMid(sampFreq) /\ totalSampsToWrite' = ADCMid(sampFreq)
  /\ armed' = IF armed = NoBuffer THEN Zeros ELSE armed
\* The FIFO is emptied and the endpoint armed with zeros.
EmptyFifo ==
  /\ wrptr' = fifoStart /\ rdptr' = fifoStart /\ fill' = 0
  /\ stored' = <<>>
  /\ inUnderflow' = TRUE
  /\ sampsToWrite' = ADCMid(sampFreq) /\ totalSampsToWrite' = ADCMid(sampFreq)
  /\ armed' = Zeros

SampleRateChange ==
  /\ pc = "cmd" /\ freqChange
  /\ freqChange' = FALSE
  /\ EmptyFifo
  /\ speedRem' = 0
  /\ UNCHANGED <<maxPacketSize, sampFreq, sent, hostFlag, pc, skew>>

InputStart ==
  /\ pc = "cmd" /\ ~freqChange
  /\ EmptyFifo
  /\ maxPacketSize' = MaxSamples * MaxSubSlot * Chans
  /\ UNCHANGED <<speedRem, cmdVars, sent, hostFlag, pc, skew>>

NoCommand ==
  /\ pc = "cmd" /\ ~freqChange
  /\ pc' = "sent"
  /\ UNCHANGED <<wrptr, rdptr, fill, sampsToWrite, totalSampsToWrite, speedRem, inUnderflow,
                 maxPacketSize, stored, cmdVars, usbVars, skew>>

NothingSent ==
  /\ pc = "sent" /\ ~hostFlag
  /\ pc' = "cmd"
  /\ UNCHANGED <<wrptr, rdptr, fill, sampsToWrite, totalSampsToWrite, speedRem, inUnderflow,
                 maxPacketSize, stored, cmdVars, usbVars, skew>>

\* In underflow zeros were sent: the FIFO is used again when it holds
\* "exactly 2 packets".
NoPrefill == fill < 3 * Space(ADCMin(sampFreq) * FrameBytes)   \* mutant of TwoPackets: or fewer
ExactlyTwo == fill = 2 * Space(ADCMin(sampFreq) * FrameBytes)  \* mutant of TwoPackets: two of the smallest
TwoPackets == LET minPkt == Space(ADCMin(sampFreq) * FrameBytes)
              IN fill >= 2 * minPkt /\ fill < 3 * minPkt

ZerosSent ==
  /\ pc = "sent" /\ hostFlag /\ inUnderflow
  /\ hostFlag' = FALSE
  /\ inUnderflow' = ~TwoPackets
  /\ armed' = IF TwoPackets THEN rdptr ELSE Zeros
  /\ pc' = "cmd"
  /\ UNCHANGED <<wrptr, rdptr, fill, sampsToWrite, totalSampsToWrite, speedRem,
                 maxPacketSize, stored, cmdVars, sent, skew>>

\* The oldest packet was sent.
PacketSent ==
  /\ pc = "sent" /\ hostFlag /\ ~inUnderflow
  /\ hostFlag' = FALSE
  /\ LET space == Space(LengthAt(rdptr))
     IN /\ rdptr' = Wrap(rdptr + space)
        /\ fill' = fill - space
  /\ stored' = SubSeq(stored, 2, Len(stored))
  /\ inUnderflow' = (fill' = 0)
  /\ armed' = IF fill' = 0 THEN Zeros ELSE rdptr'
  /\ pc' = "cmd"
  /\ UNCHANGED <<wrptr, sampsToWrite, totalSampsToWrite, speedRem, maxPacketSize,
                 cmdVars, sent, skew>>
-----------------------------------------------------------------------------
Interrupt == StoreFrame \/ \E speed \in Speeds : CommitPacket(speed)
MainLoop  == SampleRateChange \/ NoCommand \/ NothingSent \/ ZerosSent \/ PacketSent

Next == \/ Interrupt \/ HostPoll \/ EpSent
        \/ \E r \in Rates : EpSampleRate(r)
        \/ MainLoop \/ InputStart

\* The interrupt, the cores and the host's polls of an open stream go on for
\* ever; the requests of the host need not come.
Fairness == WF_vars(Interrupt) /\ WF_vars(HostPoll) /\ WF_vars(EpSent) /\ WF_vars(MainLoop)

Spec == Init /\ [][Next]_vars /\ Fairness
-----------------------------------------------------------------------------
TypeOK ==
  /\ wrptr \in 0 .. fifoEnd - 1 /\ rdptr \in 0 .. fifoEnd - 1 /\ fill \in 0 .. BUFF_SIZE_IN
  /\ sampsToWrite \in 0 .. totalSampsToWrite /\ totalSampsToWrite \in Nat
  /\ speedRem \in 0 .. One - 1
  /\ inUnderflow \in BOOLEAN /\ maxPacketSize \in Nat
  /\ stored \in Seq([at : 0 .. fifoEnd - 1, len : Nat])
  /\ sampFreq \in Rates /\ freqChange \in BOOLEAN
  /\ armed \in {NoBuffer, Zeros} \union 0 .. fifoEnd - 1
  /\ sent \in BOOLEAN /\ hostFlag \in BOOLEAN
  /\ pc \in {"cmd", "sent"} /\ skew \in Int

\* The pointers and the fill level agree with the packets in memory: they
\* follow each other from the read pointer to the write pointer.
FifoConsistent ==
  /\ TypeOK
  /\ fill = Spaces(stored)[Len(stored)]
  /\ \A i \in 1 .. Len(stored) :
       Wrap(stored[i].at + Space(stored[i].len)) = (IF i < Len(stored) THEN stored[i + 1].at ELSE wrptr)
  /\ rdptr = (IF stored = <<>> THEN wrptr ELSE stored[1].at)

\* assert(datasize <= g_maxPacketSize) and assert(fillLevel <= BUFF_SIZE_IN)
\* of the next commit, that a packet under construction has room; and
\* assert(fillLevel >= datalength) of the main loop, that a packet it is told
\* was sent, out of underflow, is still in the FIFO.
AssertsHold ==
  /\ LET datasize == RoundUp(totalSampsToWrite * FrameBytes)
     IN datasize <= maxPacketSize /\ fill + 4 + datasize <= BUFF_SIZE_IN
  /\ pc = "sent" /\ hostFlag /\ ~inUnderflow => fill >= Space(LengthAt(rdptr))

\* The frames of the packet under construction (one at least, even of an
\* empty packet) are written to memory no stored packet is in.
WritesHitNoPacket ==
  LET written == wrptr .. wrptr + 3 + Larger(totalSampsToWrite, 1) * FrameBytes
  IN \A i \in DOMAIN stored :
       written \intersect (stored[i].at .. stored[i].at + 3 + stored[i].len) = {}

\* The host is sent the oldest packet in the FIFO, or zeros in underflow.
ArmedIsOldest ==
  armed \notin {NoBuffer, Zeros} => ~inUnderflow /\ armed = rdptr

\* With AudioHub and the host a packet apart, "handle_audio_request() does
\* not drop packets [...] when aud_to_host buffer is not in underflow"
\* (decouple.xc:1091): five packets are enough.
NoDropOutsideUnderflow == [][Interrupt /\ ~inUnderflow => rdptr' = rdptr]_vars

\* The endpoint is armed again after every packet, and a stream that is open,
\* left alone and from some time on has AudioHub within one packet of the
\* host gets out of underflow: the host hears the input.
StreamHeard ==
  /\ sent ~> armed # NoBuffer
  /\ \/ <>[](armed = NoBuffer)
     \/ []<><<SampleRateChange \/ InputStart>>_vars
     \/ []<>(skew > 1)
     \/ []<>~inUnderflow
=============================================================================
