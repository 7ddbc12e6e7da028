----------------------------- MODULE Midi_proofs -----------------------------
(***************************************************************************)
(* Proofs about Midi for every size of the queue and the buffers, any      *)
(* words of the host and any playing: the two tasks hold each other back   *)
(* in time, so that no queue overflows and no send waits for room; what is *)
(* played is made into events byte for byte; and events and bytes arrive   *)
(* once and in order.                                                      *)
(***************************************************************************)
EXTENDS Midi, SequenceTheorems, WellFoundedInduction, TLAPS

Messages == [ack : BOOLEAN, word : Nat]
Codes16  == 0 .. 15

\* The types the argument needs.
TypeInv ==
    /\ toEp \in Seq(Messages) /\ toMidi \in Seq(Messages)
    /\ symbol_fifo \in Seq(Nat \X Nat) /\ midi_to_host_fifo \in Seq(Nat)
    /\ packet \in Seq(Nat) /\ words \in Seq(Codes16) /\ made \in Nat
    /\ {isTX, midi_from_host_overflow, waiting_for_ack} \subseteq BOOLEAN

HasWord(c) == \E i \in DOMAIN c : ~c[i].ack
HasAck(c)  == \E i \in DOMAIN c : c[i].ack

\* Of the host's words one is on its way, acknowledged, or being held back
\* because the queue has no room for another; otherwise the endpoint may be
\* ready.  While none is held back there is room.
HostFlow ==
    /\ HasWord(toMidi) => ~HasAck(toEp) /\ ~midi_from_host_overflow
    /\ HasAck(toEp) => ~midi_from_host_overflow
    /\ outEp # "taken" => ~HasWord(toMidi) /\ ~HasAck(toEp) /\ ~midi_from_host_overflow
    /\ ~midi_from_host_overflow => Space(symbol_fifo) > 3
    /\ isTX /\ symbol = <<>> => symbol_fifo # <<>>

\* Of the events one is on its way or acknowledged while usb_midi waits.
EventFlow ==
    /\ ~waiting_for_ack => ~HasWord(toEp) /\ ~HasAck(toMidi)
    /\ ~(HasWord(toEp) /\ HasAck(toMidi))

Flow == OneOfEach(toEp) /\ OneOfEach(toMidi) /\ HostFlow /\ EventFlow

-----------------------------------------------------------------------------
(***************************************************************************)
(* A channel end with one message of each kind.                            *)
(***************************************************************************)
\* The two messages there are.
LEMMA MessageTypes ==
  /\ Ack \in Messages /\ Ack.ack
  /\ \A n \in Nat : Data(n) \in Messages /\ ~Data(n).ack /\ Data(n).word = n
  BY DEF Ack, Data, Messages

\* What a send does to the contents of a channel.
LEMMA Sent ==
  ASSUME NEW c \in Seq(Messages), NEW m \in Messages, OneOfEach(c),
         m.ack => ~HasAck(c), ~m.ack => ~HasWord(c)
  PROVE  /\ Append(c, m) \in Seq(Messages) /\ OneOfEach(Append(c, m))
         /\ HasAck(Append(c, m)) <=> HasAck(c) \/ m.ack
         /\ HasWord(Append(c, m)) <=> HasWord(c) \/ ~m.ack
  <1> DEFINE d == Append(c, m)
             n == Len(c)
  <1>1. /\ d \in Seq(Messages) /\ DOMAIN d = 1 .. n + 1 /\ DOMAIN c = 1 .. n /\ n \in Nat
        /\ d[n + 1] = m /\ \A i \in 1 .. n : d[i] = c[i]
    OBVIOUS
  <1>2. \A i \in 1 .. n + 1 : i = n + 1 \/ i \in 1 .. n
    BY <1>1
  <1>3. n + 1 \in 1 .. n + 1 /\ \A i \in 1 .. n : i \in 1 .. n + 1
    BY <1>1
  <1>4. \A i \in 1 .. n + 1 : d[i] \in Messages
    <2>1. \A i \in 1 .. n : c[i] \in Messages
      OBVIOUS
    <2> QED
      BY <1>1, <1>2, <2>1
  <1> HIDE DEF d, n
  <1>5. OneOfEach(d)
    <2>1. \A i \in 1 .. n + 1 : d[i].ack \in BOOLEAN
      BY <1>4 DEF Messages
    <2>2. \A i \in 1 .. n : d[i].ack # m.ack
      BY <1>1, <1>3, <2>1 DEF HasAck, HasWord
    <2>3. \A i, j \in 1 .. n : d[i].ack = d[j].ack => i = j
      BY <1>1 DEF OneOfEach
    <2> QED
      BY <1>1, <1>2, <2>2, <2>3 DEF OneOfEach
  <1>6. HasAck(d) <=> HasAck(c) \/ m.ack
    BY <1>1, <1>2, <1>3 DEF HasAck
  <1>7. HasWord(d) <=> HasWord(c) \/ ~m.ack
    BY <1>1, <1>2, <1>3 DEF HasWord
  <1> QED
    BY <1>1, <1>5, <1>6, <1>7 DEF d

\* What a receive leaves of them.
LEMMA Received ==
  ASSUME NEW c \in Seq(Messages), c # <<>>, OneOfEach(c)
  PROVE  /\ Head(c) \in Messages /\ Tail(c) \in Seq(Messages) /\ OneOfEach(Tail(c))
         /\ Head(c).ack => HasAck(c) /\ ~HasAck(Tail(c)) /\ (HasWord(Tail(c)) <=> HasWord(c))
         /\ ~Head(c).ack => HasWord(c) /\ ~HasWord(Tail(c)) /\ (HasAck(Tail(c)) <=> HasAck(c))
  <1> DEFINE d == Tail(c)
             n == Len(c)
  <1>1. /\ d \in Seq(Messages) /\ n \in Nat \ {0} /\ DOMAIN c = 1 .. n /\ DOMAIN d = 1 .. n - 1
        /\ Head(c) = c[1] /\ \A i \in 1 .. n - 1 : d[i] = c[i + 1]
    OBVIOUS
  <1>2. \A i \in 1 .. n : i = 1 \/ (i - 1 \in 1 .. n - 1 /\ (i - 1) + 1 = i)
    BY <1>1
  <1>3. 1 \in 1 .. n /\ \A i \in 1 .. n - 1 : i + 1 \in 1 .. n /\ i + 1 # 1
    BY <1>1
  <1>9. \A i \in 1 .. n : c[i] \in Messages
    OBVIOUS
  <1>4. \A i \in 1 .. n : c[i].ack \in BOOLEAN
    BY <1>9 DEF Messages
  <1>8. \A i, j \in 1 .. n - 1 : i + 1 = j + 1 => i = j
    BY <1>1
  <1> HIDE DEF d, n
  <1>5. OneOfEach(d)
    <2> SUFFICES ASSUME NEW i \in 1 .. n - 1, NEW j \in 1 .. n - 1, d[i].ack = d[j].ack
                 PROVE  i = j
      BY <1>1 DEF OneOfEach
    <2>1. c[i + 1].ack = c[j + 1].ack /\ i + 1 \in DOMAIN c /\ j + 1 \in DOMAIN c
      BY <1>1, <1>3
    <2>2. i + 1 = j + 1
      BY <2>1 DEF OneOfEach
    <2> QED
      BY <2>2, <1>8
  <1>6. c[1].ack => HasAck(c) /\ ~HasAck(d) /\ (HasWord(d) <=> HasWord(c))
    <2> SUFFICES ASSUME c[1].ack PROVE HasAck(c) /\ ~HasAck(d) /\ (HasWord(d) <=> HasWord(c))
      OBVIOUS
    <2>1. \A i \in 1 .. n - 1 : ~d[i].ack
      <3> SUFFICES ASSUME NEW i \in 1 .. n - 1 PROVE ~d[i].ack
        OBVIOUS
      <3>1. c[i + 1].ack # c[1].ack
        BY <1>1, <1>3 DEF OneOfEach
      <3> QED
        BY <3>1, <1>1, <1>3, <1>4
    <2>2. HasWord(c) => HasWord(d)
      <3> SUFFICES ASSUME NEW i \in 1 .. n, ~c[i].ack
                   PROVE  \E j \in 1 .. n - 1 : ~d[j].ack
        BY <1>1 DEF HasWord
      <3>1. i - 1 \in 1 .. n - 1 /\ (i - 1) + 1 = i
        BY <1>2
      <3> QED
        BY <3>1, <1>1
    <2>3. HasWord(d) => HasWord(c)
      <3> SUFFICES ASSUME NEW i \in 1 .. n - 1, ~d[i].ack
                   PROVE  \E j \in 1 .. n : ~c[j].ack
        BY <1>1 DEF HasWord
      <3> QED
        BY <1>1, <1>3
    <2> QED
      BY <1>1, <1>3, <2>1, <2>2, <2>3 DEF HasAck
  <1>7. ~c[1].ack => HasWord(c) /\ ~HasWord(d) /\ (HasAck(d) <=> HasAck(c))
    <2> SUFFICES ASSUME ~c[1].ack PROVE HasWord(c) /\ ~HasWord(d) /\ (HasAck(d) <=> HasAck(c))
      OBVIOUS
    <2>1. \A i \in 1 .. n - 1 : d[i].ack
      <3> SUFFICES ASSUME NEW i \in 1 .. n - 1 PROVE d[i].ack
        OBVIOUS
      <3>1. c[i + 1].ack # c[1].ack
        BY <1>1, <1>3 DEF OneOfEach
      <3> QED
        BY <3>1, <1>1, <1>3, <1>4
    <2>2. HasAck(c) => HasAck(d)
      <3> SUFFICES ASSUME NEW i \in 1 .. n, c[i].ack
                   PROVE  \E j \in 1 .. n - 1 : d[j].ack
        BY <1>1 DEF HasAck
      <3>1. i - 1 \in 1 .. n - 1 /\ (i - 1) + 1 = i
        BY <1>2
      <3> QED
        BY <3>1, <1>1
    <2>3. HasAck(d) => HasAck(c)
      <3> SUFFICES ASSUME NEW i \in 1 .. n - 1, d[i].ack
                   PROVE  \E j \in 1 .. n : c[j].ack
        BY <1>1 DEF HasAck
      <3> QED
        BY <1>1, <1>3
    <2> QED
      BY <1>1, <1>3, <2>1, <2>2, <2>3 DEF HasWord
  <1> QED
    BY <1>1, <1>3, <1>4, <1>5, <1>6, <1>7 DEF d

\* The bytes of a word are at most three, whatever its code.
LEMMA SymbolsFew ==
  ASSUME NEW n \in Nat
  PROVE  Symbols(n) \in Seq(Nat \X Nat) /\ Len(Symbols(n)) \in 0 .. 3
  <1>1. Size(words[n]) \in 0 .. 3
    BY DEF Size
  <1>2. Symbols(n) \in [1 .. Size(words[n]) -> Nat \X Nat]
    BY <1>1 DEF Symbols
  <1> QED
    BY SMTT(30), <1>1, <1>2

\* What fits is queued, and nothing else happens.
LEMMA PushFits ==
  ASSUME NEW q \in Seq(Nat \X Nat), NEW s \in Seq(Nat \X Nat), Len(s) <= Space(q)
  PROVE  /\ Push(q, s) \in Seq(Nat \X Nat) /\ Len(Push(q, s)) = Len(q) + Len(s)
         /\ q # <<>> \/ s # <<>> => Push(q, s) # <<>>
  <1>1. FifoSize \in Nat
    BY MidiAssumption
  <1>2. /\ q \o s \in Seq(Nat \X Nat) /\ Len(q \o s) = Len(q) + Len(s)
        /\ Len(q) \in Nat /\ Len(s) \in Nat
    OBVIOUS
  <1>3. Len(q \o s) <= FifoSize
    BY <1>1, <1>2 DEF Space
  <1>4. SubSeq(q \o s, 1, Len(q \o s)) = q \o s
    BY <1>2
  <1>5. Push(q, s) = q \o s
    <2>1. ~(Len(q \o s) > FifoSize)
      BY <1>1, <1>2, <1>3
    <2> QED
      BY <1>4, <2>1, Zenon DEF Push
  <1>6. q # <<>> \/ s # <<>> => Len(q) + Len(s) # 0
    OBVIOUS
  <1>7. q \o s # <<>> \/ Len(q \o s) = 0
    OBVIOUS
  <1> QED
    BY <1>2, <1>5, <1>6, <1>7

-----------------------------------------------------------------------------
(***************************************************************************)
(* usb_midi.                                                               *)
(***************************************************************************)
\* What an event of the instrument does to the channel.
LEMMA PassFlow ==
  ASSUME TypeInv, Flow, NEW e, Pass(e), UNCHANGED <<sender, toMidi, inEnd, outEnd>>
  PROVE  TypeInv' /\ Flow'
  <1> USE DEF TypeInv, Flow, HostFlow, EventFlow, sender, inEnd, outEnd, toHost, Space
  <1>1. CASE UNCHANGED <<toHost, toEp>> /\ made' \in Nat
    BY <1>1
  <1>2. CASE /\ made' \in Nat /\ midi_to_host_fifo' = <<made'>>
             /\ UNCHANGED <<waiting_for_ack, toEp>>
    BY <1>2
  <1>3. CASE /\ made' \in Nat /\ ~waiting_for_ack /\ toEp' = Append(toEp, Data(made'))
             /\ waiting_for_ack' = TRUE /\ UNCHANGED midi_to_host_fifo
    <2>1. Data(made') \in Messages /\ ~Data(made').ack
      BY <1>3, MessageTypes
    <2>2. /\ toEp' \in Seq(Messages) /\ OneOfEach(toEp') /\ HasWord(toEp')
          /\ HasAck(toEp') <=> HasAck(toEp)
      BY <1>3, <2>1, Sent
    <2> QED
      BY <1>3, <2>2
  <1>4. CASE e = NoEvent
    BY <1>1, <1>4 DEF Pass
  <1>5. CASE e # NoEvent
    <2>1. made' \in Nat
      BY <1>5 DEF Pass
    <2> QED
      BY <1>1, <1>2, <1>3, <1>5, <2>1 DEF Pass
  <1> QED
    BY <1>4, <1>5

\* A byte begins to go out; with room again the word held back is acknowledged.
LEMMA StartSymbolFlow ==
  ASSUME TypeInv, Flow, StartSymbol
  PROVE  TypeInv' /\ Flow'
  <1> USE DEF TypeInv, Flow, HostFlow, EventFlow, parser, inEnd, outEnd, toHost
  <1>1. FifoSize \in Nat
    BY MidiAssumption
  <1>2. /\ symbol_fifo' = Tail(symbol_fifo) /\ symbol_fifo' \in Seq(Nat \X Nat)
        /\ Len(symbol_fifo') = Len(symbol_fifo) - 1 /\ Len(symbol_fifo) \in Nat
    BY DEF StartSymbol, Rest
  <1>3. symbol' # <<>> /\ (Space(symbol_fifo) > 3 => Space(symbol_fifo') > 3)
    BY <1>1, <1>2 DEF StartSymbol, Space
  <1>4. Space(symbol_fifo)' = Space(symbol_fifo')
    BY DEF Space
  <1>5. CASE Space(symbol_fifo') > 3 /\ midi_from_host_overflow
    <2>1. toEp' = Append(toEp, Ack) /\ midi_from_host_overflow' = FALSE
      BY <1>5 DEF StartSymbol
    <2>2. ~HasWord(toMidi) /\ ~HasAck(toEp)
      BY <1>5
    <2>3. /\ toEp' \in Seq(Messages) /\ OneOfEach(toEp') /\ HasAck(toEp')
          /\ HasWord(toEp') <=> HasWord(toEp)
      BY <2>1, <2>2, MessageTypes, Sent
    <2> QED
      BY <1>2, <1>3, <1>4, <1>5, <2>1, <2>2, <2>3 DEF StartSymbol
  <1>6. CASE ~(Space(symbol_fifo') > 3 /\ midi_from_host_overflow)
    BY <1>2, <1>3, <1>4, <1>6 DEF StartSymbol
  <1> QED
    BY <1>5, <1>6

\* A byte is out.
LEMMA EndSymbolFlow ==
  ASSUME TypeInv, Flow, EndSymbol
  PROVE  TypeInv' /\ Flow'
  BY DEF TypeInv, Flow, HostFlow, EventFlow, Space, EndSymbol, parser, inEnd, outEnd, toHost

\* XUA_Buffer_Ep has taken an event, and gets the one that was kept.
LEMMA MidiAckFlow ==
  ASSUME TypeInv, Flow, MidiAck
  PROVE  TypeInv' /\ Flow'
  <1> USE DEF TypeInv, Flow, HostFlow, EventFlow, Space, parser, sender, inEnd, outEnd
  <1>1. toMidi # <<>> /\ Head(toMidi).ack /\ toMidi' = Tail(toMidi)
    BY DEF MidiAck
  <1>2. /\ toMidi' \in Seq(Messages) /\ OneOfEach(toMidi') /\ HasAck(toMidi) /\ ~HasAck(toMidi')
        /\ HasWord(toMidi') <=> HasWord(toMidi)
    BY <1>1, Received
  <1>3. waiting_for_ack = TRUE /\ ~HasWord(toEp)
    BY <1>2
  <1>4. CASE midi_to_host_fifo # <<>>
    <2>1. Head(midi_to_host_fifo) \in Nat
      BY <1>4
    <2>2. toEp' = Append(toEp, Data(Head(midi_to_host_fifo))) /\ midi_to_host_fifo' = <<>>
      BY <1>4 DEF MidiAck
    <2>3. /\ toEp' \in Seq(Messages) /\ OneOfEach(toEp') /\ HasWord(toEp')
          /\ HasAck(toEp') <=> HasAck(toEp)
      BY <1>3, <2>1, <2>2, MessageTypes, Sent
    <2> QED
      BY <1>2, <1>3, <1>4, <2>2, <2>3 DEF MidiAck
  <1>5. CASE midi_to_host_fifo = <<>>
    BY <1>2, <1>3, <1>5 DEF MidiAck
  <1> QED
    BY <1>4, <1>5

\* A word of the host, acknowledged or held back.
LEMMA MidiDataFlow ==
  ASSUME TypeInv, Flow, MidiData
  PROVE  TypeInv' /\ Flow'
  <1> USE DEF TypeInv, Flow, HostFlow, EventFlow, parser, inEnd, outEnd, toHost
  <1> DEFINE s == Symbols(Head(toMidi).word)
  <1>1. toMidi # <<>> /\ ~Head(toMidi).ack /\ toMidi' = Tail(toMidi)
    BY DEF MidiData
  <1>2. /\ Head(toMidi) \in Messages /\ toMidi' \in Seq(Messages) /\ OneOfEach(toMidi')
        /\ HasWord(toMidi) /\ ~HasWord(toMidi') /\ (HasAck(toMidi') <=> HasAck(toMidi))
    BY <1>1, Received
  <1>3. /\ ~HasAck(toEp) /\ midi_from_host_overflow = FALSE /\ outEp = "taken"
        /\ Space(symbol_fifo) > 3
    BY <1>2
  <1>4. s \in Seq(Nat \X Nat) /\ Len(s) \in 0 .. 3 /\ Len(s) <= Space(symbol_fifo)
    <2>1. Head(toMidi).word \in Nat
      BY <1>2 DEF Messages
    <2>2. Space(symbol_fifo) \in Int
      BY MidiAssumption DEF Space
    <2>3. s \in Seq(Nat \X Nat) /\ Len(s) \in 0 .. 3
      BY <2>1, SymbolsFew
    <2>4. \A k \in 0 .. 3, x \in Int : x > 3 => k <= x
      OBVIOUS
    <2> QED
      BY <1>3, <2>2, <2>3, <2>4
  <1>5. symbol_fifo' = Push(symbol_fifo, s) /\ isTX' = (isTX \/ s # <<>>)
    BY DEF MidiData
  <1>6. symbol_fifo' \in Seq(Nat \X Nat) /\ (symbol_fifo # <<>> \/ s # <<>> => symbol_fifo' # <<>>)
    BY <1>4, <1>5, PushFits
  <1>7. Space(symbol_fifo)' = Space(symbol_fifo')
    BY DEF Space
  <1> HIDE DEF s
  <1>8. isTX' \in BOOLEAN /\ (isTX' /\ symbol' = <<>> => symbol_fifo' # <<>>)
    BY <1>5, <1>6 DEF MidiData
  <1>9. CASE Space(symbol_fifo') > 3
    <2>1. toEp' = Append(toEp, Ack) /\ UNCHANGED midi_from_host_overflow
      BY <1>9 DEF MidiData
    <2>2. /\ toEp' \in Seq(Messages) /\ OneOfEach(toEp') /\ HasAck(toEp')
          /\ HasWord(toEp') <=> HasWord(toEp)
      BY <1>3, <2>1, MessageTypes, Sent
    <2> QED
      BY <1>2, <1>3, <1>6, <1>7, <1>8, <1>9, <2>1, <2>2 DEF MidiData
  <1>10. CASE ~(Space(symbol_fifo') > 3)
    <2>1. UNCHANGED toEp /\ midi_from_host_overflow' = TRUE
      BY <1>10 DEF MidiData
    <2> QED
      BY <1>2, <1>3, <1>6, <1>7, <1>8, <1>10, <2>1 DEF MidiData
  <1> QED
    BY <1>9, <1>10

-----------------------------------------------------------------------------
(***************************************************************************)
(* XUA_Buffer_Ep.                                                          *)
(***************************************************************************)
\* A word is handed on when none is on its way, acknowledged or held back.
LEMMA SendWordFlow ==
  ASSUME TypeInv, OneOfEach(toMidi), ~HasWord(toMidi), packet # <<>>, SendWord
  PROVE  /\ toMidi' \in Seq(Messages) /\ packet' \in Seq(Nat) /\ OneOfEach(toMidi')
         /\ HasAck(toMidi') <=> HasAck(toMidi)
  <1>1. Head(packet) \in Nat /\ packet' \in Seq(Nat)
    BY DEF TypeInv, SendWord
  <1>2. toMidi' = Append(toMidi, Data(Head(packet))) /\ toMidi \in Seq(Messages)
    BY DEF TypeInv, SendWord
  <1> QED
    BY <1>1, <1>2, MessageTypes, Sent

\* A packet of the host.
LEMMA EpGivenFlow ==
  ASSUME TypeInv, Flow, EpGiven
  PROVE  TypeInv' /\ Flow'
  <1> USE DEF EpGiven, Flow, HostFlow, EventFlow, Space, parser, sender, inEnd, toHost
  <1>1. ~HasWord(toMidi) /\ ~HasAck(toEp) /\ midi_from_host_overflow = FALSE /\ outEp' = "taken"
    BY DEF TypeInv
  <1>2. CASE packet # <<>>
    <2>1. SendWord
      BY <1>2
    <2>2. /\ toMidi' \in Seq(Messages) /\ packet' \in Seq(Nat) /\ OneOfEach(toMidi')
          /\ HasAck(toMidi') <=> HasAck(toMidi)
      BY <1>1, <1>2, <2>1, SendWordFlow
    <2> QED
      BY <1>1, <2>2 DEF TypeInv
  <1>3. CASE packet = <<>>
    BY <1>1, <1>3 DEF TypeInv
  <1> QED
    BY <1>2, <1>3

\* An acknowledgement brings the next word, or makes the endpoint ready.
LEMMA EpAckFlow ==
  ASSUME TypeInv, Flow, EpAck
  PROVE  TypeInv' /\ Flow'
  <1> USE DEF EpAck, Flow, HostFlow, EventFlow, Space, parser, sender, inEnd, toHost
  <1>1. /\ toEp' \in Seq(Messages) /\ OneOfEach(toEp') /\ HasAck(toEp) /\ ~HasAck(toEp')
        /\ HasWord(toEp') <=> HasWord(toEp)
    BY Received DEF TypeInv
  <1>2. ~HasWord(toMidi) /\ midi_from_host_overflow = FALSE /\ outEp = "taken"
    BY <1>1 DEF TypeInv
  <1>3. CASE packet # <<>>
    <2>1. SendWord
      BY <1>3
    <2>2. /\ toMidi' \in Seq(Messages) /\ packet' \in Seq(Nat) /\ OneOfEach(toMidi')
          /\ HasAck(toMidi') <=> HasAck(toMidi)
      BY <1>2, <1>3, <2>1, SendWordFlow
    <2> QED
      BY <1>1, <1>2, <1>3, <2>2 DEF TypeInv
  <1>4. CASE packet = <<>>
    BY <1>1, <1>2, <1>4 DEF TypeInv
  <1> QED
    BY <1>3, <1>4

\* An event is collected, or thrown away, and acknowledged either way.
LEMMA EpDataFlow ==
  ASSUME TypeInv, Flow, EpData
  PROVE  TypeInv' /\ Flow'
  <1> USE DEF Flow, HostFlow, EventFlow, Space, parser, sender, outEnd, toHost
  <1>1. /\ toEp # <<>> /\ ~Head(toEp).ack /\ toEp' = Tail(toEp) /\ toMidi' = Append(toMidi, Ack)
        /\ UNCHANGED <<parser, made, heard, toHost, sender, outEnd>>
    BY DEF EpData
  <1>2. /\ toEp' \in Seq(Messages) /\ OneOfEach(toEp') /\ HasWord(toEp) /\ ~HasWord(toEp')
        /\ HasAck(toEp') <=> HasAck(toEp)
    BY <1>1, Received DEF TypeInv
  <1>3. ~HasAck(toMidi) /\ waiting_for_ack = TRUE
    BY <1>2 DEF TypeInv
  <1>4. /\ toMidi' \in Seq(Messages) /\ OneOfEach(toMidi') /\ HasAck(toMidi')
        /\ HasWord(toMidi') <=> HasWord(toMidi)
    BY <1>1, <1>3, MessageTypes, Sent DEF TypeInv
  <1> QED
    BY <1>1, <1>2, <1>3, <1>4 DEF TypeInv

\* The host has taken a packet: the channel is not concerned.
LEMMA EpSentFlow ==
  ASSUME TypeInv, Flow, EpSent
  PROVE  TypeInv' /\ Flow'
  BY DEF TypeInv, Flow, HostFlow, EventFlow, Space, EpSent, parser, sender, outEnd, toHost

\* Nor is it when the host reads.
LEMMA HostReadsFlow ==
  ASSUME TypeInv, Flow, HostReads
  PROVE  TypeInv' /\ Flow'
  BY DEF TypeInv, Flow, HostFlow, EventFlow, Space, HostReads, parser, sender, outEnd, toHost

\* The host writes a packet while the endpoint is ready.
LEMMA HostWritesFlow ==
  ASSUME TypeInv, Flow, NEW n \in Nat, NEW codes \in [1 .. n -> Codes], HostWrites(codes)
  PROVE  TypeInv' /\ Flow'
  <1> USE DEF HostWrites, parser, sender, inEnd, toHost
  <1>1. codes \in Seq(Codes16) /\ DOMAIN codes = 1 .. n
    <2>1. Codes \subseteq Codes16
      BY MidiAssumption DEF Codes16
    <2>2. codes \in [1 .. n -> Codes16]
      BY <2>1
    <2> HIDE DEF Codes16
    <2> QED
      BY <2>2
  <1>2. words' \in Seq(Codes16) /\ Len(words) \in Nat
    BY <1>1 DEF TypeInv
  <1>3. packet' \in [1 .. n -> Nat]
    <2>1. packet' = [i \in 1 .. n |-> Len(words) + i]
      BY <1>1
    <2>2. \A i \in 1 .. n : Len(words) + i \in Nat
      BY <1>2
    <2> QED
      BY <2>1, <2>2
  <1>4. packet' \in Seq(Nat)
    BY <1>3
  <1> QED
    BY <1>2, <1>4 DEF TypeInv, Flow, HostFlow, EventFlow, Space

-----------------------------------------------------------------------------
(***************************************************************************)
(* The invariant and the theorem.                                          *)
(***************************************************************************)
\* It holds of the initial states.
LEMMA FlowInit ==
  Init => TypeInv /\ Flow
  <1> SUFFICES ASSUME Init PROVE TypeInv /\ Flow
    OBVIOUS
  <1>1. TypeInv
    <2>1. /\ <<>> \in Seq(Messages) /\ <<>> \in Seq(Nat \X Nat) /\ <<>> \in Seq(Nat)
          /\ <<>> \in Seq(Codes16)
      OBVIOUS
    <2>2. {isTX, midi_from_host_overflow, waiting_for_ack} \subseteq BOOLEAN
      BY DEF Init
    <2> QED
      BY <2>1, <2>2 DEF Init, TypeInv
  <1>2. Flow
    <2>1. OneOfEach(<<>>) /\ ~HasWord(<<>>) /\ ~HasAck(<<>>)
      BY DEF OneOfEach, HasWord, HasAck
    <2>2. FifoSize - Len(<<>>) > 3
      BY MidiAssumption
    <2> QED
      BY <2>1, <2>2 DEF Init, Flow, HostFlow, EventFlow, Space
  <1> QED
    BY <1>1, <1>2

\* Every step preserves it.
LEMMA FlowNext ==
  TypeInv /\ Flow /\ [Next]_vars => TypeInv' /\ Flow'
  <1> SUFFICES ASSUME TypeInv, Flow, [Next]_vars PROVE TypeInv' /\ Flow'
    OBVIOUS
  <1>1. ASSUME NEW b, Receive(b) PROVE TypeInv' /\ Flow'
    <2>1. \E e : Pass(e) /\ UNCHANGED <<sender, toMidi, inEnd, outEnd>>
      BY <1>1 DEF Receive
    <2> QED
      BY <2>1, PassFlow
  <1>2. CASE StartSymbol
    BY <1>2, StartSymbolFlow
  <1>3. CASE EndSymbol
    BY <1>3, EndSymbolFlow
  <1>4. CASE MidiAck
    BY <1>4, MidiAckFlow
  <1>5. CASE MidiData
    BY <1>5, MidiDataFlow
  <1>6. CASE EpGiven
    BY <1>6, EpGivenFlow
  <1>7. CASE EpAck
    BY <1>7, EpAckFlow
  <1>8. CASE EpData
    BY <1>8, EpDataFlow
  <1>9. CASE EpSent
    BY <1>9, EpSentFlow
  <1>10. CASE HostReads
    BY <1>10, HostReadsFlow
  <1>11. ASSUME NEW n \in 0 .. PacketWords, NEW codes \in [1 .. n -> Codes], HostWrites(codes)
         PROVE  TypeInv' /\ Flow'
    <2>1. n \in Nat
      BY MidiAssumption
    <2> QED
      BY <1>11, <2>1, HostWritesFlow
  <1>12. CASE UNCHANGED vars
    BY <1>12 DEF TypeInv, Flow, OneOfEach, HasWord, HasAck, HostFlow, EventFlow, Space, vars,
                 parser, toHost, sender, inEnd, outEnd
  <1> QED
    BY <1>1, <1>2, <1>3, <1>4, <1>5, <1>6, <1>7, <1>8, <1>9, <1>10, <1>11, <1>12
    DEF Next, UsbMidi, Buffer

\* It is what the property needs: a word that arrives finds room because none is
\* held back.
LEMMA FlowSuffices ==
  TypeInv /\ Flow => FlowControlled
  <1> SUFFICES ASSUME TypeInv, Flow PROVE FlowControlled
    OBVIOUS
  <1>1. ASSUME toMidi # <<>>, ~Head(toMidi).ack
        PROVE  Len(Symbols(Head(toMidi).word)) <= Space(symbol_fifo)
    <2>1. Head(toMidi) \in Messages /\ HasWord(toMidi)
      BY <1>1, Received DEF TypeInv, Flow
    <2>2. Head(toMidi).word \in Nat
      BY <2>1 DEF Messages
    <2>3. Space(symbol_fifo) > 3
      BY <2>1 DEF TypeInv, Flow, HostFlow
    <2>4. Space(symbol_fifo) \in Int
      BY MidiAssumption DEF TypeInv, Space
    <2>5. Len(Symbols(Head(toMidi).word)) \in 0 .. 3
      BY <2>2, SymbolsFew
    <2>6. \A k \in 0 .. 3, x \in Int : x > 3 => k <= x
      OBVIOUS
    <2> QED
      BY <2>3, <2>4, <2>5, <2>6
  <1> QED
    BY <1>1 DEF Flow, HostFlow, FlowControlled

\* The two tasks hold each other back in time: neither end of the channel ever holds
\* more than one word and one acknowledgement, and every word that arrives at
\* usb_midi finds room for its bytes, whatever the sizes of the queue, the
\* buffers and the packets.
THEOREM FlowHolds == Spec => []FlowControlled
  <1>1. Spec => [](TypeInv /\ Flow)
    BY FlowInit, FlowNext, PTL DEF Spec
  <1> QED
    BY <1>1, FlowSuffices, PTL

-----------------------------------------------------------------------------
(***************************************************************************)
(* The parser and what the instrument plays.                               *)
(***************************************************************************)
Bytes    == 1 .. 255
Channel  == {NoteOn, Program}
Common   == {SongPointer, SongSelect}
Type(s)  == IF s \in Channel THEN "channel" ELSE "common"
Code(s)  == CASE s = NoteOn -> 9 [] s = Program -> 12 [] s = SongPointer -> 3 [] s = SongSelect -> 2

\* With the message s played up to its n-th byte the parser holds what is owed of it;
\* after a channel message it holds the status again.
ParsingOf(s, n, owing, state) ==
    /\ owing \in Seq(Bytes)
    /\ s \in {0, TuneRequest} => owing = <<>>
    /\ s = TuneRequest => n = 1
    /\ s = SysEx => /\ n \in 1 .. 3 /\ Len(owing) = n % 3
                    /\ \E code \in {0, 4} : state = InParseState("sysex", 0, code, owing)
    /\ s \in Channel \cup Common => n \in 1 .. Length(s)
    /\ s \in Channel \cup Common /\ n # Length(s) =>
         /\ Len(owing) = n /\ owing[1] = s
         /\ state = InParseState(Type(s), Length(s), Code(s), owing)
    /\ s \in Channel \cup Common /\ n = Length(s) =>
         /\ owing = <<>>
         /\ s \in Channel => state = InParseState("channel", Length(s), Code(s), <<s>>)
Parsing ==
    /\ playing \in [status : {0, SysEx, TuneRequest} \cup Channel \cup Common, at : 0 .. 3]
    /\ ParsingOf(playing.status, playing.at, owed, mips)

\* The kinds of messages are apart.
LEMMA Kinds ==
  /\ \A s \in Channel \cup Common :
       /\ s \in Bytes /\ isStatus(s) /\ s # EndOfSysEx /\ s \notin {0, SysEx, TuneRequest}
       /\ Length(s) \in 2 .. 3 /\ Code(s) \in 1 .. 15 /\ Size(Code(s)) = Length(s)
  /\ \A s \in Channel : s \notin Common
  /\ \A s \in {SysEx, TuneRequest} : s \in Bytes /\ isStatus(s) /\ s # EndOfSysEx /\ s # 0
  /\ SysEx # TuneRequest
  <1> USE DEF NoteOn, Program, SongPointer, SongSelect, SysEx, TuneRequest, EndOfSysEx
  <1>1. \A s \in Channel \cup Common :
           /\ s \in Bytes /\ isStatus(s) /\ s # EndOfSysEx /\ s \notin {0, SysEx, TuneRequest}
           /\ Length(s) \in 2 .. 3
    BY DEF Channel, Common, Bytes, isStatus, Length
  <1>2. \A s \in Channel \cup Common : Code(s) \in 1 .. 15 /\ Size(Code(s)) = Length(s)
    BY DEF Channel, Common, Code, Size, Length
  <1>3. \A s \in Channel : s \notin Common
    BY DEF Channel, Common
  <1>4. /\ \A s \in {SysEx, TuneRequest} : s \in Bytes /\ isStatus(s) /\ s # EndOfSysEx /\ s # 0
        /\ SysEx # TuneRequest
    BY DEF Bytes, isStatus
  <1> QED
    BY <1>1, <1>2, <1>3, <1>4

\* The states the parser may be in: in a message ...
LEMMA InMessage ==
  ASSUME NEW s \in Channel \cup Common, NEW n \in 1 .. Length(s), n # Length(s),
         NEW owing \in Seq(Bytes), Len(owing) = n, owing[1] = s
  PROVE  ParsingOf(s, n, owing, InParseState(Type(s), Length(s), Code(s), owing))
  <1>1. s \notin {0, SysEx, TuneRequest}
    BY Kinds
  <1> QED
    BY <1>1 DEF ParsingOf

\* ... behind one, where a channel message leaves its status ...
LEMMA BehindMessage ==
  ASSUME NEW s \in Channel \cup Common, NEW state,
         s \in Channel => state = InParseState("channel", Length(s), Code(s), <<s>>)
  PROVE  ParsingOf(s, Length(s), <<>>, state)
  <1>1. s \notin {0, SysEx, TuneRequest} /\ Length(s) \in 1 .. Length(s)
    BY Kinds
  <1>2. <<>> \in Seq(Bytes)
    OBVIOUS
  <1> QED
    BY <1>1, <1>2 DEF ParsingOf

\* ... in a system exclusive message ...
LEMMA InSysEx ==
  ASSUME NEW n \in 1 .. 3, NEW owing \in Seq(Bytes), Len(owing) = n % 3, NEW code \in {0, 4}
  PROVE  ParsingOf(SysEx, n, owing, InParseState("sysex", 0, code, owing))
  <1>1. SysEx \notin Channel \cup Common /\ SysEx \notin {0, TuneRequest}
    BY Kinds
  <1> QED
    BY <1>1 DEF ParsingOf

\* ... and behind one that leaves nothing.
LEMMA BehindAll ==
  ASSUME NEW s \in {0, TuneRequest}, NEW n, s = TuneRequest => n = 1, NEW state
  PROVE  ParsingOf(s, n, <<>>, state)
  <1>1. s \notin Channel \cup Common /\ s # SysEx
    BY Kinds
  <1>2. <<>> \in Seq(Bytes)
    OBVIOUS
  <1> QED
    BY <1>1, <1>2 DEF ParsingOf

\* What the parser makes of each kind of byte.
LEMMA ParseStatus ==
  ASSUME NEW s
  PROVE  /\ \A b \in Channel \cup Common :
              midi_in_parse(s, b) = Result(InParseState(Type(b), Length(b), Code(b), <<b>>), NoEvent)
         /\ midi_in_parse(s, SysEx) = Result(InParseState("sysex", 0, 0, <<SysEx>>), NoEvent)
         /\ \E state : midi_in_parse(s, TuneRequest)
                         = Result(state, makeEvent(5, <<TuneRequest>>))
         /\ midi_in_parse(s, TimingTick) = Result(s, makeEvent(15, <<TimingTick>>))
         /\ midi_in_parse(s, EndOfSysEx) = SysExEnd(s, EndOfSysEx)
         /\ \A b \in 1 .. 3 : midi_in_parse(s, b) = DataByte(s, b)
  <1>1. /\ midi_in_parse(s, NoteOn) = Result(InParseState("channel", 3, 9, <<NoteOn>>), NoEvent)
        /\ midi_in_parse(s, Program) = Result(InParseState("channel", 2, 12, <<Program>>), NoEvent)
    <2>1. highNibble(NoteOn) = 9 /\ highNibble(Program) = 12
      BY DEF highNibble, NoteOn, Program
    <2> QED
      BY <2>1 DEF midi_in_parse, RealTime, TimingTick, EndOfSysEx, ChannelStatus, NoteOn, Program
  <1>2. /\ midi_in_parse(s, SongPointer) = SystemStatus(SongPointer)
        /\ midi_in_parse(s, SongSelect) = SystemStatus(SongSelect)
        /\ midi_in_parse(s, SysEx) = SystemStatus(SysEx)
        /\ midi_in_parse(s, TuneRequest) = SystemStatus(TuneRequest)
    BY DEF midi_in_parse, RealTime, TimingTick, EndOfSysEx, SongPointer, SongSelect, SysEx,
           TuneRequest
  <1>3. /\ SystemStatus(SongPointer)
             = Result(InParseState("common", 3, 3, <<SongPointer>>), NoEvent)
        /\ SystemStatus(SongSelect)
             = Result(InParseState("common", 2, 2, <<SongSelect>>), NoEvent)
        /\ SystemStatus(SysEx) = Result(InParseState("sysex", 0, 0, <<SysEx>>), NoEvent)
        /\ \E state : SystemStatus(TuneRequest)
                        = Result(state, makeEvent(5, <<TuneRequest>>))
    BY DEF SystemStatus, SongPointer, SongSelect, SysEx, TuneRequest, TimeCode
  <1>4. /\ midi_in_parse(s, TimingTick) = Result(s, makeEvent(15, <<TimingTick>>))
        /\ midi_in_parse(s, EndOfSysEx) = SysExEnd(s, EndOfSysEx)
    BY DEF midi_in_parse, RealTime, TimingTick, EndOfSysEx
  <1>5. \A b \in 1 .. 3 : midi_in_parse(s, b) = DataByte(s, b)
    BY DEF midi_in_parse, RealTime, TimingTick, EndOfSysEx
  <1>6. /\ Type(NoteOn) = "channel" /\ Type(Program) = "channel"
        /\ Type(SongPointer) = "common" /\ Type(SongSelect) = "common"
    BY Kinds DEF Type, Channel, Common
  <1>7. /\ Length(NoteOn) = 3 /\ Length(SongPointer) = 3
        /\ Length(Program) = 2 /\ Length(SongSelect) = 2
        /\ Code(NoteOn) = 9 /\ Code(Program) = 12 /\ Code(SongPointer) = 3 /\ Code(SongSelect) = 2
    BY DEF Length, Code, NoteOn, Program, SongPointer, SongSelect, TuneRequest
  <1> QED
    BY <1>1, <1>2, <1>3, <1>4, <1>5, <1>6, <1>7 DEF Channel, Common

\* An event whose code says how many bytes it has is read back as it was made.
LEMMA CarriedWhole ==
  ASSUME NEW owing \in Seq(Bytes), NEW rest
  PROVE  /\ Carried(NoEvent, owing, rest) = owing
         /\ \A code \in 1 .. 15 : Size(code) = Len(owing)
                                    => Carried(makeEvent(code, owing), owing, rest) = rest
  <1>1. Carried(NoEvent, owing, rest) = owing
    BY DEF Carried
  <1>2. ASSUME NEW code \in 1 .. 15, Size(code) = Len(owing)
        PROVE  Carried(makeEvent(code, owing), owing, rest) = rest
    <2> DEFINE e == makeEvent(code, owing)
    <2>1. e # NoEvent /\ e.code = code /\ e.bytes = owing
      BY DEF makeEvent, NoEvent
    <2> HIDE DEF e
    <2>2. midi_out_parse(e) = [i \in 1 .. Len(owing) |-> IF i \in DOMAIN owing THEN owing[i] ELSE 0]
      BY <2>1, <1>2 DEF midi_out_parse
    <2>3. midi_out_parse(e) = owing
      BY <2>2
    <2>4. Carried(e, owing, rest) = rest
      BY <2>1, <2>3 DEF Carried
    <2> QED
      BY <2>4 DEF e
  <1> QED
    BY <1>1, <1>2

\* A status byte, whatever was going on before.
LEMMA BeginsWhole ==
  ASSUME NEW m, NEW b \in Statuses
  PROVE  LET parsed == midi_in_parse(m, b)
         IN  ParsingOf(b, 1, Carried(parsed.event, <<b>>, <<>>), parsed.state)
  <1> DEFINE parsed == midi_in_parse(m, b)
  <1>1. b \in Channel \cup Common \cup {SysEx, TuneRequest}
    BY MidiAssumption DEF Channel, Common
  <1>2. <<b>> \in Seq(Bytes) /\ Len(<<b>>) = 1 /\ <<b>>[1] = b
    BY <1>1, Kinds
  <1>3. CASE b \in Channel \cup Common
    <2>1. parsed.event = NoEvent /\ parsed.state = InParseState(Type(b), Length(b), Code(b), <<b>>)
      BY <1>3, ParseStatus DEF Result
    <2>2. Carried(NoEvent, <<b>>, <<>>) = <<b>>
      BY <1>2, CarriedWhole
    <2>3. 1 \in 1 .. Length(b) /\ 1 # Length(b)
      BY <1>3, Kinds
    <2> HIDE DEF parsed
    <2>4. ParsingOf(b, 1, <<b>>, InParseState(Type(b), Length(b), Code(b), <<b>>))
      BY <1>2, <1>3, <2>3, InMessage
    <2>5. ParsingOf(b, 1, Carried(parsed.event, <<b>>, <<>>), parsed.state)
      BY <2>1, <2>2, <2>4
    <2> QED
      BY <2>5 DEF parsed
  <1>4. CASE b = SysEx
    <2>1. parsed.event = NoEvent /\ parsed.state = InParseState("sysex", 0, 0, <<b>>)
      BY <1>4, ParseStatus DEF Result
    <2>2. Carried(NoEvent, <<b>>, <<>>) = <<b>>
      BY <1>2, CarriedWhole
    <2> HIDE DEF parsed
    <2>3. Len(<<b>>) = 1 % 3 /\ 1 \in 1 .. 3
      BY <1>2
    <2>4. ParsingOf(b, 1, <<b>>, InParseState("sysex", 0, 0, <<b>>))
      BY <1>2, <1>4, <2>3, InSysEx
    <2>5. ParsingOf(b, 1, Carried(parsed.event, <<b>>, <<>>), parsed.state)
      BY <2>1, <2>2, <2>4
    <2> QED
      BY <2>5 DEF parsed
  <1>5. CASE b = TuneRequest
    <2>1. parsed.event = makeEvent(5, <<b>>)
      BY <1>5, ParseStatus DEF Result
    <2>2. 5 \in 1 .. 15 /\ Size(5) = 1
      BY DEF Size
    <2>3. Carried(makeEvent(5, <<b>>), <<b>>, <<>>) = <<>>
      BY <1>2, <2>2, CarriedWhole
    <2> HIDE DEF parsed
    <2>4. ParsingOf(b, 1, <<>>, parsed.state)
      BY <1>5, BehindAll
    <2>5. ParsingOf(b, 1, Carried(parsed.event, <<b>>, <<>>), parsed.state)
      BY <2>1, <2>3, <2>4
    <2> QED
      BY <2>5 DEF parsed
  <1> QED
    BY <1>1, <1>3, <1>4, <1>5

\* A data byte in a message that is not complete, or after one with running status.
LEMMA DataInMessage ==
  ASSUME NEW s \in Channel \cup Common, NEW x \in Seq(Bytes), Len(x) \in 1 .. Length(s) - 1,
         x[1] = s, NEW b \in 1 .. 3
  PROVE  LET parsed == midi_in_parse(InParseState(Type(s), Length(s), Code(s), x), b)
         IN  ParsingOf(s, Len(x) + 1, Carried(parsed.event, Append(x, b), <<>>), parsed.state)
  <1> DEFINE state  == InParseState(Type(s), Length(s), Code(s), x)
             parsed == midi_in_parse(state, b)
             owing  == Append(x, b)
  <1>1. b \in Bytes /\ Length(s) \in 2 .. 3
    BY Kinds DEF Bytes
  <1>2. owing \in Seq(Bytes) /\ Len(owing) = Len(x) + 1 /\ owing[1] = s
    BY <1>1
  <1>3. /\ state.msg_type \in {"channel", "common"} /\ state.expect_msg_len = Length(s)
        /\ state.codeIndexNumber = Code(s) /\ state.receivebuffer = x
        /\ \A buffer : [state EXCEPT !.receivebuffer = buffer]
                         = InParseState(Type(s), Length(s), Code(s), buffer)
        /\ state.msg_type = Type(s)
    BY DEF InParseState, Type
  <1> HIDE DEF state
  <1>4. parsed = MessageData(state, owing)
    BY <1>3, ParseStatus DEF DataByte
  <1> HIDE DEF parsed, owing
  <1>5. CASE Len(owing) # Length(s)
    <2>1. /\ parsed.event = NoEvent
          /\ parsed.state = InParseState(Type(s), Length(s), Code(s), owing)
      BY <1>3, <1>4, <1>5 DEF MessageData, Result
    <2>2. Carried(NoEvent, owing, <<>>) = owing
      BY <1>2, CarriedWhole
    <2>3. Len(owing) \in 1 .. Length(s)
      BY <1>1, <1>2
    <2>4. ParsingOf(s, Len(owing), owing, InParseState(Type(s), Length(s), Code(s), owing))
      BY <1>2, <1>5, <2>3, InMessage
    <2>5. ParsingOf(s, Len(owing), Carried(parsed.event, owing, <<>>), parsed.state)
      BY <2>1, <2>2, <2>4
    <2> QED
      BY <1>2, <2>5 DEF parsed, owing, state
  <1>6. CASE Len(owing) = Length(s)
    <2>1. /\ parsed.event = makeEvent(Code(s), owing)
          /\ s \in Channel
               => parsed.state = InParseState(Type(s), Length(s), Code(s), <<owing[1]>>)
      BY <1>3, <1>4, <1>6, Kinds DEF MessageData, Result, Type
    <2>2. Carried(makeEvent(Code(s), owing), owing, <<>>) = <<>>
      BY SMTT(30), <1>2, <1>6, Kinds, CarriedWhole
    <2>3. s \in Channel => parsed.state = InParseState("channel", Length(s), Code(s), <<s>>)
      BY <1>2, <2>1 DEF Type
    <2>4. ParsingOf(s, Length(s), <<>>, parsed.state)
      BY <2>3, BehindMessage
    <2>5. ParsingOf(s, Len(owing), Carried(parsed.event, owing, <<>>), parsed.state)
      BY <1>6, <2>1, <2>2, <2>4
    <2> QED
      BY <1>2, <2>5 DEF parsed, owing, state
  <1> QED
    BY <1>5, <1>6

\* After three bytes of a system exclusive message the parser begins again.
LEMMA AfterThree ==
  ASSUME NEW code, NEW x, NEW buffer, Len(buffer) = 3
  PROVE  SysExData(InParseState("sysex", 0, code, x), buffer)
           = Result(InParseState("sysex", 0, 4, <<>>), makeEvent(4, buffer))
  <1> DEFINE state  == InParseState("sysex", 0, code, x)
             after  == [state EXCEPT !.codeIndexNumber = 4, !.receivebuffer = <<>>]
             right  == InParseState("sysex", 0, 4, <<>>)
             fields == {"msg_type", "expect_msg_len", "codeIndexNumber", "receivebuffer"}
  <1>1. DOMAIN after = fields /\ DOMAIN right = fields
    BY DEF InParseState
  <1>2. /\ after.msg_type = "sysex" /\ after.expect_msg_len = 0
        /\ after.codeIndexNumber = 4 /\ after.receivebuffer = <<>>
    BY DEF InParseState
  <1>3. /\ right.msg_type = "sysex" /\ right.expect_msg_len = 0
        /\ right.codeIndexNumber = 4 /\ right.receivebuffer = <<>>
    BY DEF InParseState
  <1>4. after = [f \in DOMAIN after |-> after[f]]
    BY DEF InParseState
  <1>5. right = [f \in DOMAIN right |-> right[f]]
    BY DEF InParseState
  <1> HIDE DEF after, right
  <1>6. \A f \in fields : after[f] = right[f]
    BY <1>2, <1>3
  <1>7. after = right
    BY <1>1, <1>4, <1>5, <1>6
  <1>8. SysExData(state, buffer) = Result(after, makeEvent(4, buffer))
    BY DEF after, SysExData
  <1> QED
    BY <1>7, <1>8 DEF right

\* A data byte in a system exclusive message, three to an event.
LEMMA DataInSysEx ==
  ASSUME NEW n \in 1 .. 3, NEW x \in Seq(Bytes), Len(x) = n % 3, NEW code \in {0, 4}
  PROVE  LET parsed == midi_in_parse(InParseState("sysex", 0, code, x), n)
         IN  ParsingOf(SysEx, (n % 3) + 1, Carried(parsed.event, Append(x, n), <<>>), parsed.state)
  <1> DEFINE state  == InParseState("sysex", 0, code, x)
             parsed == midi_in_parse(state, n)
             owing  == Append(x, n)
             next   == (n % 3) + 1
  <1>1. n \in Bytes /\ next \in 1 .. 3 /\ (n # 2 => (n % 3) + 1 = next % 3 /\ next # 3)
        /\ (n = 2 => next % 3 = 0 /\ (n % 3) + 1 = 3)
    <2>1. n = 1 \/ n = 2 \/ n = 3
      OBVIOUS
    <2> QED
      BY <2>1 DEF Bytes
  <1>2. owing \in Seq(Bytes) /\ Len(owing) = (n % 3) + 1
    BY <1>1
  <1>3. /\ state.msg_type = "sysex" /\ state.receivebuffer = x
        /\ [state EXCEPT !.receivebuffer = owing] = InParseState("sysex", 0, code, owing)
        /\ Len(owing) = 3
             => SysExData(state, owing)
                  = Result(InParseState("sysex", 0, 4, <<>>), makeEvent(4, owing))
    <2>1. state.msg_type = "sysex" /\ state.receivebuffer = x
      BY DEF InParseState
    <2>2. [state EXCEPT !.receivebuffer = owing] = InParseState("sysex", 0, code, owing)
      BY DEF InParseState
    <2>3. Len(owing) = 3
            => SysExData(state, owing)
                 = Result(InParseState("sysex", 0, 4, <<>>), makeEvent(4, owing))
      BY AfterThree
    <2> QED
      BY <2>1, <2>2, <2>3
  <1> HIDE DEF state
  <1>4. parsed = SysExData(state, owing)
    BY <1>3, ParseStatus DEF DataByte
  <1> HIDE DEF parsed, owing, next
  <1>5. CASE n # 2
    <2>1. Len(owing) = next % 3 /\ Len(owing) # 3
      BY <1>1, <1>2, <1>5 DEF next
    <2>2. parsed.event = NoEvent /\ parsed.state = InParseState("sysex", 0, code, owing)
      BY <1>3, <1>4, <2>1 DEF SysExData, Result
    <2>3. Carried(NoEvent, owing, <<>>) = owing
      BY <1>2, CarriedWhole
    <2>4. ParsingOf(SysEx, next, owing, InParseState("sysex", 0, code, owing))
      BY <1>1, <1>2, <2>1, InSysEx
    <2>5. ParsingOf(SysEx, next, Carried(parsed.event, owing, <<>>), parsed.state)
      BY <2>2, <2>3, <2>4
    <2> QED
      BY <2>5 DEF parsed, owing, state, next
  <1>6. CASE n = 2
    <2>1. Len(owing) = 3 /\ next % 3 = 0
      BY <1>1, <1>2, <1>6
    <2>2. /\ parsed.event = makeEvent(4, owing)
          /\ parsed.state = InParseState("sysex", 0, 4, <<>>)
      BY <1>3, <1>4, <2>1 DEF Result
    <2>3. 4 \in 1 .. 15 /\ Size(4) = 3
      BY DEF Size
    <2>4. Carried(makeEvent(4, owing), owing, <<>>) = <<>>
      BY <1>2, <2>1, <2>3, CarriedWhole
    <2>5. ParsingOf(SysEx, next, <<>>, InParseState("sysex", 0, 4, <<>>))
      <3>1. <<>> \in Seq(Bytes) /\ Len(<<>>) = 0 /\ 4 \in {0, 4}
        OBVIOUS
      <3> QED
        BY <1>1, <2>1, <3>1, InSysEx
    <2>6. ParsingOf(SysEx, next, Carried(parsed.event, owing, <<>>), parsed.state)
      BY <2>2, <2>4, <2>5
    <2> QED
      BY <2>6 DEF parsed, owing, state, next
  <1> QED
    BY <1>5, <1>6

\* The end of a system exclusive message, with what is left of it.
LEMMA EndInSysEx ==
  ASSUME NEW x \in Seq(Bytes), Len(x) \in 0 .. 2, NEW code, NEW n
  PROVE  LET parsed == midi_in_parse(InParseState("sysex", 0, code, x), EndOfSysEx)
         IN  ParsingOf(0, n, Carried(parsed.event, Append(x, EndOfSysEx), <<>>), parsed.state)
  <1> DEFINE state  == InParseState("sysex", 0, code, x)
             parsed == midi_in_parse(state, EndOfSysEx)
             owing  == Append(x, EndOfSysEx)
  <1>1. EndOfSysEx \in Bytes
    BY DEF Bytes, EndOfSysEx
  <1>2. owing \in Seq(Bytes) /\ Len(owing) = Len(x) + 1 /\ Len(owing) \in 1 .. 3
    <2>1. owing \in Seq(Bytes) /\ Len(owing) = Len(x) + 1
      BY <1>1
    <2>2. \A k \in 0 .. 2 : k + 1 \in 1 .. 3
      OBVIOUS
    <2> HIDE DEF owing
    <2> QED
      BY <2>1, <2>2
  <1>3. state.receivebuffer = x
    BY DEF InParseState
  <1> HIDE DEF state
  <1>4. parsed = SysExEnd(state, EndOfSysEx)
    BY ParseStatus
  <1>5. parsed.event = makeEvent(Len(owing) + 4, owing)
    BY <1>3, <1>4 DEF SysExEnd, Result
  <1> HIDE DEF parsed, owing
  <1>6. Len(owing) + 4 \in 1 .. 15 /\ Size(Len(owing) + 4) = Len(owing)
    <2>1. Len(owing) = 1 \/ Len(owing) = 2 \/ Len(owing) = 3
      BY <1>2
    <2>2. Size(5) = 1 /\ Size(6) = 2 /\ Size(7) = 3
      BY DEF Size
    <2>3. \A k \in 1 .. 3 : /\ k + 4 \in 1 .. 15
                          /\ (k = 1 => k + 4 = 5) /\ (k = 2 => k + 4 = 6) /\ (k = 3 => k + 4 = 7)
      OBVIOUS
    <2>4. ASSUME NEW k \in 1 .. 3 PROVE k + 4 \in 1 .. 15 /\ Size(k + 4) = k
      BY <2>2, <2>3
    <2> QED
      BY <1>2, <2>4
  <1>7. Carried(makeEvent(Len(owing) + 4, owing), owing, <<>>) = <<>>
    BY <1>2, <1>6, CarriedWhole
  <1>8. ParsingOf(0, n, <<>>, parsed.state)
    BY BehindAll, Kinds
  <1>9. ParsingOf(0, n, Carried(parsed.event, owing, <<>>), parsed.state)
    BY <1>5, <1>7, <1>8
  <1> QED
    BY <1>9 DEF parsed, owing, state

\* Every byte the instrument plays.
LEMMA ReceiveWhole ==
  ASSUME Parsing, NEW b, Receive(b)
  PROVE  Parsing'
  <1> DEFINE s      == playing.status
             n      == playing.at
             parsed == midi_in_parse(mips, b)
             Played == [status : {0, SysEx, TuneRequest} \cup Channel \cup Common, at : 0 .. 3]
  <1>1. /\ playing \in Played /\ ParsingOf(s, n, owed, mips) /\ owed \in Seq(Bytes)
        /\ n \in 0 .. 3 /\ mips' = parsed.state
    BY DEF Parsing, ParsingOf, Receive
  <1>2. s # 0 => n \in 1 .. 3
    BY <1>1, Kinds DEF ParsingOf
  <1>3. CASE b = TimingTick
    <2>1. parsed = Result(mips, makeEvent(15, <<b>>))
      BY <1>3, ParseStatus
    <2>2. <<b>> \in Seq(Bytes) /\ Len(<<b>>) = 1 /\ 15 \in 1 .. 15 /\ Size(15) = 1
      BY <1>3 DEF TimingTick, Bytes, Size
    <2>3. Carried(makeEvent(15, <<b>>), <<b>>, owed) = owed
      BY <2>2, CarriedWhole
    <2>4. playing' = playing /\ owed' = Carried(parsed.event, <<b>>, owed)
      BY <1>3 DEF Receive
    <2>5. parsed.state = mips /\ parsed.event = makeEvent(15, <<b>>)
      BY <2>1 DEF Result
    <2> QED
      BY <1>1, <2>3, <2>4, <2>5 DEF Parsing
  <1>4. CASE b # TimingTick /\ Begins(b)
    <2>1. b \in Statuses /\ playing' = [status |-> b, at |-> 1]
      BY <1>4 DEF Begins
    <2>2. b \in Channel \cup Common \cup {SysEx, TuneRequest}
      BY <2>1, MidiAssumption DEF Channel, Common
    <2>3. Owing(b) = <<b>>
      BY <2>2, Kinds DEF Owing
    <2>4. owed' = Carried(parsed.event, <<b>>, <<>>)
      BY <1>4, <2>3 DEF Receive
    <2>5. ParsingOf(b, 1, owed', mips')
      BY <1>1, <2>1, <2>4, BeginsWhole
    <2>6. playing' \in Played /\ playing'.status = b /\ playing'.at = 1
      BY <2>1, <2>2
    <2> QED
      BY <2>5, <2>6 DEF Parsing
  <1>5. CASE b # TimingTick /\ Continues(b)
    <2>1. /\ b \in 1 .. 3 /\ s # 0
          /\ \/ Running /\ b = 1 /\ playing' = [playing EXCEPT !.at = 2]
             \/ ~Complete /\ b = n
                /\ playing' = [playing EXCEPT !.at = IF s = SysEx THEN (n % 3) + 1 ELSE n + 1]
      BY <1>1, <1>5, <1>2 DEF Continues
    <2>2. ~isStatus(b)
      BY <2>1 DEF isStatus
    <2>3. owed' = Carried(parsed.event, Append(IF Running THEN <<s>> ELSE owed, b), <<>>)
      BY <1>5, <2>2 DEF Receive, Owing
    <2>4. CASE s = SysEx
      <3>1. ~Running /\ b = n /\ playing' = [playing EXCEPT !.at = (n % 3) + 1]
        BY <2>1, <2>4 DEF Running, Complete
      <3>2. /\ n \in 1 .. 3 /\ Len(owed) = n % 3
            /\ \E code \in {0, 4} : mips = InParseState("sysex", 0, code, owed)
        BY <1>1, <2>4 DEF ParsingOf
      <3>3. PICK code \in {0, 4} : mips = InParseState("sysex", 0, code, owed)
        BY <3>2
      <3>4. ParsingOf(SysEx, (n % 3) + 1, owed', mips')
        BY <1>1, <2>3, <3>1, <3>2, <3>3, DataInSysEx
      <3>5. (n % 3) + 1 \in 0 .. 3
        BY <3>2
      <3>6. playing' \in Played /\ playing'.status = SysEx /\ playing'.at = (n % 3) + 1
        BY <1>1, <2>4, <3>1, <3>5
      <3> QED
        BY <3>4, <3>6 DEF Parsing
    <2>5. CASE s \in Channel \cup Common
      <3> DEFINE x == IF Running THEN <<s>> ELSE owed
      <3>1. s \notin {SysEx, TuneRequest} /\ Length(s) \in 2 .. 3 /\ s \in Bytes
            /\ (Running => s \in Channel) /\ (Running <=> Complete /\ s \in Channel)
            /\ (Complete <=> n = Length(s))
        BY <2>5, Kinds DEF Running, Complete, Channel
      <3>2. /\ x \in Seq(Bytes) /\ Len(x) \in 1 .. Length(s) - 1 /\ x[1] = s
            /\ mips = InParseState(Type(s), Length(s), Code(s), x)
            /\ playing' = [playing EXCEPT !.at = Len(x) + 1]
            /\ owed' = Carried(parsed.event, Append(x, b), <<>>)
        <4>1. CASE Running
          <5>1. x = <<s>>
            BY <4>1
          <5>2. /\ <<s>> \in Seq(Bytes) /\ Len(<<s>>) = 1 /\ <<s>>[1] = s
            <6>1. \A u \in Bytes : <<u>> \in Seq(Bytes) /\ Len(<<u>>) = 1 /\ <<u>>[1] = u
              OBVIOUS
            <6> QED
              BY <3>1, <6>1
          <5>3. 1 \in 1 .. Length(s) - 1
            BY <3>1
          <5>4. /\ x \in Seq(Bytes) /\ Len(x) \in 1 .. Length(s) - 1 /\ Len(x) = 1 /\ x[1] = s
            BY <5>1, <5>2, <5>3
          <5> HIDE DEF x, s, n
          <5>5. mips = InParseState(Type(s), Length(s), Code(s), <<s>>)
            BY <1>1, <3>1, <4>1, <2>5 DEF ParsingOf, Type
          <5>6. playing' = [playing EXCEPT !.at = 2]
            BY <2>1, <4>1, <3>1
          <5> QED
            BY <2>3, <3>1, <4>1, <5>4, <5>5, <5>6
        <4>2. CASE ~Running
          <5>1. ~Complete /\ n # Length(s) /\ b = n
                /\ playing' = [playing EXCEPT !.at = n + 1]
            BY <2>1, <3>1, <4>2
          <5>2. /\ n \in 1 .. Length(s) /\ Len(owed) = n /\ owed[1] = s
                /\ mips = InParseState(Type(s), Length(s), Code(s), owed)
            BY <1>1, <2>5, <5>1 DEF ParsingOf
          <5>3. n \in 1 .. Length(s) - 1
            BY <3>1, <5>1, <5>2
          <5> QED
            BY <1>1, <2>3, <4>2, <5>1, <5>2, <5>3
        <4> QED
          BY <4>1, <4>2
      <3> HIDE DEF x
      <3>3. ParsingOf(s, Len(x) + 1, owed', mips')
        BY <1>1, <2>1, <2>5, <3>2, DataInMessage
      <3>4. Len(x) + 1 \in 0 .. 3
        BY <3>1, <3>2
      <3>5. playing' \in Played /\ playing'.status = s /\ playing'.at = Len(x) + 1
        BY <1>1, <3>2, <3>4
      <3> QED
        BY <3>3, <3>5 DEF Parsing
    <2>6. CASE s = TuneRequest
      <3>1. Length(s) = 1 /\ s # SysEx /\ ~Running
        BY <2>6, Kinds DEF Length, Running, TuneRequest, NoteOn, Program, SongPointer, SongSelect
      <3>2. b = n /\ n # 1 /\ playing' = [playing EXCEPT !.at = n + 1]
        BY <2>1, <3>1 DEF Complete
      <3> QED
        BY <1>1, <2>6, <3>2, Zenon DEF ParsingOf
    <2> QED
      BY <1>1, <2>1, <2>4, <2>5, <2>6
  <1>6. CASE b # TimingTick /\ Ends(b)
    <2>1. b = EndOfSysEx /\ s = SysEx /\ playing' = [status |-> 0, at |-> 0]
      BY <1>6 DEF Ends
    <2>2. /\ n \in 1 .. 3 /\ Len(owed) = n % 3
          /\ \E code \in {0, 4} : mips = InParseState("sysex", 0, code, owed)
      BY <1>1, <2>1 DEF ParsingOf
    <2>3. PICK code \in {0, 4} : mips = InParseState("sysex", 0, code, owed)
      BY <2>2
    <2>4. Len(owed) \in 0 .. 2
      BY <2>2
    <2>5. owed' = Carried(parsed.event, Append(owed, EndOfSysEx), <<>>)
      BY <1>6, <2>1 DEF Receive, Owing, Running, Complete
    <2>6. ParsingOf(0, 0, owed', mips')
      BY <1>1, <2>1, <2>3, <2>4, <2>5, EndInSysEx
    <2>7. playing' \in Played /\ playing'.status = 0 /\ playing'.at = 0
      BY <2>1
    <2> QED
      BY <2>6, <2>7 DEF Parsing
  <1> QED
    BY <1>3, <1>4, <1>5, <1>6 DEF Receive

\* What the parser is left with when a message is complete is nothing that is owed.
LEMMA ParsingSuffices ==
  ASSUME Parsing
  PROVE  MessagesWhole
  <1> DEFINE s == playing.status
  <1>1. ParsingOf(s, playing.at, owed, mips) /\ s \in {0, SysEx, TuneRequest} \cup Channel \cup Common
    BY DEF Parsing
  <1>2. owed # Garbled
    <2>1. owed \in Seq(Bytes)
      BY <1>1 DEF ParsingOf
    <2>2. SUFFICES ASSUME owed = Garbled PROVE FALSE
      OBVIOUS
    <2>3. owed[1] = 0 /\ owed[1] \in Bytes
      BY <2>1, <2>2 DEF Garbled
    <2> QED
      BY <2>3 DEF Bytes
  <1>3. Complete => owed = <<>>
    BY <1>1 DEF Complete, ParsingOf
  <1> QED
    BY <1>2, <1>3 DEF MessagesWhole

\* What the instrument plays reaches the host's side whole, for any of the messages it
\* may play: every event carries the bytes played since the last one, and a message
\* that is complete has left nothing in the parser.
THEOREM WholeMessages == Spec => []MessagesWhole
  <1>1. Init => Parsing
    <2> SUFFICES ASSUME Init PROVE Parsing
      OBVIOUS
    <2>1. playing \in [status : {0, SysEx, TuneRequest} \cup Channel \cup Common, at : 0 .. 3]
          /\ playing.status = 0 /\ owed = <<>>
      BY DEF Init
    <2>2. ParsingOf(0, playing.at, <<>>, mips)
      BY BehindAll, Kinds
    <2> QED
      BY <2>1, <2>2 DEF Parsing
  <1>2. Parsing /\ [Next]_vars => Parsing'
    <2> SUFFICES ASSUME Parsing, [Next]_vars PROVE Parsing'
      OBVIOUS
    <2>1. ASSUME NEW b, Receive(b) PROVE Parsing'
      BY <2>1, ReceiveWhole
    <2>2. ASSUME UNCHANGED parser PROVE Parsing'
      BY <2>2 DEF Parsing, parser
    <2>3. UsbMidi \/ Buffer \/ HostReads => UNCHANGED parser
      BY DEF UsbMidi, Buffer, StartSymbol, EndSymbol, MidiAck, MidiData, EpGiven, EpAck, EpData,
             EpSent, HostReads
    <2>4. ASSUME NEW codes, HostWrites(codes) PROVE UNCHANGED parser
      BY <2>4 DEF HostWrites
    <2> QED
      BY <2>1, <2>2, <2>3, <2>4 DEF Next, vars
  <1>3. Parsing => MessagesWhole
    BY ParsingSuffices
  <1> QED
    BY <1>1, <1>2, <1>3, PTL DEF Spec

-----------------------------------------------------------------------------
(***************************************************************************)
(* Sequences of sequences, one behind the other.                           *)
(***************************************************************************)
\* A set of natural numbers that holds 0, and with a number the next, holds all.
LEMMA Induction ==
  ASSUME NEW S, 0 \in S, \A n \in Nat : n \in S => n + 1 \in S
  PROVE  \A n \in Nat : n \in S
  <1> DEFINE Missing == {n \in Nat : n \notin S}
             R == OpToRel(<, Nat)
  <1> SUFFICES ASSUME Missing # {} PROVE FALSE
    OBVIOUS
  <1>1. IsWellFoundedOn(R, Nat) /\ Missing \subseteq Nat
    BY NatLessThanWellFounded
  <1>2. ASSUME NEW m \in Nat, NEW n \in Nat, m < n PROVE <<m, n>> \in R
    BY <1>2, SMT DEF OpToRel
  <1> HIDE DEF R
  <1>3. PICK n \in Missing : \A m \in Missing : ~ (<<m, n>> \in R)
    BY <1>1, WFMin
  <1>4. n \in Nat /\ n \notin S /\ n # 0
    BY <1>3
  <1>5. n - 1 \in Nat /\ (n - 1) + 1 = n /\ n - 1 < n
    BY <1>4
  <1>6. n - 1 \in S
    BY <1>2, <1>3, <1>4, <1>5
  <1> QED
    BY <1>4, <1>5, <1>6

\* What FlattenSeq computes: the first i of the sequences one behind the other, for
\* each i up to k.
Flattens(f, ss, k) == f = [i \in 1 .. k |-> IF i = 1 THEN ss[i] ELSE f[i - 1] \o ss[i]]

\* With one more sequence it goes one step further.
LEMMA FlattenStep ==
  ASSUME NEW T, NEW ss \in Seq(Seq(T)), NEW k \in Nat, k + 1 <= Len(ss),
         NEW f \in [1 .. k -> Seq(T)], Flattens(f, ss, k)
  PROVE  \E g \in [1 .. k + 1 -> Seq(T)] : Flattens(g, ss, k + 1)
  <1> DEFINE last == IF k = 0 THEN ss[1] ELSE f[k] \o ss[k + 1]
             g == [i \in 1 .. k + 1 |-> IF i = k + 1 THEN last ELSE f[i]]
  <1>1. ss[k + 1] \in Seq(T)
    OBVIOUS
  <1>2. last \in Seq(T)
    <2>1. CASE k = 0
      BY <2>1, <1>1
    <2>2. CASE k # 0
      <3>1. f[k] \in Seq(T)
        BY <2>2
      <3> QED
        BY <2>2, <3>1, <1>1, ConcatProperties
    <2> QED
      BY <2>1, <2>2
  <1>3. g \in [1 .. k + 1 -> Seq(T)]
    BY <1>2
  <1>4. ASSUME NEW i \in 1 .. k + 1
        PROVE  g[i] = IF i = 1 THEN ss[i] ELSE g[i - 1] \o ss[i]
    <2>1. CASE i = k + 1
      <3>1. g[i] = last
        BY <2>1
      <3>2. k # 0 => g[i - 1] = f[k]
        BY <2>1
      <3> QED
        BY <2>1, <3>1, <3>2
    <2>2. CASE i # k + 1
      <3>1. i \in 1 .. k /\ (i # 1 => i - 1 \in 1 .. k) /\ i - 1 # k + 1
        BY <2>2
      <3>2. f[i] = IF i = 1 THEN ss[i] ELSE f[i - 1] \o ss[i]
        BY <3>1, Zenon DEF Flattens
      <3>3. g[i] = f[i] /\ (i # 1 => g[i - 1] = f[i - 1])
        BY <3>1, <2>2
      <3> QED
        BY <3>2, <3>3, Zenon
    <2> QED
      BY <2>1, <2>2
  <1>5. Flattens(g, ss, k + 1)
    BY <1>4 DEF Flattens
  <1> QED
    BY <1>3, <1>5

\* There is such a function, and its values are sequences of the same elements.
LEMMA FlattenDefined ==
  ASSUME NEW T, NEW ss \in Seq(Seq(T))
  PROVE  \E f \in [1 .. Len(ss) -> Seq(T)] : Flattens(f, ss, Len(ss))
  <1> DEFINE Has(k) == \E f \in [1 .. k -> Seq(T)] : Flattens(f, ss, k)
             Solved == {k \in Nat : k <= Len(ss) => Has(k)}
  <1>1. 0 \in Solved
    <2> DEFINE none == [i \in 1 .. 0 |-> <<>>]
    <2>1. none \in [1 .. 0 -> Seq(T)] /\ Flattens(none, ss, 0)
      BY DEF Flattens
    <2> QED
      BY <2>1
  <1>2. ASSUME NEW k \in Nat, k \in Solved PROVE k + 1 \in Solved
    <2>1. k + 1 <= Len(ss) => k <= Len(ss)
      OBVIOUS
    <2>2. k + 1 <= Len(ss) => Has(k + 1)
      BY <1>2, <2>1, FlattenStep
    <2> HIDE DEF Has
    <2> QED
      BY <2>2
  <1> HIDE DEF Solved
  <1>3. \A k \in Nat : k \in Solved
    BY <1>1, <1>2, Induction
  <1> QED
    BY <1>3 DEF Solved

\* The one begins with the other.
Starts(tt, ss) == Len(ss) <= Len(tt) /\ \A i \in 1 .. Len(ss) : ss[i] = tt[i]

\* Two of them agree where they are both defined.
LEMMA FlattenUnique ==
  ASSUME NEW ss, NEW tt, NEW f, NEW g, Len(ss) \in Nat, Len(tt) \in Nat, Starts(tt, ss),
         Flattens(f, ss, Len(ss)), Flattens(g, tt, Len(tt))
  PROVE  \A i \in 1 .. Len(ss) : f[i] = g[i]
  <1> DEFINE Same == {k \in Nat : \A i \in 1 .. Len(ss) : i <= k => f[i] = g[i]}
  <1>0. Len(ss) <= Len(tt) /\ \A i \in 1 .. Len(ss) : ss[i] = tt[i]
    BY DEF Starts
  <1>1. 0 \in Same
    OBVIOUS
  <1>2. ASSUME NEW k \in Nat, k \in Same PROVE k + 1 \in Same
    <2> SUFFICES ASSUME k + 1 <= Len(ss) PROVE f[k + 1] = g[k + 1]
      <3>1. \A i \in 1 .. Len(ss) : i <= k + 1 => i <= k \/ i = k + 1
        OBVIOUS
      <3>2. \A i \in 1 .. Len(ss) : i <= k => f[i] = g[i]
        BY <1>2
      <3>3. \A i \in 1 .. Len(ss) : i = k + 1 => k + 1 <= Len(ss)
        OBVIOUS
      <3> QED
        BY <3>1, <3>2, <3>3
    <2>1. k + 1 \in 1 .. Len(ss) /\ k + 1 \in 1 .. Len(tt) /\ (k + 1) - 1 = k
      BY <1>0
    <2>2. /\ f[k + 1] = IF k + 1 = 1 THEN ss[k + 1] ELSE f[(k + 1) - 1] \o ss[k + 1]
          /\ g[k + 1] = IF k + 1 = 1 THEN tt[k + 1] ELSE g[(k + 1) - 1] \o tt[k + 1]
      BY <2>1, Zenon DEF Flattens
    <2>3. k + 1 # 1 => f[k] = g[k]
      BY <1>2, <2>1
    <2> QED
      BY <1>0, <2>1, <2>2, <2>3
  <1> HIDE DEF Same
  <1>3. \A k \in Nat : k \in Same
    BY <1>1, <1>2, Induction
  <1>4. Len(ss) \in Same
    BY <1>3
  <1> QED
    BY <1>4 DEF Same

\* The value FlattenSeq has.
LEMMA FlattenValue ==
  ASSUME NEW T, NEW ss \in Seq(Seq(T)), ss # <<>>
  PROVE  \E f \in [1 .. Len(ss) -> Seq(T)] : Flattens(f, ss, Len(ss)) /\ FlattenSeq(ss) = f[Len(ss)]
  <1> DEFINE f == CHOOSE f : Flattens(f, ss, Len(ss))
  <1>1. PICK g \in [1 .. Len(ss) -> Seq(T)] : Flattens(g, ss, Len(ss))
    BY FlattenDefined
  <1>2. Flattens(f, ss, Len(ss))
    BY <1>1
  <1>3. FlattenSeq(ss) = f[Len(ss)]
    BY DEF FlattenSeq, Flattens
  <1> HIDE DEF f
  <1>4. \A i \in 1 .. Len(ss) : f[i] = g[i]
    <2>1. Starts(ss, ss) /\ Len(ss) \in Nat
      BY DEF Starts
    <2> QED
      BY <1>1, <1>2, <2>1, FlattenUnique
  <1>5. f \in [1 .. Len(ss) -> Seq(T)]
    BY <1>1, <1>2, <1>4 DEF Flattens
  <1> QED
    BY <1>2, <1>3, <1>5

\* Nothing flattened is nothing.
LEMMA FlattenNothing ==
  FlattenSeq(<<>>) = <<>>
  BY DEF FlattenSeq

\* What is flattened is a sequence of the elements.
LEMMA FlattenType ==
  ASSUME NEW T, NEW ss \in Seq(Seq(T))
  PROVE  FlattenSeq(ss) \in Seq(T)
  <1>1. CASE ss = <<>>
    <2>1. <<>> \in Seq(T)
      OBVIOUS
    <2> QED
      BY <1>1, <2>1, FlattenNothing, Zenon
  <1>2. CASE ss # <<>>
    <2>1. PICK f \in [1 .. Len(ss) -> Seq(T)] : FlattenSeq(ss) = f[Len(ss)]
      BY <1>2, FlattenValue
    <2>2. Len(ss) \in 1 .. Len(ss)
      BY <1>2
    <2> QED
      BY <2>1, <2>2
  <1> QED
    BY <1>1, <1>2

\* One sequence flattened is that sequence.
LEMMA FlattenOne ==
  ASSUME NEW T, NEW s \in Seq(T)
  PROVE  FlattenSeq(<<s>>) = s
  <1>1. <<s>> \in Seq(Seq(T)) /\ <<s>> # <<>> /\ Len(<<s>>) = 1 /\ <<s>>[1] = s
    OBVIOUS
  <1>2. PICK f \in [1 .. 1 -> Seq(T)] : Flattens(f, <<s>>, 1) /\ FlattenSeq(<<s>>) = f[1]
    BY <1>1, FlattenValue
  <1>3. f[1] = s
    BY <1>1, <1>2 DEF Flattens
  <1> QED
    BY <1>2, <1>3

\* The parts that two of them have in common flatten to the same.
LEMMA FlattenSame ==
  ASSUME NEW T, NEW ss \in Seq(Seq(T)), NEW tt \in Seq(Seq(T)), Starts(tt, ss), NEW f, NEW g,
         Flattens(f, ss, Len(ss)), Flattens(g, tt, Len(tt)), ss # <<>>
  PROVE  f[Len(ss)] = g[Len(ss)]
  <1>1. Len(ss) \in Nat /\ Len(tt) \in Nat /\ Len(ss) \in 1 .. Len(ss)
    OBVIOUS
  <1>2. \A i \in 1 .. Len(ss) : f[i] = g[i]
    BY <1>1, FlattenUnique
  <1> QED
    BY <1>1, <1>2

\* A sequence more is its elements more.
LEMMA FlattenMore ==
  ASSUME NEW T, NEW ss \in Seq(Seq(T)), NEW s \in Seq(T), NEW tt \in Seq(Seq(T)),
         Len(tt) = Len(ss) + 1, Starts(tt, ss), tt[Len(ss) + 1] = s
  PROVE  FlattenSeq(tt) = FlattenSeq(ss) \o s
  <1>1. PICK g : Flattens(g, tt, Len(tt)) /\ FlattenSeq(tt) = g[Len(tt)]
    <2>1. tt # <<>>
      OBVIOUS
    <2> QED
      BY <2>1, FlattenValue
  <1>2. g[Len(tt)] = IF ss = <<>> THEN s ELSE g[Len(ss)] \o s
    <2>1. /\ Len(tt) \in 1 .. Len(tt) /\ (Len(tt) = 1 <=> ss = <<>>)
          /\ Len(tt) - 1 = Len(ss) /\ tt[Len(tt)] = s
      OBVIOUS
    <2>2. g[Len(tt)] = IF Len(tt) = 1 THEN tt[Len(tt)] ELSE g[Len(tt) - 1] \o tt[Len(tt)]
      BY <1>1, <2>1, Zenon DEF Flattens
    <2> QED
      BY <2>1, <2>2, Zenon
  <1>3. CASE ss = <<>>
    <2>1. <<>> \o s = s
      BY ConcatEmptySeq
    <2> QED
      BY <1>1, <1>2, <1>3, <2>1, FlattenNothing
  <1>4. CASE ss # <<>>
    <2>1. PICK f : Flattens(f, ss, Len(ss)) /\ FlattenSeq(ss) = f[Len(ss)]
      BY <1>4, FlattenValue
    <2>2. f[Len(ss)] = g[Len(ss)]
      BY <1>1, <1>4, <2>1, FlattenSame
    <2> QED
      BY <1>1, <1>2, <1>4, <2>1, <2>2, Zenon
  <1> QED
    BY <1>3, <1>4

\* The same of a sequence and one appended.
LEMMA FlattenAppend ==
  ASSUME NEW T, NEW ss \in Seq(Seq(T)), NEW s \in Seq(T)
  PROVE  FlattenSeq(Append(ss, s)) = FlattenSeq(ss) \o s
  <1>1. PICK tt \in Seq(Seq(T)) : tt = Append(ss, s)
    BY AppendProperties
  <1>2. /\ Len(tt) = Len(ss) + 1 /\ Len(ss) \in Nat /\ tt[Len(ss) + 1] = s
        /\ \A i \in 1 .. Len(ss) : ss[i] = tt[i]
    BY <1>1, AppendProperties
  <1>3. Starts(tt, ss)
    BY <1>2 DEF Starts
  <1>4. FlattenSeq(tt) = FlattenSeq(ss) \o s
    BY <1>2, <1>3, FlattenMore
  <1> QED
    BY <1>1, <1>4

\* Flattening goes through a concatenation.
LEMMA FlattenConcat ==
  ASSUME NEW T, NEW ss \in Seq(Seq(T)), NEW tt \in Seq(Seq(T))
  PROVE  FlattenSeq(ss \o tt) = FlattenSeq(ss) \o FlattenSeq(tt)
  <1> DEFINE Through(uu) == FlattenSeq(ss \o uu) = FlattenSeq(ss) \o FlattenSeq(uu)
             Good == {k \in Nat : \A uu \in Seq(Seq(T)) : Len(uu) = k => Through(uu)}
  <1>1. 0 \in Good
    <2>1. ASSUME NEW uu \in Seq(Seq(T)), Len(uu) = 0 PROVE Through(uu)
      <3>1. uu = <<>>
        BY <2>1
      <3>2. FlattenSeq(ss) \in Seq(T)
        BY FlattenType
      <3>3. ss \o <<>> = ss /\ FlattenSeq(ss) \o <<>> = FlattenSeq(ss)
        BY <3>2, ConcatEmptySeq
      <3> QED
        BY <3>1, <3>3, FlattenNothing
    <2> HIDE DEF Through
    <2> QED
      BY <2>1
  <1>2. ASSUME NEW k \in Nat, k \in Good PROVE k + 1 \in Good
    <2>1. ASSUME NEW uu \in Seq(Seq(T)), Len(uu) = k + 1 PROVE Through(uu)
      <3> DEFINE front == SubSeq(uu, 1, k)
                 last  == uu[k + 1]
      <3>1. last \in Seq(T)
        BY <2>1
      <3>2. front \in Seq(Seq(T)) /\ Len(front) = k /\ uu = Append(front, last)
        BY <2>1
      <3> HIDE DEF front, last
      <3>3. FlattenSeq(ss \o front) = FlattenSeq(ss) \o FlattenSeq(front)
        BY <1>2, <3>2
      <3>4. ss \o Append(front, last) = Append(ss \o front, last) /\ ss \o front \in Seq(Seq(T))
        BY <3>1, <3>2
      <3>5. FlattenSeq(ss \o uu) = FlattenSeq(ss \o front) \o last
        BY <3>1, <3>2, <3>4, FlattenAppend
      <3>6. FlattenSeq(uu) = FlattenSeq(front) \o last
        BY <3>1, <3>2, FlattenAppend
      <3>7. FlattenSeq(ss) \in Seq(T) /\ FlattenSeq(front) \in Seq(T)
        BY <3>2, FlattenType
      <3>8. (FlattenSeq(ss) \o FlattenSeq(front)) \o last
            = FlattenSeq(ss) \o (FlattenSeq(front) \o last)
        BY <3>1, <3>7, ConcatAssociative
      <3> QED
        BY <3>3, <3>5, <3>6, <3>8
    <2> HIDE DEF Through
    <2> QED
      BY <2>1
  <1> HIDE DEF Good
  <1>3. \A k \in Nat : k \in Good
    BY <1>1, <1>2, Induction
  <1>4. Len(tt) \in Good
    BY <1>3
  <1> QED
    BY <1>4 DEF Good

-----------------------------------------------------------------------------
(***************************************************************************)
(* The words in a channel, and the bytes of words.                         *)
(***************************************************************************)
\* A channel without a word.
LEMMA WordNone ==
  ASSUME NEW c, ~HasWord(c)
  PROVE  Words(c) = <<>>
  BY DEF HasWord, Words, WordsAt

\* With one of each kind, the word that is there is the one.
LEMMA WordThere ==
  ASSUME NEW c, OneOfEach(c), NEW i \in DOMAIN c, ~c[i].ack,
         \A k \in DOMAIN c : c[k].ack \in BOOLEAN
  PROVE  Words(c) = <<c[i].word>>
  <1>1. i \in WordsAt(c)
    BY DEF WordsAt
  <1>2. \A j \in WordsAt(c) : j = i
    BY DEF WordsAt, OneOfEach
  <1>3. (CHOOSE j \in WordsAt(c) : TRUE) = i
    BY <1>1, <1>2
  <1> QED
    BY <1>1, <1>3 DEF Words

\* A channel holds messages.
LEMMA MessagesAt ==
  ASSUME NEW c \in Seq(Messages), NEW i \in DOMAIN c
  PROVE  c[i] \in Messages /\ c[i].ack \in BOOLEAN /\ c[i].word \in Nat
  <1>1. c[i] \in Messages
    OBVIOUS
  <1> QED
    BY <1>1 DEF Messages

\* Words are numbers, and there is one at most.
LEMMA WordsType ==
  ASSUME NEW c \in Seq(Messages)
  PROVE  Words(c) \in Seq(Nat) /\ Len(Words(c)) <= 1
  <1>1. CASE WordsAt(c) = {}
    BY <1>1 DEF Words
  <1>2. CASE WordsAt(c) # {}
    <2> DEFINE i == CHOOSE i \in WordsAt(c) : TRUE
    <2>1. i \in WordsAt(c)
      BY <1>2
    <2> HIDE DEF i
    <2>2. c[i].word \in Nat
      BY <2>1, MessagesAt DEF WordsAt
    <2>3. Words(c) = <<c[i].word>>
      BY <1>2 DEF Words, i
    <2> QED
      BY <2>2, <2>3
  <1> QED
    BY <1>1, <1>2

\* An acknowledgement that is sent leaves the words as they are, and a word is there
\* when it has been sent.
LEMMA WordsSent ==
  ASSUME NEW c \in Seq(Messages), NEW m \in Messages, OneOfEach(c),
         m.ack => ~HasAck(c), ~m.ack => ~HasWord(c)
  PROVE  Words(Append(c, m)) = IF m.ack THEN Words(c) ELSE <<m.word>>
  <1> DEFINE d == Append(c, m)
             n == Len(c)
  <1>1. /\ d \in Seq(Messages) /\ DOMAIN d = 1 .. n + 1 /\ DOMAIN c = 1 .. n /\ n \in Nat
        /\ d[n + 1] = m /\ \A i \in 1 .. n : d[i] = c[i]
    BY AppendProperties
  <1>2. OneOfEach(d) /\ (HasWord(d) <=> HasWord(c) \/ ~m.ack)
    BY Sent
  <1>3. \A i \in DOMAIN d : d[i].ack \in BOOLEAN
    BY <1>1, MessagesAt
  <1>4. \A i \in DOMAIN c : c[i].ack \in BOOLEAN
    BY MessagesAt
  <1> HIDE DEF d, n
  <1>5. CASE ~m.ack
    <2>1. n + 1 \in DOMAIN d /\ ~d[n + 1].ack /\ d[n + 1].word = m.word
      BY <1>1, <1>5
    <2>2. Words(d) = <<d[n + 1].word>>
      BY <1>2, <1>3, <2>1, WordThere
    <2> QED
      BY <1>5, <2>1, <2>2 DEF d
  <1>6. CASE m.ack /\ HasWord(c)
    <2>1. PICK i \in 1 .. n : ~c[i].ack
      BY <1>1, <1>6 DEF HasWord
    <2>2. i \in DOMAIN d /\ i \in DOMAIN c /\ d[i] = c[i]
      BY <1>1, <2>1
    <2>3. Words(c) = <<c[i].word>>
      BY <1>4, <2>1, <2>2, WordThere
    <2>4. Words(d) = <<d[i].word>>
      BY <1>2, <1>3, <2>1, <2>2, WordThere
    <2> QED
      BY <1>6, <2>2, <2>3, <2>4 DEF d
  <1>7. CASE m.ack /\ ~HasWord(c)
    <2>1. Words(c) = <<>> /\ Words(d) = <<>>
      BY <1>2, <1>7, WordNone
    <2> QED
      BY <1>7, <2>1 DEF d
  <1> QED
    BY <1>5, <1>6, <1>7

\* An acknowledgement that is received leaves the words as they are, and a word that is
\* received was the one there was.
LEMMA WordsReceived ==
  ASSUME NEW c \in Seq(Messages), c # <<>>, OneOfEach(c)
  PROVE  /\ Head(c).ack => Words(Tail(c)) = Words(c)
         /\ ~Head(c).ack => Words(c) = <<Head(c).word>> /\ Words(Tail(c)) = <<>>
  <1> DEFINE d == Tail(c)
             n == Len(c)
  <1>1. /\ d \in Seq(Messages) /\ n \in Nat \ {0} /\ DOMAIN c = 1 .. n /\ DOMAIN d = 1 .. n - 1
        /\ Head(c) = c[1] /\ \A i \in 1 .. n - 1 : d[i] = c[i + 1]
    OBVIOUS
  <1>2. /\ OneOfEach(d)
        /\ Head(c).ack => (HasWord(d) <=> HasWord(c))
        /\ ~Head(c).ack => ~HasWord(d)
    BY Received
  <1>3. \A i \in DOMAIN d : d[i].ack \in BOOLEAN
    BY <1>1, MessagesAt
  <1>4. \A i \in DOMAIN c : c[i].ack \in BOOLEAN
    BY MessagesAt
  <1>5. 1 \in DOMAIN c
    BY <1>1
  <1> HIDE DEF d, n
  <1>6. CASE ~Head(c).ack
    <2>1. Words(d) = <<>>
      BY <1>2, <1>6, WordNone
    <2>2. Words(c) = <<c[1].word>>
      BY <1>1, <1>4, <1>5, <1>6, WordThere
    <2> QED
      BY <1>1, <1>6, <2>1, <2>2 DEF d
  <1>7. CASE Head(c).ack /\ HasWord(d)
    <2>1. PICK i \in 1 .. n - 1 : ~d[i].ack
      BY <1>1, <1>7 DEF HasWord
    <2>2. i \in DOMAIN d /\ i + 1 \in DOMAIN c /\ d[i] = c[i + 1]
      BY <1>1, <2>1
    <2>3. Words(d) = <<d[i].word>>
      BY <1>2, <1>3, <2>1, <2>2, WordThere
    <2>4. Words(c) = <<c[i + 1].word>>
      BY <1>4, <2>1, <2>2, WordThere
    <2> QED
      BY <1>7, <2>2, <2>3, <2>4 DEF d
  <1>8. CASE Head(c).ack /\ ~HasWord(d)
    <2>1. Words(d) = <<>> /\ Words(c) = <<>>
      BY <1>2, <1>8, WordNone
    <2> QED
      BY <1>8, <2>1 DEF d
  <1> QED
    BY <1>6, <1>7, <1>8

\* The bytes of words with the codes ws, word for word.
Spelling(ws, n) == [j \in 1 .. Size(ws[n]) |-> <<n, j>>]
Spelt(ws, ns)   == [i \in DOMAIN ns |-> Spelling(ws, ns[i])]
Encoded(ws, ns) == FlattenSeq(Spelt(ws, ns))

\* A word is a sequence of bytes.
LEMMA SpellingType ==
  ASSUME NEW ws, NEW n \in Nat
  PROVE  Spelling(ws, n) \in Seq(Nat \X Nat)
  <1>1. Size(ws[n]) \in Nat
    BY DEF Size
  <1> HIDE DEF Size
  <1>2. Spelling(ws, n) \in [1 .. Size(ws[n]) -> Nat \X Nat]
    BY <1>1 DEF Spelling
  <1> QED
    BY <1>1, <1>2

\* Words are spelt one by one.
LEMMA SpeltType ==
  ASSUME NEW ws, NEW ns \in Seq(Nat)
  PROVE  /\ Spelt(ws, ns) \in Seq(Seq(Nat \X Nat)) /\ Len(Spelt(ws, ns)) = Len(ns)
         /\ \A i \in 1 .. Len(ns) : Spelt(ws, ns)[i] = Spelling(ws, ns[i])
  <1>1. \A i \in 1 .. Len(ns) : Spelling(ws, ns[i]) \in Seq(Nat \X Nat)
    BY SpellingType
  <1>2. DOMAIN ns = 1 .. Len(ns) /\ Len(ns) \in Nat
    OBVIOUS
  <1>3. Spelt(ws, ns) = [i \in 1 .. Len(ns) |-> Spelling(ws, ns[i])]
    BY <1>2 DEF Spelt
  <1>4. Spelt(ws, ns) \in [1 .. Len(ns) -> Seq(Nat \X Nat)]
    BY <1>1, <1>3
  <1>5. \A i \in 1 .. Len(ns) : Spelt(ws, ns)[i] = Spelling(ws, ns[i])
    BY <1>3, Zenon
  <1>6. Spelt(ws, ns) \in Seq(Seq(Nat \X Nat)) /\ Len(Spelt(ws, ns)) = Len(ns)
    BY <1>2, <1>4
  <1> QED
    BY <1>5, <1>6

\* The bytes of words are bytes.
LEMMA EncodedType ==
  ASSUME NEW ws, NEW ns \in Seq(Nat)
  PROVE  Encoded(ws, ns) \in Seq(Nat \X Nat)
  BY SpeltType, FlattenType DEF Encoded

\* No words have none.
LEMMA EncodedNone ==
  ASSUME NEW ws
  PROVE  Encoded(ws, <<>>) = <<>>
  <1>1. Spelt(ws, <<>>) = <<>>
    BY DEF Spelt
  <1> QED
    BY <1>1, FlattenNothing DEF Encoded

\* The bytes of one word.
LEMMA EncodedOne ==
  ASSUME NEW n \in Nat
  PROVE  Encoded(words, <<n>>) = Symbols(n)
  <1>1. Symbols(n) \in Seq(Nat \X Nat)
    BY SymbolsFew
  <1>2. Spelt(words, <<n>>) = <<Symbols(n)>>
    <2>1. Spelling(words, n) = Symbols(n)
      BY DEF Spelling, Symbols
    <2>2. <<n>> \in Seq(Nat) /\ Len(<<n>>) = 1 /\ <<n>>[1] = n /\ 1 \in 1 .. 1
      OBVIOUS
    <2>3. /\ Spelt(words, <<n>>) \in Seq(Seq(Nat \X Nat)) /\ Len(Spelt(words, <<n>>)) = 1
          /\ Spelt(words, <<n>>)[1] = Symbols(n)
      BY <2>1, <2>2, SpeltType
    <2> QED
      BY <2>3
  <1>3. FlattenSeq(<<Symbols(n)>>) = Symbols(n)
    BY <1>1, FlattenOne
  <1> QED
    BY <1>2, <1>3, Zenon DEF Encoded

\* The bytes of words one behind the other.
LEMMA EncodedConcat ==
  ASSUME NEW ws, NEW ns \in Seq(Nat), NEW ms \in Seq(Nat)
  PROVE  Encoded(ws, ns \o ms) = Encoded(ws, ns) \o Encoded(ws, ms)
  <1> DEFINE a == Spelt(ws, ns)
             b == Spelt(ws, ms)
             c == Spelt(ws, ns \o ms)
             T == Nat \X Nat
  <1>1. /\ a \in Seq(Seq(T)) /\ Len(a) = Len(ns)
        /\ b \in Seq(Seq(T)) /\ Len(b) = Len(ms)
    BY SpeltType
  <1>2. ns \o ms \in Seq(Nat) /\ Len(ns \o ms) = Len(ns) + Len(ms)
    OBVIOUS
  <1>3. c \in Seq(Seq(T)) /\ Len(c) = Len(ns) + Len(ms)
    BY <1>2, SpeltType
  <1> HIDE DEF a, b, c, T
  <1>4. a \o b \in Seq(Seq(T)) /\ Len(a \o b) = Len(ns) + Len(ms)
    <2>1. a \in Seq(Seq(T)) /\ b \in Seq(Seq(T))
      BY <1>1
    <2>2. a \o b \in Seq(Seq(T)) /\ Len(a \o b) = Len(a) + Len(b)
      BY <2>1, ConcatProperties, Zenon
    <2> QED
      BY <1>1, <2>2
  <1>5. ASSUME NEW i \in 1 .. Len(ns) + Len(ms) PROVE c[i] = (a \o b)[i]
    <2>1. c[i] = Spelling(ws, (ns \o ms)[i])
      BY <1>2, SpeltType DEF c
    <2>2. CASE i <= Len(ns)
      <3>1. i \in 1 .. Len(ns)
        BY <2>2
      <3>2. (ns \o ms)[i] = ns[i] /\ (a \o b)[i] = a[i]
        BY <1>1, <3>1, ConcatProperties
      <3>3. a[i] = Spelling(ws, ns[i])
        BY <3>1, SpeltType DEF a, b
      <3> QED
        BY <2>1, <3>2, <3>3, Zenon
    <2>3. CASE ~(i <= Len(ns))
      <3>1. i - Len(ns) \in 1 .. Len(ms)
        BY <2>3
      <3>2. (ns \o ms)[i] = ms[i - Len(ns)] /\ (a \o b)[i] = b[i - Len(ns)]
        BY <1>1, <2>3, ConcatProperties
      <3>3. b[i - Len(ns)] = Spelling(ws, ms[i - Len(ns)])
        BY <3>1, SpeltType DEF a, b
      <3> QED
        BY <2>1, <3>2, <3>3, Zenon
    <2> QED
      BY <2>2, <2>3
  <1>6. c = a \o b
    BY <1>3, <1>4, <1>5, SeqEqual
  <1> QED
    BY <1>1, <1>6, FlattenConcat DEF Encoded, a, b, c

\* Words that are the same have the same bytes.
LEMMA EncodedSame ==
  ASSUME NEW vs, NEW ws, NEW ns \in Seq(Nat), \A i \in DOMAIN ns : vs[ns[i]] = ws[ns[i]]
  PROVE  Encoded(vs, ns) = Encoded(ws, ns)
  <1>1. Spelt(vs, ns) = Spelt(ws, ns)
    BY DEF Spelt, Spelling
  <1> QED
    BY <1>1 DEF Encoded

\* SymbolsOf is that of the words of the host.
LEMMA SymbolsEncoded ==
  ASSUME NEW ns
  PROVE  SymbolsOf(ns) = Encoded(words, ns)
  BY DEF SymbolsOf, Symbols, Encoded, Spelt, Spelling

-----------------------------------------------------------------------------
(***************************************************************************)
(* The bytes towards the instrument.                                       *)
(***************************************************************************)
Places == Nat \X Nat

\* Concatenation as a name of its own, so that it can be regrouped.
Cat(a, b) == a \o b

\* Sequences are closed under it, and the empty one adds nothing.
LEMMA CatType ==
  ASSUME NEW T
  PROVE /\ \A a, b \in Seq(T) : Cat(a, b) \in Seq(T) /\ Len(Cat(a, b)) = Len(a) + Len(b)
        /\ \A a \in Seq(T) : Cat(<<>>, a) = a /\ Cat(a, <<>>) = a
        /\ <<>> \in Seq(T)
  BY DEF Cat

\* It is associative.
LEMMA CatAssoc ==
  ASSUME NEW T
  PROVE \A a, b, c \in Seq(T) : Cat(Cat(a, b), c) = Cat(a, Cat(b, c))
  <1>1. ASSUME NEW a \in Seq(T), NEW b \in Seq(T), NEW c \in Seq(T)
        PROVE  (a \o b) \o c = a \o (b \o c)
    OBVIOUS
  <1> QED
    BY <1>1 DEF Cat

\* All the words the host has sent, by number; and what is on its way is what is left
\* of their bytes behind those that went out.
Every(ws) == [n \in DOMAIN ws |-> n]
Underway(ws, sent, s, queue, ns) ==
    \E out \in Seq(Places) :
        Len(out) = sent /\ Encoded(ws, Every(ws)) = Cat(out, Cat(Cat(s, queue), Encoded(ws, ns)))

\* Going is what is left of the bytes; the endpoint is ready when a packet is finished.
BytesFlow ==
    /\ outEp = "ready" => packet = <<>>
    /\ symbol \in Seq(Places) /\ (symbol # <<>> => Len(symbol) = 1) /\ transmitted \in Nat
    /\ Underway(words, transmitted, symbol, symbol_fifo, Cat(Words(toMidi), packet))

\* A byte in transmission and the queue behind it count as one.
LEMMA UnderwaySame ==
  ASSUME NEW ws, NEW sent, NEW s, NEW queue, NEW ns, NEW s2, NEW queue2, NEW ns2,
         Underway(ws, sent, s, queue, ns), Cat(s2, queue2) = Cat(s, queue), ns2 = ns
  PROVE  Underway(ws, sent, s2, queue2, ns2)
  BY DEF Underway

\* A byte that has gone out is behind.
LEMMA UnderwaySent ==
  ASSUME NEW ws, NEW sent \in Nat, NEW s \in Seq(Places), NEW queue \in Seq(Places),
         NEW ns \in Seq(Nat), Underway(ws, sent, s, queue, ns), Len(s) = 1
  PROVE  Underway(ws, sent + 1, <<>>, queue, ns)
  <1>1. PICK rest \in Seq(Places) : rest = Encoded(ws, ns)
    BY EncodedType DEF Places
  <1>2. PICK out \in Seq(Places) :
          Len(out) = sent /\ Encoded(ws, Every(ws)) = Cat(out, Cat(Cat(s, queue), rest))
    BY <1>1 DEF Underway
  <1>3. Cat(out, s) \in Seq(Places) /\ Len(Cat(out, s)) = sent + 1
    <2>1. Cat(out, s) \in Seq(Places) /\ Len(Cat(out, s)) = Len(out) + Len(s)
      BY CatType, Zenon
    <2> QED
      BY <1>2, <2>1
  <1>4. Cat(out, Cat(Cat(s, queue), rest)) = Cat(Cat(out, s), Cat(Cat(<<>>, queue), rest))
    BY CatAssoc, CatType
  <1> QED
    BY <1>1, <1>2, <1>3, <1>4 DEF Underway

\* A word that is taken from the channel is its bytes in the queue.
LEMMA UnderwayQueued ==
  ASSUME NEW sent, NEW s \in Seq(Places), NEW queue \in Seq(Places), NEW n \in Nat,
         NEW ns \in Seq(Nat), Underway(words, sent, s, queue, Cat(<<n>>, ns))
  PROVE  Underway(words, sent, s, Cat(queue, Symbols(n)), ns)
  <1>1. PICK rest \in Seq(Places) : rest = Encoded(words, ns)
    BY EncodedType DEF Places
  <1>2. PICK w \in Seq(Places) : w = Symbols(n)
    BY SymbolsFew DEF Places
  <1>3. <<n>> \in Seq(Nat)
    OBVIOUS
  <1>4. Encoded(words, Cat(<<n>>, ns)) = Cat(w, rest)
    BY <1>1, <1>2, <1>3, EncodedConcat, EncodedOne DEF Cat
  <1>5. Cat(Cat(s, queue), Cat(w, rest)) = Cat(Cat(s, Cat(queue, w)), rest)
    BY CatAssoc, CatType
  <1> QED
    BY <1>1, <1>2, <1>4, <1>5, Zenon DEF Underway

\* More words of the host are more on their way, when none of the host was waiting.
LEMMA UnderwayMore ==
  ASSUME NEW ws \in Seq(Codes16), NEW codes \in Seq(Codes16), NEW sent,
         NEW s \in Seq(Places), NEW queue \in Seq(Places), Underway(ws, sent, s, queue, <<>>)
  PROVE  LET ns == [i \in DOMAIN codes |-> Len(ws) + i]
         IN  ns \in Seq(Nat) /\ Underway(ws \o codes, sent, s, queue, ns)
  <1> DEFINE ns == [i \in DOMAIN codes |-> Len(ws) + i]
             vs == ws \o codes
  <1>1. /\ vs \in Seq(Codes16) /\ Len(vs) = Len(ws) + Len(codes)
        /\ Len(ws) \in Nat /\ Len(codes) \in Nat
        /\ DOMAIN codes = 1 .. Len(codes) /\ DOMAIN vs = 1 .. Len(vs) /\ DOMAIN ws = 1 .. Len(ws)
        /\ \A i \in 1 .. Len(ws) : vs[i] = ws[i]
    OBVIOUS
  <1>2. ns \in [1 .. Len(codes) -> 1 .. Len(vs)]
    BY <1>1
  <1>3. ns \in Seq(1 .. Len(vs)) /\ ns \in Seq(Nat) /\ Len(ns) = Len(codes)
        /\ \A i \in 1 .. Len(codes) : ns[i] = Len(ws) + i
    BY <1>1, <1>2
  <1>4. /\ Every(ws) \in Seq(Nat) /\ Len(Every(ws)) = Len(ws)
        /\ \A i \in 1 .. Len(ws) : Every(ws)[i] = i
    BY <1>1 DEF Every
  <1>5. /\ Every(vs) \in Seq(Nat) /\ Len(Every(vs)) = Len(vs)
        /\ \A i \in 1 .. Len(vs) : Every(vs)[i] = i
    BY <1>1 DEF Every
  <1> HIDE DEF ns, vs
  <1>6. Every(vs) = Every(ws) \o ns
    <2>1. Every(ws) \o ns \in Seq(Nat) /\ Len(Every(ws) \o ns) = Len(vs)
      BY <1>1, <1>3, <1>4, ConcatProperties
    <2>2. ASSUME NEW i \in 1 .. Len(vs) PROVE (Every(ws) \o ns)[i] = i
      <3>1. CASE i <= Len(ws)
        BY <1>1, <1>3, <1>4, <3>1, ConcatProperties
      <3>2. CASE ~(i <= Len(ws))
        <4>1. i - Len(ws) \in 1 .. Len(codes) /\ Len(ws) + (i - Len(ws)) = i
          BY <1>1, <3>2
        <4>2. (Every(ws) \o ns)[i] = ns[i - Len(ws)]
          BY SMTT(30), <1>1, <1>3, <1>4, <3>2, ConcatProperties
        <4> QED
          BY <1>3, <4>1, <4>2
      <3> QED
        BY <3>1, <3>2
    <2> QED
      BY <1>5, <2>1, <2>2, SeqEqual
  <1>7. Encoded(vs, Every(ws)) = Encoded(ws, Every(ws))
    <2>1. DOMAIN Every(ws) = 1 .. Len(ws)
      BY <1>1 DEF Every
    <2>2. \A i \in DOMAIN Every(ws) : vs[Every(ws)[i]] = ws[Every(ws)[i]]
      BY <1>1, <1>4, <2>1, Zenon
    <2> QED
      BY <1>4, <2>2, EncodedSame
  <1>8. Encoded(vs, Every(vs)) = Cat(Encoded(ws, Every(ws)), Encoded(vs, ns))
    BY <1>3, <1>4, <1>6, <1>7, EncodedConcat DEF Cat
  <1>9. PICK out \in Seq(Places) :
          Len(out) = sent /\ Encoded(ws, Every(ws)) = Cat(out, Cat(Cat(s, queue), <<>>))
    BY EncodedNone DEF Underway
  <1>10. PICK rest \in Seq(Places) : rest = Encoded(vs, ns)
    BY <1>3, EncodedType DEF Places
  <1>11. Cat(Cat(out, Cat(Cat(s, queue), <<>>)), rest) = Cat(out, Cat(Cat(s, queue), rest))
    <2>1. PICK both \in Seq(Places) : both = Cat(s, queue)
      BY CatType, Zenon
    <2>2. Cat(both, <<>>) = both /\ Cat(Cat(out, both), rest) = Cat(out, Cat(both, rest))
      <3>1. Cat(both, <<>>) = both
        BY CatType
      <3>2. Cat(Cat(out, both), rest) = Cat(out, Cat(both, rest))
        BY CatAssoc
      <3> QED
        BY <3>1, <3>2
    <2> QED
      BY <2>1, <2>2, Zenon
  <1>12. Underway(vs, sent, s, queue, ns)
    BY <1>8, <1>9, <1>10, <1>11, Zenon DEF Underway
  <1> QED
    BY <1>3, <1>12 DEF ns, vs

\* A step that is not about the bytes.
LEMMA BytesSame ==
  ASSUME BytesFlow, Words(toMidi') = Words(toMidi), outEp' = "ready" => outEp = "ready",
         UNCHANGED <<packet, words, symbol, symbol_fifo, transmitted>>
  PROVE  BytesFlow'
  <1>1. Words(toMidi)' = Words(toMidi)
    BY DEF Words, WordsAt
  <1> QED
    BY <1>1 DEF BytesFlow

\* A byte begins to go out: the queue is not empty.
LEMMA StartSymbolBytes ==
  ASSUME TypeInv, Flow, BytesFlow, StartSymbol
  PROVE  BytesFlow'
  <1> USE DEF parser, inEnd, outEnd, toHost
  <1>1. /\ symbol_fifo # <<>> /\ symbol = <<>> /\ symbol' = <<Head(symbol_fifo)>>
        /\ symbol_fifo' = Tail(symbol_fifo)
        /\ UNCHANGED <<words, toMidi, packet, outEp, transmitted>>
    BY DEF StartSymbol, Flow, HostFlow, Pop, Rest
  <1>2. symbol_fifo \in Seq(Places)
    BY DEF TypeInv, Places
  <1>3. /\ symbol' \in Seq(Places) /\ Len(symbol') = 1
        /\ Cat(symbol', symbol_fifo') = Cat(symbol, symbol_fifo)
    BY <1>1, <1>2 DEF Cat
  <1>4. Underway(words, transmitted, symbol', symbol_fifo', Cat(Words(toMidi), packet))
    BY <1>3, UnderwaySame DEF BytesFlow
  <1> QED
    BY <1>1, <1>3, <1>4 DEF BytesFlow

\* A byte is out.
LEMMA EndSymbolBytes ==
  ASSUME TypeInv, Flow, BytesFlow, EndSymbol
  PROVE  BytesFlow'
  <1> USE DEF parser, inEnd, outEnd, toHost
  <1>1. /\ symbol # <<>> /\ symbol' = <<>> /\ transmitted' = transmitted + 1
        /\ UNCHANGED <<words, toMidi, packet, outEp, symbol_fifo>>
    BY DEF EndSymbol
  <1>2. symbol \in Seq(Places) /\ Len(symbol) = 1 /\ transmitted \in Nat
    BY <1>1 DEF BytesFlow
  <1>3. symbol_fifo \in Seq(Places)
    BY DEF TypeInv, Places
  <1>4. Cat(Words(toMidi), packet) \in Seq(Nat)
    BY WordsType, CatType DEF TypeInv
  <1>5. Underway(words, transmitted + 1, <<>>, symbol_fifo, Cat(Words(toMidi), packet))
    BY <1>2, <1>3, <1>4, UnderwaySent DEF BytesFlow
  <1>6. <<>> \in Seq(Places) /\ Len(<<>>) = 0
    OBVIOUS
  <1> QED
    BY <1>1, <1>2, <1>5, <1>6 DEF BytesFlow

\* An acknowledgement of an event.
LEMMA MidiAckBytes ==
  ASSUME TypeInv, Flow, BytesFlow, MidiAck
  PROVE  BytesFlow'
  <1>1. toMidi # <<>> /\ Head(toMidi).ack /\ toMidi' = Tail(toMidi)
    BY DEF MidiAck
  <1>2. Words(toMidi') = Words(toMidi)
    BY <1>1, WordsReceived DEF TypeInv, Flow
  <1>3. UNCHANGED <<packet, words, symbol, symbol_fifo, transmitted, outEp>>
    BY DEF MidiAck, sender, outEnd
  <1> QED
    BY <1>2, <1>3, BytesSame

\* The queue takes the bytes of a word whole.
LEMMA PushWhole ==
  ASSUME NEW q \in Seq(Places), NEW s \in Seq(Places), Len(s) <= Space(q)
  PROVE  Push(q, s) = Cat(q, s)
  <1>1. /\ q \o s \in Seq(Places) /\ Len(q \o s) = Len(q) + Len(s)
        /\ Len(q) \in Nat /\ Len(s) \in Nat /\ FifoSize \in Nat
    BY MidiAssumption
  <1>2. Len(q \o s) <= FifoSize
    BY <1>1 DEF Space
  <1>3. SubSeq(q \o s, 1, Len(q \o s)) = q \o s
    BY <1>1
  <1>4. ~(Len(q \o s) > FifoSize)
    BY <1>1, <1>2
  <1> QED
    BY <1>3, <1>4, Zenon DEF Push, Cat

\* A word is made into its bytes, and there is room for all of them.
LEMMA MidiDataBytes ==
  ASSUME TypeInv, Flow, BytesFlow, MidiData
  PROVE  BytesFlow'
  <1> DEFINE n == Head(toMidi).word
  <1>1. /\ toMidi # <<>> /\ ~Head(toMidi).ack /\ toMidi' = Tail(toMidi)
        /\ symbol_fifo' = Push(symbol_fifo, Symbols(n))
        /\ UNCHANGED <<packet, words, symbol, transmitted, outEp>>
    BY DEF MidiData, outEnd
  <1>2. Words(toMidi) = <<n>> /\ Words(toMidi') = <<>>
    BY <1>1, WordsReceived DEF TypeInv, Flow
  <1>3. n \in Nat
    BY <1>1, Received DEF TypeInv, Flow, Messages
  <1>4. Len(Symbols(n)) <= Space(symbol_fifo)
    BY <1>1, FlowSuffices DEF FlowControlled
  <1>5. symbol_fifo \in Seq(Places) /\ Symbols(n) \in Seq(Places)
    BY <1>3, SymbolsFew DEF TypeInv, Places
  <1>6. symbol_fifo' = Cat(symbol_fifo, Symbols(n))
    BY <1>1, <1>4, <1>5, PushWhole
  <1> HIDE DEF n
  <1>7. packet \in Seq(Nat) /\ symbol \in Seq(Places)
    BY DEF TypeInv, BytesFlow
  <1>8. Underway(words, transmitted, symbol, symbol_fifo, Cat(<<n>>, packet))
    BY <1>2 DEF BytesFlow
  <1>9. Underway(words, transmitted, symbol, Cat(symbol_fifo, Symbols(n)), packet)
    BY <1>3, <1>5, <1>7, <1>8, UnderwayQueued
  <1>10. Cat(<<>>, packet) = packet
    BY <1>7, CatType
  <1>11. Words(toMidi)' = <<>>
    BY <1>2 DEF Words, WordsAt
  <1> QED
    BY <1>1, <1>6, <1>9, <1>10, <1>11 DEF BytesFlow

\* A word goes from the packet into the channel.
LEMMA SendWordBytes ==
  ASSUME TypeInv, BytesFlow, OneOfEach(toMidi), ~HasWord(toMidi), packet # <<>>, SendWord,
         outEp' = "taken", UNCHANGED <<words, symbol, symbol_fifo, transmitted>>
  PROVE  BytesFlow'
  <1>1. Head(packet) \in Nat /\ packet' = Tail(packet) /\ packet \in Seq(Nat)
    BY DEF TypeInv, SendWord
  <1>2. toMidi' = Append(toMidi, Data(Head(packet))) /\ toMidi \in Seq(Messages)
    BY DEF TypeInv, SendWord
  <1>3. Words(toMidi') = <<Head(packet)>>
    BY <1>1, <1>2, MessageTypes, WordsSent
  <1>4. Words(toMidi) = <<>>
    BY WordNone
  <1>5. Cat(<<Head(packet)>>, packet') = packet /\ Cat(<<>>, packet) = packet
    BY <1>1 DEF Cat
  <1>6. Words(toMidi)' = <<Head(packet)>>
    BY <1>3 DEF Words, WordsAt
  <1> QED
    BY <1>4, <1>5, <1>6 DEF BytesFlow

\* A packet of the host.
LEMMA EpGivenBytes ==
  ASSUME TypeInv, Flow, BytesFlow, EpGiven
  PROVE  BytesFlow'
  <1>1. /\ OneOfEach(toMidi) /\ ~HasWord(toMidi) /\ outEp' = "taken"
        /\ UNCHANGED <<words, symbol, symbol_fifo, transmitted>>
    BY DEF EpGiven, Flow, HostFlow, sender
  <1>2. CASE packet # <<>>
    BY <1>1, <1>2, SendWordBytes DEF EpGiven
  <1>3. CASE packet = <<>>
    <2>1. UNCHANGED <<toMidi, packet>>
      BY <1>3 DEF EpGiven
    <2> QED
      BY <1>1, <2>1, BytesSame
  <1> QED
    BY <1>2, <1>3

\* An acknowledgement of a word: the next, or the endpoint is made ready.
LEMMA EpAckBytes ==
  ASSUME TypeInv, Flow, BytesFlow, EpAck
  PROVE  BytesFlow'
  <1>1. /\ toEp # <<>> /\ Head(toEp).ack
        /\ UNCHANGED <<words, symbol, symbol_fifo, transmitted>>
    BY DEF EpAck, sender
  <1>2. HasAck(toEp)
    BY <1>1, Received DEF TypeInv, Flow
  <1>3. OneOfEach(toMidi) /\ ~HasWord(toMidi) /\ outEp = "taken"
    BY <1>2 DEF Flow, HostFlow
  <1>4. CASE packet # <<>>
    BY <1>1, <1>3, <1>4, SendWordBytes DEF EpAck
  <1>5. CASE packet = <<>>
    <2>1. UNCHANGED <<toMidi, packet>>
      BY <1>5 DEF EpAck
    <2>2. Words(toMidi)' = Words(toMidi)
      BY <2>1 DEF Words, WordsAt
    <2> QED
      BY <1>1, <1>5, <2>1, <2>2 DEF BytesFlow
  <1> QED
    BY <1>4, <1>5

\* An acknowledgement of an event is no word.
LEMMA EpDataBytes ==
  ASSUME TypeInv, Flow, BytesFlow, EpData
  PROVE  BytesFlow'
  <1>1. /\ toEp # <<>> /\ ~Head(toEp).ack /\ toMidi' = Append(toMidi, Ack)
        /\ UNCHANGED <<packet, words, symbol, symbol_fifo, transmitted, outEp>>
    BY DEF EpData, sender, outEnd
  <1>2. HasWord(toEp)
    BY <1>1, Received DEF TypeInv, Flow
  <1>3. ~HasAck(toMidi)
    BY <1>2 DEF Flow, EventFlow
  <1>4. Words(toMidi') = Words(toMidi)
    BY <1>1, <1>3, MessageTypes, WordsSent DEF TypeInv, Flow
  <1> QED
    BY <1>1, <1>4, BytesSame

\* More words of the host: all of those before it have gone into the queue.
LEMMA HostWritesBytes ==
  ASSUME TypeInv, Flow, BytesFlow, NEW n \in Nat, NEW codes \in [1 .. n -> Codes],
         HostWrites(codes)
  PROVE  BytesFlow'
  <1>1. /\ outEp = "ready" /\ outEp' = "given" /\ words' = words \o codes
        /\ packet' = [i \in DOMAIN codes |-> Len(words) + i]
        /\ UNCHANGED <<symbol, symbol_fifo, transmitted, toMidi>>
    BY DEF HostWrites, sender
  <1>2. Words(toMidi) = <<>> /\ packet = <<>>
    BY <1>1, WordNone DEF Flow, HostFlow, BytesFlow
  <1>3. codes \in Seq(Codes16)
    <2>1. Codes \subseteq Codes16
      BY MidiAssumption DEF Codes16
    <2>2. codes \in [1 .. n -> Codes16]
      BY <2>1
    <2> HIDE DEF Codes16
    <2> QED
      BY <2>2
  <1>4. words \in Seq(Codes16) /\ symbol \in Seq(Places) /\ symbol_fifo \in Seq(Places)
    BY DEF TypeInv, BytesFlow, Places
  <1>5. Cat(<<>>, <<>>) = <<>>
    BY DEF Cat
  <1>6. Underway(words, transmitted, symbol, symbol_fifo, <<>>)
    BY <1>2, <1>5 DEF BytesFlow
  <1>7. packet' \in Seq(Nat) /\ Underway(words', transmitted, symbol, symbol_fifo, packet')
    BY <1>1, <1>3, <1>4, <1>6, UnderwayMore
  <1>8. Words(toMidi)' = <<>> /\ Cat(<<>>, packet') = packet'
    BY <1>1, <1>2, <1>7, CatType DEF Words, WordsAt
  <1> QED
    BY <1>1, <1>7, <1>8 DEF BytesFlow

\* At first there are no words, and no bytes of them.
LEMMA BytesInit ==
  Init => BytesFlow
  <1> SUFFICES ASSUME Init PROVE BytesFlow
    OBVIOUS
  <1>1. /\ words = <<>> /\ transmitted = 0 /\ symbol = <<>> /\ symbol_fifo = <<>> /\ toMidi = <<>>
        /\ packet = <<>>
    BY DEF Init
  <1>2. Words(toMidi) = <<>>
    BY <1>1 DEF Words, WordsAt
  <1>3. <<>> \in Seq(Places) /\ Len(<<>>) = 0 /\ Cat(<<>>, <<>>) = <<>> /\ Every(<<>>) = <<>>
    BY DEF Cat, Every
  <1>4. Underway(<<>>, 0, <<>>, <<>>, <<>>)
    BY <1>3, EncodedNone DEF Underway
  <1> QED
    BY <1>1, <1>2, <1>3, <1>4 DEF BytesFlow

\* Every step leaves the bytes in order.
LEMMA BytesNext ==
  TypeInv /\ Flow /\ BytesFlow /\ [Next]_vars => BytesFlow'
  <1> SUFFICES ASSUME TypeInv, Flow, BytesFlow, [Next]_vars PROVE BytesFlow'
    OBVIOUS
  <1>1. ASSUME NEW b, Receive(b) PROVE BytesFlow'
    BY <1>1, BytesSame DEF Receive, sender, outEnd
  <1>2. CASE UsbMidi
    BY <1>2, StartSymbolBytes, EndSymbolBytes, MidiAckBytes, MidiDataBytes DEF UsbMidi
  <1>3. CASE EpSent
    BY <1>3, BytesSame DEF EpSent, sender, outEnd
  <1>4. CASE EpGiven \/ EpAck \/ EpData
    BY <1>4, EpGivenBytes, EpAckBytes, EpDataBytes
  <1>5. CASE HostReads
    BY <1>5, BytesSame DEF HostReads, sender, outEnd
  <1>6. ASSUME NEW n \in 0 .. PacketWords, NEW codes \in [1 .. n -> Codes], HostWrites(codes)
        PROVE  BytesFlow'
    <2>1. n \in Nat
      BY MidiAssumption
    <2> QED
      BY <1>6, <2>1, HostWritesBytes
  <1>7. CASE UNCHANGED vars
    BY <1>7, BytesSame DEF vars, sender, outEnd
  <1> QED
    BY <1>1, <1>2, <1>3, <1>4, <1>5, <1>6, <1>7 DEF Next, Buffer

\* It says what Going is.
LEMMA BytesSuffice ==
  TypeInv /\ BytesFlow => LET all == SymbolsOf([n \in DOMAIN words |-> n])
                          IN  Going = SubSeq(all, transmitted + 1, Len(all))
  <1> SUFFICES ASSUME TypeInv, BytesFlow
               PROVE  LET all == SymbolsOf([n \in DOMAIN words |-> n])
                      IN  Going = SubSeq(all, transmitted + 1, Len(all))
    OBVIOUS
  <1> DEFINE all == SymbolsOf([n \in DOMAIN words |-> n])
             ns  == Words(toMidi) \o packet
  <1>1. ns \in Seq(Nat)
    BY WordsType DEF TypeInv
  <1>2. all = Encoded(words, Every(words)) /\ SymbolsOf(ns) = Encoded(words, ns)
    BY SymbolsEncoded DEF Every
  <1>3. PICK rest \in Seq(Places) : rest = Encoded(words, ns)
    BY <1>1, EncodedType DEF Places
  <1>4. PICK out \in Seq(Places) :
          Len(out) = transmitted /\ all = Cat(out, Cat(Cat(symbol, symbol_fifo), rest))
    BY <1>2, <1>3 DEF BytesFlow, Underway, Cat
  <1>5. PICK going \in Seq(Places) : going = (symbol \o symbol_fifo) \o rest
    <2>1. symbol \in Seq(Places) /\ symbol_fifo \in Seq(Places)
      BY DEF TypeInv, BytesFlow, Places
    <2> QED
      BY <2>1, CatType, Zenon DEF Cat
  <1>6. Going = going
    BY <1>2, <1>3, <1>5 DEF Going
  <1>7. all = out \o going
    BY <1>4, <1>5 DEF Cat
  <1> HIDE DEF all, ns
  <1>8. SubSeq(out \o going, Len(out) + 1, Len(out \o going)) = going
    OBVIOUS
  <1> QED
    BY <1>4, <1>6, <1>7, <1>8 DEF all

-----------------------------------------------------------------------------
(***************************************************************************)
(* The events towards the host.                                            *)
(***************************************************************************)
\* The events s are in order and, with those that were lost, all of the first n.
Orderly(s, lost, n) ==
    /\ s \in Seq(Nat)
    /\ \A i, j \in 1 .. Len(s) : i < j => s[i] < s[j]
    /\ \A i \in 1 .. Len(s) : s[i] \in 1 .. n /\ s[i] \notin lost
    /\ lost \subseteq 1 .. n
    /\ \A e \in 1 .. n : e \in lost \/ \E i \in 1 .. Len(s) : s[i] = e

Arming(a) == a = [at |-> a.at, buffer |-> a.buffer, length |-> a.length]

\* The buffer that is not with the host is being collected; nothing is collected
\* when nothing is with the host.
HostBuffers ==
    /\ buffers \in [{"A", "B"} -> [1 .. BufferWords -> Nat]]
    /\ being_sent \in {"A", "B"} /\ collected \in 0 .. BufferWords
    /\ inEp.at = "ready" => inEp.buffer = being_sent /\ inEp.length \in 0 .. BufferWords
    /\ Arming(inEp)
    /\ waiting_on_send \in BOOLEAN
    /\ ~waiting_on_send => inEp.at = "idle" /\ collected = 0
    /\ midi_to_host_fifo # <<>> => Len(midi_to_host_fifo) = 1
    /\ heard \in Seq(Nat)

Collected == SubSeq(buffers[other(being_sent)], 1, collected)
InBuffers == Cat(Offered, Collected)
OnTheWay  == Cat(Words(toEp), midi_to_host_fifo)

EventsFlow == HostBuffers /\ Orderly(Cat(heard, Cat(InBuffers, OnTheWay)), dropped, made)

\* The event that is made next may be lost,
LEMMA OrderlyDropped ==
  ASSUME NEW s, NEW lost, NEW n \in Nat, Orderly(s, lost, n)
  PROVE  Orderly(s, lost \cup {n + 1}, n + 1)
  <1>1. \A e : e \in 1 .. n + 1 <=> e \in 1 .. n \/ e = n + 1
    OBVIOUS
  <1>2. n + 1 \notin 1 .. n
    OBVIOUS
  <1> QED
    BY <1>1, <1>2 DEF Orderly

\* or come last.
LEMMA OrderlyMade ==
  ASSUME NEW s, NEW lost, NEW n \in Nat, Orderly(s, lost, n)
  PROVE  Orderly(Cat(s, <<n + 1>>), lost, n + 1)
  <1> DEFINE t == Cat(s, <<n + 1>>)
             k == Len(s)
  <1>1. s \in Seq(Nat) /\ k \in Nat
    BY DEF Orderly
  <1>2. t \in Seq(Nat) /\ Len(t) = k + 1 /\ t[k + 1] = n + 1 /\ \A i \in 1 .. k : t[i] = s[i]
    BY <1>1 DEF Cat
  <1>3. \A e : e \in 1 .. n + 1 <=> e \in 1 .. n \/ e = n + 1
    OBVIOUS
  <1>4. \A i : i \in 1 .. k + 1 <=> i \in 1 .. k \/ i = k + 1
    BY <1>1
  <1>5. n + 1 \notin lost
    BY DEF Orderly
  <1>6. \A i \in 1 .. k : s[i] \in 1 .. n /\ s[i] \notin lost
    BY DEF Orderly
  <1> HIDE DEF t, k
  <1>7. \A i, j \in 1 .. k + 1 : i < j => t[i] < t[j]
    <2> SUFFICES ASSUME NEW i \in 1 .. k + 1, NEW j \in 1 .. k + 1, i < j PROVE t[i] < t[j]
      OBVIOUS
    <2>1. i \in 1 .. k /\ t[i] = s[i]
      BY <1>1, <1>2
    <2>2. CASE j \in 1 .. k
      BY <1>2, <2>1, <2>2 DEF Orderly, k
    <2>3. CASE j = k + 1
      <3>1. \A e \in 1 .. n : e < n + 1
        OBVIOUS
      <3> QED
        BY <1>2, <1>6, <2>1, <2>3, <3>1
    <2> QED
      BY <1>4, <2>2, <2>3
  <1>8. \A i \in 1 .. k + 1 : t[i] \in 1 .. n + 1 /\ t[i] \notin lost
    BY <1>2, <1>3, <1>4, <1>5, <1>6
  <1>9. \A e \in 1 .. n + 1 : e \in lost \/ \E i \in 1 .. k + 1 : t[i] = e
    <2>1. \A e \in 1 .. n : e \in lost \/ \E i \in 1 .. k : s[i] = e
      BY DEF Orderly, k
    <2> QED
      BY <1>2, <1>3, <1>4, <2>1
  <1> QED
    BY <1>2, <1>3, <1>7, <1>8, <1>9 DEF Orderly, t

\* One may be lost from the middle.
LEMMA OrderlyLost ==
  ASSUME NEW a \in Seq(Nat), NEW b \in Seq(Nat), NEW w \in Nat, NEW lost, NEW n \in Nat,
         Orderly(Cat(a, Cat(<<w>>, b)), lost, n)
  PROVE  Orderly(Cat(a, b), lost \cup {w}, n)
  <1> DEFINE s == Cat(a, Cat(<<w>>, b))
             t == Cat(a, b)
             k == Len(a)
             l == Len(t)
             f(i) == IF i <= k THEN i ELSE i + 1
  <1>1. /\ s \in Seq(Nat) /\ t \in Seq(Nat) /\ l \in Nat /\ k \in 0 .. l /\ Len(s) = l + 1
        /\ s[k + 1] = w /\ \A i \in 1 .. l : t[i] = s[f(i)]
    BY SMTT(30) DEF Cat
  <1> HIDE DEF s, t, k, l
  <1>0. l \in Nat /\ k \in Nat /\ k <= l
    BY <1>1
  <1>2. \A i \in 1 .. l : f(i) \in 1 .. l + 1 /\ f(i) # k + 1
    BY <1>0
  <1>3. \A i, j \in 1 .. l : i < j => f(i) < f(j)
    BY <1>0
  <1>4. ASSUME NEW i \in 1 .. l + 1, i # k + 1 PROVE \E j \in 1 .. l : f(j) = i
    <2>1. CASE i <= k
      <3>1. i \in 1 .. l /\ f(i) = i
        BY <1>0, <2>1
      <3> QED
        BY <3>1
    <2>2. CASE ~(i <= k)
      <3>1. i - 1 \in 1 .. l /\ f(i - 1) = i
        BY <1>0, <1>4, <2>2
      <3> QED
        BY <3>1
    <2> QED
      BY <2>1, <2>2
  <1>5. k + 1 \in 1 .. l + 1
    BY <1>1
  <1> HIDE DEF f
  <1>6. /\ \A i, j \in 1 .. l + 1 : i < j => s[i] < s[j]
        /\ \A i \in 1 .. l + 1 : s[i] \in 1 .. n /\ s[i] \notin lost
        /\ lost \subseteq 1 .. n
        /\ \A e \in 1 .. n : e \in lost \/ \E i \in 1 .. l + 1 : s[i] = e
    BY <1>1 DEF Orderly, s
  <1>7. \A i, j \in 1 .. l + 1 : i # j => s[i] # s[j]
    <2> SUFFICES ASSUME NEW i \in 1 .. l + 1, NEW j \in 1 .. l + 1, i # j PROVE s[i] # s[j]
      OBVIOUS
    <2>1. i < j \/ j < i
      BY <1>1
    <2>2. s[i] \in 1 .. n /\ s[j] \in 1 .. n
      BY <1>6
    <2>3. s[i] < s[j] \/ s[j] < s[i]
      BY <1>6, <2>1
    <2> QED
      BY <2>2, <2>3
  <1>8. \A i, j \in 1 .. l : i < j => t[i] < t[j]
    BY <1>1, <1>2, <1>3, <1>6
  <1>9. \A i \in 1 .. l : t[i] \in 1 .. n /\ t[i] \notin lost \cup {w}
    BY <1>1, <1>2, <1>5, <1>6, <1>7
  <1>10. \A e \in 1 .. n : e \in lost \cup {w} \/ \E i \in 1 .. l : t[i] = e
    <2> SUFFICES ASSUME NEW e \in 1 .. n, e \notin lost, e # w PROVE \E i \in 1 .. l : t[i] = e
      OBVIOUS
    <2>1. PICK i \in 1 .. l + 1 : s[i] = e
      BY <1>6
    <2>2. i # k + 1
      BY <1>1, <2>1
    <2>3. PICK j \in 1 .. l : f(j) = i
      BY <1>4, <2>2
    <2> QED
      BY <1>1, <2>1, <2>3
  <1>11. w \in 1 .. n
    BY <1>1, <1>5, <1>6
  <1> QED
    BY <1>1, <1>6, <1>8, <1>9, <1>10, <1>11 DEF Orderly, t, l

\* What is in the buffers are numbers.
LEMMA BuffersType ==
  ASSUME HostBuffers
  PROVE  /\ \A b \in {"A", "B"} : buffers[b] \in Seq(Nat) /\ Len(buffers[b]) = BufferWords
         /\ BufferWords \in Nat
         /\ other(being_sent) \in {"A", "B"} /\ other(being_sent) # being_sent
         /\ Offered \in Seq(Nat) /\ Collected \in Seq(Nat)
  <1>1. BufferWords \in Nat
    BY MidiAssumption
  <1>2. \A b \in {"A", "B"} : buffers[b] \in [1 .. BufferWords -> Nat]
    BY DEF HostBuffers
  <1>3. \A b \in {"A", "B"} : buffers[b] \in Seq(Nat) /\ Len(buffers[b]) = BufferWords
    <2> SUFFICES ASSUME NEW b \in {"A", "B"}
                 PROVE  buffers[b] \in Seq(Nat) /\ Len(buffers[b]) = BufferWords
      OBVIOUS
    <2>1. PICK s : s = buffers[b] /\ s \in [1 .. BufferWords -> Nat]
      BY <1>2
    <2>2. s \in Seq(Nat) /\ Len(s) = BufferWords
      BY <1>1, <2>1
    <2> QED
      BY <2>1, <2>2
  <1>4. /\ other(being_sent) \in {"A", "B"} /\ other(being_sent) # being_sent
        /\ being_sent \in {"A", "B"} /\ collected \in 0 .. BufferWords
    BY DEF other, HostBuffers
  <1>5. \A s \in Seq(Nat), k \in 0 .. BufferWords :
          Len(s) = BufferWords => SubSeq(s, 1, k) \in Seq(Nat)
    BY <1>1
  <1>6. Collected \in Seq(Nat)
    BY <1>3, <1>4, <1>5 DEF Collected
  <1>7. Offered \in Seq(Nat)
    <2>1. CASE inEp.at = "ready"
      <3>1. inEp.buffer = being_sent /\ inEp.length \in 0 .. BufferWords
        BY <2>1 DEF HostBuffers
      <3> QED
        BY <1>3, <1>4, <1>5, <2>1, <3>1 DEF Offered
    <2>2. CASE inEp.at # "ready"
      BY <2>2 DEF Offered
    <2> QED
      BY <2>1, <2>2
  <1> QED
    BY <1>1, <1>3, <1>4, <1>6, <1>7

\* All there is of the events, and what is in the channel of them.
LEMMA EventTypes ==
  ASSUME TypeInv, HostBuffers
  PROVE  /\ heard \in Seq(Nat) /\ InBuffers \in Seq(Nat) /\ OnTheWay \in Seq(Nat)
         /\ Words(toEp) \in Seq(Nat) /\ midi_to_host_fifo \in Seq(Nat)
  <1>1. Words(toEp) \in Seq(Nat) /\ midi_to_host_fifo \in Seq(Nat)
    BY WordsType DEF TypeInv
  <1>2. Offered \in Seq(Nat) /\ Collected \in Seq(Nat)
    BY BuffersType
  <1>3. InBuffers \in Seq(Nat)
    BY <1>2, CatType DEF InBuffers
  <1>4. OnTheWay \in Seq(Nat)
    BY <1>1, CatType DEF OnTheWay
  <1> QED
    BY <1>1, <1>3, <1>4 DEF HostBuffers

\* A step that moves no event.
LEMMA EventsSame ==
  ASSUME EventsFlow, HostBuffers', InBuffers' = InBuffers, OnTheWay' = OnTheWay,
         UNCHANGED <<heard, dropped, made>>
  PROVE  EventsFlow'
  BY DEF EventsFlow

\* Nor do the buffers when they are left alone.
LEMMA BuffersSame ==
  ASSUME HostBuffers, UNCHANGED <<inEnd, heard>>,
         midi_to_host_fifo' # <<>> => Len(midi_to_host_fifo') = 1
  PROVE  HostBuffers' /\ InBuffers' = InBuffers
  BY DEF HostBuffers, inEnd, InBuffers, Offered, Collected, other

\* What comes behind the last comes behind it all.
LEMMA CatLast ==
  ASSUME NEW a \in Seq(Nat), NEW b \in Seq(Nat), NEW c \in Seq(Nat), NEW d \in Seq(Nat)
  PROVE  Cat(a, Cat(b, Cat(c, d))) = Cat(Cat(a, Cat(b, c)), d)
  <1>1. PICK bc \in Seq(Nat) : bc = Cat(b, c)
    BY CatType
  <1>2. Cat(b, Cat(c, d)) = Cat(bc, d)
    BY <1>1, CatAssoc
  <1>3. Cat(a, Cat(bc, d)) = Cat(Cat(a, bc), d)
    BY CatAssoc
  <1> QED
    BY <1>1, <1>2, <1>3

\* An event is made: it is sent, kept or lost, and is the last there is.
LEMMA PassEvents ==
  ASSUME TypeInv, Flow, EventsFlow, NEW e, Pass(e), UNCHANGED <<heard, inEnd>>
  PROVE  EventsFlow'
  <1> USE DEF EventsFlow
  <1>1. CASE UNCHANGED <<made, dropped, toHost, toEp>>
    <2>1. HostBuffers' /\ InBuffers' = InBuffers
      BY <1>1, BuffersSame DEF HostBuffers, toHost
    <2>2. OnTheWay' = OnTheWay
      BY <1>1 DEF OnTheWay, Words, WordsAt, toHost
    <2> QED
      BY <1>1, <2>1, <2>2, EventsSame
  <1>2. CASE made' = made + 1 /\ dropped' = dropped \cup {made'} /\ UNCHANGED <<toHost, toEp>>
    <2>1. HostBuffers' /\ InBuffers' = InBuffers
      BY <1>2, BuffersSame DEF HostBuffers, toHost
    <2>2. OnTheWay' = OnTheWay
      BY <1>2 DEF OnTheWay, Words, WordsAt, toHost
    <2>3. Orderly(Cat(heard, Cat(InBuffers, OnTheWay)), dropped \cup {made + 1}, made + 1)
      BY OrderlyDropped DEF TypeInv
    <2> QED
      BY <1>2, <2>1, <2>2, <2>3
  <1>3. ASSUME made' = made + 1, OnTheWay' = Cat(OnTheWay, <<made'>>), UNCHANGED dropped,
               midi_to_host_fifo' # <<>> => Len(midi_to_host_fifo') = 1
        PROVE  EventsFlow'
    <2>1. HostBuffers' /\ InBuffers' = InBuffers
      BY <1>3, BuffersSame
    <2>2. heard \in Seq(Nat) /\ InBuffers \in Seq(Nat) /\ OnTheWay \in Seq(Nat)
      BY EventTypes
    <2>3. <<made'>> \in Seq(Nat)
      BY <1>3 DEF TypeInv
    <2>4. Cat(heard, Cat(InBuffers, Cat(OnTheWay, <<made'>>)))
            = Cat(Cat(heard, Cat(InBuffers, OnTheWay)), <<made'>>)
      <3>1. PICK last \in Seq(Nat) : last = <<made'>>
        BY <2>3
      <3>2. Cat(heard, Cat(InBuffers, Cat(OnTheWay, last)))
              = Cat(Cat(heard, Cat(InBuffers, OnTheWay)), last)
        BY <2>2, CatLast
      <3> QED
        BY <3>1, <3>2
    <2>5. Orderly(Cat(Cat(heard, Cat(InBuffers, OnTheWay)), <<made + 1>>), dropped, made + 1)
      BY OrderlyMade DEF TypeInv
    <2> QED
      BY <1>3, <2>1, <2>4, <2>5
  <1>4. CASE /\ made' = made + 1 /\ midi_to_host_fifo = <<>> /\ ~waiting_for_ack
             /\ toEp' = Append(toEp, Data(made')) /\ UNCHANGED <<dropped, midi_to_host_fifo>>
    <2>1. ~HasWord(toEp) /\ made' \in Nat
      BY <1>4 DEF Flow, EventFlow, TypeInv
    <2>2. Words(toEp') = <<made'>> /\ Words(toEp) = <<>>
      <3>1. Data(made') \in Messages /\ ~Data(made').ack /\ Data(made').word = made'
        BY <2>1, MessageTypes
      <3>2. toEp \in Seq(Messages) /\ OneOfEach(toEp)
        BY DEF TypeInv, Flow
      <3>3. Words(Append(toEp, Data(made'))) = <<made'>>
        BY <2>1, <3>1, <3>2, WordsSent
      <3> QED
        BY <1>4, <2>1, <3>3, WordNone
    <2>3. OnTheWay' = Cat(OnTheWay, <<made'>>)
      <3>1. Words(toEp)' = <<made'>>
        BY <2>2 DEF Words, WordsAt
      <3>2. Cat(<<made'>>, <<>>) = Cat(Cat(<<>>, <<>>), <<made'>>)
        BY <2>1 DEF Cat
      <3> QED
        BY <1>4, <2>2, <3>1, <3>2 DEF OnTheWay
    <2> QED
      BY <1>3, <1>4, <2>3
  <1>5. CASE /\ made' = made + 1 /\ midi_to_host_fifo = <<>> /\ midi_to_host_fifo' = <<made'>>
             /\ UNCHANGED <<dropped, toEp>>
    <2>1. Words(toEp) \in Seq(Nat) /\ made' \in Nat
      BY <1>5, EventTypes DEF TypeInv
    <2>2. Words(toEp)' = Words(toEp)
      BY <1>5 DEF Words, WordsAt
    <2>3. Cat(Words(toEp), <<>>) = Words(toEp)
      BY <2>1, CatType
    <2>4. OnTheWay' = Cat(OnTheWay, <<made'>>)
      BY <1>5, <2>2, <2>3 DEF OnTheWay
    <2>5. Len(midi_to_host_fifo') = 1
      BY <1>5
    <2> QED
      BY <1>3, <1>5, <2>4, <2>5
  <1> QED
    BY <1>1, <1>2, <1>4, <1>5 DEF Pass

\* XUA_Buffer_Ep has taken an event, and gets the one that was kept.
LEMMA MidiAckEvents ==
  ASSUME TypeInv, Flow, EventsFlow, MidiAck
  PROVE  EventsFlow'
  <1>1. toMidi # <<>> /\ Head(toMidi).ack /\ UNCHANGED <<heard, inEnd, dropped, made>>
    BY DEF MidiAck
  <1>2. HasAck(toMidi)
    BY <1>1, Received DEF TypeInv, Flow
  <1>3. ~HasWord(toEp)
    BY <1>2 DEF Flow, EventFlow
  <1>4. CASE midi_to_host_fifo = <<>>
    <2>1. UNCHANGED <<toEp, midi_to_host_fifo>>
      BY <1>4 DEF MidiAck
    <2>2. HostBuffers' /\ InBuffers' = InBuffers
      BY <1>1, <2>1, BuffersSame DEF EventsFlow, HostBuffers
    <2>3. OnTheWay' = OnTheWay
      BY <2>1 DEF OnTheWay, Words, WordsAt
    <2> QED
      BY <1>1, <2>2, <2>3, EventsSame
  <1>5. CASE midi_to_host_fifo # <<>>
    <2>1. toEp' = Append(toEp, Data(Head(midi_to_host_fifo))) /\ midi_to_host_fifo' = <<>>
      BY <1>5 DEF MidiAck
    <2>2. midi_to_host_fifo \in Seq(Nat) /\ Len(midi_to_host_fifo) = 1
      BY <1>5 DEF EventsFlow, HostBuffers, TypeInv
    <2>3. Head(midi_to_host_fifo) \in Nat /\ midi_to_host_fifo = <<Head(midi_to_host_fifo)>>
      BY <2>2
    <2>4. Words(toEp') = <<Head(midi_to_host_fifo)>> /\ Words(toEp) = <<>>
      <3>1. PICK n \in Nat : n = Head(midi_to_host_fifo)
        BY <2>3
      <3>2. Data(n) \in Messages /\ ~Data(n).ack /\ Data(n).word = n
        BY MessageTypes
      <3>3. toEp \in Seq(Messages) /\ OneOfEach(toEp)
        BY DEF TypeInv, Flow
      <3>4. Words(Append(toEp, Data(n))) = <<n>>
        BY <1>3, <3>2, <3>3, WordsSent
      <3> QED
        BY <1>3, <2>1, <3>1, <3>4, WordNone
    <2>5. Words(toEp)' = midi_to_host_fifo
      BY <2>3, <2>4 DEF Words, WordsAt
    <2>6. OnTheWay' = OnTheWay
      BY <2>1, <2>2, <2>4, <2>5, CatType DEF OnTheWay
    <2>7. HostBuffers' /\ InBuffers' = InBuffers
      BY <1>1, <2>1, BuffersSame DEF EventsFlow
    <2> QED
      BY <1>1, <2>6, <2>7, EventsSame
  <1> QED
    BY <1>4, <1>5

\* What is collected goes behind what has been.
LEMMA CollectedMore ==
  ASSUME NEW s \in [1 .. BufferWords -> Nat], NEW k \in Nat, k < BufferWords, NEW w \in Nat
  PROVE  SubSeq([s EXCEPT ![k + 1] = w], 1, k + 1) = Cat(SubSeq(s, 1, k), <<w>>)
  <1> DEFINE t == [s EXCEPT ![k + 1] = w]
  <1>1. BufferWords \in Nat /\ k + 1 \in 1 .. BufferWords
    BY MidiAssumption
  <1>2. /\ t \in [1 .. BufferWords -> Nat] /\ t[k + 1] = w
        /\ \A i \in 1 .. BufferWords : i # k + 1 => t[i] = s[i]
    BY <1>1
  <1> HIDE DEF t
  <1>3. s \in Seq(Nat) /\ Len(s) = BufferWords /\ t \in Seq(Nat) /\ Len(t) = BufferWords
    BY <1>1, <1>2
  <1>4. /\ SubSeq(s, 1, k) \in Seq(Nat) /\ Len(SubSeq(s, 1, k)) = k
        /\ \A i \in 1 .. k : SubSeq(s, 1, k)[i] = s[i]
    BY <1>1, <1>3
  <1>5. /\ SubSeq(t, 1, k + 1) \in Seq(Nat) /\ Len(SubSeq(t, 1, k + 1)) = k + 1
        /\ \A i \in 1 .. k + 1 : SubSeq(t, 1, k + 1)[i] = t[i]
    BY <1>1, <1>3
  <1> DEFINE a == SubSeq(s, 1, k)
             b == SubSeq(t, 1, k + 1)
  <1> HIDE DEF a, b
  <1>6. /\ a \in Seq(Nat) /\ Len(a) = k /\ b \in Seq(Nat) /\ Len(b) = k + 1
        /\ b[k + 1] = w /\ \A i \in 1 .. k : b[i] = a[i]
    <2>1. \A i \in 1 .. k : i \in 1 .. BufferWords /\ i \in 1 .. k + 1 /\ i # k + 1
      BY <1>1
    <2> QED
      BY <1>1, <1>2, <1>4, <1>5, <2>1 DEF a, b
  <1>7. b = a \o <<w>>
    BY <1>6
  <1> QED
    BY <1>7 DEF a, b, t, Cat

\* The buffers change places when the host has nothing: what was collected is offered.
LEMMA SwapEvents ==
  ASSUME HostBuffers, NEW n \in 0 .. BufferWords, Swap(n), inEp.at # "ready",
         buffers' \in [{"A", "B"} -> [1 .. BufferWords -> Nat]],
         UNCHANGED <<midi_to_host_fifo, heard>>
  PROVE  HostBuffers' /\ InBuffers' = SubSeq(buffers'[other(being_sent)], 1, n)
  <1>1. /\ being_sent' = other(being_sent) /\ collected' = 0 /\ waiting_on_send' = TRUE
        /\ inEp' = [at |-> "ready", buffer |-> other(being_sent), length |-> n]
    BY DEF Swap
  <1>2. other(being_sent) \in {"A", "B"} /\ BufferWords \in Nat
    BY BuffersType
  <1>3. HostBuffers'
    <2>1. Arming(inEp') /\ inEp'.buffer = other(being_sent) /\ inEp'.length = n
      BY <1>1 DEF Arming
    <2> QED
      BY <1>1, <1>2, <2>1 DEF HostBuffers
  <1>4. Offered' = SubSeq(buffers'[other(being_sent)], 1, n)
    BY <1>1 DEF Offered
  <1>5. \A s : SubSeq(s, 1, 0) = <<>>
    OBVIOUS
  <1>6. Collected' = <<>>
    BY <1>1, <1>5 DEF Collected
  <1>7. Offered' \in Seq(Nat)
    <2>1. PICK s : s = buffers'[other(being_sent)] /\ s \in [1 .. BufferWords -> Nat]
      BY <1>2
    <2>2. SubSeq(s, 1, n) \in Seq(Nat)
      BY <1>2, <2>1
    <2> QED
      BY <1>4, <2>1, <2>2
  <1> QED
    BY <1>3, <1>4, <1>6, <1>7, CatType DEF InBuffers

\* The host has taken a packet, and is offered what has been collected since.
LEMMA EpSentEvents ==
  ASSUME TypeInv, EventsFlow, EpSent
  PROVE  EventsFlow'
  <1> USE DEF EventsFlow
  <1>1. /\ inEp.at = "sent" /\ UNCHANGED <<heard, dropped, made, toEp, midi_to_host_fifo, buffers>>
    BY DEF EpSent, toHost
  <1>2. OnTheWay' = OnTheWay
    BY <1>1 DEF OnTheWay, Words, WordsAt
  <1>3. Offered = <<>> /\ Collected \in Seq(Nat) /\ InBuffers = Collected
    BY <1>1, BuffersType, CatType DEF Offered, InBuffers
  <1>4. CASE collected # 0
    <2>1. Swap(collected) /\ collected \in 0 .. BufferWords
      BY <1>4 DEF EpSent, HostBuffers
    <2>2. HostBuffers' /\ InBuffers' = SubSeq(buffers'[other(being_sent)], 1, collected)
      BY <1>1, <2>1, SwapEvents DEF HostBuffers
    <2> QED
      BY <1>1, <1>2, <1>3, <2>2, EventsSame DEF Collected
  <1>5. CASE collected = 0
    <2>1. waiting_on_send' = FALSE /\ inEp' = NotArmed /\ UNCHANGED <<being_sent, collected>>
      BY <1>5 DEF EpSent
    <2>2. HostBuffers'
      BY <1>1, <1>5, <2>1 DEF HostBuffers, NotArmed, Arming
    <2>3. Offered' = <<>> /\ Collected' = Collected
      BY <1>1, <2>1 DEF Offered, Collected, NotArmed, other
    <2> QED
      BY <1>1, <1>2, <1>3, <2>2, <2>3, EventsSame DEF InBuffers
  <1> QED
    BY <1>4, <1>5

\* What the host reads it has heard.
LEMMA HostReadsEvents ==
  ASSUME TypeInv, EventsFlow, HostReads
  PROVE  EventsFlow'
  <1> USE DEF EventsFlow
  <1>1. /\ inEp.at = "ready" /\ heard' = heard \o Offered /\ inEp' = [inEp EXCEPT !.at = "sent"]
        /\ UNCHANGED <<dropped, made, toEp, midi_to_host_fifo, buffers, being_sent, collected,
                       waiting_on_send>>
    BY DEF HostReads, toHost
  <1>2. OnTheWay' = OnTheWay
    BY <1>1 DEF OnTheWay, Words, WordsAt
  <1>3. /\ Offered \in Seq(Nat) /\ Collected \in Seq(Nat) /\ heard \in Seq(Nat)
        /\ OnTheWay \in Seq(Nat)
    BY BuffersType, EventTypes DEF HostBuffers
  <1>4. inEp'.at = "sent" /\ Offered' = <<>> /\ Collected' = Collected
    <2>1. inEp'.at = "sent"
      BY <1>1 DEF HostBuffers, Arming
    <2> QED
      BY <1>1, <2>1 DEF Offered, Collected, other
  <1>5. heard' \in Seq(Nat) /\ heard' = Cat(heard, Offered)
    BY <1>1, <1>3, CatType DEF Cat
  <1>6. InBuffers' = Collected
    BY <1>3, <1>4, CatType DEF InBuffers
  <1>7. Cat(Cat(heard, Offered), Cat(Collected, OnTheWay))
          = Cat(heard, Cat(Cat(Offered, Collected), OnTheWay))
    <2>1. PICK rest \in Seq(Nat) : rest = Cat(Collected, OnTheWay)
      BY <1>3, CatType
    <2>2. Cat(Cat(Offered, Collected), OnTheWay) = Cat(Offered, rest)
      BY <1>3, <2>1, CatAssoc
    <2>3. Cat(Cat(heard, Offered), rest) = Cat(heard, Cat(Offered, rest))
      BY <1>3, CatAssoc
    <2> QED
      BY <2>1, <2>2, <2>3
  <1>8. HostBuffers'
    <2>1. waiting_on_send
      BY <1>1 DEF HostBuffers
    <2>2. inEp' = [at |-> "sent", buffer |-> inEp.buffer, length |-> inEp.length]
      BY <1>1 DEF HostBuffers, Arming
    <2>3. Arming(inEp') /\ inEp'.at = "sent"
      BY <2>2 DEF Arming
    <2> QED
      BY <1>1, <1>5, <2>1, <2>3 DEF HostBuffers
  <1> QED
    BY <1>1, <1>2, <1>5, <1>6, <1>7, <1>8 DEF InBuffers

\* An event is collected behind the others if there is room, and lost otherwise.
LEMMA EpDataEvents ==
  ASSUME TypeInv, Flow, EventsFlow, EpData
  PROVE  EventsFlow'
  <1> USE DEF EventsFlow
  <1> DEFINE w == Head(toEp).word
             o == other(being_sent)
  <1>1. /\ toEp # <<>> /\ ~Head(toEp).ack /\ toEp' = Tail(toEp)
        /\ UNCHANGED <<heard, made, midi_to_host_fifo>>
    BY DEF EpData, toHost
  <1>2. Words(toEp) = <<w>> /\ Words(toEp') = <<>>
    BY <1>1, WordsReceived DEF TypeInv, Flow
  <1>3. w \in Nat
    BY <1>1, Received DEF TypeInv, Flow, Messages
  <1>4. /\ \A b \in {"A", "B"} : buffers[b] \in Seq(Nat) /\ Len(buffers[b]) = BufferWords
        /\ BufferWords \in Nat /\ o \in {"A", "B"} /\ o # being_sent
        /\ Offered \in Seq(Nat) /\ Collected \in Seq(Nat) /\ collected \in 0 .. BufferWords
        /\ buffers \in [{"A", "B"} -> [1 .. BufferWords -> Nat]]
    BY BuffersType DEF HostBuffers
  <1>5. /\ heard \in Seq(Nat) /\ InBuffers \in Seq(Nat) /\ midi_to_host_fifo \in Seq(Nat)
        /\ <<w>> \in Seq(Nat) /\ <<>> \in Seq(Nat)
    BY <1>3, EventTypes
  <1>6. OnTheWay = Cat(<<w>>, midi_to_host_fifo) /\ OnTheWay' = midi_to_host_fifo
    <2>1. Words(toEp)' = <<>>
      BY <1>2 DEF Words, WordsAt
    <2> QED
      BY <1>1, <1>2, <1>5, <2>1, CatType DEF OnTheWay
  <1>7. CASE collected < BufferWords
    <2>1. /\ buffers' = [buffers EXCEPT ![o][collected + 1] = w] /\ dropped' = dropped
          /\ IF waiting_on_send
             THEN collected' = collected + 1 /\ UNCHANGED <<being_sent, inEp, waiting_on_send>>
             ELSE Swap(collected + 1)
      BY <1>7 DEF EpData
    <2>2. PICK s : s = buffers[o] /\ s \in [1 .. BufferWords -> Nat]
      BY <1>4
    <2>3. /\ buffers'[o] = [s EXCEPT ![collected + 1] = w]
          /\ buffers'[being_sent] = buffers[being_sent]
          /\ buffers' \in [{"A", "B"} -> [1 .. BufferWords -> Nat]]
      <3>1. [s EXCEPT ![collected + 1] = w] \in [1 .. BufferWords -> Nat]
        BY <1>3, <2>2
      <3>2. buffers' = [buffers EXCEPT ![o] = [s EXCEPT ![collected + 1] = w]]
        BY <2>1, <2>2
      <3>3. being_sent \in {"A", "B"}
        BY DEF HostBuffers
      <3> QED
        BY <1>4, <3>1, <3>2, <3>3
    <2>4. SubSeq(buffers'[o], 1, collected + 1) = Cat(Collected, <<w>>)
      <3>1. collected \in Nat
        BY <1>4
      <3>2. SubSeq([s EXCEPT ![collected + 1] = w], 1, collected + 1)
              = Cat(SubSeq(s, 1, collected), <<w>>)
        BY <1>3, <1>7, <2>2, <3>1, CollectedMore
      <3> HIDE DEF w
      <3> QED
        BY <2>2, <2>3, <3>2, Zenon DEF Collected
    <2>5. collected + 1 \in 0 .. BufferWords
      BY <1>4, <1>7
    <2>6. HostBuffers' /\ InBuffers' = Cat(InBuffers, <<w>>)
      <3>1. CASE waiting_on_send
        <4>1. collected' = collected + 1 /\ UNCHANGED <<being_sent, inEp, waiting_on_send>>
          BY <2>1, <3>1
        <4>2. HostBuffers'
          BY <1>1, <2>3, <2>5, <3>1, <4>1 DEF HostBuffers
        <4>3. Offered' = Offered
          BY <2>3, <4>1 DEF Offered, HostBuffers
        <4>4. Collected' = Cat(Collected, <<w>>)
          BY <2>4, <4>1 DEF Collected, other
        <4>5. Cat(Offered, Cat(Collected, <<w>>)) = Cat(Cat(Offered, Collected), <<w>>)
          <5>1. PICK one \in Seq(Nat) : one = <<w>>
            BY <1>5
          <5>2. Cat(Offered, Cat(Collected, one)) = Cat(Cat(Offered, Collected), one)
            BY <1>4, CatAssoc
          <5> QED
            BY <5>1, <5>2
        <4> QED
          BY <4>2, <4>3, <4>4, <4>5 DEF InBuffers
      <3>2. CASE ~waiting_on_send
        <4>1. Swap(collected + 1) /\ inEp.at # "ready" /\ collected = 0
          BY <2>1, <3>2 DEF HostBuffers
        <4>2. HostBuffers' /\ InBuffers' = SubSeq(buffers'[o], 1, collected + 1)
          BY <1>1, <2>3, <2>5, <4>1, SwapEvents
        <4>3. InBuffers = Collected
          BY <1>4, <4>1, CatType DEF InBuffers, Offered
        <4> QED
          BY <2>4, <4>2, <4>3
      <3> QED
        BY <3>1, <3>2
    <2>7. Cat(InBuffers, Cat(<<w>>, midi_to_host_fifo))
            = Cat(Cat(InBuffers, <<w>>), midi_to_host_fifo)
      <3>1. PICK one \in Seq(Nat) : one = <<w>>
        BY <1>5
      <3>2. Cat(InBuffers, Cat(one, midi_to_host_fifo))
              = Cat(Cat(InBuffers, one), midi_to_host_fifo)
        BY <1>5, CatAssoc
      <3> QED
        BY <3>1, <3>2
    <2> QED
      BY <1>1, <1>6, <2>1, <2>6, <2>7
  <1>8. CASE ~(collected < BufferWords)
    <2>1. /\ buffers' = buffers /\ dropped' = dropped \cup {w}
          /\ IF waiting_on_send
             THEN collected' = collected /\ UNCHANGED <<being_sent, inEp, waiting_on_send>>
             ELSE Swap(collected)
      BY <1>8 DEF EpData
    <2>2. collected > 0
      BY <1>4, <1>8, MidiAssumption
    <2>3. collected' = collected /\ UNCHANGED <<being_sent, inEp, waiting_on_send>>
      BY <1>4, <2>1, <2>2 DEF HostBuffers
    <2>4. HostBuffers' /\ InBuffers' = InBuffers
      BY <1>1, <2>1, <2>3, BuffersSame DEF inEnd, HostBuffers
    <2>5. PICK a \in Seq(Nat) : a = Cat(heard, InBuffers)
      BY <1>5, CatType
    <2>6. Cat(heard, Cat(InBuffers, Cat(<<w>>, midi_to_host_fifo)))
            = Cat(a, Cat(<<w>>, midi_to_host_fifo))
      <3>1. PICK r \in Seq(Nat) : r = Cat(<<w>>, midi_to_host_fifo)
        BY <1>5, CatType
      <3> QED
        BY <1>5, <2>5, <3>1, CatAssoc
    <2>7. Cat(heard, Cat(InBuffers, midi_to_host_fifo)) = Cat(a, midi_to_host_fifo)
      BY <1>5, <2>5, CatAssoc
    <2>8. Orderly(Cat(a, Cat(<<w>>, midi_to_host_fifo)), dropped, made)
      BY <1>6, <2>6
    <2>9. Orderly(Cat(a, midi_to_host_fifo), dropped \cup {w}, made)
      BY <1>3, <1>5, <2>8, OrderlyLost DEF TypeInv
    <2> QED
      BY <1>1, <1>6, <2>1, <2>4, <2>7, <2>9
  <1> QED
    BY <1>4, <1>7, <1>8

\* At first there are no events.
LEMMA EventsInit ==
  Init => EventsFlow
  <1> SUFFICES ASSUME Init PROVE EventsFlow
    OBVIOUS
  <1>1. BufferWords \in Nat
    BY MidiAssumption
  <1>2. HostBuffers
    <2>1. [i \in 1 .. BufferWords |-> 0] \in [1 .. BufferWords -> Nat]
      OBVIOUS
    <2>2. buffers \in [{"A", "B"} -> [1 .. BufferWords -> Nat]]
      BY <2>1 DEF Init
    <2>3. inEp.at = "idle" /\ Arming(inEp)
      BY DEF Init, NotArmed, Arming
    <2>4. <<>> \in Seq(Nat)
      OBVIOUS
    <2>5. being_sent \in {"A", "B"} /\ waiting_on_send \in BOOLEAN /\ collected = 0
      BY DEF Init
    <2>8. collected \in 0 .. BufferWords
      BY <1>1, <2>5
    <2>6. midi_to_host_fifo = <<>> /\ heard \in Seq(Nat)
      BY <2>4 DEF Init
    <2>7. inEp.at # "ready"
      BY <2>3
    <2> QED
      BY <2>2, <2>3, <2>5, <2>6, <2>7, <2>8, Zenon DEF HostBuffers
  <1>3. \A s : SubSeq(s, 1, 0) = <<>>
    OBVIOUS
  <1>4. Offered = <<>> /\ Collected = <<>> /\ OnTheWay = Cat(<<>>, <<>>) /\ heard = <<>>
    BY <1>3 DEF Init, Offered, Collected, NotArmed, OnTheWay, Words, WordsAt
  <1>5. Cat(<<>>, <<>>) = <<>>
    BY DEF Cat
  <1>6. Orderly(<<>>, {}, 0)
    BY DEF Orderly
  <1>7. dropped = {} /\ made = 0
    BY DEF Init
  <1> QED
    BY <1>2, <1>4, <1>5, <1>6, <1>7 DEF EventsFlow, InBuffers

\* Every step leaves the events in order.
LEMMA EventsNext ==
  TypeInv /\ Flow /\ EventsFlow /\ [Next]_vars => EventsFlow'
  <1> SUFFICES ASSUME TypeInv, Flow, EventsFlow, [Next]_vars PROVE EventsFlow'
    OBVIOUS
  <1>0. ASSUME UNCHANGED <<inEnd, heard, dropped, made, midi_to_host_fifo>>, OnTheWay' = OnTheWay
        PROVE  EventsFlow'
    BY <1>0, BuffersSame, EventsSame DEF EventsFlow, HostBuffers
  <1>1. ASSUME NEW b, Receive(b) PROVE EventsFlow'
    <2>1. \E e : Pass(e) /\ UNCHANGED <<heard, inEnd>>
      BY <1>1 DEF Receive
    <2> QED
      BY <2>1, PassEvents
  <1>2. CASE StartSymbol
    <2>1. UNCHANGED <<inEnd, heard, dropped, made, midi_to_host_fifo>>
      BY <1>2 DEF StartSymbol, toHost
    <2>2. Words(toEp') = Words(toEp)
      <3>1. CASE UNCHANGED toEp
        BY <3>1
      <3>2. CASE toEp' = Append(toEp, Ack) /\ midi_from_host_overflow
        <4>1. ~HasAck(toEp)
          BY <3>2 DEF Flow, HostFlow
        <4> QED
          BY <3>2, <4>1, MessageTypes, WordsSent DEF TypeInv, Flow
      <3> QED
        BY <1>2, <3>1, <3>2 DEF StartSymbol
    <2>3. OnTheWay' = OnTheWay
      BY <2>1, <2>2 DEF OnTheWay, Words, WordsAt
    <2> QED
      BY <1>0, <2>1, <2>3
  <1>3. CASE EndSymbol
    BY <1>0, <1>3 DEF EndSymbol, toHost, OnTheWay, Words, WordsAt
  <1>4. CASE MidiAck
    BY <1>4, MidiAckEvents
  <1>5. CASE MidiData
    <2>1. UNCHANGED <<inEnd, heard, dropped, made, midi_to_host_fifo>>
      BY <1>5 DEF MidiData, toHost
    <2>2. Words(toEp') = Words(toEp)
      <3>1. CASE UNCHANGED toEp
        BY <3>1
      <3>2. CASE toEp' = Append(toEp, Ack)
        <4>1. HasWord(toMidi)
          BY <1>5, Received DEF MidiData, TypeInv, Flow
        <4>2. ~HasAck(toEp)
          BY <4>1 DEF Flow, HostFlow
        <4> QED
          BY <3>2, <4>2, MessageTypes, WordsSent DEF TypeInv, Flow
      <3> QED
        BY <1>5, <3>1, <3>2 DEF MidiData
    <2>3. OnTheWay' = OnTheWay
      BY <2>1, <2>2 DEF OnTheWay, Words, WordsAt
    <2> QED
      BY <1>0, <2>1, <2>3
  <1>6. CASE EpGiven
    BY <1>0, <1>6 DEF EpGiven, toHost, OnTheWay, Words, WordsAt
  <1>7. CASE EpAck
    <2>1. UNCHANGED <<inEnd, heard, dropped, made, midi_to_host_fifo>>
      BY <1>7 DEF EpAck, toHost
    <2>2. Words(toEp') = Words(toEp)
      BY <1>7, WordsReceived DEF EpAck, TypeInv, Flow
    <2>3. OnTheWay' = OnTheWay
      BY <2>1, <2>2 DEF OnTheWay, Words, WordsAt
    <2> QED
      BY <1>0, <2>1, <2>3
  <1>8. CASE EpData
    BY <1>8, EpDataEvents
  <1>9. CASE EpSent
    BY <1>9, EpSentEvents
  <1>10. CASE HostReads
    BY <1>10, HostReadsEvents
  <1>11. ASSUME NEW codes, HostWrites(codes) PROVE EventsFlow'
    BY <1>0, <1>11 DEF HostWrites, toHost, OnTheWay, Words, WordsAt
  <1>12. CASE UNCHANGED vars
    BY <1>0, <1>12 DEF vars, toHost, OnTheWay, Words, WordsAt
  <1> QED
    BY <1>1, <1>2, <1>3, <1>4, <1>5, <1>6, <1>7, <1>8, <1>9, <1>10, <1>11, <1>12
    DEF Next, UsbMidi, Buffer

\* They are what is on its way behind what the host has heard.
LEMMA EventsSuffice ==
  TypeInv /\ EventsFlow => LET all == heard \o Coming
                           IN  /\ \A i \in 2 .. Len(all) : all[i - 1] < all[i]
                               /\ ToSet(all) \cap dropped = {} /\ ToSet(all) \cup dropped = 1 .. made
  <1> SUFFICES ASSUME TypeInv, EventsFlow
               PROVE  LET all == heard \o Coming
                      IN  /\ \A i \in 2 .. Len(all) : all[i - 1] < all[i]
                          /\ ToSet(all) \cap dropped = {} /\ ToSet(all) \cup dropped = 1 .. made
    OBVIOUS
  <1> DEFINE all == heard \o Coming
  <1>1. all = Cat(heard, Cat(InBuffers, OnTheWay))
    <2>1. Coming = Cat(Cat(InBuffers, Words(toEp)), midi_to_host_fifo)
      BY DEF Coming, Cat, InBuffers, Collected
    <2>2. Cat(Cat(InBuffers, Words(toEp)), midi_to_host_fifo) = Cat(InBuffers, OnTheWay)
      BY EventTypes, CatAssoc DEF EventsFlow, OnTheWay
    <2> QED
      BY <2>1, <2>2 DEF Cat
  <1> HIDE DEF all
  <1>2. Orderly(all, dropped, made)
    BY <1>1 DEF EventsFlow
  <1>3. all \in Seq(Nat) /\ Len(all) \in Nat /\ DOMAIN all = 1 .. Len(all)
    BY <1>2 DEF Orderly
  <1>4. \A i \in 2 .. Len(all) : all[i - 1] < all[i]
    <2>1. \A i \in 2 .. Len(all) : i - 1 \in 1 .. Len(all) /\ i \in 1 .. Len(all) /\ i - 1 < i
      BY <1>3
    <2> QED
      BY <1>2, <2>1 DEF Orderly
  <1>5. ToSet(all) \cap dropped = {}
    BY <1>2, <1>3 DEF ToSet, Orderly
  <1>6. ToSet(all) \cup dropped = 1 .. made
    BY <1>2, <1>3 DEF ToSet, Orderly
  <1> QED
    BY <1>4, <1>5, <1>6 DEF all

-----------------------------------------------------------------------------
(***************************************************************************)
(* Both in order.                                                          *)
(***************************************************************************)
\* Every event that was not dropped reaches the host once and in order, and every
\* byte of the host's words goes out once and in order, for every size of the
\* queue and the buffers and any words.
THEOREM EventsAndBytesInOrder == Spec => []InOrder
  <1>1. Init => TypeInv /\ Flow /\ BytesFlow /\ EventsFlow
    BY FlowInit, BytesInit, EventsInit
  <1>2. (TypeInv /\ Flow /\ BytesFlow /\ EventsFlow) /\ [Next]_vars
          => (TypeInv /\ Flow /\ BytesFlow /\ EventsFlow)'
    BY FlowNext, BytesNext, EventsNext
  <1>3. TypeInv /\ Flow /\ BytesFlow /\ EventsFlow => InOrder
    BY BytesSuffice, EventsSuffice DEF InOrder
  <1> QED
    BY <1>1, <1>2, <1>3, PTL DEF Spec
=============================================================================
