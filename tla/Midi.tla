-------------------------------- MODULE Midi --------------------------------
(* MIDI: the task usb_midi (a UART in each direction, the parsers, a queue *)
(* of bytes for the transmitter, a queue of one event for the host), the   *)
(* MIDI cases of XUA_Buffer_Ep (a packet from the host handed on word by   *)
(* word, two buffers of events for the host), the channel between them,    *)
(* the host, and an instrument that plays.                                 *)
(*                                                                         *)
(* A byte of the UART is one step (what the bit timers do is left out, and *)
(* bytes with a wrong stop bit, which are thrown away, are not sent).  The *)
(* queues and the buffers do not look at what they hold: events towards    *)
(* the host are numbered there as they are made, and so are the words of   *)
(* the host, whose codes alone decide how many bytes they are.             *)
EXTENDS MidiParse, SequencesExt

CONSTANTS
    Statuses,       \* the status bytes the instrument begins a message with
    Codes,          \* the code index numbers of the host's words
    FifoSize,       \* USB_MIDI_DEVICE_OUT_FIFO_SIZE: bytes for the transmitter
    BufferWords,    \* MIDI_USB_BUFFER_TO_HOST_SIZE in words
    PacketWords,    \* the largest packet of the host in words
    MaxEvents,      \* bound: events made of what the instrument plays
    MaxWords        \* bound: words the host sends

ASSUME MidiAssumption ==
    /\ Statuses \subseteq {NoteOn, Program, SysEx, SongPointer, SongSelect, TuneRequest}
    /\ Codes \subseteq 0 .. 15
    /\ FifoSize \in Nat \ 0 .. 3     \* and a power of two, for the masks of queue.h
    /\ {BufferWords, PacketWords} \subseteq Nat \ {0}
    /\ {MaxEvents, MaxWords} \subseteq Nat

VARIABLES
    playing,            \* external: the message the instrument is in and how far
    owed,               \* history: the bytes of it that no event has carried yet
    mips,               \* the state of midi_in_parse
    made,               \* history: the number of events made so far
    dropped,            \* history: the events thrown away
    waiting_for_ack, midi_to_host_fifo, symbol_fifo, isTX, midi_from_host_overflow,
    symbol,             \* the byte being transmitted: a sequence of one, or empty
    transmitted,        \* history: how many bytes went out
    toEp, toMidi,       \* the two directions of c_midi
    buffers,            \* g_midi_to_host_buffer_A and _B
    being_sent,         \* one of them; the other is being collected
    collected,          \* midi_data_collected_from_device, in words
    waiting_on_send,    \* midi_waiting_on_send_to_host
    inEp,               \* external: what the endpoint is armed with
    heard,              \* history: the events the host has got
    outEp,              \* external: "ready", "given" (not yet noticed) or "taken"
    packet,             \* g_midi_from_host_buffer from midi_from_host_rdptr on
    words               \* history: the codes of the words the host has sent

parser == <<playing, owed, mips>>
toHost == <<waiting_for_ack, midi_to_host_fifo>>
sender == <<symbol_fifo, isTX, midi_from_host_overflow, symbol, transmitted>>
inEnd  == <<buffers, being_sent, collected, waiting_on_send, inEp>>
outEnd == <<outEp, packet, words>>
vars   == <<parser, made, dropped, heard, toHost, sender, toEp, toMidi, inEnd, outEnd>>

Ack     == [ack |-> TRUE, word |-> 0]
Data(n) == [ack |-> FALSE, word |-> n]

\* A chanend buffers eight tokens; a word is four of them and an END, an
\* acknowledgement an END.  The sender of what does not fit waits, so that of
\* words there is one at the most.
WordsAt(c) == {i \in DOMAIN c : ~c[i].ack}
Fits(c)    == Len(c) + 4 * Cardinality(WordsAt(c)) <= 8
Words(c)   == IF WordsAt(c) = {} THEN <<>> ELSE <<c[CHOOSE i \in WordsAt(c) : TRUE].word>>

\* The bytes of the n-th word of the host.
Symbols(n)    == [i \in 1 .. Size(words[n]) |-> <<n, i>>]
SymbolsOf(ns) == FlattenSeq([i \in DOMAIN ns |-> Symbols(ns[i])])

other(b) == IF b = "A" THEN "B" ELSE "A"
NotArmed == [at |-> "idle", buffer |-> "A", length |-> 0]

Init ==
    /\ playing = [status |-> 0, at |-> 0] /\ owed = <<>> /\ mips = reset_midi_state
    /\ made = 0 /\ dropped = {} /\ heard = <<>> /\ transmitted = 0 /\ words = <<>>
    /\ waiting_for_ack = FALSE /\ midi_to_host_fifo = <<>>
    /\ symbol_fifo = <<>> /\ isTX = FALSE /\ midi_from_host_overflow = FALSE /\ symbol = <<>>
    /\ toEp = <<>> /\ toMidi = <<>>
    /\ buffers = [b \in {"A", "B"} |-> [i \in 1 .. BufferWords |-> 0]]
    /\ being_sent = "A" /\ collected = 0 /\ waiting_on_send = FALSE /\ inEp = NotArmed
    /\ outEp = "ready" /\ packet = <<>>

-----------------------------------------------------------------------------
(* The instrument, and the receiving half of usb_midi.                     *)

Length(status) == CASE status \in {NoteOn, SongPointer} -> 3
                    [] status \in {Program, SongSelect} -> 2
                    [] status = TuneRequest             -> 1
                    [] OTHER                            -> 0
Complete == playing.status # SysEx /\ playing.at = Length(playing.status)
Running  == Complete /\ playing.status \in {NoteOn, Program}

\* The byte that is received, the message it belongs to and what is owed of it;
\* a status byte may come in the middle of a message that goes no further.
Begins(b) ==
    /\ b \in Statuses
    /\ playing' = [status |-> b, at |-> 1]
Continues(b) ==
    /\ b \in 0 .. 127 /\ playing.status # 0
    /\ \/ Running /\ b = 1 /\ playing' = [playing EXCEPT !.at = 2]
       \/ ~Complete /\ b = playing.at
          /\ playing' = [playing EXCEPT !.at = IF playing.status = SysEx THEN (@ % 3) + 1 ELSE @ + 1]
Ends(b) ==
    /\ b = EndOfSysEx /\ playing.status = SysEx
    /\ playing' = [status |-> 0, at |-> 0]

Owing(b) == IF isStatus(b) /\ b # EndOfSysEx THEN <<b>>
            ELSE Append(IF Running THEN <<playing.status>> ELSE owed, b)

\* What an event leaves owed: nothing if it carries just that, and otherwise
\* something the instrument never plays.
Garbled == <<0>>
Carried(event, owing, rest) ==
    IF event = NoEvent THEN owing
    ELSE IF midi_out_parse(event) = owing THEN rest ELSE Garbled

\* An event is sent if the last is acknowledged, kept if there is room for it,
\* and dropped otherwise.
Pass(event) ==
    IF event = NoEvent THEN UNCHANGED <<made, dropped, toHost, toEp>>
    ELSE /\ made' = made + 1
         /\ \/ /\ midi_to_host_fifo # <<>> /\ dropped' = dropped \cup {made'}
               /\ UNCHANGED <<toHost, toEp>>
            \/ /\ midi_to_host_fifo = <<>> /\ ~waiting_for_ack
               /\ toEp' = Append(toEp, Data(made')) /\ Fits(toEp') /\ waiting_for_ack' = TRUE
               /\ UNCHANGED <<dropped, midi_to_host_fifo>>
            \/ /\ midi_to_host_fifo = <<>> /\ waiting_for_ack
               /\ midi_to_host_fifo' = <<made'>>
               /\ UNCHANGED <<dropped, waiting_for_ack, toEp>>

Receive(b) ==
    /\ made < MaxEvents
    /\ LET parsed == midi_in_parse(mips, b)
       IN  /\ mips' = parsed.state
           /\ Pass(parsed.event)
           /\ IF b = TimingTick
              THEN playing' = playing /\ owed' = Carried(parsed.event, <<b>>, owed)
              ELSE /\ Begins(b) \/ Continues(b) \/ Ends(b)
                   /\ owed' = Carried(parsed.event, Owing(b), <<>>)
    /\ UNCHANGED <<heard, sender, toMidi, inEnd, outEnd>>

-----------------------------------------------------------------------------
(* The transmitting half of usb_midi, and its end of the channel.          *)

Space(queue) == FifoSize - Len(queue)

\* queue_push_word of one after the other: what does not fit is lost.
Push(queue, symbols) ==
    LET all == queue \o symbols
    IN  SubSeq(all, 1, IF Len(all) > FifoSize THEN FifoSize ELSE Len(all))

\* queue_pop_word of an empty queue is MIDI_OUT_NULL_MESSAGE.
Pop(queue)  == IF queue = <<>> THEN <<0, 0>> ELSE Head(queue)
Rest(queue) == IF queue = <<>> THEN queue ELSE Tail(queue)

\* Mutant: no acknowledgement once there is room again.
StartSymbolSilent ==
    /\ isTX /\ symbol = <<>>
    /\ symbol' = <<Pop(symbol_fifo)>> /\ symbol_fifo' = Rest(symbol_fifo)
    /\ UNCHANGED <<parser, made, dropped, heard, toHost, isTX, midi_from_host_overflow,
                   transmitted, toEp, toMidi, inEnd, outEnd>>

StartSymbol ==
    /\ isTX /\ symbol = <<>>
    /\ symbol' = <<Pop(symbol_fifo)>> /\ symbol_fifo' = Rest(symbol_fifo)
    /\ IF Space(symbol_fifo') > 3 /\ midi_from_host_overflow
       THEN /\ midi_from_host_overflow' = FALSE
            /\ toEp' = Append(toEp, Ack) /\ Fits(toEp')
       ELSE UNCHANGED <<midi_from_host_overflow, toEp>>
    /\ UNCHANGED <<parser, made, dropped, heard, toHost, isTX, transmitted, toMidi,
                   inEnd, outEnd>>

EndSymbol ==
    /\ isTX /\ symbol # <<>>
    /\ symbol' = <<>> /\ transmitted' = transmitted + 1
    /\ isTX' = (symbol_fifo # <<>>)
    /\ UNCHANGED <<parser, made, dropped, heard, toHost, symbol_fifo,
                   midi_from_host_overflow, toEp, toMidi, inEnd, outEnd>>

\* XUA_Buffer_Ep has taken an event.
MidiAck ==
    /\ toMidi # <<>> /\ Head(toMidi).ack /\ toMidi' = Tail(toMidi)
    /\ IF midi_to_host_fifo # <<>>
       THEN /\ toEp' = Append(toEp, Data(Head(midi_to_host_fifo))) /\ Fits(toEp')
            /\ midi_to_host_fifo' = <<>>
            /\ UNCHANGED waiting_for_ack
       ELSE /\ waiting_for_ack' = FALSE
            /\ UNCHANGED <<toEp, midi_to_host_fifo>>
    /\ UNCHANGED <<parser, made, dropped, heard, sender, inEnd, outEnd>>

\* Mutant: a word is acknowledged whether or not there is room for another.
MidiDataEager ==
    /\ toMidi # <<>> /\ ~Head(toMidi).ack /\ toMidi' = Tail(toMidi)
    /\ LET symbols == Symbols(Head(toMidi).word)
       IN  /\ symbol_fifo' = Push(symbol_fifo, symbols)
           /\ isTX' = (isTX \/ symbols # <<>>)
    /\ toEp' = Append(toEp, Ack) /\ Fits(toEp')
    /\ UNCHANGED <<parser, made, dropped, heard, toHost, midi_from_host_overflow, symbol,
                   transmitted, inEnd, outEnd>>

\* A word of the host: it is acknowledged when there is room for another.
MidiData ==
    /\ toMidi # <<>> /\ ~Head(toMidi).ack /\ toMidi' = Tail(toMidi)
    /\ LET symbols == Symbols(Head(toMidi).word)
       IN  /\ symbol_fifo' = Push(symbol_fifo, symbols)
           /\ isTX' = (isTX \/ symbols # <<>>)
    /\ IF Space(symbol_fifo') > 3
       THEN /\ toEp' = Append(toEp, Ack) /\ Fits(toEp')
            /\ UNCHANGED midi_from_host_overflow
       ELSE /\ midi_from_host_overflow' = TRUE
            /\ UNCHANGED toEp
    /\ UNCHANGED <<parser, made, dropped, heard, toHost, symbol, transmitted, inEnd, outEnd>>

-----------------------------------------------------------------------------
(* XUA_Buffer_Ep.                                                          *)

SendWord ==
    /\ toMidi' = Append(toMidi, Data(Head(packet))) /\ Fits(toMidi')
    /\ packet' = Tail(packet)

\* A packet from the host; the endpoint is made ready again by the last
\* acknowledgement, so that an empty packet is the last there is.
EpGiven ==
    /\ outEp = "given" /\ outEp' = "taken"
    /\ IF packet # <<>> THEN SendWord ELSE UNCHANGED <<toMidi, packet>>
    /\ UNCHANGED <<parser, made, dropped, heard, toHost, sender, toEp, inEnd, words>>

EpAck ==
    /\ toEp # <<>> /\ Head(toEp).ack /\ toEp' = Tail(toEp)
    /\ IF packet = <<>>
       THEN outEp' = "ready" /\ UNCHANGED <<toMidi, packet>>
       ELSE SendWord /\ UNCHANGED outEp
    /\ UNCHANGED <<parser, made, dropped, heard, toHost, sender, inEnd, words>>

\* Mutant: the buffer that is sent goes on being collected.
SwapNot(n) ==
    /\ collected' = 0 /\ waiting_on_send' = TRUE
    /\ being_sent' = being_sent
    /\ inEp' = [at |-> "ready", buffer |-> other(being_sent), length |-> n]

\* The buffers change places and the one with n words is offered to the host.
Swap(n) ==
    /\ being_sent' = other(being_sent) /\ collected' = 0
    /\ inEp' = [at |-> "ready", buffer |-> being_sent', length |-> n]
    /\ waiting_on_send' = TRUE

EpData ==
    /\ toEp # <<>> /\ ~Head(toEp).ack /\ toEp' = Tail(toEp)
    /\ toMidi' = Append(toMidi, Ack) /\ Fits(toMidi')
    /\ LET room  == collected < BufferWords
           count == IF room THEN collected + 1 ELSE collected
       IN  /\ buffers' = IF room
                         THEN [buffers EXCEPT ![other(being_sent)][count] = Head(toEp).word]
                         ELSE buffers
           /\ dropped' = IF room THEN dropped ELSE dropped \cup {Head(toEp).word}
           /\ IF waiting_on_send
              THEN collected' = count /\ UNCHANGED <<being_sent, inEp, waiting_on_send>>
              ELSE Swap(count)
    /\ UNCHANGED <<parser, made, heard, toHost, sender, outEnd>>

\* The host has taken a packet.
EpSent ==
    /\ inEp.at = "sent"
    /\ IF collected # 0 THEN Swap(collected)
       ELSE waiting_on_send' = FALSE /\ inEp' = NotArmed /\ UNCHANGED <<being_sent, collected>>
    /\ UNCHANGED <<parser, made, dropped, heard, toHost, sender, toEp, toMidi, buffers, outEnd>>

-----------------------------------------------------------------------------
(* The host.                                                               *)

Offered == IF inEp.at = "ready" THEN SubSeq(buffers[inEp.buffer], 1, inEp.length) ELSE <<>>

HostReads ==
    /\ inEp.at = "ready"
    /\ heard' = heard \o Offered /\ inEp' = [inEp EXCEPT !.at = "sent"]
    /\ UNCHANGED <<parser, made, dropped, toHost, sender, toEp, toMidi, buffers, being_sent,
                   collected, waiting_on_send, outEnd>>

HostWrites(codes) ==
    /\ outEp = "ready" /\ outEp' = "given"
    /\ Len(words \o codes) <= MaxWords
    /\ words' = words \o codes
    /\ packet' = [i \in DOMAIN codes |-> Len(words) + i]
    /\ UNCHANGED <<parser, made, dropped, heard, toHost, sender, toEp, toMidi, inEnd>>

-----------------------------------------------------------------------------
UsbMidi == StartSymbol \/ EndSymbol \/ MidiAck \/ MidiData
Buffer  == EpGiven \/ EpAck \/ EpData \/ EpSent
Next ==
    \/ \E b \in Statuses \cup {1, 2, 3, EndOfSysEx, TimingTick} : Receive(b)
    \/ UsbMidi \/ Buffer \/ HostReads
    \/ \E n \in 0 .. PacketWords : \E codes \in [1 .. n -> Codes] : HostWrites(codes)

\* The two tasks go on running, and a host with the port open polls it.  What
\* the instrument plays and the host writes, nobody has to.
Spec == /\ Init /\ [][Next]_vars
        /\ WF_vars(UsbMidi) /\ WF_vars(Buffer) /\ WF_vars(HostReads)

-----------------------------------------------------------------------------
(* Properties.                                                             *)

\* What the instrument plays, the events say: each carries the bytes that were
\* played since the last and were no real-time byte (with the status where it was
\* left out), and when a message is complete nothing of it is left in the parser.
MessagesWhole == owed # Garbled /\ (Complete => owed = <<>>)

\* The events on their way to the host, oldest first.
Coming == Offered \o SubSeq(buffers[other(being_sent)], 1, collected)
          \o Words(toEp) \o midi_to_host_fifo

\* The bytes on their way to the transmitter.
Going == symbol \o symbol_fifo \o SymbolsOf(Words(toMidi) \o packet)

\* Every event that was not dropped reaches the host once and in order, whatever
\* the two buffers, the queue and the acknowledgements do; and every byte of the
\* host's words goes out once and in order, none lost to a full queue.
InOrder ==
    /\ LET all == heard \o Coming
       IN  /\ \A i \in 2 .. Len(all) : all[i - 1] < all[i]
           /\ ToSet(all) \cap dropped = {} /\ ToSet(all) \cup dropped = 1 .. made
    /\ LET all == SymbolsOf([n \in DOMAIN words |-> n])
       IN  Going = SubSeq(all, transmitted + 1, Len(all))

\* Neither end of the channel ever holds more than one word and one acknowledgement,
\* six tokens of eight, so that no send waits; a word that arrives finds room for
\* its bytes, and the transmitter takes none from an empty queue (the "Unexpected
\* push" and "Unexpected pop" that queue.h asserts against).
OneOfEach(c) == \A i, j \in DOMAIN c : c[i].ack = c[j].ack => i = j
FlowControlled ==
    /\ OneOfEach(toEp) /\ OneOfEach(toMidi)
    /\ toMidi # <<>> /\ ~Head(toMidi).ack
         => Len(Symbols(Head(toMidi).word)) <= Space(symbol_fifo)
    /\ isTX /\ symbol = <<>> => symbol_fifo # <<>>

\* The two tasks never end up waiting for each other: every packet with a word
\* in it is taken and the endpoint made ready for the next, and every event
\* reaches the host or is dropped.
MidiServed ==
    /\ outEp = "given" /\ packet # <<>> ~> outEp = "ready"
    /\ <>[](1 .. made = ToSet(heard) \cup dropped)
=============================================================================
