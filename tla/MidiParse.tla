----------------------------- MODULE MidiParse -----------------------------
(* The two parsers of the MIDI task: midi_in_parse makes USB MIDI events of *)
(* the bytes the UART has received, midi_out_parse bytes of an event.  The  *)
(* entries of receivebuffer above "received" are always zero, and the       *)
(* buffer is a sequence here.  The cable number is a constant of the build. *)
EXTENDS Integers, Sequences

NoteOn      == 144                  \* 0x90 and a channel number, three bytes
Program     == 192                  \* 0xC0, two
SysEx       == 240                  \* 0xF0, as long as its EndOfSysEx is away
TimeCode    == 241                  \* 0xF1, two
SongPointer == 242                  \* 0xF2, three
SongSelect  == 243                  \* 0xF3, two
TuneRequest == 246                  \* 0xF6, one
EndOfSysEx  == 247
TimingTick  == 248
RealTime    == TimingTick .. 255    \* one byte, anywhere

isStatus(b)   == b >= 128
highNibble(b) == b \div 16

makeEvent(code, bytes) == [code |-> code, bytes |-> bytes]
NoEvent == makeEvent(0, <<>>)

InParseState(type, length, code, buffer) ==
    [msg_type |-> type, expect_msg_len |-> length, codeIndexNumber |-> code,
     receivebuffer |-> buffer]
reset_midi_state == InParseState("initial", 0, 0, <<>>)

Result(state, event) == [state |-> state, event |-> event]

\* 0xF7, wherever it comes.
SysExEnd(s, b) ==
    LET buffer == Append(s.receivebuffer, b)
    IN  Result(reset_midi_state, makeEvent(Len(buffer) + 4, buffer))

\* 0xF0 to 0xF6.
SystemStatus(b) ==
    CASE b = SysEx       -> Result(InParseState("sysex", 0, 0, <<b>>), NoEvent)
      [] b = SongPointer -> Result(InParseState("common", 3, 3, <<b>>), NoEvent)
      [] b \in {TimeCode, SongSelect} -> Result(InParseState("common", 2, 2, <<b>>), NoEvent)
      [] b = TuneRequest -> Result(InParseState("initial", 0, 5, <<b>>), makeEvent(5, <<b>>))
      [] OTHER           -> Result(reset_midi_state, makeEvent(15, <<b>>))

\* 0x80 to 0xEF.
ChannelStatus(b) ==
    LET length == IF highNibble(b) \in {12, 13} THEN 2 ELSE 3
    IN  Result(InParseState("channel", length, highNibble(b), <<b>>), NoEvent)

\* Mutant: no running status.
MessageDataForgets(s, buffer) ==
    IF Len(buffer) # s.expect_msg_len
    THEN Result([s EXCEPT !.receivebuffer = buffer], NoEvent)
    ELSE Result(reset_midi_state, makeEvent(s.codeIndexNumber, buffer))

\* A channel message leaves its status behind for the next (running status).
MessageData(s, buffer) ==
    IF Len(buffer) # s.expect_msg_len
    THEN Result([s EXCEPT !.receivebuffer = buffer], NoEvent)
    ELSE Result(IF s.msg_type = "common" THEN reset_midi_state
                ELSE [s EXCEPT !.receivebuffer = <<buffer[1]>>],
                makeEvent(s.codeIndexNumber, buffer))

SysExData(s, buffer) ==
    IF Len(buffer) # 3
    THEN Result([s EXCEPT !.receivebuffer = buffer], NoEvent)
    ELSE Result([s EXCEPT !.codeIndexNumber = 4, !.receivebuffer = <<>>],
                makeEvent(4, buffer))

DataByte(s, b) ==
    LET buffer == Append(s.receivebuffer, b)
    IN  CASE s.msg_type \in {"channel", "common"} -> MessageData(s, buffer)
          [] s.msg_type = "sysex"   -> SysExData(s, buffer)
          [] s.msg_type = "initial" -> Result(reset_midi_state, makeEvent(15, <<b>>))

midi_in_parse(s, b) ==
    CASE b \in RealTime   -> Result(s, makeEvent(15, <<b>>))
      [] b = EndOfSysEx   -> SysExEnd(s, b)
      [] b \in 240 .. 246 -> SystemStatus(b)
      [] b \in 128 .. 239 -> ChannelStatus(b)
      [] b \in 0 .. 127   -> DataByte(s, b)

\* The number of bytes in an event.
Size(code) ==
    CASE code \in {3, 4, 7, 8, 9, 10, 11, 14} -> 3
      [] code \in {2, 6, 12, 13}              -> 2
      [] code \in {5, 15}                     -> 1
      [] OTHER                                -> 0

\* The bytes in an event; what makeEvent was not given is zero.
midi_out_parse(event) ==
    [i \in 1 .. Size(event.code) |-> IF i \in DOMAIN event.bytes THEN event.bytes[i] ELSE 0]
=============================================================================
