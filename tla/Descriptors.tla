---------------------------- MODULE Descriptors ----------------------------
(***************************************************************************)
(* The string table and the UAC2 configuration descriptor of a build       *)
(* (xua_ep0_descriptors.h, chanstrings.h, xua_ep0_midi_descriptors.h).     *)
(*                                                                         *)
(* A configuration descriptor is a sequence of records in the order of its *)
(* bytes.  The descriptors that only carry constants are left out; what is *)
(* kept of the others is what a host relates to each other: numbers,       *)
(* alternates, endpoints, entity ids and their sources, channels, subslots *)
(* resolutions, packet sizes and string indices.                           *)
(***************************************************************************)
EXTENDS Config

Class2(b) == b.hs = 2 \/ b.fs = 2

\* StringDescTable_t: an index into this sequence, less one, is a string index.
\* Strings are <<name, number>>; the number tells the channels of one list apart.
One(name) == <<name, 0>>
Names(S) == [i \in 1..Len(S) |-> One(S[i])]
OutputChanStrings(b) == [i \in 1..b.out |-> <<"outputChan", i>>]
InputChanStrings(b)  == [i \in 1..b.in |-> <<"inputChan", i>>]
MixOutStrings(b)     == [i \in 1..MAX_MIX_COUNT(b) |-> <<"mixOut", i>>]
StringTable(b) ==
     Names(<<"langID", "vendor", "serial">>)
  \o When(Class2(b), Names(<<"product2", "outputInterface2", "inputInterface2", "usbInput2", "usbOutput2">>))
  \o When(b.fs = 1,  Names(<<"product1", "outputInterface1", "inputInterface1", "usbInput1", "usbOutput1">>))
  \o When(Class2(b), Names(<<"clockSelector", "internalClock">>)
                     \o When("spdifRx" \in b.has, Names(<<"spdifClock">>))
                     \o When("adatRx" \in b.has, Names(<<"adatClock">>)))
  \o When("dfu" \in b.has, Names(<<"dfu">>)) \o When("control" \in b.has, Names(<<"control">>))
  \o When("midi" \in b.has, Names(<<"midiOut", "midiIn">>))
  \o OutputChanStrings(b) \o InputChanStrings(b) \o MixOutStrings(b)
StringIndex(b, name) ==
  (CHOOSE i \in 1..Len(StringTable(b)) : StringTable(b)[i][1] = name) - 1

\* chanstrings.h: the connectors a channel is named after.  A channel past its
\* digital stream's first one is counted from there, S/PDIF to 2 and ADAT to 8.
ConnectorShort(kind, i, at, width) ==      \* mutant of Connector: the last one is left out
  IF i > at /\ i < at + width THEN {<<kind, i - at>>} ELSE {}
Connector(kind, i, at, width) == IF i > at /\ i < at + width + 1 THEN {<<kind, i - at>>} ELSE {}
OutputChanStr(b, i) ==
       Connector("analogue", i, 0, b.dac)
  \union (IF "spdifTx" \in b.has THEN Connector("spdif", i, b.at["spdifTx"], 2) ELSE {})
  \union (IF "adatTx" \in b.has THEN Connector("adat", i, b.at["adatTx"], 8) ELSE {})
InputChanStr(b, i) ==
       Connector("analogue", i, 0, b.adc)
  \union (IF "spdifRx" \in b.has THEN Connector("spdif", i, b.at["spdifRx"], 2) ELSE {})
  \union (IF "adatRx" \in b.has THEN Connector("adat", i, b.at["adatRx"], 8) ELSE {})
-----------------------------------------------------------------------------
\* The records: `of` is the stream and the alternate a record belongs to, `names`
\* the string index it carries, 0 for none.
Interface(b, name, alt, eps, string) ==
  [kind |-> "interface", num |-> INTERFACE_NUMBER(b, name), name |-> name,
   alt |-> alt, eps |-> eps, string |-> string]
Entity(type, id, sources, chans, string) ==
  [kind |-> "entity", type |-> type, id |-> id, sources |-> sources, chans |-> chans, string |-> string]
Stream(path, n, link, data, chans, string) ==
  [kind |-> "stream", of |-> <<path, n>>, link |-> link, data |-> data, chans |-> chans, string |-> string]
Format(path, n, slot, bits) == [kind |-> "format", of |-> <<path, n>>, slot |-> slot, bits |-> bits]
Endpoint(path, n, addr, use, size) ==
  [kind |-> "endpoint", of |-> <<path, n>>, addr |-> addr, use |-> use, size |-> size]
Jack(type, id, sources, string) ==
  [kind |-> "jack", type |-> type, id |-> id, sources |-> sources, string |-> string]
JackOf(addr, id) == [kind |-> "jackOf", addr |-> addr, id |-> id]

ID_IT_AUD == 1        \* the ids of the UAC2 entities
ID_IT_USB == 2
FU_USBOUT == 10
FU_USBIN == 11
ID_OT_AUD == 20
ID_OT_USB == 22
ID_CLKSEL == 40
ID_CLKSRC_INT == 41
ID_CLKSRC_SPDIF == 42
ID_CLKSRC_ADAT == 43
ID_XU_MIXSEL == 50
ID_XU_OUT == 51
ID_XU_IN == 52
ID_MIXER_1 == 60
-----------------------------------------------------------------------------
(***************************************************************************)
(* The audio control interface: clocks, the two paths, the mixer.          *)
(***************************************************************************)
ClockSources(b) ==
     <<Entity("clock", ID_CLKSRC_INT, <<>>, 0, StringIndex(b, "internalClock"))>>
  \o When("spdifRx" \in b.has, <<Entity("clock", ID_CLKSRC_SPDIF, <<>>, 0, StringIndex(b, "spdifClock"))>>)
  \o When("adatRx" \in b.has, <<Entity("clock", ID_CLKSRC_ADAT, <<>>, 0, StringIndex(b, "adatClock"))>>)
ClockSelector(b) ==
  LET sources == ClockSources(b) IN
  <<Entity("selector", ID_CLKSEL, [i \in 1..Len(sources) |-> sources[i].id], 0, StringIndex(b, "clockSelector"))>>

\* Mutant of OutputPath: the audio terminal is always linked to the feature unit.
OutputPathFixed(b) ==
  LET mixed == "mixer" \in b.has IN
     <<Entity("input", ID_IT_USB, <<>>, b.out, StringIndex(b, "usbInput2"))>>
  \o When(mixed, <<Entity("extension", ID_XU_OUT, <<ID_IT_USB>>, b.out, 0)>>)
  \o When("outVolume" \in b.has,
       <<Entity("feature", FU_USBOUT, IF mixed THEN <<ID_XU_OUT>> ELSE <<ID_IT_USB>>, b.out, 0)>>)
  \o <<Entity("output", ID_OT_AUD, <<FU_USBOUT>>, 0, 0)>>
\* USB terminal -> [extension unit] -> [feature unit] -> audio terminal.  Without
\* the feature unit the audio terminal is linked past the extension unit.
OutputPath(b) ==
  LET mixed == "mixer" \in b.has IN
     <<Entity("input", ID_IT_USB, <<>>, b.out, StringIndex(b, "usbInput2"))>>
  \o When(mixed, <<Entity("extension", ID_XU_OUT, <<ID_IT_USB>>, b.out, 0)>>)
  \o When("outVolume" \in b.has,
       <<Entity("feature", FU_USBOUT, IF mixed THEN <<ID_XU_OUT>> ELSE <<ID_IT_USB>>, b.out, 0)>>)
  \o <<Entity("output", ID_OT_AUD, IF "outVolume" \in b.has THEN <<FU_USBOUT>> ELSE <<ID_IT_USB>>, 0, 0)>>
InputPath(b) ==
  LET mixed == "mixer" \in b.has IN
     <<Entity("input", ID_IT_AUD, <<>>, b.in, 0)>>
  \o When(mixed, <<Entity("extension", ID_XU_IN, <<ID_IT_AUD>>, b.in, 0)>>)
  \o When("inVolume" \in b.has,
       <<Entity("feature", FU_USBIN, IF mixed THEN <<ID_XU_IN>> ELSE <<ID_IT_AUD>>, b.in, 0)>>)
  \o <<Entity("output", ID_OT_USB, IF "inVolume" \in b.has THEN <<FU_USBIN>> ELSE <<ID_IT_AUD>>, 0,
              StringIndex(b, "usbOutput2"))>>

\* The mixer unit has a bit for each of its controls; the preprocessor refuses more than 18 bytes.
MIX_BMCONTROLS_LEN(b) == (MAX_MIX_COUNT(b) * b.mixIn + 7) \div 8
MixerFits(b) == MIX_BMCONTROLS_LEN(b) <= 18
MixerUnits(b) ==
  <<Entity("extension", ID_XU_MIXSEL, <<ID_IT_USB, ID_IT_AUD>>, b.mixIn, 0),
    Entity("mixer", ID_MIXER_1, <<ID_XU_MIXSEL>>, MAX_MIX_COUNT(b), StringIndex(b, "mixOut"))>>

InterruptEndpoint(b) == <<Endpoint("control", 0, ENDPOINT_IN(b, "interrupt"), "interrupt", 6)>>

AudioControl(b) ==
  LET interrupts == NUM_CLOCKS(b) > 1 IN
     <<[kind |-> "association", first |-> 0, count |-> AUDIO_INTERFACE_COUNT(b)],
       Interface(b, "audioControl", 0, IF interrupts THEN 1 ELSE 0, StringIndex(b, "product2"))>>
  \o ClockSources(b) \o ClockSelector(b)
  \o When(b.out > 0, OutputPath(b)) \o When(b.in > 0, InputPath(b))
  \o When("mixer" \in b.has, MixerUnits(b)) \o When(interrupts, InterruptEndpoint(b))
-----------------------------------------------------------------------------
(***************************************************************************)
(* The streaming interfaces.  `&&` binds tighter than `||` in the test for *)
(* the feedback endpoint: a build without input has it whatever its sync.  *)
(***************************************************************************)
HasFeedback(b) == b.in = 0 \/ ("feedback" \in b.has /\ b.sync = "async")
IsoUse(b) ==
  IF b.sync # "async" THEN b.sync
  ELSE IF b.in = 0 \/ "feedback" \in b.has THEN "async" ELSE "implicit"

FeedbackSize(speed) == IF speed = "hs" THEN 4 ELSE 3

OutputAlternate(b, n) ==
     <<Interface(b, "audioOut", n, IF HasFeedback(b) THEN 2 ELSE 1, 4),
       Stream("out", n, ID_IT_USB, OutData(b)[n], OutChansHS(b)[n], StringIndex(b, "outputChan")),
       Format("out", n, OutSlotHS(b)[n], OutRes(b)[n]),
       Endpoint("out", n, ENDPOINT_OUT(b, "audio"), IsoUse(b), EpSizeHS(OutPacketHS(b)[n]))>>
  \o When(HasFeedback(b), <<Endpoint("out", n, ENDPOINT_IN(b, "feedback"), "feedback", FeedbackSize("hs"))>>)

\* Mutant of InputAlternate: every alternate takes the size of the last, the smallest.
InputAlternateSize(b, n) ==
  <<Interface(b, "audioIn", n, 1, 5),
    Stream("in", n, ID_OT_USB, "pcm", InChansHS(b)[n], StringIndex(b, "inputChan")),
    Format("in", n, InSlotHS(b)[1], InRes(b)[1]),
    Endpoint("in", n, ENDPOINT_IN(b, "audio"), IsoUse(b), EpSizeHS(InPacketHS(b)[Len(InChansHS(b))]))>>
\* The subslot and the resolution of the first alternate are those of every alternate.
InputAlternate(b, n) ==
  <<Interface(b, "audioIn", n, 1, 5),
    Stream("in", n, ID_OT_USB, "pcm", InChansHS(b)[n], StringIndex(b, "inputChan")),
    Format("in", n, InSlotHS(b)[1], InRes(b)[1]),
    Endpoint("in", n, ENDPOINT_IN(b, "audio"), IsoUse(b), EpSizeHS(InPacketHS(b)[n]))>>

OutputStreaming(b) ==
  LET alts == [n \in Formats |-> When(n <= OUTPUT_FORMAT_COUNT(b), OutputAlternate(b, n))] IN
  <<Interface(b, "audioOut", 0, 0, 4)>> \o alts[1] \o alts[2] \o alts[3]
InputStreaming(b) ==
  LET alts == [n \in Formats |-> When(n <= INPUT_FORMAT_COUNT(b), InputAlternate(b, n))] IN
  <<Interface(b, "audioIn", 0, 0, 5)>> \o alts[1] \o alts[2] \o alts[3]
-----------------------------------------------------------------------------
\* MIDI: an embedded jack for each direction, wired to an external one.
Midi(b, control, stream, size) ==
  <<control, stream,
    Jack("in", 1, <<>>, 0), Jack("in", 2, <<>>, StringIndex(b, "midiIn")),
    Jack("out", 3, <<2>>, 0), Jack("out", 4, <<1>>, StringIndex(b, "midiOut")),
    Endpoint("midi", 0, ENDPOINT_OUT(b, "midi"), "bulk", size), JackOf(ENDPOINT_OUT(b, "midi"), 1),
    Endpoint("midi", 0, ENDPOINT_IN(b, "midi"), "bulk", size), JackOf(ENDPOINT_IN(b, "midi"), 3)>>
MidiDescriptors(b) ==
  Midi(b, Interface(b, "midiControl", 0, 0, 0), Interface(b, "midiStream", 0, 2, 0), 512)

\* The vendor specific control interface, and that of DFU, of both audio classes
ControlInterface(b) == <<Interface(b, "control", 0, 0, StringIndex(b, "control"))>>
DfuInterface(b) == <<Interface(b, "dfu", 0, 0, StringIndex(b, "dfu"))>>

\* HID: an interrupt endpoint for reports, and one towards the device where it is required
HidDescriptors(b) ==
  LET hidOut == "hidOut" \in b.has IN
     <<Interface(b, "hid", 0, IF hidOut THEN 2 ELSE 1, 0),
       Endpoint("hid", 0, ENDPOINT_IN(b, "hid"), "interrupt", 64)>>
  \o When(hidOut, <<Endpoint("hid", 0, ENDPOINT_OUT(b, "hid"), "interrupt", 64)>>)

\* cfgDesc_Audio2, at first with its high speed values
CfgDesc2(b) ==
  [bNumInterfaces |-> Len(Interfaces(b)),
   items |->    When(Audio(b), AudioControl(b))
             \o When(b.out > 0, OutputStreaming(b)) \o When(b.in > 0, InputStreaming(b))
             \o When("midi" \in b.has, MidiDescriptors(b)) \o When("control" \in b.has, ControlInterface(b))
             \o When("dfu" \in b.has, DfuInterface(b)) \o When("hid" \in b.has, HidDescriptors(b))]
=============================================================================
