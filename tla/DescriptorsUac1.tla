-------------------------- MODULE DescriptorsUac1 --------------------------
(***************************************************************************)
(* The UAC1 configuration descriptor: an array of bytes whose length is    *)
(* computed beside it, so that here every record has its length in bytes.  *)
(***************************************************************************)
EXTENDS Descriptors

\* A record with one field more
With(item, field, value) == [f \in DOMAIN item \union {field} |-> IF f = field THEN value ELSE item[f]]
Bytes(n, item) == With(item, "len", n)
InterfaceAt(num, name, alt, eps, string) ==
  Bytes(9, [kind |-> "interface", num |-> num, name |-> name, alt |-> alt, eps |-> eps, string |-> string])
Other(n) == [kind |-> "other", len |-> n]

INPUT_INTERFACES_A1(b)  == IF b.in > 0 THEN 1 ELSE 0
OUTPUT_INTERFACES_A1(b) == IF b.out > 0 THEN 1 ELSE 0
HasVolume(b, option) == IF option \in b.has THEN 1 ELSE 0
-----------------------------------------------------------------------------
\* The sample rates are listed; Windows wants three at least, so that a list of
\* one or two repeats the highest.
Uac1Rates == <<8000, 11025, 12000, 16000, 32000, 44100, 48000, 88200, 96000>>
Supported(b) == SelectSeq(Uac1Rates, LAMBDA r : b.minF <= r /\ MAX_FREQ_FS(b) >= r)
num_freqs_a1(b) == Largest({3, Len(Supported(b))})

\* Mutant of RepeatedRates: a single rate is repeated once.
RepeatedOnce(b) ==
  LET range == <<b.minF, MAX_FREQ_FS(b)>> IN
  When(range \in {<<8000, 11025>>, <<11025, 12000>>, <<12000, 16000>>, <<16000, 32000>>, <<44100, 48000>>,
                  <<48000, 88200>>, <<88200, 96000>>}, <<MAX_FREQ_FS(b)>>)
  \o When(b.minF = MAX_FREQ_FS(b), <<MAX_FREQ_FS(b)>>)
RepeatedRates(b) ==
  LET range == <<b.minF, MAX_FREQ_FS(b)>> IN
  When(range \in {<<8000, 11025>>, <<11025, 12000>>, <<12000, 16000>>, <<16000, 32000>>, <<44100, 48000>>,
                  <<48000, 88200>>, <<88200, 96000>>}, <<MAX_FREQ_FS(b)>>)
  \o When(b.minF = MAX_FREQ_FS(b), <<MAX_FREQ_FS(b), MAX_FREQ_FS(b)>>)

\* The preprocessor refuses more than seven rates.
RateRangeFits(b) == ~(b.minF < 12000 /\ MAX_FREQ_FS(b) > 48000)
-----------------------------------------------------------------------------
\* The lengths that the header announces
AC_LENGTH(b) == IF Audio(b) THEN 8 + INPUT_INTERFACES_A1(b) + OUTPUT_INTERFACES_A1(b) ELSE 0
AC_TOTAL_LENGTH(b) ==
    AC_LENGTH(b)
  + INPUT_INTERFACES_A1(b) * (12 + (8 + InChansFS(b)) * HasVolume(b, "inVolume") + 9)
  + OUTPUT_INTERFACES_A1(b) * (12 + (8 + OutChansFS(b)) * HasVolume(b, "outVolume") + 9)

\* Here the feedback test has its parentheses.
FeedbackBytes(b) == IF (b.in = 0 \/ "feedback" \in b.has) /\ b.sync = "async" THEN 58 ELSE 49
BeforeHid(b) ==
    9 + (IF Audio(b) THEN 9 ELSE 0) + AC_TOTAL_LENGTH(b)
  + INPUT_INTERFACES_A1(b) * (49 + num_freqs_a1(b) * 3)
  + OUTPUT_INTERFACES_A1(b) * (FeedbackBytes(b) + num_freqs_a1(b) * 3)
  + (IF "midi" \in b.has THEN 92 ELSE 0)
  + (IF "control" \in b.has THEN 9 ELSE 0) + (IF "dfu" \in b.has THEN 18 ELSE 0)
HidBytes(b) ==
  IF "hid" \in b.has THEN 9 + 9 + 7 * (IF "hidOut" \in b.has THEN 2 ELSE 1) ELSE 0
CFG_TOTAL_LENGTH_A1(b) == BeforeHid(b) + HidBytes(b)

\* Where Endpoint0 writes the length of the HID report descriptor
USB_HID_DESCRIPTOR_OFFSET(b) == BeforeHid(b) + 9

NUM_INTERFACES_A1(b) ==
    (IF Audio(b) THEN 1 ELSE 0) + INPUT_INTERFACES_A1(b) + OUTPUT_INTERFACES_A1(b)
  + (IF "midi" \in b.has THEN 2 ELSE 0)
  + Cardinality({"control", "dfu", "hid"} \intersect b.has)
-----------------------------------------------------------------------------
\* The audio control interface: USB terminal -> [feature unit] -> audio terminal
OutputTerminals1(b) ==
     <<Bytes(12, Entity("input", 1, <<>>, OutChansFS(b), StringIndex(b, "usbInput1")))>>
  \o When("outVolume" \in b.has, <<Bytes(8 + OutChansFS(b), Entity("feature", 10, <<1>>, OutChansFS(b), 0))>>)
  \o <<Bytes(9, Entity("output", 6, IF "outVolume" \in b.has THEN <<10>> ELSE <<1>>, 0, 0))>>
InputTerminals1(b) ==
     <<Bytes(12, Entity("input", 2, <<>>, InChansFS(b), StringIndex(b, "usbOutput1"))),
       Bytes(9, Entity("output", 7, IF "inVolume" \in b.has THEN <<11>> ELSE <<2>>, 0, 0))>>
  \o When("inVolume" \in b.has, <<Bytes(8 + InChansFS(b), Entity("feature", 11, <<2>>, InChansFS(b), 0))>>)

AudioControl1(b) ==
     <<InterfaceAt(0, "audioControl", 0, 0, StringIndex(b, "product1")), Other(AC_LENGTH(b))>>
  \o When(b.out > 0, OutputTerminals1(b)) \o When(b.in > 0, InputTerminals1(b))

\* One alternate for each direction, in the full speed format
FormatRates(b, path, slot, bits) ==
  With(With(Bytes(8 + num_freqs_a1(b) * 3, Format(path, 1, slot, bits)), "announced", num_freqs_a1(b)),
       "rates", RepeatedRates(b) \o Supported(b))

OutputStreaming1(b) ==
  <<InterfaceAt(1, "audioOut", 0, 0, StringIndex(b, "outputInterface1")),
    InterfaceAt(1, "audioOut", 1, IF HasFeedback(b) THEN 2 ELSE 1, StringIndex(b, "outputInterface1")),
    Bytes(7, Stream("out", 1, 1, "pcm", OutChansFS(b), StringIndex(b, "outputChan"))),
    FormatRates(b, "out", OutSlotFS(b)[1], OutRes(b)[1]),
    Bytes(9, Endpoint("out", 1, ENDPOINT_OUT(b, "audio"), IsoUse(b), OutPacketFS(b)[1])), Other(7)>>
  \o When(HasFeedback(b),
       <<Bytes(9, Endpoint("out", 1, ENDPOINT_IN(b, "feedback"), "feedback", FeedbackSize("fs")))>>)
InputStreaming1(b) ==
  LET num == OUTPUT_INTERFACES_A1(b) + 1 IN
  <<InterfaceAt(num, "audioIn", 0, 0, StringIndex(b, "inputInterface1")),
    InterfaceAt(num, "audioIn", 1, 1, StringIndex(b, "inputInterface1")),
    Bytes(7, Stream("in", 1, 7, "pcm", InChansFS(b), StringIndex(b, "inputChan"))),
    FormatRates(b, "in", InSlotFS(b)[1], InRes(b)[1]),
    Bytes(9, Endpoint("in", 1, ENDPOINT_IN(b, "audio"), IsoUse(b), InPacketFS(b))), Other(7)>>

\* MIDI again, with its lengths
Midi1(b) ==
  LET items == Midi(b, Interface(b, "midiControl", 0, 0, 0), Interface(b, "midiStream", 0, 2, 0), 64)
      bytes == <<9, 9, 6, 6, 9, 9, 9, 5, 9, 5>>
  IN  [i \in 1..Len(items) |-> Bytes(bytes[i], items[i])] \o <<Other(9), Other(7)>>

\* The control interface has the number that follows the streaming interfaces.
ControlInterface1(b) ==
  <<InterfaceAt(OUTPUT_INTERFACES_A1(b) + INPUT_INTERFACES_A1(b) + 1, "control", 0, 0, StringIndex(b, "control"))>>
DfuInterface1(b) ==
  <<InterfaceAt(INTERFACE_NUMBER(b, "dfu"), "dfu", 0, 0, StringIndex(b, "dfu")), Other(9)>>

\* The HID descriptor itself is a record too: its place is what the offset is for.
HidDescriptors1(b) ==
  LET hidOut == "hidOut" \in b.has IN
     <<InterfaceAt(INTERFACE_NUMBER(b, "hid"), "hid", 0, IF hidOut THEN 2 ELSE 1, 0),
       [kind |-> "hid", len |-> 9],
       Bytes(7, Endpoint("hid", 0, ENDPOINT_IN(b, "hid"), "interrupt", 64))>>
  \o When(hidOut, <<Bytes(7, Endpoint("hid", 0, ENDPOINT_OUT(b, "hid"), "interrupt", 64))>>)

\* cfgDesc_Audio1; the first nine bytes are the header.
CfgDesc1(b) ==
  [bNumInterfaces |-> NUM_INTERFACES_A1(b), total |-> CFG_TOTAL_LENGTH_A1(b),
   items |->    <<Other(9)>> \o When(Audio(b), AudioControl1(b))
             \o When(b.out > 0, OutputStreaming1(b)) \o When(b.in > 0, InputStreaming1(b))
             \o When("midi" \in b.has, Midi1(b)) \o When("dfu" \in b.has, DfuInterface1(b))
             \o When("control" \in b.has, ControlInterface1(b)) \o When("hid" \in b.has, HidDescriptors1(b))]
=============================================================================
