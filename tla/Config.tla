------------------------------- MODULE Config -------------------------------
(***************************************************************************)
(* What a build of the firmware derives from the defines of its            *)
(* application (xua_conf_default.h, descriptor_defs.h, packet_sizes.h).    *)
(*                                                                         *)
(* A build b is a record of the defines that matter to the descriptors:    *)
(*   out, in       channels to and from the host (NUM_USB_CHAN_OUT, _IN)   *)
(*   dac, adc      I2S channels                                            *)
(*   minF, maxF    the range of sample rates                               *)
(*   hs, fs        audio class at high and at full speed, 0 for none       *)
(*   sync          XUA_SYNCMODE                                            *)
(*   has           the options that are enabled, a subset of Options       *)
(*   at            first channel of the digital streams in `has`           *)
(*   mixIn         MIX_INPUTS                                              *)
(*   inRes         resolution of the input formats                         *)
(***************************************************************************)
EXTENDS Naturals, Sequences, FiniteSets

Options == {"midi", "dfu", "control", "hid", "hidOut", "mixer", "dsd", "feedback",
            "outVolume", "inVolume", "spdifTx", "spdifRx", "adatTx", "adatRx"}
Formats == 1..3                       \* alternates of a streaming interface

Largest(S) == CHOOSE x \in S : \A y \in S : y <= x
When(enabled, items) == IF enabled THEN items ELSE <<>>
-----------------------------------------------------------------------------
\* ADAT: the channels of one optical link, fewer at higher rates
ADAT_MAX_CHANS(b) == IF b.minF < 88200 THEN 8 ELSE IF b.minF < 176400 THEN 4 ELSE 2

\* A stream with ADAT has an alternate for each number of channels the link can carry.
AdatLess(b) ==
  IF b.maxF > 96000 THEN IF b.minF > 96000 THEN <<0>> ELSE IF b.minF > 48000 THEN <<0, 2>> ELSE <<0, 4, 6>>
  ELSE IF b.maxF > 48000 /\ b.minF <= 48000 THEN <<0, 4>> ELSE <<0>>

INPUT_FORMAT_COUNT(b) == IF "adatRx" \in b.has THEN Len(AdatLess(b)) ELSE 1
InChansHS(b) == IF "adatRx" \in b.has THEN [i \in 1..Len(AdatLess(b)) |-> b.in - AdatLess(b)[i]]
                ELSE <<b.in>>

\* Without ADAT there is a 24 bit and a 16 bit alternate, and one for native DSD.
OUTPUT_FORMAT_COUNT(b) ==
  IF "adatTx" \in b.has THEN Len(AdatLess(b)) ELSE IF "dsd" \in b.has THEN 3 ELSE 2
OutChansHS(b) == IF "adatTx" \in b.has THEN [i \in 1..Len(AdatLess(b)) |-> b.out - AdatLess(b)[i]]
                 ELSE [i \in 1..OUTPUT_FORMAT_COUNT(b) |-> b.out]
NATIVE_DSD_FORMAT_NUM(b) == IF "dsd" \in b.has THEN OUTPUT_FORMAT_COUNT(b) ELSE 0

\* The resolutions of three formats are defined, whatever the number of alternates.
OutRes(b) ==
  [i \in Formats |-> IF "adatTx" \in b.has THEN 24
                     ELSE IF i = NATIVE_DSD_FORMAT_NUM(b) THEN 32 ELSE <<24, 16, 32>>[i]]
OutData(b) == [i \in Formats |-> IF i = NATIVE_DSD_FORMAT_NUM(b) THEN "raw" ELSE "pcm"]
InRes(b) == [i \in Formats |-> b.inRes[i]]

SlotHS(bits) == IF bits = 24 THEN 4 ELSE bits \div 8
SlotFS(bits) == bits \div 8
OutSlotHS(b) == [i \in Formats |-> SlotHS(OutRes(b)[i])]
OutSlotFS(b) == [i \in Formats |-> SlotFS(OutRes(b)[i])]
InSlotHS(b)  == [i \in Formats |-> SlotHS(InRes(b)[i])]
InSlotFS(b)  == [i \in Formats |-> SlotFS(InRes(b)[i])]
-----------------------------------------------------------------------------
\* The subslot sizes decouple has code for: three formats of output, the first of input
OutSlotsUsed(b) == {OutSlotHS(b)[i] : i \in Formats} \union {OutSlotFS(b)[i] : i \in Formats}
InSlotsUsed(b)  == {InSlotHS(b)[1], InSlotFS(b)[1]}

\* Full speed: at most two channels, and lower rates
OutChansFS(b) == IF b.out > 2 THEN 2 ELSE b.out
InChansFS(b)  == IF b.in > 2 THEN 2 ELSE b.in
MAX_FREQ_FS(b) ==
  LET limit == IF b.out > 0 /\ b.in > 0 THEN 48000 ELSE 96000 IN
  IF b.maxF > limit THEN limit ELSE b.maxF

NUM_CLOCKS(b) == 1 + Cardinality({"spdifRx", "adatRx"} \intersect b.has)
MAX_MIX_COUNT(b) == IF "mixer" \in b.has THEN 8 ELSE 0

\* The defines the preprocessor and the compiler refuse
RatesValid(b) == b.minF <= b.maxF
AdatFits(b) ==
  /\ "adatTx" \in b.has => b.at["adatTx"] + ADAT_MAX_CHANS(b) <= b.out
  /\ "adatRx" \in b.has => b.at["adatRx"] + ADAT_MAX_CHANS(b) <= b.in
DsdValid(b) == "dsd" \in b.has => OUTPUT_FORMAT_COUNT(b) # 1
SyncValid(b) == b.sync = "sync" => {"spdifRx", "adatRx"} \intersect b.has = {}
\* hidDescriptor does not compile where the build has both audio classes.
HidCompiles(b) == "hid" \in b.has => ~(b.hs = 2 /\ b.fs = 1)
Valid(b) == b.has \subseteq Options /\ RatesValid(b) /\ AdatFits(b) /\ DsdValid(b) /\ SyncValid(b) /\ HidCompiles(b)
-----------------------------------------------------------------------------
\* The endpoints in the order of their numbers, endpoint 0 left out
FeedbackEp(b) == b.out > 0 /\ (b.in = 0 \/ "feedback" \in b.has)
EndpointsIn(b) ==
     When(FeedbackEp(b), <<"feedback">>) \o When(b.in > 0, <<"audio">>)
  \o When(NUM_CLOCKS(b) > 1, <<"interrupt">>) \o When("midi" \in b.has, <<"midi">>)
  \o When("hid" \in b.has, <<"hid">>)
EndpointsOut(b) ==
     When(b.out > 0, <<"audio">>) \o When("midi" \in b.has, <<"midi">>)
  \o When({"hid", "hidOut"} \subseteq b.has, <<"hid">>)

NumberIn(s, x) == CHOOSE i \in 1..Len(s) : s[i] = x
ENDPOINT_IN(b, name)  == <<"in", NumberIn(EndpointsIn(b), name)>>
ENDPOINT_OUT(b, name) == <<"out", NumberIn(EndpointsOut(b), name)>>

\* enum USBInterfaceNumber
Audio(b) == b.in > 0 \/ b.out > 0
Interfaces(b) ==
     When(Audio(b), <<"audioControl">>) \o When(b.out > 0, <<"audioOut">>) \o When(b.in > 0, <<"audioIn">>)
  \o When("midi" \in b.has, <<"midiControl", "midiStream">>) \o When("control" \in b.has, <<"control">>)
  \o When("dfu" \in b.has, <<"dfu">>) \o When("hid" \in b.has, <<"hid">>)
INTERFACE_NUMBER(b, name) == NumberIn(Interfaces(b), name) - 1
CountBoth(b) == IF Audio(b) THEN 3 ELSE 0    \* mutant of AUDIO_INTERFACE_COUNT: one direction counts as two
AUDIO_INTERFACE_COUNT(b) ==
  IF b.in > 0 /\ b.out > 0 THEN 3 ELSE IF Audio(b) THEN 2 ELSE 0
-----------------------------------------------------------------------------
\* packet_sizes.h
SamplesHS(b) == (b.maxF + 7999) \div 8000 + 1
SamplesFS(b) == (MAX_FREQ_FS(b) + 999) \div 1000 + 1

\* The output formats are sized by the channels of the device, not of the format.
OutPacketHS(b) == [i \in Formats |-> SamplesHS(b) * b.out * OutSlotHS(b)[i]]
InPacketHS(b)  ==
  [i \in Formats |->
     SamplesHS(b) * (IF i <= INPUT_FORMAT_COUNT(b) THEN InChansHS(b)[i] ELSE b.in) * InSlotHS(b)[i]]
OutPacketFS(b) == [i \in Formats |-> SamplesFS(b) * OutChansFS(b) * OutSlotFS(b)[i]]
InPacketFS(b)  == SamplesFS(b) * InChansFS(b) * InSlotFS(b)[1]

\* wMaxPacketSize at high speed, without high bandwidth endpoints
EpSizeHS(bytes) == IF bytes > 1024 THEN 1024 ELSE bytes
=============================================================================
