----------------------------- MODULE Endpoint0 -----------------------------
(***************************************************************************)
(* XUA_Endpoint0_loop: the requests of the host and the bus events, over   *)
(* every build of a set, and what the host has read of the device by then. *)
(* The audio side of SET_INTERFACE and of the DFU class is in module       *)
(* StreamControl, the DFU requests themselves are in module Dfu.           *)
(***************************************************************************)
EXTENDS MsOs, FiniteSetsExt

CONSTANT Builds       \* the builds under test

ASSUME BuildsAssumption == \A b \in Builds : Valid(b) /\ MixerFits(b)

VARIABLES
  build,              \* the build that runs
  speed,              \* g_curUsbSpeed
  bus,                \* "running" or "suspended"
  config,             \* g_currentConfig
  dfuMode,            \* DFU_mode_active
  stopped,            \* notify_audio_stop_for_DFU
  alt,                \* g_curStreamAlt_Out and _In
  told,               \* the format decouple was last told, NotStreaming after a stop
  active,             \* the last call of UserHostActive
  desc,               \* the items of cfgDesc_Audio2, which are modified in place
  read                \* the configuration descriptor the host has read

vars == <<build, speed, bus, config, dfuMode, stopped, alt, told, active, desc, read>>

Paths == {"out", "in"}
NotStreaming == [data |-> "none", chans |-> 0, slot |-> 0, bits |-> 0]
NotRead == [bNumInterfaces |-> 0, items |-> <<>>]

\* A build with a high speed class runs at either speed.
Speeds(b) == IF b.hs = 2 THEN {"hs", "fs"} ELSE {"fs"}

\* At a speed with UAC1 descriptors: full speed, where the build has them.
Uac1(b, s) == b.fs = 1 /\ s = "fs"

FormatCount(b, path) == IF path = "out" THEN OUTPUT_FORMAT_COUNT(b) ELSE INPUT_FORMAT_COUNT(b)
PathsOf(b) == (IF b.out > 0 THEN {"out"} ELSE {}) \union (IF b.in > 0 THEN {"in"} ELSE {})
-----------------------------------------------------------------------------
\* The format arrays: what Endpoint0 tells decouple of alternate n.  The second
\* and third resolution of input are those of the output.
SampResInHS(b, n) == IF n = 1 THEN InRes(b)[1] ELSE OutRes(b)[n]

\* Mutant of FormatTold: the subslot and the resolution swapped.
FormatToldSwapped(b, s, path, n) ==
  [data |-> "pcm", chans |-> IF s = "hs" THEN b.out ELSE OutChansFS(b), slot |-> OutRes(b)[n], bits |-> OutSlotHS(b)[n]]
FormatTold(b, s, path, n) ==
  IF path = "out" THEN
    IF s = "hs" THEN [data |-> OutData(b)[n], chans |-> OutChansHS(b)[n], slot |-> OutSlotHS(b)[n], bits |-> OutRes(b)[n]]
    ELSE [data |-> OutData(b)[n], chans |-> OutChansFS(b), slot |-> OutSlotFS(b)[n], bits |-> OutRes(b)[n]]
  ELSE
    IF s = "hs" THEN [data |-> "pcm", chans |-> InChansHS(b)[n], slot |-> InSlotHS(b)[n], bits |-> SampResInHS(b, n)]
    ELSE [data |-> "pcm", chans |-> InChansFS(b), slot |-> InSlotFS(b)[n], bits |-> InRes(b)[n]]
-----------------------------------------------------------------------------
(***************************************************************************)
(* A build without UAC1 has one descriptor for both speeds.  Every request *)
(* that reaches the standard requests first modifies it for the speed the  *)
(* bus runs at; of the input alternates only the first is modified.        *)
(***************************************************************************)
MungedHS(b, x) ==
  CASE x.kind = "entity" /\ x.id = ID_IT_USB -> [x EXCEPT !.chans = b.out]
    [] x.kind = "entity" /\ x.id = ID_IT_AUD -> [x EXCEPT !.chans = b.in]
    [] x.kind = "stream" /\ x.of[1] = "out"  -> [x EXCEPT !.chans = OutChansHS(b)[x.of[2]]]
    [] x.kind = "stream" /\ x.of = <<"in", 1>> -> [x EXCEPT !.chans = b.in]
    [] x.kind = "format" /\ x.of[1] = "out"  -> [x EXCEPT !.slot = OutSlotHS(b)[x.of[2]], !.bits = OutRes(b)[x.of[2]]]
    [] x.kind = "format" /\ x.of = <<"in", 1>> -> [x EXCEPT !.slot = InSlotHS(b)[1], !.bits = InRes(b)[1]]
    [] x.kind = "endpoint" /\ x.use = "feedback" -> [x EXCEPT !.size = FeedbackSize("hs")]
    [] x.kind = "endpoint" /\ x.of[1] = "out" /\ x.use # "feedback" ->
         [x EXCEPT !.size = EpSizeHS(OutPacketHS(b)[x.of[2]])]
    [] x.kind = "endpoint" /\ x.of = <<"in", 1>> -> [x EXCEPT !.size = EpSizeHS(InPacketHS(b)[1])]
    [] x.kind = "endpoint" /\ x.use = "bulk" -> [x EXCEPT !.size = 512]
    [] OTHER -> x

MungedFS(b, x) ==
  CASE x.kind = "entity" /\ x.id = ID_IT_USB -> [x EXCEPT !.chans = OutChansFS(b)]
    [] x.kind = "entity" /\ x.id = ID_IT_AUD -> [x EXCEPT !.chans = InChansFS(b)]
    [] x.kind = "stream" /\ x.of[1] = "out"  -> [x EXCEPT !.chans = OutChansFS(b)]
    [] x.kind = "stream" /\ x.of = <<"in", 1>> -> [x EXCEPT !.chans = InChansFS(b)]
    [] x.kind = "format" /\ x.of[1] = "out"  -> [x EXCEPT !.slot = OutSlotFS(b)[x.of[2]], !.bits = OutRes(b)[x.of[2]]]
    [] x.kind = "format" /\ x.of = <<"in", 1>> -> [x EXCEPT !.slot = InSlotFS(b)[1], !.bits = InRes(b)[1]]
    [] x.kind = "endpoint" /\ x.use = "feedback" -> [x EXCEPT !.size = FeedbackSize("fs")]
    [] x.kind = "endpoint" /\ x.of[1] = "out" /\ x.use # "feedback" -> [x EXCEPT !.size = OutPacketFS(b)[x.of[2]]]
    [] x.kind = "endpoint" /\ x.of = <<"in", 1>> -> [x EXCEPT !.size = InPacketFS(b)]
    [] x.kind = "endpoint" /\ x.use = "bulk" -> [x EXCEPT !.size = 64]
    [] OTHER -> x

\* Mutant of Munged: what full speed modified is not set back at high speed.
MungedOnce(b, s, items) ==
  IF (b.hs = 2 /\ b.fs = 1) \/ ~Class2(b) \/ s = "hs" THEN items
  ELSE [i \in 1..Len(items) |-> MungedFS(b, items[i])]
\* A build with UAC1 at full speed has a descriptor for each speed and modifies none.
Munged(b, s, items) ==
  IF (b.hs = 2 /\ b.fs = 1) \/ ~Class2(b) THEN items
  ELSE [i \in 1..Len(items) |-> IF s = "hs" THEN MungedHS(b, items[i]) ELSE MungedFS(b, items[i])]

\* DFUcfgDesc: the one interface of DFU mode
DfuCfgDesc(b) ==
  [bNumInterfaces |-> 1,
   items |-> <<[kind |-> "interface", num |-> 0, name |-> "dfu", alt |-> 0, eps |-> 0, string |-> StringIndex(b, "dfu")]>>]

\* USB_StandardRequests (external) serves the descriptors it is given.
ConfigurationDescriptor ==
  IF dfuMode THEN DfuCfgDesc(build)
  ELSE IF Uac1(build, speed) THEN CfgDesc1(build)
  ELSE [bNumInterfaces |-> Len(Interfaces(build)), items |-> Munged(build, speed, desc)]
StandardRequest == desc' = IF dfuMode THEN desc ELSE Munged(build, speed, desc)
-----------------------------------------------------------------------------
(***************************************************************************)
(* XUA_Endpoint0_init, and a reboot that DFU asked for: the descriptor is  *)
(* the one of the image again.                                             *)
(***************************************************************************)
InitialAlt == [p \in Paths |-> 0]
InitialItems(b) == IF Class2(b) THEN CfgDesc2(b).items ELSE <<>>

Init ==
  /\ build \in Builds
  /\ speed \in Speeds(build)
  /\ bus = "running" /\ config = 0
  /\ dfuMode = FALSE /\ stopped = FALSE
  /\ alt = InitialAlt /\ told = [p \in Paths |-> NotStreaming]
  /\ active = FALSE
  /\ desc = InitialItems(build)
  /\ read = NotRead

Reboot(intoDfu) ==
  /\ dfuMode' = intoDfu /\ stopped' = FALSE
  /\ bus' = "running" /\ config' = 0
  /\ alt' = InitialAlt /\ told' = [p \in Paths |-> NotStreaming]
  /\ active' = FALSE
  /\ desc' = InitialItems(build)
  /\ read' = NotRead
-----------------------------------------------------------------------------
\* The alternates the host has read of an interface, and its number
Alternates(name) ==
  {read.items[i].alt : i \in {j \in 1..Len(read.items) :
                                read.items[j].kind = "interface" /\ read.items[j].name = name}}
HostKnows(name) == Alternates(name) # {}
NumberRead(name) ==
  read.items[CHOOSE j \in 1..Len(read.items) :
               read.items[j].kind = "interface" /\ read.items[j].name = name].num

ReadConfiguration ==
  /\ bus = "running"
  /\ read' = ConfigurationDescriptor /\ StandardRequest
  /\ UNCHANGED <<build, speed, bus, config, dfuMode, stopped, alt, told, active>>

\* SET_CONFIGURATION: UserHostActive is told of the first configuration only.
SetConfiguration(c) ==
  /\ bus = "running" /\ read # NotRead
  /\ active' = (active \/ (config = 0 /\ c = 1))
  /\ config' = c /\ StandardRequest
  /\ UNCHANGED <<build, speed, bus, dfuMode, stopped, alt, told, read>>

\* SET_INTERFACE of a streaming interface: decouple is told of a change only.
\* The request is then left to the standard requests.
SetInterface(path, n) ==
  LET changes == n <= FormatCount(build, path) /\ alt[path] # n IN
  /\ bus = "running" /\ config = 1
  /\ n \in Alternates(IF path = "out" THEN "audioOut" ELSE "audioIn")
  /\ alt' = IF changes THEN [alt EXCEPT ![path] = n] ELSE alt
  /\ told' = IF changes THEN [told EXCEPT ![path] = IF n = 0 THEN NotStreaming ELSE FormatTold(build, speed, path, n)]
             ELSE told
  /\ StandardRequest
  /\ UNCHANGED <<build, speed, bus, config, dfuMode, stopped, active, read>>
-----------------------------------------------------------------------------
(***************************************************************************)
(* Class requests to an interface.  The DFU and the HID handler run on the *)
(* number of their interface; outside DFU mode the audio handler then runs *)
(* on interfaces 0, 1 and 2 and its result replaces theirs, an error for a *)
(* request that is not its own: that request falls through to the standard *)
(* requests, which refuse it.                                              *)
(***************************************************************************)
DfuInterfaceNumber(b, inDfu) == IF inDfu THEN 0 ELSE INTERFACE_NUMBER(b, "dfu")

\* Mutant of HandlersOf: the interface number of DFU mode is not used.
HandlersAppOnly(b, inDfu, num) ==
     When("dfu" \in b.has /\ num = INTERFACE_NUMBER(b, "dfu"), <<"dfu">>)
  \o When("hid" \in b.has /\ num = INTERFACE_NUMBER(b, "hid"), <<"hid">>)
  \o When(num \in 0..2 /\ ~inDfu, <<"audio">>)
HandlersOf(b, inDfu, num) ==
     When("dfu" \in b.has /\ num = DfuInterfaceNumber(b, inDfu), <<"dfu">>)
  \o When("hid" \in b.has /\ num = INTERFACE_NUMBER(b, "hid"), <<"hid">>)
  \o When(num \in 0..2 /\ ~inDfu, <<"audio">>)

ClassInterfaces == {"audioControl", "audioOut", "audioIn", "dfu", "hid"}
Handler(name) == IF name \in {"dfu", "hid"} THEN name ELSE "audio"

Runs(b, inDfu, name) ==
  LET ran == HandlersOf(b, inDfu, NumberRead(name)) IN \E i \in 1..Len(ran) : ran[i] = Handler(name)

\* The handler whose result stands is the last that ran.
Result(b, inDfu, name) ==
  LET ran == HandlersOf(b, inDfu, NumberRead(name)) IN
  IF ran = <<>> \/ ran[Len(ran)] # Handler(name) THEN "refused" ELSE Handler(name)

\* A DFU request outside DFU mode stops audio first, once; it may end in a reboot.
ClassRequest(name, reboot) ==
  /\ bus = "running" /\ HostKnows(name)
  /\ reboot # "no" => name = "dfu"
  /\ IF reboot # "no" /\ Runs(build, dfuMode, name)
     THEN Reboot(reboot = "dfu") /\ UNCHANGED <<build, speed>>
     ELSE /\ stopped' = (stopped \/ (name = "dfu" /\ ~dfuMode))
          /\ IF Result(build, dfuMode, name) = "refused" THEN StandardRequest ELSE UNCHANGED desc
          /\ UNCHANGED <<build, speed, bus, config, dfuMode, alt, told, active, read>>
-----------------------------------------------------------------------------
(***************************************************************************)
(* Bus events.  A reset clears the alternates without a word to decouple;  *)
(* DFUReportResetState (module Dfu) says whether DFU mode goes on.  Where  *)
(* it does not, a device in DFU mode reboots.                              *)
(***************************************************************************)
BusReset(s, stays) ==
  /\ stays => "dfu" \in build.has /\ (dfuMode \/ stopped)
  /\ speed' = s /\ UNCHANGED build
  /\ IF dfuMode /\ ~stays THEN Reboot(FALSE)
     ELSE /\ bus' = "running" /\ config' = 0
          /\ dfuMode' = (dfuMode \/ stays)
          /\ alt' = InitialAlt
          /\ active' = (active /\ config = 0)
          /\ read' = NotRead
          /\ UNCHANGED <<stopped, told, desc>>

Suspend ==
  /\ bus = "running" /\ bus' = "suspended"
  /\ told' = [p \in Paths |-> NotStreaming]
  /\ active' = (active /\ config = 0)
  /\ UNCHANGED <<build, speed, config, dfuMode, stopped, alt, desc, read>>

\* Mutant of Resume: the user is not told that the host is back.
ResumeQuiet ==
  /\ bus = "suspended" /\ bus' = "running"
  /\ active' = active
  /\ UNCHANGED <<build, speed, config, dfuMode, stopped, alt, told, desc, read>>
Resume ==
  /\ bus = "suspended" /\ bus' = "running"
  /\ active' = (active \/ config = 1)
  /\ UNCHANGED <<build, speed, config, dfuMode, stopped, alt, told, desc, read>>

Next ==
  \/ ReadConfiguration
  \/ \E c \in {0, 1} : SetConfiguration(c)
  \/ \E path \in Paths, n \in 0..3 : SetInterface(path, n)
  \/ \E name \in ClassInterfaces, reboot \in {"no", "dfu", "app"} :
       ClassRequest(name, reboot)
  \/ \E s \in Speeds(build), stays \in BOOLEAN : BusReset(s, stays)
  \/ Suspend \/ Resume

Spec == Init /\ [][Next]_vars
-----------------------------------------------------------------------------
(***************************************************************************)
(* Properties                                                              *)
(***************************************************************************)
ItemsOf(kind) == SelectSeq(read.items, LAMBDA x : x.kind = kind)

\* Interfaces: the numbers are those from 0 to bNumInterfaces - 1, a number
\* belongs to one interface, whose alternates count up from 0, an alternate
\* is followed by as many endpoints as it announces, and the association of
\* the audio function covers its interfaces (the interface and endpoint
\* enumerations against the conditions in the descriptors).
InterfacesDescribed ==
  LET I == ItemsOf("interface")
      N == 1..Len(I)
      At == {i \in 1..Len(read.items) : read.items[i].kind = "interface"}
      EndpointsAfter(i) == {j \in i..Len(read.items) : /\ read.items[j].kind = "endpoint"
                                                       /\ \A k \in i + 1..j : k \notin At}
  IN  /\ {I[i].num : i \in N} = 0..(read.bNumInterfaces - 1) \/ read = NotRead
      /\ \A i, j \in N : I[i].num = I[j].num <=> I[i].name = I[j].name
      /\ \A i \in N : I[i].alt = Cardinality({j \in 1..(i - 1) : I[j].name = I[i].name})
      /\ \A i \in At : Cardinality(EndpointsAfter(i)) = read.items[i].eps
      /\ \A i \in 1..Len(ItemsOf("association")) :
           {I[j].num : j \in {k \in N : I[k].name \in {"audioControl", "audioOut", "audioIn"}}}
             = ItemsOf("association")[i].first..(ItemsOf("association")[i].first
                                                 + ItemsOf("association")[i].count - 1)

\* Entities: an id is used once, every source of an entity is one that the
\* host has read too, a stream is linked to a terminal of its direction, an
\* endpoint address has one use, and jacks are wired to jacks.
EntitiesLinked ==
  LET E == ItemsOf("entity")  S == ItemsOf("stream")  J == ItemsOf("jack")  P == ItemsOf("endpoint")
      IdsOf(Q) == {Q[i].id : i \in 1..Len(Q)}
      Wired(Q) == /\ Cardinality(IdsOf(Q)) = Len(Q)
                  /\ \A i \in 1..Len(Q) : \A j \in 1..Len(Q[i].sources) : Q[i].sources[j] \in IdsOf(Q)
  IN  /\ Wired(E) /\ Wired(J)
      /\ \A i \in 1..Len(S) : \E j \in 1..Len(E) :
           E[j].id = S[i].link /\ E[j].type = IF S[i].of[1] = "out" THEN "input" ELSE "output"
      /\ \A i, j \in 1..Len(P) : P[i].addr = P[j].addr => P[i].use = P[j].use /\ P[i].of[1] = P[j].of[1]

\* UAC1 lengths: the descriptors add up to the length announced, those of the
\* control interface to AC_TOTAL_LENGTH, Endpoint0 writes the length of the
\* report descriptor into the HID descriptor and nowhere else, and as many
\* rates are listed as are announced.
LengthsAddUp ==
  LET Len1(m, n) == MapThenSumSet(LAMBDA i : read.items[i].len, m..n)
      last1 == Len(read.items)
      streaming == {i \in 1..last1 : read.items[i].kind = "interface" /\ read.items[i].name # "audioControl"}
      first == CHOOSE i \in streaming : \A j \in streaming : i <= j
  IN  (read # NotRead /\ ~dfuMode /\ Uac1(build, speed)) =>
        /\ Len1(1, last1) = read.total
        /\ Audio(build) => Len1(3, first - 1) = AC_TOTAL_LENGTH(build)
        /\ \A i \in 1..last1 :
             /\ read.items[i].kind = "hid" => Len1(1, i - 1) = USB_HID_DESCRIPTOR_OFFSET(build)
             /\ read.items[i].kind = "format" => read.items[i].announced = Len(read.items[i].rates)

\* The records of a kind that belong to an alternate, the feedback endpoint left out
RecordsOf(kind, of) ==
  {i \in 1..Len(read.items) : /\ read.items[i].kind = kind
                              /\ kind = "endpoint" => read.items[i].use # "feedback"
                              /\ read.items[i].of = of}
Streaming(path) == alt[path] > 0 /\ told[path] # NotStreaming

\* Streams: what decouple was told of a stream is what the host has read of the
\* alternate it selected, at the speed the bus runs at, and has a subslot that
\* decouple has code for.
StreamAsDescribed ==
  \A path \in PathsOf(build) : Streaming(path) =>
    LET S == RecordsOf("stream", <<path, alt[path]>>)
        F == RecordsOf("format", <<path, alt[path]>>)
    IN  /\ Cardinality(S) = 1 /\ Cardinality(F) = 1
        /\ \A s \in S, f \in F :
             told[path] = [data |-> read.items[s].data, chans |-> read.items[s].chans,
                           slot |-> read.items[f].slot, bits |-> read.items[f].bits]
        /\ told[path].slot \in IF path = "out" THEN OutSlotsUsed(build) ELSE InSlotsUsed(build)

\* Packets: at the highest rate, and with the one sample more that a rate
\* mismatch needs, the packet of a selected stream fits the endpoint's size
\* as the host has read it.
Samples(b, s) == IF s = "hs" THEN SamplesHS(b) ELSE SamplesFS(b)
PacketsFit ==
  \A path \in PathsOf(build) : Streaming(path) =>
    LET P == RecordsOf("endpoint", <<path, alt[path]>>) IN
    /\ Cardinality(P) = 1
    /\ \A e \in P : Samples(build, speed) * told[path].chans * told[path].slot <= read.items[e].size

\* What decouple does with a stream is what the host was told of it.
StreamsCarried == StreamAsDescribed /\ PacketsFit

\* Dispatch: a class request is answered by the handler of the interface that
\* the host sent it to, whatever number that has in the build or in DFU mode.
RequestsDispatched ==
  \A name \in ClassInterfaces : HostKnows(name) => Result(build, dfuMode, name) = Handler(name)

\* Strings: an index names the string that the record it stands in is about, and
\* the name of a channel every connector of the device, and no other, once.
NamedOnce(Str(_, _), n, connectors) ==
  /\ \A i \in 1..n : Str(build, i) \subseteq connectors
  /\ \A c \in connectors : Cardinality({i \in 1..n : c \in Str(build, i)}) = 1
Connectors(analogue, spdif, adat) ==
       ({"analogue"} \X (1..analogue))
  \union (IF spdif \in build.has THEN {"spdif"} \X (1..2) ELSE {})
  \union (IF adat \in build.has THEN {"adat"} \X (1..ADAT_MAX_CHANS(build)) ELSE {})
Named(kind) ==
  CASE kind = "audioOut" -> {"outputInterface1", "outputInterface2"}
    [] kind = "audioIn" -> {"inputInterface1", "inputInterface2"}
    [] kind = "audioControl" -> {"product1", "product2"}
    [] kind = "dfu" -> {"dfu"}
    [] OTHER -> {"control"}
StringsMeant ==
  LET I == ItemsOf("interface")  S == ItemsOf("stream") IN
  /\ \A i \in 1..Len(I) : I[i].string > 0 => StringTable(build)[I[i].string + 1][1] \in Named(I[i].name)
  /\ \A i \in 1..Len(S) : StringTable(build)[S[i].string + 1]
                            = <<IF S[i].of[1] = "out" THEN "outputChan" ELSE "inputChan", 1>>
  /\ build.out >= build.dac => NamedOnce(OutputChanStr, build.out, Connectors(build.dac, "spdifTx", "adatTx"))
  /\ build.in >= build.adc => NamedOnce(InputChanStr, build.in, Connectors(build.adc, "spdifRx", "adatRx"))

\* The configuration the host reads describes the device: its interfaces, its
\* entities and their strings.
ConfigurationDescribed == InterfacesDescribed /\ EntitiesLinked /\ StringsMeant

\* Drivers: the interfaces that Windows is told to bind WinUSB to are those of
\* the configuration the host has read, in DFU mode too; the BOS descriptor
\* announces the length of the set that is then read, and a device of many
\* functions says so in its device descriptor.
DriversBound ==
  LET uac1 == Uac1(build, speed) /\ ~dfuMode
      set  == MsOsDescriptor(build, dfuMode)
      associated == \E i \in 1..Len(read.items) : read.items[i].kind = "association"
  IN  read # NotRead =>
        /\ (DeviceDescriptor(build, uac1, dfuMode).class = "association") <=> associated
        /\ _XUA_ENABLE_BOS_DESC(build) =>
             /\ set.simple <=> read.bNumInterfaces = 1
             /\ \A f \in set.functions : HostKnows(f.guid) /\ NumberRead(f.guid) = f.first
             /\ BosDescriptor(build, dfuMode).length = set.length

\* The user is told of an active host while the device is configured and not
\* suspended, whatever order resets, suspends and resumes come in.
HostActiveTold == config = 1 /\ bus = "running" => active
=============================================================================
