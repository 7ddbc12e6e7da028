# A TLA+ model of lib_xua

lib_xua is the XMOS USB Audio library: the part of a USB Audio device between the
USB device stack (XUD) and the audio hardware. It runs on an xcore, as a handful
of cores (hardware threads) that share memory on a tile and talk over channels;
one interrupt handler shares a core with the task it interrupts. This directory
models the parts of it where the order of events of several actors, or the
agreement of several tables, decides whether the device works. The models are
checked with TLC on small instances, and the protocol invariants of the control
path, of the mixer, of the MIDI tasks and of the playback FIFO are proved with
TLAPS for every instance.

## The system

| part | state it keeps | operations |
|---|---|---|
| Endpoint0 (`core/endpoint0/`) | alternate settings, sample rate, DFU notice, host activity, copies of the mixer's tables, descriptors edited in place | SET_INTERFACE, class requests of UAC1/UAC2, DFU, HID and MS OS requests, bus reset, suspend, resume |
| XUA_Buffer_Ep (`core/buffer/ep/`) | feedback accumulator, endpoint buffers, MIDI packets, interrupt flag, HID report in hand | commands of Endpoint0, start of frame, completion of each endpoint, words of the MIDI task |
| XUA_Buffer_Decouple (`core/buffer/decouple/`) | the two audio FIFOs, stream-active flags, formats, DSD mode | main loop: rate change, stream start and stop, packet received, packet sent, overflow; interrupt: one sample frame |
| XUA_AudioHub (`core/audiohub/`) | sample rate, DSD mode, running or idle, command in hand | sample loop, restart, idle loop (`dummy_deliver`), DFU loop, DoP detection |
| Mixer (`core/mixer/`) | routing, selectors and multipliers of mixer1 and mixer2, samples of a frame | sample transfer, control words, passing on of commands |
| DFU (`dfu/`) | DFU state and status, image under construction, flash pages | DFU class requests, flash commands |
| HID (`hid/`) | report descriptor, idle periods, report times, pending changes | SET_IDLE, edits of the descriptor, preparation and completion of a report |
| MIDI (`midi/`) | parser state, queue of events to the host, queue of bytes to the UART, acknowledges owed | a byte received, a byte to transmit, an event or an acknowledge of XUA_Buffer_Ep |
| Clockgen, software PLL (`core/clocking/`) | selected clock, validity, digital receive FIFO | clock edges, get and set requests, validity timer |
| xmosdfu, xmos_mixer (`host`) | what they have read of the device | the options on their command lines |

How they interact:

```
Endpoint0 --command, arguments--> XUA_Buffer_Ep                       c_aud_ctl
XUA_Buffer_Ep --globals, one flag slot--> decouple                    g_streamChange_xxx
decouple <--sample request / samples or command / END--> AudioHub     c_mix_out
decouple --END, in XUA_Buffer_Ep's name--> Endpoint0                  buffer_aud_ctl_chan
XUD --payload--> memory; XUA_Buffer_Ep --length, flag--> decouple     outAudioBuff
decouple interrupt --frames--> audioBuffIn; decouple --armed buffer--> XUD
Endpoint0 --control words--> mixer1 <--END--> mixer2                  c_mix_ctl, c
usb_midi <--events, words, acknowledges--> XUA_Buffer_Ep              c_midi
application, Endpoint0, XUA_Buffer_Ep --arrays under a lock--> HID    hid_report.c
xmosdfu, xmos_mixer --control transfers--> Endpoint0
```

What is hard here: three cores and an interrupt hand one command along and the
answer comes back from the last one; a channel end traps on a token of the wrong
kind, and blocks when it is full; the FIFO pointers are written by the interrupt
and by the main loop and read by both; an upgrade can be cut off between any two
transfers; the descriptors say things a second time that the code says elsewhere;
the host may stop, suspend, reset or run ahead at any moment. None of it can be
provoked reliably by a test on hardware. `PROJECT.json` lists the hazards one by
one, at their lines.

What makes each part correct, in a sentence:

* control path: every request is answered, once, when what it asked for is in
  force, and no channel end sees a token of the wrong kind;
* playback FIFO: a packet that was accepted is played whole and in order, and
  nothing is written over it or past the buffer;
* record FIFO: the host is sent whole packets, oldest first; under overflow whole
  packets are dropped; a stream gets out of underflow;
* DFU: the device starts the factory image or a whole image that was asked for,
  and a transfer called complete is complete;
* descriptors: what the device says of itself is consistent and is what it does,
  in every build and at both speeds;
* HID: the host sees every change, and no flood;
* mixer: what Endpoint0 answers is what is mixed, of the frame it is sent with;
* MIDI: messages reach the other side whole, once and in order, and neither task
  waits for the other for ever.

## The modules

| module | models |
|---|---|
| `StreamControl`, `MCStreamControl` | the control path Endpoint0 - XUA_Buffer_Ep - decouple - AudioHub, and its instance |
| `StreamControl_proofs` | theorems about it |
| `OutFifo`, `InFifo` | the playback and the record FIFO of decouple, with their interrupt and endpoints |
| `OutFifo_proofs`, `InFifo_proofs` | theorems about each |
| `Dfu` | the device's side of an upgrade: `dfu.xc`, `flash_interface.c` and the reboot |
| `DfuTool`, `MCDfu` | xmosdfu, its user and the faults, composed with `Dfu`; firmware files |
| `DfuTool_proofs` | what each request does to a device in order; theorems about the two together |
| `DfuImage` | the abstract specification that `DfuTool` is shown to implement |
| `Config` | build options, and the numbers the headers derive from them |
| `Descriptors`, `DescriptorsUac1` | the configuration descriptors of audio class 2 and 1, the string table |
| `MsOs` | the BOS, MS OS 2.0 and device descriptors |
| `Endpoint0`, `MCEndpoint0` | enumeration and requests over builds and what the host has read; the builds |
| `Endpoint0_proofs` | theorems about it, and the numbers in the descriptors |
| `HidDescriptor` | report descriptors, their translation and their validation |
| `Hid`, `MCHid` | application, XUA_Buffer_Ep, Endpoint0 and host around the reports; the descriptors |
| `Hid_proofs` | theorems about it |
| `Mixer` | mixer1, mixer2 and what Endpoint0 keeps of them |
| `Mixer_proofs` | theorems about it |
| `MixerTool`, `MCMixer` | xmos_mixer and another client, composed with `Mixer`; their requests |
| `MidiParse` | the two MIDI parsers |
| `Midi` | the MIDI task, the MIDI cases of XUA_Buffer_Ep, the channel, the host, an instrument |
| `Midi_proofs` | theorems about it |

### StreamControl

One action per step of one core. Endpoint0's handlers (`SetInterface`,
`SetSampleRate`, `DfuRequest`, `Suspend`, `Resume`, `BusReset`) end either idle or
in `chkct`, from which `Handshake` wakes it; a suspend has two commands to send,
one after the other. `BufferCommand` is the c_aud_ctl case of XUA_Buffer_Ep. The
main loop of decouple is `TakeSampleFreq`, `TakeStart`, `TakeStop`, then with
interrupts disabled `ForwardCommand`, `TakeEnd`, `AckEndpoint0`, `ClearOngoing`;
its interrupt is `ServeSamples`, which can only run when the main loop is in
`"poll"`. AudioHub is `RestartIdle` or `RestartRunning` (what is between two runs
of the sample loop), `RequestSamples`, `HubCommand` (`receive_command`,
`check_and_enter_dfu`), `DfuCommand` (`dummy_deliver` in DFU mode), `DopSwitch`.

The two directions of c_mix_out are `up` (a sequence of sample requests and ENDs)
and `down` (the command that answers a request). Samples are not modelled, nor is
what a format is beyond the alternate setting that selects it. Rates are model
values; `AUDIO_STOP_FOR_DFU` is a value that is none of them, as the code
overloads the same argument.

Left out: `XUA_EXIT`, which nothing in the library sends; the reboot out of DFU
mode after a bus reset (that one is in `Dfu`); the mixer core, which in a build
with it sits on c_mix_out between the two and passes commands on (`Mixer`). The
guard that DoP is looked for only at high rates is abstracted: `DopSwitch` may
happen at any rate, which allows more behaviours.

### OutFifo

Addresses are bytes from the start of the FIFO, as in the code, and `header` is
the memory that holds length words. XUD's write of a packet (`HostPacket`) and
XUA_Buffer_Ep's (`EpReceive`) are separate steps from decouple's three
(`TakePacket`, `Commit`, `ArmOrOverflow`), between which the interrupt
(`UnderflowFrame`, `PlayFrame`) may come; `loc` holds what the main loop has read.
The code's arithmetic is kept: the space up to the read pointer with its special
case, the two conditions of overflow, the skip over the rest of a packet, the
unpacking of three byte samples. The history variable `held` lists the packets
that were accepted and not played to the end; properties are about it, no action
reads it to decide anything. The model is of the build without high-bandwidth
endpoints. Sample values, volume and the DSD markers are left out. `MaxBacklog` is
how far the host may run ahead of what is played.

### InFifo

The same for the other direction: `StoreFrame` and `CommitPacket` are the
interrupt, `HostPoll` and `EpSent` the endpoint, the rest the main loop, which
looks first for a command and then for a packet sent (`pc`). The fill level, the
two pointers and the packet sizes are those of the code; `stored` holds the
packets in memory (their lengths are what the code reads from the FIFO, and the
code has no other record of them). Feedback values are in samples times `One`,
sampling rates in samples times `FrameTime` per USB frame, so that 44.1 kHz (5.5
samples) and 48 kHz (6) in microframes have small counterparts with the same
carry. `Paced` bounds the difference between AudioHub's packets and the host's
polls to `Lag` and `Lead`; `Prompt` says that decouple sees a notification before
the next packet is complete. Without them the host may stop for as long as it
likes. `EpSampleRate` sets the rate before the main loop has seen the change, as
XUA_Buffer_Ep does. Three byte subslots (`packState`) are excluded by an
assumption, and the arming with zeros of a UAC1 build before the first stream is
left out (a UAC2 device starts unarmed).

### Dfu, DfuTool, DfuImage

The device is one record, and each request handler of `dfu.xc` an operator from it
to the new record and what the host is told, as a control transfer is served
before the next one starts. It holds the state and status, the page buffer with
its two counters, the image under construction, and the two things that survive a
reboot: the upgrade slot of the flash, and the flag word that makes the next boot
enter DFU mode. An erase takes any number of further calls up to `MaxErase`. A
block is a member of `Data`, a page a function on the `SubPages` blocks of it, an
image a sequence of pages; `Images` are those whose checksum the boot loader
accepts.

`DfuTool` is `xmosdfu.cpp` step by step, and its user, who runs it up to `MaxRuns`
times with any option and file, right ids or wrong ones; up to `MaxFaults` times
the tool is killed, the power cycled, the bus reset or a stray request sent.
`DfuImage` says what that must amount to: the image the boot loader starts changes
only to the factory image, after the user asked for something, or from there to an
image the user asked for. `ImageSpec` instantiates it with `boot <-
Bootable(dev.slot)`.

### Config, Descriptors, DescriptorsUac1, MsOs, Endpoint0

A build is a record of the options of `xua_conf_default.h` that the descriptors
depend on. The operators of `Config` and `Descriptors` have the names of the
macros and enumerations they stand for; a configuration is a sequence of items
(interfaces, endpoints, entities, streams, formats, jacks), each with the numbers
that refer to others and a length where the code counts one. Bytes are not
modelled. `Endpoint0` picks one build, and then takes the host's requests and the
bus events in any order. `desc` is the one copy of the audio descriptors, which
the first request at the other speed edits in place; `read` is what the host has
read, which a later edit does not change.

### HidDescriptor, Hid

`HidDescriptor` is `hid_report.c` as operators: the lookup by report id, the items
and their translation, and `hidReportValidate`. Only descriptors that it accepts
are run; `MCHid` holds wrong ones too, so that a check that is missing would let
one in. `Pass` is what the validation has seen after each item; what the host
reads from the same items is in `Hid` (`InForce`, `Bits`), without reference to
it. By `ElementsAssumption` an application lists its configurable elements in the
order of their items, each once, as every `hid_report_descriptor.h` of the
repository does: the validation compares an item with the next element of the list
only (`hid_report.c` 777), and after one that is missing or out of order it
compares none. `Hid` has three tasks that share the arrays of `hid_report.c`: the
application, XUA_Buffer_Ep and Endpoint0; and the host. Every function there takes
`hidStaticVarLock` for itself and no caller holds it over two of them, so a step
is one time under the lock, together with reads of what only the same task writes:

* The application changes a button and says so (`hidSetChangePending`), resets and
  prepares the descriptor, and edits it. `hidSetReportItem` looks at the prepared
  flag without the lock (520) and stores the item under it later (559): it is two
  steps, the action of that name and `StoreItem`, with `editing` in between.
* Endpoint0 prepares the descriptor and measures it for `wDescriptorLength` when
  it starts (`BootPrepare`, `BootMeasure`; `boot`, `announced`), and then serves
  SET_IDLE, report by report for the wildcard, each in the four steps of
  HidUpdateReportPeriod: the flag (`HidSetIdle`), the time of the last report and
  the clock (`HidReadTime`), the next time computed from them (`HidSetNextTime`),
  the period (`HidSetPeriod`).
* XUA_Buffer_Ep waits until the descriptor is prepared, then looks at one report
  after the other: whether a change is pending, the idle flag, the period, the
  next time (`LookPending` to `LookTime`). A report the host has taken it closes
  in three calls (`HidReportTaken`, `hidCalcNextReportTime`,
  `hidClearChangePending`).

The model begins when hidReportInit is over, which Endpoint0 calls first: an
application that calls before it is not modelled. Times are kept relative to now,
modulo `W` for the 2^32 of the timer. `spoilt` and `age` are history: what has
come between the steps of two tasks, and the time since a report was sent.

### Mixer, MixerTool

`Mixer` has a program counter for each mixer core and the queue of control words
Endpoint0 still has to send (`todo`), of which mixer1 takes one per sample
request. `ep0` are the copies Endpoint0 answers from, `mixer` what the cores use;
`age` says of each mix whether it was made since the last exchange. A weight is
one of three, a request an arbitrary member of `Requests`. `MixerTool` is what
xmos_mixer does when it opens a device, walks over its units to name the channels,
fills its cache, sets and shows; another client may write at any time.
`view.names` is what the tool calls the inputs of the mixer (`input_names`), which
follows their sources; `ShownSource` is a line of its list of sources, whose name
is taken from there.

### MidiParse, Midi

`midi_in_parse` and `midi_out_parse` are operators on whole bytes: the state is
the record of the code with the buffer as a sequence. `Midi` composes them with
the task: a byte from the UART (`Receive`), the two halves of a byte to the UART
(`StartSymbol`, `EndSymbol`), an acknowledge (`MidiAck`) and a word of the host
(`MidiData`); the three MIDI cases of XUA_Buffer_Ep (`EpGiven`, `EpSent`, and
`EpAck` or `EpData`); the host; and an instrument that plays the messages of
`Statuses`, with running status, real-time bytes in between and messages cut short
by the next. `owed` holds the bytes played that no event has carried yet. The
queues and buffers do not look at what is in them, so events and words are
numbered there. Each end of the channel buffers eight tokens, and a send that does
not fit is a step that cannot be taken yet. Bytes with a bad stop bit are thrown
away by the task, and are not sent here.

## The runs

Every passing run goes through its whole state space; the states given are the
distinct states TLC finds. Deadlock is checked except where noted.

| run | question | bounds |
|---|---|---|
| `StreamControl_lowpower` | Does the control path of the low power build with DSD keep its protocols, apply a request before it answers it, and answer everything, under suspends and resets? (472 800 states) | 2 rates, 1 input and 2 output alternate settings |
| `OutFifo_paced` | Does a host that keeps the FIFO below `MaxBacklog` ever have a packet overwritten, misplaced or lost, and does an overflow end? (104 542) | one channel of 3 bytes, packets of 2 (below a frame), 4 and 11 bytes where 12 is the largest, 72 of 80 bytes of backlog |
| `InFifo_paced` | With up to two packets per poll, is the FIFO consistent, nothing dropped outside underflow, and a stream heard? (14 464) | packets of 2 or 3 samples, `Lead` 2 |
| `InFifo_stalls` | When the host stops, is late, or changes the rate, do the assertions hold and is no stored packet overwritten? (65 024) | 2 rates, 1 to 2 samples a packet |
| `Dfu` | Whatever is killed, cut off or run again, does the device start the factory image or a whole image that was asked for, is a complete transfer complete, and does the tool end? (406 455) | 2 blocks to a flash page, erases of up to 3 calls, 3 files, 3 runs, 2 faults |
| `Dfu_revert` (violation) | Does --revertfactory revert? | 2 runs, 1 fault |
| `Endpoint0` | In every build, is what the device says of itself consistent, and is it what it does? (24 487) | 8 applications, 3 ranges of rates, 3 pairs of audio classes |
| `Hid` | Is the report descriptor right, does the host see every change, and no flood? (685 121) | 7 descriptors with up to 2 reports, a clock of 5 units, periods of 0 to 2, 2 events |
| `Hid_lost` (violation) | Does a change stay pending until it is reported? | the same |
| `Mixer` | Does the mixer do what Endpoint0 says it does, with mixes of the frame they are sent with, and does the tool show it? (338 238) | 5 channels out and 3 in, 8 inputs, 8 mixes, 2 devices, 2 requests |
| `Mixer_levels` (violation) | Does a request for levels come back? | the same |
| `Midi` | Do messages arrive whole, once and in order in both directions, is no queue ever overrun, and do the tasks never wait for each other? (253 418) | notes, song selects and system exclusive messages, 4 events, 2 words, a transmit queue of 4 bytes, buffers of 2 words |

Why the bounds are enough.

* The control path has one request in flight (proved), so two rates, and two
  alternate settings of the interface that has two formats, give every difference
  a request can make; nothing else is unbounded. The build that never idles
  differs in the conditions on `LowPower`; the theorems cover both.
* The FIFOs are their real length in packets (five, `BUFFER_PACKET_COUNT`), with
  packets scaled down: what matters is where packets start relative to the end of
  the FIFO and to each other, and with lengths that are no divisor of it every
  relative position occurs. `MaxBacklog` is the largest at which the packets of
  the run are safe (see "Observed behaviour").
* A file of `Dfu` ends in the middle of a page, at the end of one, or before one
  block is full; an erase ends at once or goes on over polls; two faults are
  enough to cut off the recovery from the first, and three runs to recover from
  both.
* The builds of `Endpoint0` have every option that changes a number in the
  descriptors present and absent, next to different others. Its states are few per
  build, so it is the builds that make the run.
* The modulus of `Hid` is more than twice the longest period, as on the device,
  and the smallest such; two events are a change and a request, two requests, or a
  reset and an edit, in every order with the reports and with Endpoint0's start.
* The mixer has one input fewer than samples, eight mixes because the code's
  numbering of nodes has eight, and requests that touch the first, the last and a
  middle entry of each table, and two sources that make one input borrow the name
  of another in the tool. Two requests meet at every point of a frame and of each
  other.
* A transmit queue of four bytes is the smallest that can ever acknowledge a word,
  and one word of three bytes makes it hold the next one back. Two words are a
  packet of two, or two packets; with four events the queue of one and both
  buffers fill up and events are dropped.

Deadlock is not checked where everything may be over: in `Dfu` and `Midi`, when
the bounds are used up and nobody owes anything, and in the two violation runs in
which the system stops.

## Fairness

Each core runs for ever, so that each enabled step of a core is eventually taken:
weak fairness per core (and per channel read of Endpoint0). The interrupt of
decouple stays pending while interrupts are disabled and is taken when they come
back, so `ServeSamples` is strongly fair. `usb_midi` and XUA_Buffer_Ep select
among their cases, `Hid`'s default case is always there, and time passes.

The host owes nothing, except that an endpoint that is open is polled: an open
stream in `InFifo`, the interrupt endpoint of `Hid`, the MIDI port of `Midi`. A
tool that was not killed goes on (`ToolNext`), and a class request that was sent
is served. The application of `Hid` says of a report it has changed that it has
(`hidSetChangePending`), finishes an edit it has begun and prepares a descriptor
it has reset. What the user, the application, another client or the instrument do
never has to happen otherwise, nor do faults; stream starts, rate changes and the
data of a stream (`DopSwitch`) owe nothing either. `Endpoint0` states safety only.

## What is proved

`StreamControl_proofs`, for every set of rates and alternate settings, both power
builds, with or without DSD, and any bus events, from the three assumptions on the
constants in `StreamControl`:

* `TypeCorrect`: `Spec => []TypeOK`. The set `Messages` of what c_aud_ctl carries
  ties the argument to the command (a rate or the DFU stop, or an alternate
  setting), without which the step of XUA_Buffer_Ep would not keep the types of
  the globals.
* `NeverTraps`: `Spec => []NoProtocolTrap`. The property speaks only of the head
  of the channel, and is far from inductive: whether the next token is right
  depends on what AudioHub will do at its next restart. `Protocol` says where the
  one outstanding sample request is when decouple is not waiting, and, while it
  waits for the END, at which one of four places the command or its END is: not
  yet read by AudioHub, in AudioHub's restart, sent, or sent with the next request
  behind it. Its conjunct about restarts (`firstRun`, or a restart without a
  command in a running AudioHub) is what the code's conditions on sending the END
  have to match. It is preserved by each action separately; the proof has one step
  for each.
* `NeverOverwritten`: `~BootDfu` gives `Spec => []CommandNotOverwritten`.
  `OneRequestInFlight` follows the one request of Endpoint0 through channel, flag,
  decouple and answer. A device booted in DFU mode sends a first command without
  waiting, which is why the theorem excludes it.
* `RateInForce` and `StoppedForDfu`: `~BootDfu` gives `Spec => []RateApplied` and
  `Spec => []DfuOnlyWhenStopped`. Both speak of the moment at which Endpoint0 goes
  on, when the request has come and gone. `RateTravels` says of every state before
  it where the rate (or the DFU stop, which travels as a rate) is: on the channel,
  in the flag, or with decouple until AudioHub has taken it. With
  `OneRequestInFlight` nothing is on its way while Endpoint0 is idle
  (`IdleTravel`), and with `Protocol` AudioHub has sent the END it owes, so that
  it has already restarted. `BootDfu` is excluded because a device that boots in
  DFU mode sends the stop at its start and does not wait for the answer.
* `FormatInForce`: `~BootDfu` gives `Spec => []FormatApplied`. `FormatTravels`
  says that until decouple has taken a start, the alternate setting is with it on
  the channel or in the global the two directions share, and afterwards in the
  format of its own direction.
* `PowerInForce`: `~BootDfu` gives `Spec => []PowerFollowsStreams`. By
  `PowerTravels` AudioHub is in the loop that decouple last signalled, or the
  command is in decouple's hands; by `StopsTravel` no start is on its way while
  the bus is suspended, and for each stream that still runs a stop is, or is due.

`Mixer_proofs`, about `MixerSpec`, the mixer under any requests and rate changes,
from the assumptions on its sizes in `Mixer`:

* `TypeCorrect`: `MixerSpec => []TypeOK`.
* `Freshness`: `MixerSpec => MixesFresh`, for any number of mixes. The action
  property looks at one exchange; `FreshInv` says in between that a mix is old
  only while the core that makes it still has it to do, and that mixer1 answers
  the next request only after both have ended.
* `InStep`: `MixerSpec => []MixerInStep`, for any channels and inputs and `Mixes =
  8`, which the code's numbering of nodes needs. The copies and the tables agree
  only when nothing is on its way; `StepInv` says of every other state that every
  place in which they differ has a control word pending that will write it, and
  that every control word pending writes what Endpoint0 has.

`Midi_proofs`, for any instrument, any words of the host and any sizes of the
queue, the buffers and the packets, from `MidiAssumption` (of which the argument
needs a queue of at least four bytes):

* `FlowHolds`: `Spec => []FlowControlled`. The property speaks of the room for a
  word when it arrives; the invariant `HostFlow` says of every state that the one
  word of the host that is in hand is on its way, acknowledged, or held back by
  `midi_from_host_overflow`, never two of these, and that there is room for three
  more bytes unless it is held back. `EventFlow` says the same of the other
  direction: an event or its acknowledgement is on its way only while
  `waiting_for_ack` is set, and not both.
* `WholeMessages`: `Spec => []MessagesWhole`, for any of the messages the
  instrument may play. The property compares an event with the bytes played since
  the last one; `Parsing` says of the states between two events that what the
  parser holds of a message is what is owed, that after a message on a channel it
  holds the status again (running status), and that the code of an event says how
  many of its bytes are read back.
* `EventsAndBytesInOrder`: `Spec => []InOrder`, for events and words without a
  bound. The invariants `EventsFlow` and `BytesFlow` say of every state what the
  property says, in the order of the places: the events the host has heard, those
  in the buffer it is offered, those in the other, the one in the channel and the
  one that is kept, increasing, and with the dropped ones all that were made; and
  the bytes that went out, the one in transmission, the queue, the word in the
  channel and the rest of the packet, together the bytes of all words. A step
  moves the border between two places, and the flow control says that the places
  it moves to are empty or have room. The buffers need `HostBuffers`: the host is
  only ever offered the one that is not being collected. The bytes of words are
  `FlattenSeq` of the community modules, whose defining recursive function is
  shown to exist and to be unique, by induction over a set of numbers
  (`Induction`, from the well-foundedness of the natural numbers), so that it goes
  through a concatenation.

`OutFifo_proofs`, for every size and length of packets and every number of
channels, from the assumptions on the constants in `OutFifo`. The first two
theorems allow any pace of the host:

* `OnePacketInHand`: `Spec => []InOnePlace`. The buffer of a packet is with XUD,
  received, reported by the flag, in the interrupt handler's hands, or held back
  in overflow, in one of these and no other; so decouple makes the endpoint ready
  only when nobody writes to it.
* `WritesInArray`: `MaxPacket % 4 = 0` gives `Spec => []WritesStayInArray`, a
  conjunct of `ArmedSpaceFree`. All pointers are multiples of four below the end
  of the FIFO, from where the slack of the array is one packet and its length
  word.
* `FifoHolds` and `SpaceHolds`: `Aligned /\ HostPaced` gives `Spec =>
  []FifoConsistent` and `Spec => []ArmedSpaceFree`. `Aligned` is that the largest
  packet is a multiple of four and, with two-byte samples, the number of channels
  even (without it both are false, see "Observed behaviour"). `HostPaced` is
  `MaxBacklog + MAX_DEVICE_AUD_PACKET_SIZE_OUT + 4 <= BUFF_SIZE_OUT`: a host that
  follows the feedback endpoint stays a packet and a length word short of a full
  FIFO, in which there are five. The invariant `FifoInv` has three parts.
  `HeldInv` is the layout of the memory (`Layout`): seen from the write pointer,
  the packets ahead of it are older than those behind it, those on the same side
  follow each other without overlap, the end of each, rounded up and wrapped, is
  the start of the next, and the length word of each is there until it is read.
  `ReadInv` is where the reader is in the oldest packet, with the state of the
  unpacking of three-byte samples; `FrameAdvances` and `TailSkipped` are the
  arithmetic by which the reader's steps, frame by frame and over the tail, come
  to the place the writer rounded up to. `HandInv` follows the packet in hand:
  wherever it is, there is room for it between the write pointer and the oldest
  packet (`Room`), and the read pointer that decouple took a copy of is behind the
  one in force, as the interrupt that comes between only moves it forward
  (`InterruptForward`). The run goes further than the theorem for its small
  instance, a backlog of 72 bytes of 80 where `HostPaced` says 60, as its packets
  take 8 or 16 bytes of the FIFO and never 12.

`InFifo_proofs`, for every set of rates, every number of channels whose frames are
whole words (`Aligned`), from the assumptions on the constants in `InFifo`:

* `InFifoHolds`, `NoAssertFails` and `WritesHold`: `Aligned /\ Alike` gives `Spec
  => []FifoConsistent`, `Spec => []AssertsHold` and `Spec => []WritesHitNoPacket`,
  whatever the host, the notifications and the rate changes do and whether or not
  `Paced`. `Alike` is that neither a rate nor a feedback value makes a packet with
  more samples than two of the largest of the slowest rate (44.1 and 48 kHz
  together, say, or 48 and 96 kHz, but not 44.1 and 192 kHz): the overflow loop
  drops packets until two of the rate that is in force are left, and would
  otherwise drop the last one with the others (see "Observed behaviour"). The
  invariant `FifoInv` has three parts. `LaidOut` says where the packets are: each
  behind the one before from the read to the write pointer (`Straight`), or the
  first of them up to the end of the FIFO and the rest from its start (`Folded`),
  with the bytes before each the prefix sums `Spaces`. `RoomInv` is that the
  packet under construction always has room and that out of underflow there is a
  packet; it needs the most of the overflow loop, which ends in time and leaves
  one (`Dropped`). `KindInv` is the types. What is added at the end (`PutLaidOut`)
  and taken from the front (`TakenOut`), by the interrupt or the main loop, keeps
  the layout.
* `OldestArmed` and `NothingDropped`: `Aligned /\ Steady` gives `Spec =>
  []ArmedIsOldest` and `Spec => NoDropOutsideUnderflow`. `Steady` is a stream that
  keeps pace: one rate, feedback that gives packets of its sizes, `Paced` and
  `Prompt`, and `Lead + Lag <= 2`, of which the run is an instance. Out of
  underflow a buffer is armed or on its way back, and with it the packets in
  memory are no more than three and the host's lag, less what AudioHub is ahead
  (`AheadInv`): underflow is left with two packets, as three of the smallest would
  take more than the window. So at a commit there are four with the new one, and
  five fit.

The sums and the read pointers of the overflow loop are recursive functions. What
is said of them for every length is proved by induction over the numbers up to it,
with the lemma `Induction`, which states induction for sets and follows from the
order of the natural numbers being well-founded.

`DfuTool_proofs`, for pages of every size, erases of every length and any images
and files, from `SubPagesAssumption`, `ImagesAssumption` and `FilesAssumption`. It
begins with a lemma for each request and each state of the device (a block that
starts a page, one within it, the poll that ends an erase, ...). The invariant of
the two together is `Inv`: `DevInv` (what is in the slot while an image is written
is not taken for one), `RunInv` (the tool is at a download only if the user asked
for it) and `InStep`, which compares the count of blocks sent with the two
counters and the page buffer of the device: either the page in the buffer holds
the last blocks of the file up to the block sent (`Holds`), or that block is saved
until the erase is over (`Waits`).

* `TypeCorrect`: `Spec => []TypeOK`.
* `ImageImplemented`: `SubPages > 1 /\ NoneEmpty /\ Marked` gives `Spec =>
  ImageSpec`, the refinement of `DfuImage` step by step. A page of the device has
  4 blocks, and no firmware file is empty. `Marked` says that an image whose
  checksum is right and whose last page is a page of some file is that file: half
  a file is no image, nor is a file behind the pages of another. The code relies
  on the checksum for this, as a tool run again in the same DFU session appends to
  what the first one wrote. By the invariant the slot becomes an image only in the
  step that ends a download, and by `Marked` that image is the file the user asked
  for.
* `TransfersHold`: `Installable` gives `Spec => []TransfersExact`, for files of
  every length. The invariants `CleanDownload` and `CleanUpload` say of each point
  of a transfer that nobody disturbed what is in the flash: the whole pages of the
  blocks sent, and of an upload that what the tool has got is the image up to the
  page and the block the device is at. `Installable` is that what is made of a
  file is an image that the boot loader takes; a file it does not take leaves the
  device at the factory image, as `ImageSpec` says.

`Hid_proofs`, for any descriptors, durations and intervals and any modulus of the
clock that is more than twice as long as they are, from `HidAssumption`,
`DescriptorsAssumption` and, for `DescriptorIsRight`, `ElementsAssumption`:

* `PreparedHolds`: `Spec => [](ItemsCurrent /\ LengthCurrent)`: while the
  descriptor is prepared, the host reads what the items are translated to, in the
  length announced. The inductive invariant `Served` says where the tasks can be:
  an edit whose check is behind it meets a prepared descriptor only if Endpoint0
  has prepared it in between, as the application's own calls do not overlap. That
  case, a reset before Endpoint0 has measured, and an edit that changes a size
  after that are exempt, for in them the property fails in the code (see "Observed
  behaviour"); `spoilt` says which of them has happened, and the first ends with
  the next preparation.
* `NeverFloods`: `Spec => NoFlood`. The action property compares a report with the
  last of the same id; `Paced` says that in between the time of a report that was
  sent less than an interval ago is at least the rest of the interval ahead, on a
  clock that wraps round. With every access of the times a step, it does so
  through three parts: `Working` says what a half-served request holds (the old
  period, or the next time it has worked out, which was right when it read the
  time and the clock), `Closing` where XUA_Buffer_Ep is with a report, and `Late`
  what of the two may be out of date. A report that is closed while Endpoint0 is
  between its read of the time and the store of the period is exempt, and so is
  one whose period XUA_Buffer_Ep has read before a request for ever replaces it:
  in these the code may offer a report at once.
* `AllAreTold`: `Spec => AllTold`. `Told` says how far a request for all reports
  has come. It visits them by id, and every report has been told because their ids
  differ; that is not an assumption but follows from what `hidReportValidate`
  checks (`ReportIDsRight`).
* `DescriptorIsRight`: `Spec => DescriptorRight`, that is, `hidReportValidate` is
  sound: in whatever descriptor it accepts, of any number of items, elements and
  reports, the control of each element is where the application reports it and
  each report has its length; and the host reads the items as they are, with the
  exceptions of `PreparedHolds`. What the host finds is defined by the items
  alone, and the validation keeps one running offset. `BitsFound` is the invariant
  of the pass that ties them: after each item the reports that were closed have
  the bits of their length, the current one those of the offset, and an id that
  has not come yet has none. That needs the ids to differ, which is only looked at
  when the pass is over: `IdsFound` shows that an id, once found, stays.
  `ElementsFound` shows from `ElementsAssumption` that no element is passed over.
  `Pass` and `Bits` are recursive functions; `Recursion` shows that such functions
  exist, by the induction described above for the FIFO.

`Endpoint0_proofs`, for every set of builds, with no bound on the options of a
build:

* `ActiveHolds`: `Spec => []HostActiveTold`.
* `DispatchHolds`: `\A b \in Builds : Apart(b)` gives `Spec =>
  []RequestsDispatched`. `Apart` says that the numbers of the DFU and the HID
  interface are past the three that the audio handler looks at (see "Observed
  behaviour"). The property is about what the host has read, and the invariant
  `DescribedInv` about the numbers in it: every interface descriptor in the two
  configuration descriptors carries the number of the enumeration the handlers
  compare with, which is followed through every part of both audio classes'
  descriptors and through the changes made in place for the other speed.
* `DriversHold`: `\A b \in Builds : Enumerated(b)` gives `Spec => []DriversBound`.
  `Enumerated` says that the build has audio, of a class that its lowest speed
  has, and that MIDI is not between the streaming and the control interface of
  UAC1, where the enumeration and the number in the descriptor part.
  `DescribedInv` says that the descriptor of UAC1 is read as it is and that of
  UAC2 in all that no modification changes; `NumberBetween` and `ManyInterfaces`
  relate the number an interface has to the ones before it, and so the number of
  interfaces to the association.
* `StreamsHold`: `\A b \in Builds : Carried(b)` gives `Spec => []StreamsCarried`,
  for any numbers of channels, rates and formats. `Carried` says that a packet of
  high speed is no longer than the 1024 bytes the descriptor can announce, that
  the alternates of input have the subslot and the resolution of the first, which
  is what their descriptors hold, and that a build whose descriptor is modified
  has one input alternate, as the others are not modified (see "Observed
  behaviour"). The argument has three parts. What is in a record: `Numbered` says
  that a record of a stream in the UAC1 descriptor is what decouple is told at
  full speed, and of one in the UAC2 descriptor only what no modification touches
  (`Shaped`), as the values there are those of the speed of the last request;
  `MungedFits` shows that the modification for a speed makes the record of any
  alternate that of this speed, whichever it was before. How many there are:
  `BothCounted` adds the records of two parts of a descriptor, so each alternate
  has one of each kind (`Offered`), and a modification adds and takes none
  (`MungedCounted`). What was told: `ToldInv` says that a selected alternate is
  one of what the host has read at this speed and outside DFU mode, since whatever
  changes one of them clears the alternates, and that decouple was told its format
  or a stop.

The constants' assumptions are those the modules state, and TLC evaluates them in
the runs.

Only model-checked: liveness (`RequestsAnswered`, `EndpointRearmed`,
`StreamHeard`, `ToolEnds`, `SetIdleAnswered`, `CatchesUp`, `RequestsServed`,
`MidiServed`), which is out of the proof system's reach; the lengths and the
references of the descriptors (`ConfigurationDescribed`, `LengthsAddUp`), which
are finite tables that TLC goes through; and what `MixerTool` shows (`ToolTells`),
as its walk over the units of the mixer is recursive.

## Observed behaviour

Three runs expect a violation, each of something a document or a comment in the
repository says; `PROJECT.json` quotes it under "findings":

* `Dfu_revert`: `--revertfactory` erases nothing when the upgrade image was
  written in the same DFU session, and the device starts that image after the
  detach.
* `Hid_lost`: a change made between the preparation of a report and its collection
  by the host is marked as reported, although the host has the older data.
* `Mixer_levels`: the requests for input and output levels have no case in mixer1;
  Endpoint0 waits for the answer for ever.

The rest of this section is behaviour met while modelling that contradicts no
statement of the repository, or that the instances of the runs exclude. Line
numbers are those of the file named last.

Control path. `xua_endpoint0.c` 1283 passes the two stream flags of
`UserAudioStreamState` in the other order than `audiostream.h` 22 declares them.
With `LowPower` a resume starts no stream, although one may still be selected; a
bus reset leaves the stream-active flags of decouple set. A DSD alternate setting
that is selected while the other direction streams does not enter native DSD, and
DSD mode is never cleared in decouple. In a device booted in DFU mode the END of
the first command is not waited for, so that every later handshake completes one
command early. decouple sends the END to Endpoint0 before it clears
`g_streamChangeOngoing` (`decouple.xc` 852).

FIFOs. A playback FIFO filled exactly up to the read pointer is taken for an empty
one (1021): with the packets of `OutFifo_paced` that happens from a backlog of 76
bytes of 80 on. With one channel of two-byte samples and an odd packet the reader
is two bytes short. Where `MAX_DEVICE_AUD_PACKET_SIZE_OUT` is no multiple of four
(one channel of three-byte samples with seven to a packet, say) a packet at the
last word of the FIFO may end one byte past `outAudioBuff`, which is declared in
words (67). A record stream of two channels at 16 kHz never leaves underflow
(1097; `README.rst` 68 names it as a known issue), and with jitter of two packets
between host and AudioHub a stream can stay in underflow for ever. A change from a
rate to one at which two packets are smaller than one of the old (192 to 44.1
kHz), during an overflow and between the main loop's looks at the command and at
what was sent, lets the overflow loop drop every packet and can then meet the
assertion at 1124; `Alike`, a hypothesis of `NoAssertFails`, excludes it. With
subslots of 4 and 2 bytes a feedback of twice the rate passes the limit and a
packet runs past the end of the FIFO.

DFU. A file shorter than one block is reported as complete but refused, and `main`
ignores the result of `write_dfu_image`. An upload loops for ever on errors, as
the count it compares with zero is unsigned (`xmosdfu.cpp` 360). An error of
`flash_cmd_start_write_image` leaves the device busy. A second download in the DFU
session of one that was cut off appends to its pages, so that `ImageSpec` holds
for files that do not make a valid image in that way (`Marked`, a hypothesis of
`ImageImplemented`). With a wrong DFU product id the device stays in DFU mode
until the next power cycle. A DFU request in application mode may leave a state
other than APP_IDLE, from which DETACH reboots into the application.
`DFUTimerStart` is never set.

Descriptors. `MCEndpoint0` names the builds it includes; those it excludes fail
one of the properties: output-only builds of class 1 without an asynchronous clock
count a length of 9 bytes too few (a condition without parentheses); the MIDI
interface collides with the control interface in class 1 descriptors; in class 1
the pair of rates 32000 and 44100 is missing; with ADAT receive at full speed the
second and third input format keep the high-speed values; a DFU or HID interface
numbered 2 or less is overwritten by the audio handler (the comment near
`xua_endpoint0.c` 885 knows). Formats 2 and 3 of the input share slot size and
resolution with format 1, the resolutions of the input are taken from the output's
options, and the channel strings name ADAT channels 5 to 8 even where four exist.
Without volume control the output terminals bypass the mixer unit.
SET_CONFIGURATION(0) does not tell the application that the host is gone.

HID. A SET_IDLE with a finite duration above the polling interval silences an
unchanged report for good, and not for that duration; an indefinite one followed
by one no longer than the interval leaves a period of zero, with the same effect.
The lowest report id starves the others if it changes all the time. Comparing
times with `timeafter` is wrong after half the timer's range without a report.
`hidReportValidate` accepts two elements at the same bit, accepts elements it
never met among the items (777), and does not compare usage pages with the table
of reports. It takes a control to begin where the last input item ended: the
descriptors of `tests/xua_sim_tests`, which name six usages before one input of
six fields, are refused for the second of them, although the host would place them
right.

`hidStaticVarLock` makes each access whole, not what is computed from several:

* If XUA_Buffer_Ep closes a report after Endpoint0 has read its time for a
  SET_IDLE (`hid.xc` 148) and before it has stored the next time and the period
  (156), the next time is that of the report before, or of the period before; a
  short SET_IDLE later on, which leaves the time as it is, lets an unchanged
  report out at once.
* If XUA_Buffer_Ep has read the period (`HidIsSetIdleSilenced`) and Endpoint0 then
  stores that of a SET_IDLE for ever, one unchanged report goes out after it.
* `hidSetReportItem` looks at the prepared flag without the lock (`hid_report.c`
  520). If Endpoint0's preparation (`xua_endpoint0.c` 590) comes before the store
  (559), the edit returns HID_STATUS_GOOD while the descriptor is in use, and the
  host does not see it until the application has reset and prepared the descriptor
  again.
* Endpoint0 measures the descriptor once (592 to 604). An application that resets
  it between the preparation and that leaves `wDescriptorLength` at 0, and one
  that later replaces an item by one of another size leaves it as it was.

`NoFlood`, `ItemsCurrent` and `LengthCurrent` exempt these and nothing else;
without each exemption TLC finds the property violated.

Mixer. With `MAX_MIX_COUNT` other than 8 a weight goes to a wrong mix, as the node
number is divided by 8 (`sw_mixer.rst` has an example with two mixes). A level of
minus infinity gives a tiny multiplier instead of zero, as 0x8000 is compared with
sign-extended values. In a build that is not FAST_MIXER the initial map of mixer1
differs from Endpoint0's copy. A set of a source that does not exist is kept by
Endpoint0 and ignored by the mixer. The tool skips a set to the value it has in
its cache, sends one byte of a channel map where the device reads two (harmless as
the upper one is ignored), and holds at most 18 inputs and 40 entries. The list of
the current sources (`display_mixer_sources`, `mixer_app.cpp` 202 to 204) prints
the name of the mixer input that has the number of the source, not the name of the
source. As an input is named after its own source, the two are the same only while
that input mixes the channel of its number: with input 0 set to channel 1 and
input 1 to channel 2, the line of input 0 says channel 1 with the name of channel
2. `ToolTells` says of this name what the code makes it, and of the name the tool
keeps for each input, and of the list of available sources, that they are right.
For an input that is off (255) the text is read from outside the array.

MIDI. A packet of no words is never acknowledged, so that the endpoint is not made
ready again (`ep_buffer.xc` 812); `MidiServed` speaks of packets with a word in
them. In a MIDI_LOOPBACK build an event that finds the queue full is not
acknowledged (`usb_midi.xc` 266). A system exclusive end outside of a message is
sent with whatever status the parser has kept; the instrument of the model does
not play one. Queues of less than four bytes never acknowledge a word; only a
power of two is asserted. The assertions that are commented out in `midiinparse.c`
(66 to 72) hold in the model.

## Not modelled

* I2S, TDM and DSD sample loops, S/PDIF and ADAT transmit, the digital receivers
  and the PDM microphones: port input and output whose correctness is timing and
  arithmetic on samples; no other task's state depends on it beyond what
  `StreamControl` has.
* The feedback calculation, clock selection and the software PLL: filters and
  accumulators over port timestamps. The FIFO models take their results as any
  value of a set.
* Volume and decibel tables, the arithmetic of a mix, level meters: fixed-point
  arithmetic.
* Volume, mute and clock requests of Endpoint0, and the volume commands of the
  mixer: one table entry in, one entry out.
* What a GET_DESCRIPTOR in progress reads of the HID report descriptor while the
  application resets and prepares it, byte by byte; an application that uses HID
  before hidReportInit.
* Three byte recording, high-bandwidth endpoints, the MIDI bit timers and the
  loopback build: named at the modules that leave them out.
* Task placement and start-up (`main.xc`, `xua_func` headers), and the libusb
  headers of the host tools: no behaviour, or not the library's.

## Plan

What further work on this development would take up, in this order:

1. Three byte recording in `InFifo`: the two variables that survive a stream.
2. An abstract audio control (a request and its answer) that `StreamControl`
   implements.
3. The feedback calculation, with lost starts of frame, and the clock unit.
