--------------------------- MODULE StreamControl ---------------------------
(***************************************************************************)
(* The audio control path of lib_xua: how a request of the USB host to     *)
(* change the sample rate, to start or stop a stream, or to enter DFU      *)
(* travels from Endpoint0 through XUA_Buffer_Ep and XUA_Buffer_Decouple to *)
(* XUA_AudioHub, and how the handshake travels back.                       *)
(*                                                                         *)
(*   Endpoint0 --cmd,args--> XUA_Buffer_Ep            (c_aud_ctl)          *)
(*   XUA_Buffer_Ep --globals--> decouple              (g_streamChange_xxx) *)
(*   decouple <--sample request / cmd / END--> AudioHub       (c_mix_out)  *)
(*   decouple --END--> Endpoint0               (buffer_aud_ctl_chan)       *)
(*                                                                         *)
(* A decouple interrupt serves the sample requests of AudioHub; the main   *)
(* loop of decouple runs with interrupts disabled while it forwards a      *)
(* command.  Channel ends of the hardware are typed: reading a data word   *)
(* when a control token is next, or the reverse, is a trap, and so is a    *)
(* control token other than the one chkct expects.                         *)
(***************************************************************************)
EXTENDS Naturals, Sequences

CONSTANTS
  Rates,        \* sample rates of the configuration
  DefaultRate,  \* DEFAULT_FREQ
  DfuStop,      \* AUDIO_STOP_FOR_DFU, a value that is no sample rate
  Alts,         \* Alts[d]: the streaming alternate settings of interface d
  DsdAlts,      \* output alternate settings with the RAW (DSD) data format
  LowPower,     \* XUA_LOW_POWER_NON_STREAMING
  BootDfu,      \* the device started in DFU mode
  BusEvents     \* the bus events of the run: "suspend", "reset"

Dirs == {"INPUT", "OUTPUT"}

ASSUME RatesAssumption == DefaultRate \in Rates /\ DfuStop \notin Rates
ASSUME AltsAssumption  == /\ \A d \in Dirs : Alts[d] \subseteq Nat \ {0}
                          /\ DsdAlts \subseteq Alts["OUTPUT"]
ASSUME FlagsAssumption == /\ LowPower \in BOOLEAN
                          /\ BootDfu \in BOOLEAN
                          /\ BusEvents \subseteq {"suspend", "reset"}

VARIABLES
  \* Endpoint0
  ep0,           \* "idle": waiting for a setup packet; "wait": in chkct
  stopsDue,      \* interfaces a suspend has still to stop
  alt,           \* g_curStreamAlt_In, g_curStreamAlt_Out
  curSamFreq,    \* g_curSamFreq
  notified,      \* notify_audio_stop_for_DFU, or DFU_mode_active
  suspended,     \* the bus is suspended
  userState,     \* arguments of the last UserAudioStreamState call
  \* c_aud_ctl: commands down, handshakes up
  audCtl, acks,
  \* globals shared by XUA_Buffer_Ep and decouple
  flag,          \* g_streamChange_flag
  ongoing,       \* g_streamChangeOngoing
  sampFreq,      \* g_streamChange_sampFreq
  formatChange,  \* g_formatChange_xxx
  \* decouple
  dec,           \* "poll", then with interrupts disabled "token", "sync", "ack", "clear"
  decCmd,        \* what decouple sends to AudioHub
  active,        \* g_input_stream_active, g_output_stream_active
  anyOld,        \* g_any_stream_active_old
  format,        \* g_numUsbChan_xxx, g_curSubSlot_xxx, sampResOut
  decDsd,        \* dsdMode of decouple
  \* c_mix_out: requests and handshakes from AudioHub, commands to it
  up, down,
  \* AudioHub
  hub,           \* "restart", "run", "xfer" (samples asked for), "frame" (samples received)
  hubFreq, hubDsd, hubRes, audioActive, firstRun, command, inDfu

ep0Vars == <<ep0, stopsDue, alt, curSamFreq, notified, suspended, userState>>
bufVars == <<flag, ongoing, sampFreq, formatChange>>
decVars == <<dec, decCmd, active, anyOld, format, decDsd>>
hubVars == <<hub, hubFreq, hubDsd, hubRes, audioActive, firstRun, command, inDfu>>
vars == <<ep0Vars, audCtl, acks, bufVars, decVars, up, down, hubVars>>

NoCmd == "NO_COMMAND"
Start(d) == IF d = "INPUT" THEN "INPUT_START" ELSE "OUTPUT_START"
Stop(d) == IF d = "INPUT" THEN "INPUT_STOP" ELSE "OUTPUT_STOP"
EpCmds == {NoCmd, "SET_SAMPLE_FREQ"} \union {Start(d) : d \in Dirs} \union {Stop(d) : d \in Dirs}
Token == "TOKEN"   \* the word AudioHub sends to request samples
End   == "END"     \* XS1_CT_END

\* A command and its arguments: a rate, an alternate setting or a DSD mode and resolution
Message(c, a) == [cmd |-> c, arg |-> a]
Nothing == Message(NoCmd, 0)

HubFormats == [dsd : {"OFF", "NATIVE"}, res : Nat]
DecCmds == {Nothing, Message("AUDIO_STOP", 0)}
             \union [cmd : {"SET_SAMPLE_FREQ"}, arg : Rates \union {DfuStop}]
             \union [cmd : {"AUDIO_START"}, arg : HubFormats]

Init ==
  /\ ep0 = "idle"
  /\ stopsDue = <<>>
  /\ alt = [d \in Dirs |-> 0]
  /\ curSamFreq = DefaultRate
  /\ notified = BootDfu
  /\ suspended = FALSE
  /\ userState = [d \in Dirs |-> FALSE]
  /\ audCtl = IF BootDfu THEN <<Message("SET_SAMPLE_FREQ", DfuStop)>> ELSE <<>>
  /\ acks = 0
  /\ flag = NoCmd /\ ongoing = NoCmd
  /\ sampFreq = DefaultRate
  /\ formatChange = 0
  /\ dec = "poll" /\ decCmd = Nothing
  /\ active = [d \in Dirs |-> FALSE] /\ anyOld = FALSE
  /\ format = [d \in Dirs |-> 0]
  /\ decDsd = "OFF"
  /\ up = <<>> /\ down = Nothing
  /\ hub = "restart"
  /\ hubFreq = DefaultRate /\ hubDsd = "OFF" /\ hubRes = 0
  /\ audioActive = ~LowPower
  /\ firstRun = TRUE
  /\ command = NoCmd
  /\ inDfu = FALSE
-----------------------------------------------------------------------------
(***************************************************************************)
(* Endpoint0.  Every request that reaches the audio path is one command on *)
(* c_aud_ctl followed by chkct(c_aud_ctl, XS1_CT_END), which blocks the    *)
(* core: the host gets no answer to anything until the END arrives.        *)
(***************************************************************************)
\* Mutant of Send: no chkct.
SendNoWait(c, a) == audCtl' = Append(audCtl, Message(c, a)) /\ ep0' = ep0
Send(c, a) == /\ audCtl' = Append(audCtl, Message(c, a))
              /\ ep0' = "wait"

Other(d) == IF d = "INPUT" THEN "OUTPUT" ELSE "INPUT"
\* UserAudioStreamState(inputActive, outputActive)
Tell(alts) == [d \in Dirs |-> alts[d] > 0]

\* SET_INTERFACE on a streaming interface; nothing is sent when the
\* alternate setting does not change.
SetInterface(d, a) ==
  /\ ep0 = "idle" /\ ~suspended /\ ~BootDfu
  /\ alt[d] # a
  /\ alt' = [alt EXCEPT ![d] = a]
  /\ IF a > 0 THEN Send(Start(d), a) ELSE Send(Stop(d), 0)
  /\ userState' = Tell(alt')
  /\ UNCHANGED <<stopsDue, curSamFreq, notified, suspended, acks, bufVars, decVars, up, down, hubVars>>

\* SET_CUR of the sampling frequency (UAC2 clock unit, UAC1 endpoint).
SetSampleRate(r) ==
  /\ ep0 = "idle" /\ ~suspended /\ ~BootDfu
  /\ r # curSamFreq
  /\ curSamFreq' = r
  /\ Send("SET_SAMPLE_FREQ", r)
  /\ UNCHANGED <<stopsDue, alt, notified, suspended, userState, acks, bufVars, decVars, up, down, hubVars>>

\* The first class request to the DFU interface stops the audio.
DfuRequest ==
  /\ ep0 = "idle" /\ ~suspended
  /\ ~notified
  /\ notified' = TRUE
  /\ Send("SET_SAMPLE_FREQ", DfuStop)
  /\ UNCHANGED <<stopsDue, alt, curSamFreq, suspended, userState, acks, bufVars, decVars, up, down, hubVars>>

\* The bus is suspended: both streams are stopped, each with its handshake.
Suspend ==
  /\ ep0 = "idle" /\ ~suspended /\ "suspend" \in BusEvents
  /\ suspended' = TRUE
  /\ stopsDue' = <<"OUTPUT">>
  /\ Send(Stop("INPUT"), 0)
  /\ UNCHANGED <<alt, curSamFreq, notified, userState, acks, bufVars, decVars, up, down, hubVars>>

\* The bus resumes: only the user callback is told, with its arguments as
\* the code passes them (output first).
Resume ==
  /\ ep0 = "idle" /\ suspended
  /\ suspended' = FALSE
  /\ userState' = IF \E d \in Dirs : alt[d] > 0
                    THEN [d \in Dirs |-> alt[Other(d)] > 0]
                    ELSE userState
  /\ UNCHANGED <<ep0, stopsDue, alt, curSamFreq, notified, audCtl, acks, bufVars, decVars, up, down, hubVars>>

\* A bus reset forgets the alternate settings and sends nothing.
BusReset ==
  /\ ep0 = "idle" /\ "reset" \in BusEvents
  /\ suspended' = FALSE
  /\ alt' = [d \in Dirs |-> 0]
  /\ userState' = IF \E d \in Dirs : alt[d] > 0 THEN [d \in Dirs |-> FALSE] ELSE userState
  /\ UNCHANGED <<ep0, stopsDue, curSamFreq, notified, audCtl, acks, bufVars, decVars, up, down, hubVars>>

\* chkct returns; a suspend goes on with its second stop.
Handshake ==
  /\ ep0 = "wait" /\ acks > 0
  /\ acks' = acks - 1
  /\ IF stopsDue = <<>>
       THEN ep0' = "idle" /\ UNCHANGED <<stopsDue, audCtl>>
       ELSE Send(Stop(Head(stopsDue)), 0) /\ stopsDue' = Tail(stopsDue)
  /\ UNCHANGED <<alt, curSamFreq, notified, suspended, userState, bufVars, decVars, up, down, hubVars>>
-----------------------------------------------------------------------------
(***************************************************************************)
(* XUA_Buffer_Ep: the c_aud_ctl case copies the arguments to globals, then *)
(* sets g_streamChangeOngoing and last the flag decouple polls.            *)
(***************************************************************************)
BufferCommand ==
  /\ audCtl # <<>>
  /\ LET m == Head(audCtl) IN
       /\ sampFreq' = IF m.cmd = "SET_SAMPLE_FREQ" THEN m.arg ELSE sampFreq
       /\ formatChange' = IF \E d \in Dirs : m.cmd = Start(d) THEN m.arg ELSE formatChange
       /\ ongoing' = m.cmd
       /\ flag' = m.cmd
  /\ audCtl' = Tail(audCtl)
  /\ UNCHANGED <<ep0Vars, acks, decVars, up, down, hubVars>>
-----------------------------------------------------------------------------
(***************************************************************************)
(* Decouple.                                                               *)
(***************************************************************************)
\* The interrupt: it takes a sample request, sends the samples and reads
\* those of AudioHub, which waits for them.
ServeSamples ==
  /\ dec = "poll"
  /\ up # <<>> /\ Head(up) = Token
  /\ hub = "xfer" /\ down = Nothing
  /\ up' = Tail(up)
  /\ hub' = "frame"
  /\ UNCHANGED <<ep0Vars, audCtl, acks, bufVars, decVars, down, hubFreq, hubDsd, hubRes,
                 audioActive, firstRun, command, inDfu>>

\* The main loop sees a sample-rate change (or the DFU stop) and disables
\* interrupts.
TakeSampleFreq ==
  /\ dec = "poll" /\ flag = "SET_SAMPLE_FREQ"
  /\ flag' = NoCmd
  /\ decCmd' = Message("SET_SAMPLE_FREQ", sampFreq)
  /\ dec' = "token"
  /\ UNCHANGED <<ep0Vars, audCtl, acks, ongoing, sampFreq, formatChange,
                 active, anyOld, format, decDsd, up, down, hubVars>>

BothActive(f) == \A d \in Dirs : f[d]     \* mutant of AnyActive: "and" for "or"
AnyActive(f) == \E d \in Dirs : f[d]

\* What AudioHub has to hear when "is any stream active" becomes any.
EventCmd(any) ==
  IF any = anyOld THEN Nothing
  ELSE IF any THEN Message("AUDIO_START", [dsd |-> decDsd', res |-> format'["OUTPUT"]])
  ELSE Message("AUDIO_STOP", 0)

\* Mutant of SignalStreamEvent: no END to Endpoint0 for an event AudioHub
\* does not hear of.
SignalNoAck ==
  LET any == AnyActive(active') IN
    /\ anyOld' = any /\ decCmd' = EventCmd(any)
    /\ dec' = IF any = anyOld THEN "clear" ELSE "token"
\* check_and_signal_stream_event_to_audio: AudioHub hears of a start or a
\* stop only when "is any stream active" changes.
SignalStreamEvent ==
  LET any == AnyActive(active') IN
    /\ anyOld' = any /\ decCmd' = EventCmd(any)
    /\ dec' = IF any = anyOld THEN "ack" ELSE "token"

FormatBoth(d) == [e \in Dirs |-> formatChange]          \* mutant of NewFormat: both directions
FormatOfRate(d) == [format EXCEPT ![d] = sampFreq]     \* mutant of NewFormat: the wrong global
NewFormat(d) == [format EXCEPT ![d] = formatChange]

TakeStart(d) ==
  /\ dec = "poll" /\ flag = Start(d)
  /\ flag' = NoCmd
  /\ format' = NewFormat(d)
  /\ active' = [active EXCEPT ![d] = TRUE]
  /\ decDsd' = IF d = "OUTPUT" /\ formatChange \in DsdAlts THEN "NATIVE" ELSE decDsd
  /\ SignalStreamEvent
  /\ UNCHANGED <<ep0Vars, audCtl, acks, ongoing, sampFreq, formatChange, up, down, hubVars>>

TakeStop(d) ==
  /\ dec = "poll" /\ flag = Stop(d)
  /\ flag' = NoCmd
  /\ active' = [active EXCEPT ![d] = FALSE]
  /\ UNCHANGED <<format, decDsd>>
  /\ SignalStreamEvent
  /\ UNCHANGED <<ep0Vars, audCtl, acks, ongoing, sampFreq, formatChange, up, down, hubVars>>

\* Mutant of ForwardCommand: no chkct for the END of AudioHub.
ForwardNoSync ==
  /\ dec = "token" /\ up # <<>> /\ Head(up) = Token
  /\ up' = Tail(up) /\ down' = decCmd /\ dec' = "ack"
  /\ UNCHANGED <<ep0Vars, audCtl, acks, bufVars, decCmd, active, anyOld, format, decDsd, hubVars>>
\* inuint(c_mix_out) takes the outstanding request, the command answers it.
ForwardCommand ==
  /\ dec = "token"
  /\ up # <<>> /\ Head(up) = Token
  /\ up' = Tail(up)
  /\ down' = decCmd
  /\ dec' = "sync"
  /\ UNCHANGED <<ep0Vars, audCtl, acks, bufVars, decCmd, active, anyOld, format, decDsd, hubVars>>

\* chkct(c_mix_out, XS1_CT_END): AudioHub has restarted.
TakeEnd ==
  /\ dec = "sync"
  /\ up # <<>> /\ Head(up) = End
  /\ up' = Tail(up)
  /\ dec' = "ack"
  /\ UNCHANGED <<ep0Vars, audCtl, acks, bufVars, decCmd, active, anyOld, format, decDsd, down, hubVars>>

\* The END to Endpoint0.
AckEndpoint0 ==
  /\ dec = "ack"
  /\ acks' = acks + 1
  /\ dec' = "clear"
  /\ UNCHANGED <<ep0Vars, audCtl, bufVars, decCmd, active, anyOld, format, decDsd, up, down, hubVars>>

\* g_streamChangeOngoing is cleared after the END, then interrupts come back.
ClearOngoing ==
  /\ dec = "clear"
  /\ ongoing' = NoCmd
  /\ decCmd' = Nothing
  /\ dec' = "poll"
  /\ UNCHANGED <<ep0Vars, audCtl, acks, flag, sampFreq, formatChange,
                 active, anyOld, format, decDsd, up, down, hubVars>>
-----------------------------------------------------------------------------
(***************************************************************************)
(* AudioHub.  "restart" is the code between two runs of a sample loop: the *)
(* top of the idle (low power) loop or of the configuration loop.          *)
(***************************************************************************)
EndAlways(owed) == <<End>>   \* mutant of EndOwed: no firstRun
EndOwed(owed) == IF owed THEN <<End>> ELSE <<>>

\* Idle: the END of the last command, unless this is the first run, then
\* dummy_deliver asks for samples.
RestartIdle ==
  /\ hub = "restart" /\ ~audioActive
  /\ up' = up \o EndOwed(~firstRun) \o <<Token>>
  /\ firstRun' = FALSE
  /\ hub' = "xfer"
  /\ UNCHANGED <<ep0Vars, audCtl, acks, bufVars, decVars, down,
                 hubFreq, hubDsd, hubRes, audioActive, command, inDfu>>

\* Running: clocks and codec are configured, then the END of the command
\* that broke the last loop, if there was one.
RestartRunning ==
  /\ hub = "restart" /\ audioActive
  /\ up' = up \o EndOwed(~firstRun /\ command # NoCmd)
  /\ firstRun' = FALSE
  /\ hub' = "run"
  /\ UNCHANGED <<ep0Vars, audCtl, acks, bufVars, decVars, down,
                 hubFreq, hubDsd, hubRes, audioActive, command, inDfu>>

\* StartSampleTransfer, once per sample period.
RequestSamples ==
  /\ hub \in {"run", "frame"}
  /\ up' = Append(up, Token)
  /\ hub' = "xfer"
  /\ UNCHANGED <<ep0Vars, audCtl, acks, bufVars, decVars, down,
                 hubFreq, hubDsd, hubRes, audioActive, firstRun, command, inDfu>>

\* The answer to the request is a command: receive_command, and
\* check_and_enter_dfu which never returns.
HubCommand ==
  /\ hub = "xfer" /\ down # Nothing /\ ~inDfu
  /\ down' = Nothing
  /\ command' = down.cmd
  /\ hubFreq' = IF down.cmd = "SET_SAMPLE_FREQ" THEN down.arg ELSE hubFreq
  /\ hubRes'  = IF down.cmd = "AUDIO_START" THEN down.arg.res ELSE hubRes
  /\ hubDsd'  = IF down.cmd = "AUDIO_START" THEN down.arg.dsd
                ELSE IF hubDsd = "DOP" THEN "OFF" ELSE hubDsd
  /\ audioActive' = \/ down.cmd = "AUDIO_START"
                    \/ audioActive /\ ~(down.cmd = "AUDIO_STOP" /\ LowPower)
  /\ inDfu' = (hubFreq' = DfuStop)
  /\ IF inDfu' THEN hub' = "xfer" /\ up' = up \o <<End, Token>>
               ELSE hub' = "restart" /\ up' = up
  /\ UNCHANGED <<ep0Vars, audCtl, acks, bufVars, decVars, firstRun>>

\* In DFU mode dummy_deliver reads every command, ignores it and answers.
DfuCommand ==
  /\ hub = "xfer" /\ down # Nothing /\ inDfu
  /\ down' = Nothing
  /\ up' = up \o <<End, Token>>
  /\ UNCHANGED <<ep0Vars, audCtl, acks, bufVars, decVars, hubVars>>

\* DoDsdDopCheck: the samples of a PCM stream carry DoP markers, or no
\* longer do, and the loop restarts without a command.
DopSwitch ==
  /\ hub = "frame" /\ audioActive /\ ~inDfu
  /\ DsdAlts # {}
  /\ hubDsd \in {"OFF", "DOP"}
  /\ hubDsd' = IF hubDsd = "OFF" THEN "DOP" ELSE "OFF"
  /\ command' = NoCmd
  /\ hub' = "restart"
  /\ UNCHANGED <<ep0Vars, audCtl, acks, bufVars, decVars, up, down,
                 hubFreq, hubRes, audioActive, firstRun, inDfu>>
-----------------------------------------------------------------------------
HostNext == \/ \E d \in Dirs : \E a \in Alts[d] \union {0} : SetInterface(d, a)
            \/ \E r \in Rates : SetSampleRate(r)
            \/ DfuRequest \/ Suspend \/ Resume \/ BusReset
DecNext  == \/ TakeSampleFreq
            \/ \E d \in Dirs : TakeStart(d) \/ TakeStop(d)
            \/ ForwardCommand \/ TakeEnd \/ AckEndpoint0 \/ ClearOngoing
HubNext  == RestartIdle \/ RestartRunning \/ RequestSamples \/ HubCommand \/ DfuCommand \/ DopSwitch

Next == HostNext \/ Handshake \/ BufferCommand \/ ServeSamples \/ DecNext \/ HubNext

\* The cores run all the time; the host and the data of the stream
\* (DopSwitch) are under no obligation.  A pending interrupt is taken as soon
\* as decouple enables interrupts, so it is strongly fair.
Fairness ==
  /\ WF_vars(Handshake) /\ WF_vars(BufferCommand)
  /\ SF_vars(ServeSamples) /\ WF_vars(DecNext)
  /\ WF_vars(RestartIdle \/ RestartRunning \/ RequestSamples \/ HubCommand \/ DfuCommand)

Spec == Init /\ [][Next]_vars /\ Fairness
-----------------------------------------------------------------------------
StreamCmds == EpCmds \ {NoCmd, "SET_SAMPLE_FREQ"}
Messages == [cmd : {"SET_SAMPLE_FREQ"}, arg : Rates \union {DfuStop}] \union [cmd : StreamCmds, arg : Nat]

Ep0TypeOK ==
  /\ ep0 \in {"idle", "wait"}
  /\ stopsDue \in {<<>>, <<"OUTPUT">>}
  /\ alt \in [Dirs -> Nat]
  /\ curSamFreq \in Rates
  /\ notified \in BOOLEAN /\ suspended \in BOOLEAN
  /\ userState \in [Dirs -> BOOLEAN]
BufTypeOK ==
  /\ flag \in EpCmds /\ ongoing \in EpCmds
  /\ sampFreq \in Rates \union {DfuStop}
  /\ formatChange \in Nat
DecTypeOK ==
  /\ dec \in {"poll", "token", "sync", "ack", "clear"}
  /\ decCmd \in DecCmds
  /\ active \in [Dirs -> BOOLEAN] /\ anyOld \in BOOLEAN
  /\ format \in [Dirs -> Nat]
  /\ decDsd \in {"OFF", "NATIVE"}
HubTypeOK ==
  /\ hub \in {"restart", "run", "xfer", "frame"}
  /\ hubFreq \in Rates \union {DfuStop}
  /\ hubDsd \in {"OFF", "DOP", "NATIVE"}
  /\ hubRes \in Nat
  /\ audioActive \in BOOLEAN /\ firstRun \in BOOLEAN /\ inDfu \in BOOLEAN
  /\ command \in {NoCmd, "SET_SAMPLE_FREQ", "AUDIO_START", "AUDIO_STOP"}
ChannelTypeOK ==
  /\ audCtl \in Seq(Messages) /\ acks \in Nat
  /\ up \in Seq({Token, End}) /\ down \in DecCmds

TypeOK == Ep0TypeOK /\ BufTypeOK /\ DecTypeOK /\ HubTypeOK /\ ChannelTypeOK

(***************************************************************************)
(* Safety.                                                                 *)
(***************************************************************************)
\* No core reads a token of the wrong kind from c_mix_out: the interrupt and
\* the inuint of the main loop find a sample request, the chkct finds an
\* END.  "decouple<->audio channel protocol is observed at startup" is what
\* firstRun is for (xua_audiohub.xc:744).
NoProtocolTrap ==
  up # <<>> => Head(up) = (IF dec = "sync" THEN End ELSE Token)

\* Why it holds: between commands the channel carries the one outstanding
\* request, and nothing but a first run or a DoP switch restarts AudioHub;
\* while decouple waits in chkct the command, or the END AudioHub owes for
\* it, is at exactly one place.
Protocol ==
  /\ dec # "sync" =>
       /\ down = Nothing
       /\ up = (IF hub = "xfer" THEN <<Token>> ELSE <<>>)
       /\ hub = "restart" => firstRun \/ (audioActive /\ command = NoCmd)
  /\ dec = "sync" =>
       \/ hub = "xfer" /\ down # Nothing /\ up = <<>>
       \/ hub = "restart" /\ down = Nothing /\ up = <<>> /\ ~firstRun /\ command # NoCmd
       \/ hub = "run" /\ down = Nothing /\ up = <<End>>
       \/ hub = "xfer" /\ down = Nothing /\ up = <<End, Token>>
  /\ dec \in {"token", "sync"} => decCmd.cmd # NoCmd
  /\ hub # "restart" => ~firstRun

\* A command reaches decouple before the next one is written over it: the
\* flag and its argument globals have one slot for all commands.
CommandNotOverwritten == audCtl # <<>> => flag = NoCmd

\* Why it holds: the request Endpoint0 waits for is at one place, on the
\* channel, in the flag, in the hands of decouple or answered, and there is
\* none while it is idle.  In "clear" the answer has been given.
OneRequestInFlight ==
  /\ ep0 = "idle" => audCtl = <<>> /\ flag = NoCmd /\ dec \in {"poll", "clear"} /\ acks = 0
  /\ audCtl # <<>> => Len(audCtl) = 1 /\ flag = NoCmd /\ dec \in {"poll", "clear"} /\ acks = 0
  /\ flag # NoCmd => dec \in {"poll", "clear"} /\ acks = 0
  /\ dec \in {"token", "sync", "ack"} => acks = 0
  /\ acks <= 1

\* When Endpoint0 goes on after a rate change, AudioHub has restarted at the
\* rate Endpoint0 reports to the host ("we hold off the ACK back to decouple
\* as late as possible so that the control path knows audio is fully ready",
\* xua_audiohub.xc:745).
RateApplied ==
  ep0 = "idle" /\ ~notified =>
    /\ hubFreq = curSamFreq
    /\ sampFreq = curSamFreq
    /\ hub = "restart" => command = NoCmd

\* A DFU request is only served once AudioHub is out of the audio loop for
\* good and consumes commands in dummy_deliver.
DfuOnlyWhenStopped == ep0 = "idle" /\ notified /\ ~BootDfu => inDfu

\* Why they hold: a rate change, or the DFU stop, is on the channel, in the
\* flag or with decouple until AudioHub has taken it, and AudioHub takes it
\* before the handshake goes back.
OnChannel(f) == audCtl # <<>> /\ Head(audCtl) = Message("SET_SAMPLE_FREQ", f)
InFlag(f)    == flag = "SET_SAMPLE_FREQ" /\ sampFreq = f
InHand(f)    == (dec = "token" \/ down # Nothing) /\ decCmd = Message("SET_SAMPLE_FREQ", f)
OnItsWay(f)  == OnChannel(f) \/ InFlag(f) \/ InHand(f)

RateTravels ==
  /\ ~notified =>
       /\ ~inDfu /\ hubFreq \in Rates
       /\ \A f \in Rates \union {DfuStop} : OnItsWay(f) => f = curSamFreq
       /\ hubFreq = curSamFreq \/ OnItsWay(curSamFreq)
       /\ sampFreq = curSamFreq \/ OnChannel(curSamFreq)
  /\ notified => inDfu \/ OnItsWay(DfuStop)
  /\ down # Nothing => down = decCmd
  /\ firstRun => command = NoCmd

\* A stream decouple runs uses the format of the alternate setting the host
\* chose for it, although both directions share the g_formatChange globals.
FormatApplied ==
  ep0 = "idle" => \A d \in Dirs : active[d] /\ alt[d] > 0 => format[d] = alt[d]

\* Why it holds: until decouple has taken the start, the alternate setting is
\* on the channel, or in the global both directions share.
Coming(c) == (audCtl # <<>> /\ Head(audCtl).cmd = c) \/ flag = c

FormatTravels ==
  \A d \in Dirs :
    /\ audCtl # <<>> /\ Head(audCtl).cmd = Start(d) => Head(audCtl).arg = alt[d]
    /\ flag = Start(d) => formatChange = alt[d]
    /\ active[d] /\ alt[d] > 0 => format[d] = alt[d] \/ Coming(Start(d))

\* In the low power build AudioHub is out of its idle loop exactly when
\* decouple has a stream running ("the transition to the low power state will
\* only occur when both input and output interfaces are not streaming",
\* xua_conf_default.h:1696), and a suspend stops both ("Ensure all streams have
\* stopped"), whatever the host left open.
PowerFollowsStreams ==
  ep0 = "idle" /\ ~notified =>
    /\ LowPower => audioActive = (\E d \in Dirs : active[d])
    /\ suspended => \A d \in Dirs : ~active[d]

\* Why they hold: what decouple last signalled AudioHub has heard, or it is in
\* the hands of decouple; and while the bus is suspended no start is on its way,
\* and a stop for each stream that still runs is on its way or due.
InHandEvent == dec = "token" \/ down # Nothing

PowerTravels ==
  /\ anyOld = AnyActive(active)
  /\ InHandEvent => /\ decCmd.cmd = "AUDIO_START" => anyOld
                    /\ decCmd.cmd = "AUDIO_STOP" => ~anyOld
  /\ LowPower /\ ~notified =>
       \/ audioActive = anyOld
       \/ InHandEvent /\ decCmd.cmd = (IF anyOld THEN "AUDIO_START" ELSE "AUDIO_STOP")

StopsTravel ==
  /\ ep0 = "idle" => stopsDue = <<>>
  /\ suspended => /\ \A d \in Dirs : ~Coming(Start(d))
                  /\ active["INPUT"] => Coming("INPUT_STOP")
                  /\ active["OUTPUT"] => Coming("OUTPUT_STOP") \/ stopsDue # <<>>

(***************************************************************************)
(* Liveness.                                                               *)
(***************************************************************************)
\* Nobody waits for ever: Endpoint0 gets out of chkct whatever state AudioHub
\* and the interrupt are in, and AudioHub has its sample request served, or
\* answered with a command.
RequestsAnswered ==
  /\ ep0 = "wait" ~> ep0 = "idle"
  /\ hub = "xfer" /\ down = Nothing ~> hub # "xfer" \/ down # Nothing
=============================================================================
