------------------------ MODULE StreamControl_proofs ------------------------
(***************************************************************************)
(* Proofs about StreamControl for every set of rates and alternate         *)
(* settings and every build: type correctness, that no core traps on the   *)
(* channel between decouple and AudioHub, that no command is written over  *)
(* another, that a change of rate and the stop for DFU have taken effect   *)
(* when Endpoint0 goes on, that a stream runs in the format the host chose *)
(* and that AudioHub runs while a stream does.                             *)
(***************************************************************************)
EXTENDS StreamControl, SequenceTheorems, TLAPS

USE DEF Dirs, NoCmd, Token, End, Message

-----------------------------------------------------------------------------
(***************************************************************************)
(* Type correctness.                                                       *)
(***************************************************************************)
\* The stream commands of Endpoint0.
LEMMA CommandTypes ==
  ASSUME NEW d \in Dirs
  PROVE  /\ Start(d) \in StreamCmds /\ Stop(d) \in StreamCmds
         /\ \A e \in Dirs : Stop(d) # Start(e)
  BY DEF Start, Stop, EpCmds, StreamCmds

\* The messages that go through the channels.
LEMMA MessageTypes ==
  /\ \A f \in Rates \union {DfuStop} : Message("SET_SAMPLE_FREQ", f) \in Messages
  /\ \A c \in StreamCmds, a \in Nat : Message(c, a) \in Messages
  /\ Nothing \in DecCmds
  /\ Message("AUDIO_STOP", 0) \in DecCmds
  /\ \A f \in Rates \union {DfuStop} : Message("SET_SAMPLE_FREQ", f) \in DecCmds
  /\ \A m \in {"OFF", "NATIVE"}, r \in Nat :
       Message("AUDIO_START", [dsd |-> m, res |-> r]) \in DecCmds
  <1>1. \A m \in {"OFF", "NATIVE"}, r \in Nat : [dsd |-> m, res |-> r] \in HubFormats
    BY DEF HubFormats
  <1>2. \A h \in HubFormats : Message("AUDIO_START", h) \in DecCmds
    BY DEF DecCmds
  <1> QED
    BY <1>1, <1>2 DEF Messages, DecCmds, Nothing

\* What AudioHub takes from a command.
LEMMA CommandFields ==
  ASSUME NEW m \in DecCmds
  PROVE  /\ m.cmd \in {NoCmd, "SET_SAMPLE_FREQ", "AUDIO_START", "AUDIO_STOP"}
         /\ m.cmd = "SET_SAMPLE_FREQ" => m.arg \in Rates \union {DfuStop}
         /\ m.cmd = "AUDIO_START" => m.arg.dsd \in {"OFF", "NATIVE"} /\ m.arg.res \in Nat
         /\ m.cmd = NoCmd <=> m = Nothing
  BY DEF DecCmds, HubFormats, Nothing

\* The command lists of the channel from Endpoint0.
LEMMA MessageSequences ==
  /\ <<>> \in Seq(Messages)
  /\ \A m \in Messages : <<m>> \in Seq(Messages)
  /\ \A q \in Seq(Messages), m \in Messages : Append(q, m) \in Seq(Messages)
  /\ \A q \in Seq(Messages) : q # <<>> => Head(q) \in Messages /\ Tail(q) \in Seq(Messages)
  OBVIOUS

\* The token lists of the channel from AudioHub.
LEMMA TokenSequences ==
  /\ <<>> \in Seq({Token, End})
  /\ \A q \in Seq({Token, End}), t \in {Token, End} : Append(q, t) \in Seq({Token, End})
  /\ \A q \in Seq({Token, End}) :
       /\ q \o <<>> \o <<Token>> \in Seq({Token, End})
       /\ q \o <<End>> \o <<Token>> \in Seq({Token, End})
       /\ q \o <<End, Token>> \in Seq({Token, End})
       /\ q \o <<>> \in Seq({Token, End}) /\ q \o <<End>> \in Seq({Token, End})
       /\ q # <<>> => Tail(q) \in Seq({Token, End})
  <1>1. <<>> \in Seq({Token, End}) /\ <<Token>> \in Seq({Token, End})
        /\ <<End>> \in Seq({Token, End}) /\ <<End, Token>> \in Seq({Token, End})
    OBVIOUS
  <1> QED
    BY <1>1

\* The initial state has the types of TypeOK.
LEMMA TypeInit == Init => TypeOK
  <1> SUFFICES ASSUME Init PROVE TypeOK
    OBVIOUS
  <1>1. Ep0TypeOK
    <2>1. notified \in BOOLEAN
      BY FlagsAssumption, Zenon DEF Init
    <2> QED
      BY <2>1, RatesAssumption DEF Init, Ep0TypeOK
  <1>2. BufTypeOK
    BY RatesAssumption DEF Init, BufTypeOK, EpCmds
  <1>3. DecTypeOK
    BY MessageTypes DEF Init, DecTypeOK
  <1>4. HubTypeOK
    <2>1. audioActive \in BOOLEAN
      BY FlagsAssumption, Zenon DEF Init
    <2> QED
      BY <2>1, RatesAssumption DEF Init, HubTypeOK
  <1>5. ChannelTypeOK
    <2>1. audCtl \in Seq(Messages)
      BY MessageTypes, MessageSequences DEF Init
    <2> QED
      BY <2>1, MessageTypes, TokenSequences DEF Init, ChannelTypeOK
  <1> QED
    BY <1>1, <1>2, <1>3, <1>4, <1>5 DEF TypeOK

\* Sending a command keeps the types of Endpoint0's state and channel.
LEMMA SendType ==
  ASSUME TypeOK, NEW c, NEW a, Message(c, a) \in Messages, Send(c, a)
  PROVE  audCtl' \in Seq(Messages) /\ ep0' = "wait"
  BY MessageSequences DEF TypeOK, ChannelTypeOK, Send

\* The actions of Endpoint0 keep its types and those of its channel.
LEMMA Ep0Type ==
  ASSUME TypeOK, HostNext \/ Handshake
  PROVE  TypeOK'
  <1>0. /\ BufTypeOK' /\ DecTypeOK' /\ HubTypeOK'
        /\ up' = up /\ down' = down
    BY DEF TypeOK, HostNext, Handshake, SetInterface, SetSampleRate, DfuRequest, Suspend,
           Resume, BusReset, bufVars, decVars, hubVars, BufTypeOK, DecTypeOK, HubTypeOK
  <1> DEFINE Ok == Ep0TypeOK' /\ audCtl' \in Seq(Messages) /\ acks' \in Nat
  <1>1. ASSUME NEW d \in Dirs, NEW a \in Alts[d] \union {0}, SetInterface(d, a)
        PROVE  Ok
    <2>1. a \in Nat
      BY AltsAssumption
    <2>2. alt' \in [Dirs -> Nat] /\ userState' \in [Dirs -> BOOLEAN]
      BY <1>1, <2>1 DEF TypeOK, Ep0TypeOK, SetInterface, Tell
    <2>3. audCtl' \in Seq(Messages) /\ ep0' = "wait"
      BY <1>1, <2>1, SendType, CommandTypes, MessageTypes DEF SetInterface
    <2> QED
      BY <1>1, <2>2, <2>3 DEF TypeOK, Ep0TypeOK, ChannelTypeOK, SetInterface
  <1>2. ASSUME NEW r \in Rates, SetSampleRate(r)
        PROVE  Ok
    <2>1. audCtl' \in Seq(Messages) /\ ep0' = "wait"
      BY <1>2, SendType, MessageTypes DEF SetSampleRate
    <2> QED
      BY <1>2, <2>1 DEF TypeOK, Ep0TypeOK, ChannelTypeOK, SetSampleRate
  <1>3. ASSUME DfuRequest PROVE Ok
    <2>1. audCtl' \in Seq(Messages) /\ ep0' = "wait"
      BY <1>3, SendType, MessageTypes DEF DfuRequest
    <2> QED
      BY <1>3, <2>1 DEF TypeOK, Ep0TypeOK, ChannelTypeOK, DfuRequest
  <1>4. ASSUME Suspend PROVE Ok
    <2>1. audCtl' \in Seq(Messages) /\ ep0' = "wait"
      BY <1>4, SendType, CommandTypes, MessageTypes DEF Suspend
    <2> QED
      BY <1>4, <2>1 DEF TypeOK, Ep0TypeOK, ChannelTypeOK, Suspend
  <1>5. ASSUME Resume PROVE Ok
    <2>1. userState' \in [Dirs -> BOOLEAN]
      BY <1>5 DEF TypeOK, Ep0TypeOK, Resume, Other
    <2> QED
      BY <1>5, <2>1 DEF TypeOK, Ep0TypeOK, ChannelTypeOK, Resume
  <1>6. ASSUME BusReset PROVE Ok
    <2>1. userState' \in [Dirs -> BOOLEAN] /\ alt' \in [Dirs -> Nat]
      BY <1>6 DEF TypeOK, Ep0TypeOK, BusReset
    <2> QED
      BY <1>6, <2>1 DEF TypeOK, Ep0TypeOK, ChannelTypeOK, BusReset
  <1>7. ASSUME Handshake PROVE Ok
    <2>1. acks' \in Nat
      BY <1>7 DEF TypeOK, ChannelTypeOK, Handshake
    <2>2. CASE stopsDue = <<>>
      BY <1>7, <2>1, <2>2 DEF TypeOK, Ep0TypeOK, ChannelTypeOK, Handshake
    <2>3. CASE stopsDue = <<"OUTPUT">>
      <3>1. Head(stopsDue) = "OUTPUT" /\ Tail(stopsDue) = <<>> /\ stopsDue # <<>>
        BY <2>3
      <3>2. audCtl' \in Seq(Messages) /\ ep0' = "wait"
        BY <1>7, <3>1, SendType, CommandTypes, MessageTypes DEF Handshake
      <3> QED
        BY <1>7, <2>1, <3>1, <3>2 DEF TypeOK, Ep0TypeOK, Handshake
    <2> QED
      BY <2>2, <2>3 DEF TypeOK, Ep0TypeOK
  <1>8. Ok
    BY <1>1, <1>2, <1>3, <1>4, <1>5, <1>6, <1>7 DEF HostNext
  <1> QED
    BY <1>0, <1>8 DEF TypeOK, ChannelTypeOK

\* XUA_Buffer_Ep keeps the types of its globals and of the channel.
LEMMA BufferType ==
  ASSUME TypeOK, BufferCommand
  PROVE  TypeOK'
  <1>0. /\ Ep0TypeOK' /\ DecTypeOK' /\ HubTypeOK'
        /\ acks' = acks /\ up' = up /\ down' = down
    BY DEF TypeOK, BufferCommand, ep0Vars, decVars, hubVars, Ep0TypeOK, DecTypeOK, HubTypeOK
  <1>1. Head(audCtl) \in Messages /\ audCtl' \in Seq(Messages)
    BY MessageSequences DEF TypeOK, ChannelTypeOK, BufferCommand
  <1>2. BufTypeOK'
    BY <1>1, CommandTypes DEF TypeOK, BufTypeOK, BufferCommand, Messages, EpCmds, StreamCmds
  <1> QED
    BY <1>0, <1>1, <1>2 DEF TypeOK, ChannelTypeOK

\* What check_and_signal_stream_event_to_audio prepares has its type.
LEMMA SignalType ==
  ASSUME active' \in [Dirs -> BOOLEAN], format' \in [Dirs -> Nat],
         decDsd' \in {"OFF", "NATIVE"}, SignalStreamEvent
  PROVE  DecTypeOK'
  <1>1. anyOld' \in BOOLEAN /\ dec' \in {"ack", "token"}
    BY DEF SignalStreamEvent, AnyActive
  <1>2. format'["OUTPUT"] \in Nat
    OBVIOUS
  <1>3. decCmd' \in DecCmds
    BY <1>2, MessageTypes DEF SignalStreamEvent, EventCmd
  <1> QED
    BY <1>1, <1>3 DEF DecTypeOK

\* The main loop of decouple keeps every type.
LEMMA DecType ==
  ASSUME TypeOK, DecNext
  PROVE  TypeOK'
  <1>0. /\ Ep0TypeOK' /\ HubTypeOK' /\ audCtl' = audCtl
    BY DEF TypeOK, DecNext, TakeSampleFreq, TakeStart, TakeStop, ForwardCommand, TakeEnd,
           AckEndpoint0, ClearOngoing, ep0Vars, hubVars, Ep0TypeOK, HubTypeOK
  <1> DEFINE Ok == BufTypeOK' /\ DecTypeOK' /\ acks' \in Nat /\ up' \in Seq({Token, End})
                     /\ down' \in DecCmds
  <1>1. ASSUME TakeSampleFreq PROVE Ok
    <2>1. decCmd' \in DecCmds /\ flag' \in EpCmds
      BY <1>1, MessageTypes DEF TakeSampleFreq, TypeOK, BufTypeOK, EpCmds
    <2> QED
      BY <1>1, <2>1 DEF TypeOK, BufTypeOK, DecTypeOK, ChannelTypeOK, TakeSampleFreq
  <1>2. ASSUME NEW d \in Dirs, TakeStart(d) PROVE Ok
    <2>1. /\ active' \in [Dirs -> BOOLEAN] /\ format' \in [Dirs -> Nat]
          /\ decDsd' \in {"OFF", "NATIVE"}
      BY <1>2 DEF TakeStart, NewFormat, TypeOK, BufTypeOK, DecTypeOK
    <2>2. DecTypeOK'
      BY <1>2, <2>1, SignalType DEF TakeStart
    <2>3. BufTypeOK'
      BY <1>2 DEF TakeStart, TypeOK, BufTypeOK, EpCmds
    <2> QED
      BY <1>2, <2>2, <2>3 DEF TypeOK, ChannelTypeOK, TakeStart
  <1>3. ASSUME NEW d \in Dirs, TakeStop(d) PROVE Ok
    <2>1. /\ active' \in [Dirs -> BOOLEAN] /\ format' \in [Dirs -> Nat]
          /\ decDsd' \in {"OFF", "NATIVE"}
      BY <1>3 DEF TakeStop, TypeOK, DecTypeOK
    <2>2. DecTypeOK'
      BY <1>3, <2>1, SignalType DEF TakeStop
    <2>3. BufTypeOK'
      BY <1>3 DEF TakeStop, TypeOK, BufTypeOK, EpCmds
    <2> QED
      BY <1>3, <2>2, <2>3 DEF TypeOK, ChannelTypeOK, TakeStop
  <1>4. ASSUME ForwardCommand PROVE Ok
    <2>1. BufTypeOK' /\ DecTypeOK'
      BY <1>4 DEF TypeOK, BufTypeOK, DecTypeOK, ForwardCommand, bufVars
    <2> QED
      BY <1>4, <2>1, TokenSequences DEF TypeOK, ChannelTypeOK, DecTypeOK, ForwardCommand
  <1>5. ASSUME TakeEnd PROVE Ok
    <2>1. BufTypeOK' /\ DecTypeOK'
      BY <1>5 DEF TypeOK, BufTypeOK, DecTypeOK, TakeEnd, bufVars
    <2> QED
      BY <1>5, <2>1, TokenSequences DEF TypeOK, ChannelTypeOK, TakeEnd
  <1>6. ASSUME AckEndpoint0 PROVE Ok
    <2>1. BufTypeOK' /\ DecTypeOK'
      BY <1>6 DEF TypeOK, BufTypeOK, DecTypeOK, AckEndpoint0, bufVars
    <2> QED
      BY <1>6, <2>1 DEF TypeOK, ChannelTypeOK, AckEndpoint0
  <1>7. ASSUME ClearOngoing PROVE Ok
    <2>1. BufTypeOK' /\ DecTypeOK'
      BY <1>7, MessageTypes DEF TypeOK, BufTypeOK, DecTypeOK, ClearOngoing, EpCmds
    <2> QED
      BY <1>7, <2>1 DEF TypeOK, ChannelTypeOK, ClearOngoing
  <1>8. Ok
    BY <1>1, <1>2, <1>3, <1>4, <1>5, <1>6, <1>7 DEF DecNext
  <1> QED
    BY <1>0, <1>8 DEF TypeOK, ChannelTypeOK

\* AudioHub, and the interrupt that serves it, keep every type.
LEMMA HubType ==
  ASSUME TypeOK, HubNext \/ ServeSamples
  PROVE  TypeOK'
  <1>0. UNCHANGED <<ep0Vars, audCtl, acks, bufVars, decVars>>
    BY DEF HubNext, ServeSamples, RestartIdle, RestartRunning, RequestSamples,
           HubCommand, DfuCommand, DopSwitch
  <1>a. Ep0TypeOK' /\ BufTypeOK' /\ DecTypeOK' /\ audCtl' = audCtl /\ acks' = acks
    BY <1>0 DEF TypeOK, ep0Vars, bufVars, decVars, Ep0TypeOK, BufTypeOK, DecTypeOK
  <1> DEFINE Ok == HubTypeOK' /\ up' \in Seq({Token, End}) /\ down' \in DecCmds
  <1>1. ASSUME RestartIdle PROVE Ok
    <2>1. up' \in Seq({Token, End})
      BY <1>1, TokenSequences DEF TypeOK, ChannelTypeOK, RestartIdle, EndOwed
    <2> QED
      BY <1>1, <2>1 DEF TypeOK, ChannelTypeOK, HubTypeOK, RestartIdle
  <1>2. ASSUME RestartRunning PROVE Ok
    <2>1. up' \in Seq({Token, End})
      BY <1>2, TokenSequences DEF TypeOK, ChannelTypeOK, RestartRunning, EndOwed
    <2> QED
      BY <1>2, <2>1 DEF TypeOK, ChannelTypeOK, HubTypeOK, RestartRunning
  <1>3. ASSUME RequestSamples PROVE Ok
    <2>1. up' \in Seq({Token, End})
      BY <1>3, TokenSequences DEF TypeOK, ChannelTypeOK, RequestSamples
    <2> QED
      BY <1>3, <2>1 DEF TypeOK, ChannelTypeOK, HubTypeOK, RequestSamples
  <1>4. ASSUME HubCommand PROVE Ok
    <2>1. down \in DecCmds
      BY DEF TypeOK, ChannelTypeOK
    <2>2. /\ command' \in {NoCmd, "SET_SAMPLE_FREQ", "AUDIO_START", "AUDIO_STOP"}
          /\ hubFreq' \in Rates \union {DfuStop}
          /\ hubRes' \in Nat
          /\ hubDsd' \in {"OFF", "DOP", "NATIVE"}
      BY <1>4, <2>1, CommandFields DEF TypeOK, HubTypeOK, HubCommand
    <2>3. audioActive' \in BOOLEAN /\ inDfu' \in BOOLEAN /\ firstRun' = firstRun
      BY <1>4, Zenon DEF HubCommand
    <2>4. /\ hub' \in {"restart", "xfer"} /\ down' \in DecCmds
          /\ up' \in Seq({Token, End})
      BY <1>4, TokenSequences, MessageTypes DEF TypeOK, ChannelTypeOK, HubCommand
    <2> QED
      BY <2>2, <2>3, <2>4 DEF TypeOK, HubTypeOK
  <1>5. ASSUME DfuCommand PROVE Ok
    <2>1. HubTypeOK'
      BY <1>5 DEF TypeOK, HubTypeOK, DfuCommand, hubVars
    <2> QED
      BY <1>5, <2>1, TokenSequences, MessageTypes DEF TypeOK, ChannelTypeOK, DfuCommand
  <1>6. ASSUME DopSwitch PROVE Ok
    BY <1>6 DEF TypeOK, ChannelTypeOK, HubTypeOK, DopSwitch
  <1>7. ASSUME ServeSamples PROVE Ok
    <2>1. up' \in Seq({Token, End})
      BY <1>7, TokenSequences DEF TypeOK, ChannelTypeOK, ServeSamples
    <2> QED
      BY <1>7, <2>1 DEF TypeOK, ChannelTypeOK, HubTypeOK, ServeSamples
  <1>8. Ok
    BY <1>1, <1>2, <1>3, <1>4, <1>5, <1>6, <1>7 DEF HubNext
  <1> QED
    BY <1>a, <1>8 DEF TypeOK, ChannelTypeOK

\* Every step keeps every type.
LEMMA TypeNext == TypeOK /\ [Next]_vars => TypeOK'
  <1> SUFFICES ASSUME TypeOK, [Next]_vars PROVE TypeOK'
    OBVIOUS
  <1>1. CASE Next
    BY <1>1, Ep0Type, BufferType, DecType, HubType DEF Next
  <1>2. CASE UNCHANGED vars
    BY <1>2 DEF vars, ep0Vars, bufVars, decVars, hubVars, TypeOK, Ep0TypeOK, BufTypeOK,
                DecTypeOK, HubTypeOK, ChannelTypeOK
  <1> QED
    BY <1>1, <1>2

\* The state of Endpoint0, decouple, AudioHub and their channels has its type
\* in every execution.
THEOREM TypeCorrect == Spec => []TypeOK
  BY TypeInit, TypeNext, PTL DEF Spec

-----------------------------------------------------------------------------
(***************************************************************************)
(* The protocol between decouple and AudioHub.  NoProtocolTrap says only    *)
(* what is at the head of the channel; Protocol adds where the outstanding *)
(* request, command and END are, and which restarts owe an END.            *)
(***************************************************************************)
\* The contents the channel from AudioHub can have.
LEMMA UpContents ==
  /\ Token # End
  /\ <<Token>> # <<>> /\ <<End>> # <<>> /\ <<End, Token>> # <<>>
  /\ Head(<<Token>>) = Token /\ Tail(<<Token>>) = <<>>
  /\ Head(<<End>>) = End /\ Tail(<<End>>) = <<>>
  /\ Head(<<End, Token>>) = End /\ Tail(<<End, Token>>) = <<Token>>
  /\ Append(<<>>, Token) = <<Token>> /\ Append(<<>>, End) = <<End>>
  /\ Append(<<End>>, Token) = <<End, Token>>
  /\ <<>> \o <<>> \o <<Token>> = <<Token>>
  /\ <<>> \o <<End>> \o <<Token>> = <<End, Token>>
  /\ <<>> \o <<End, Token>> = <<End, Token>>
  /\ <<>> \o <<>> = <<>> /\ <<>> \o <<End>> = <<End>>
  <1>1. \A s \in Seq({Token, End}) : <<>> \o s = s
    OBVIOUS
  <1>2. /\ <<>> \in Seq({Token, End}) /\ <<Token>> \in Seq({Token, End})
        /\ <<End>> \in Seq({Token, End}) /\ <<End, Token>> \in Seq({Token, End})
    OBVIOUS
  <1>3. Append(<<>>, Token) = <<Token>> /\ Append(<<>>, End) = <<End>>
    OBVIOUS
  <1>4. Append(<<End>>, Token) = <<End, Token>>
    <2>1. /\ Append(<<End>>, Token) \in Seq({Token, End})
          /\ Len(Append(<<End>>, Token)) = 2
          /\ Append(<<End>>, Token)[1] = End /\ Append(<<End>>, Token)[2] = Token
      BY <1>2, AppendProperties
    <2>2. /\ Len(<<End, Token>>) = 2
          /\ <<End, Token>>[1] = End /\ <<End, Token>>[2] = Token
      OBVIOUS
    <2>3. \A i \in 1 .. 2 : Append(<<End>>, Token)[i] = <<End, Token>>[i]
      BY <2>1, <2>2
    <2> QED
      BY <1>2, <2>1, <2>2, <2>3, SeqEqual
  <1>5. /\ Head(<<Token>>) = Token /\ Tail(<<Token>>) = <<>>
        /\ Head(<<End>>) = End /\ Tail(<<End>>) = <<>>
        /\ Head(<<End, Token>>) = End /\ Tail(<<End, Token>>) = <<Token>>
    OBVIOUS
  <1>6. Token # End /\ <<Token>> # <<>> /\ <<End>> # <<>> /\ <<End, Token>> # <<>>
    OBVIOUS
  <1>7. /\ <<>> \o <<>> \o <<Token>> = <<Token>>
        /\ <<>> \o <<End>> \o <<Token>> = <<End, Token>>
        /\ <<>> \o <<End, Token>> = <<End, Token>>
        /\ <<>> \o <<>> = <<>> /\ <<>> \o <<End>> = <<End>>
    BY <1>1, <1>2, <1>4, AppendIsConcat
  <1> QED
    BY <1>3, <1>4, <1>5, <1>6, <1>7

\* The initial state keeps to the protocol: AudioHub owes no END on its
\* first run.
LEMMA ProtocolInit == Init => Protocol
  BY DEF Init, Protocol, Nothing

\* The steps of decouple keep to the protocol.
LEMMA ProtocolDec ==
  ASSUME TypeOK, Protocol, DecNext \/ ServeSamples
  PROVE  Protocol'
  <1> DEFINE HubSame == /\ hub' = hub /\ audioActive' = audioActive /\ firstRun' = firstRun
                        /\ command' = command
  <1>0. DecNext => HubSame
    BY Zenon DEF DecNext, TakeSampleFreq, TakeStart, TakeStop, ForwardCommand, TakeEnd, AckEndpoint0,
           ClearOngoing, hubVars
  <1>1. ASSUME TakeSampleFreq PROVE Protocol'
    <2>1. /\ dec = "poll" /\ dec' = "token" /\ decCmd'.cmd # NoCmd
          /\ up' = up /\ down' = down /\ HubSame
      BY <1>1, <1>0 DEF TakeSampleFreq, DecNext
    <2> QED
      BY <2>1 DEF Protocol
  <1>2. ASSUME NEW d \in Dirs, TakeStart(d) \/ TakeStop(d) PROVE Protocol'
    <2>1. /\ dec = "poll" /\ up' = up /\ down' = down /\ HubSame
          /\ SignalStreamEvent
      BY <1>2, <1>0 DEF TakeStart, TakeStop, DecNext
    <2>2. dec' \in {"ack", "token"} /\ (dec' = "token" => decCmd'.cmd # NoCmd)
      BY <2>1 DEF SignalStreamEvent, EventCmd
    <2> QED
      BY <2>1, <2>2 DEF Protocol
  <1>3. ASSUME ForwardCommand PROVE Protocol'
    <2>1. /\ dec = "token" /\ up = <<Token>> /\ hub = "xfer" /\ decCmd.cmd # NoCmd
      BY <1>3, UpContents DEF ForwardCommand, Protocol
    <2>2. decCmd # Nothing
      BY <2>1, CommandFields DEF TypeOK, DecTypeOK
    <2>3. /\ dec' = "sync" /\ up' = <<>> /\ down' = decCmd /\ decCmd' = decCmd /\ HubSame
      BY <1>3, <1>0, <2>1, UpContents DEF ForwardCommand, DecNext
    <2> QED
      BY <2>1, <2>2, <2>3 DEF Protocol
  <1>4. ASSUME TakeEnd PROVE Protocol'
    <2>1. /\ dec = "sync" /\ dec' = "ack" /\ up # <<>> /\ Head(up) = End /\ up' = Tail(up)
          /\ down' = down /\ HubSame
      BY <1>4, <1>0 DEF TakeEnd, DecNext
    <2>2. CASE hub = "run" /\ down = Nothing /\ up = <<End>>
      BY <2>1, <2>2, UpContents DEF Protocol
    <2>3. CASE hub = "xfer" /\ down = Nothing /\ up = <<End, Token>>
      BY <2>1, <2>3, UpContents DEF Protocol
    <2> QED
      BY <2>1, <2>2, <2>3 DEF Protocol
  <1>5. ASSUME AckEndpoint0 PROVE Protocol'
    <2>1. dec = "ack" /\ dec' = "clear" /\ up' = up /\ down' = down /\ HubSame
      BY <1>5, <1>0 DEF AckEndpoint0, DecNext
    <2> QED
      BY <2>1 DEF Protocol
  <1>6. ASSUME ClearOngoing PROVE Protocol'
    <2>1. dec = "clear" /\ dec' = "poll" /\ up' = up /\ down' = down /\ HubSame
      BY <1>6, <1>0 DEF ClearOngoing, DecNext
    <2> QED
      BY <2>1 DEF Protocol
  <1>7. ASSUME ServeSamples PROVE Protocol'
    <2>1. /\ dec = "poll" /\ dec' = dec /\ hub = "xfer" /\ hub' = "frame"
          /\ up' = Tail(up) /\ down' = down /\ firstRun' = firstRun
      BY <1>7, Zenon DEF ServeSamples, decVars
    <2>2. up = <<Token>> /\ down = Nothing /\ (firstRun <=> FALSE)
      BY <2>1 DEF Protocol
    <2> QED
      BY <2>1, <2>2, UpContents DEF Protocol
  <1> QED
    BY <1>1, <1>2, <1>3, <1>4, <1>5, <1>6, <1>7 DEF DecNext

\* The steps of AudioHub keep to the protocol.
LEMMA ProtocolHub ==
  ASSUME TypeOK, Protocol, HubNext
  PROVE  Protocol'
  <1>0. dec' = dec /\ decCmd' = decCmd
    BY DEF HubNext, RestartIdle, RestartRunning, RequestSamples, HubCommand, DfuCommand,
           DopSwitch, decVars
  <1>1. ASSUME RestartIdle PROVE Protocol'
    <2>1. hub = "restart" /\ ~audioActive /\ hub' = "xfer" /\ ~firstRun' /\ down' = down
      BY <1>1, Zenon DEF RestartIdle
    <2>2. CASE dec = "sync"
      <3>1. up = <<>> /\ down = Nothing /\ ~firstRun
        BY <2>1, <2>2 DEF Protocol
      <3>2. up' = <<End, Token>>
        BY <1>1, <3>1, UpContents DEF RestartIdle, EndOwed
      <3> QED
        BY <1>0, <2>1, <2>2, <3>1, <3>2 DEF Protocol
    <2>3. CASE dec # "sync"
      <3>1. up = <<>> /\ down = Nothing /\ firstRun
        BY <2>1, <2>3 DEF Protocol
      <3>2. up' = <<Token>>
        BY <1>1, <3>1, UpContents DEF RestartIdle, EndOwed
      <3> QED
        BY <1>0, <2>1, <2>3, <3>1, <3>2 DEF Protocol
    <2> QED
      BY <2>2, <2>3
  <1>2. ASSUME RestartRunning PROVE Protocol'
    <2>1. hub = "restart" /\ audioActive /\ hub' = "run" /\ ~firstRun' /\ down' = down
      BY <1>2, Zenon DEF RestartRunning
    <2>2. CASE dec = "sync"
      <3>1. up = <<>> /\ down = Nothing /\ ~firstRun /\ command # NoCmd
        BY <2>1, <2>2 DEF Protocol
      <3>2. up' = <<End>>
        BY <1>2, <3>1, UpContents DEF RestartRunning, EndOwed
      <3> QED
        BY <1>0, <2>1, <2>2, <3>1, <3>2 DEF Protocol
    <2>3. CASE dec # "sync"
      <3>1. up = <<>> /\ down = Nothing /\ (firstRun \/ command = NoCmd)
        BY <2>1, <2>3 DEF Protocol
      <3>2. up' = <<>>
        BY <1>2, <3>1, UpContents DEF RestartRunning, EndOwed
      <3> QED
        BY <1>0, <2>1, <2>3, <3>1, <3>2 DEF Protocol
    <2> QED
      BY <2>2, <2>3
  <1>3. ASSUME RequestSamples PROVE Protocol'
    <2>1. /\ hub \in {"run", "frame"} /\ hub' = "xfer" /\ up' = Append(up, Token)
          /\ down' = down /\ (firstRun' <=> firstRun)
      BY <1>3, Zenon DEF RequestSamples
    <2>2. ~firstRun /\ down = Nothing
      BY <2>1 DEF Protocol
    <2>3. up' = (IF dec = "sync" THEN <<End, Token>> ELSE <<Token>>)
      BY <2>1, UpContents DEF Protocol
    <2> QED
      BY <1>0, <2>1, <2>2, <2>3 DEF Protocol
  <1>4. ASSUME HubCommand PROVE Protocol'
    <2>1. /\ hub = "xfer" /\ down # Nothing /\ down' = Nothing /\ command' = down.cmd
          /\ (firstRun' <=> firstRun)
      BY <1>4, Zenon DEF HubCommand
    <2>2. dec = "sync" /\ up = <<>> /\ ~firstRun
      BY <2>1 DEF Protocol
    <2>3. command' # NoCmd
      BY <2>1, CommandFields DEF TypeOK, ChannelTypeOK
    <2>4. \/ hub' = "xfer" /\ up' = <<End, Token>>
          \/ hub' = "restart" /\ up' = <<>>
      BY <1>4, <2>2, UpContents DEF HubCommand
    <2> QED
      BY <1>0, <2>1, <2>2, <2>3, <2>4 DEF Protocol
  <1>5. ASSUME DfuCommand PROVE Protocol'
    <2>1. /\ hub = "xfer" /\ hub' = "xfer" /\ down # Nothing /\ down' = Nothing
          /\ up' = up \o <<End, Token>> /\ (firstRun' <=> firstRun)
      BY <1>5, Zenon DEF DfuCommand, hubVars
    <2>2. dec = "sync" /\ up = <<>> /\ ~firstRun
      BY <2>1 DEF Protocol
    <2> QED
      BY <1>0, <2>1, <2>2, UpContents DEF Protocol
  <1>6. ASSUME DopSwitch PROVE Protocol'
    <2>1. /\ hub = "frame" /\ hub' = "restart" /\ audioActive /\ (audioActive' <=> audioActive)
          /\ command' = NoCmd /\ up' = up /\ down' = down
      BY <1>6, Zenon DEF DopSwitch
    <2> QED
      BY <1>0, <2>1 DEF Protocol
  <1> QED
    BY <1>1, <1>2, <1>3, <1>4, <1>5, <1>6 DEF HubNext

\* Protocol is inductive.
LEMMA ProtocolNext == TypeOK /\ Protocol /\ [Next]_vars => Protocol'
  <1> SUFFICES ASSUME TypeOK, Protocol, [Next]_vars PROVE Protocol'
    OBVIOUS
  <1>1. ASSUME HostNext \/ Handshake \/ BufferCommand \/ UNCHANGED vars PROVE Protocol'
    <2>1. UNCHANGED <<decVars, up, down, hubVars>>
      BY <1>1, Zenon DEF HostNext, Handshake, BufferCommand, SetInterface, SetSampleRate, DfuRequest,
               Suspend, Resume, BusReset, vars
    <2> QED
      BY <2>1 DEF Protocol, decVars, hubVars
  <1> QED
    BY <1>1, ProtocolDec, ProtocolHub DEF Next

\* No core traps on the channel between decouple and AudioHub, for every set
\* of rates and formats, low power or not, started in DFU mode or not.
THEOREM NeverTraps == Spec => []NoProtocolTrap
  <1>1. Protocol => NoProtocolTrap
    BY UpContents DEF Protocol, NoProtocolTrap
  <1> QED
    BY <1>1, TypeInit, TypeNext, ProtocolInit, ProtocolNext, PTL DEF Spec

-----------------------------------------------------------------------------
(***************************************************************************)
(* One command at a time.  The flag and its argument globals have room for *)
(* one command; what keeps the next one away is the handshake, so the      *)
(* invariant follows the one request through channel, flag, decouple and   *)
(* answer.  A device started in DFU mode sends a command Endpoint0 does    *)
(* not wait for, and is excluded.                                          *)
(***************************************************************************)
\* A channel one message was sent on.
LEMMA OneMessage ==
  ASSUME NEW m
  PROVE  Len(Append(<<>>, m)) = 1 /\ Append(<<>>, m) # <<>> /\ Tail(<<m>>) = <<>>
  OBVIOUS

\* Initially nothing is requested.
LEMMA OneRequestInit == Init /\ ~BootDfu => OneRequestInFlight
  BY DEF Init, OneRequestInFlight

\* OneRequestInFlight is inductive.
LEMMA OneRequestNext == TypeOK /\ OneRequestInFlight /\ [Next]_vars => OneRequestInFlight'
  <1> SUFFICES ASSUME TypeOK, OneRequestInFlight, [Next]_vars PROVE OneRequestInFlight'
    OBVIOUS
  <1> DEFINE Idle == audCtl = <<>> /\ flag = NoCmd /\ dec \in {"poll", "clear"} /\ acks = 0
             Sent(m) == /\ ep0' = "wait" /\ audCtl' = Append(<<>>, m)
                        /\ flag' = flag /\ dec' = dec /\ acks' = acks
  <1>1. ASSUME HostNext PROVE OneRequestInFlight'
    <2>1. ep0 = "idle" /\ Idle
      BY <1>1, Zenon DEF HostNext, SetInterface, SetSampleRate, DfuRequest, Suspend, Resume, BusReset,
               OneRequestInFlight
    <2>2. \/ \E c, a : Send(c, a)
          \/ ep0' = ep0 /\ audCtl' = audCtl
      BY <1>1 DEF HostNext, SetInterface, SetSampleRate, DfuRequest, Suspend, Resume, BusReset
    <2>3. flag' = flag /\ dec' = dec /\ acks' = acks
      BY <1>1, Zenon DEF HostNext, SetInterface, SetSampleRate, DfuRequest, Suspend, Resume, BusReset,
               bufVars, decVars
    <2>4. (\E m : Sent(m)) \/ (ep0' = ep0 /\ audCtl' = audCtl)
      BY <2>1, <2>2, <2>3 DEF Send
    <2> QED
      BY <2>1, <2>3, <2>4, OneMessage DEF OneRequestInFlight
  <1>2. ASSUME Handshake PROVE OneRequestInFlight'
    <2>1. /\ ep0 = "wait" /\ acks = 1 /\ acks' = 0
      BY <1>2 DEF Handshake, OneRequestInFlight, TypeOK, ChannelTypeOK
    <2>2. audCtl = <<>> /\ flag = NoCmd /\ dec \in {"poll", "clear"}
      BY <2>1 DEF OneRequestInFlight, TypeOK, DecTypeOK
    <2>3. flag' = flag /\ dec' = dec
      BY <1>2, Zenon DEF Handshake, bufVars, decVars
    <2>4. \/ audCtl' = <<>>
          \/ ep0' = "wait" /\ \E m : audCtl' = Append(<<>>, m)
      BY <1>2, <2>2 DEF Handshake, Send
    <2> QED
      BY <2>1, <2>2, <2>3, <2>4, OneMessage DEF OneRequestInFlight
  <1>3. ASSUME BufferCommand PROVE OneRequestInFlight'
    <2>1. /\ audCtl # <<>> /\ audCtl' = Tail(audCtl)
          /\ ep0' = ep0 /\ dec' = dec /\ acks' = acks
      BY <1>3, Zenon DEF BufferCommand, ep0Vars, decVars
    <2>2. Len(audCtl) = 1 /\ dec \in {"poll", "clear"} /\ acks = 0 /\ ep0 # "idle"
      BY <2>1 DEF OneRequestInFlight
    <2>3. audCtl' = <<>>
      BY <2>1, <2>2 DEF TypeOK, ChannelTypeOK
    <2> QED
      BY <2>1, <2>2, <2>3 DEF OneRequestInFlight
  <1>4. ASSUME HubNext \/ ServeSamples \/ UNCHANGED vars PROVE OneRequestInFlight'
    <2>1. UNCHANGED <<ep0, audCtl, acks, flag, dec>>
      BY <1>4, Zenon DEF HubNext, ServeSamples, RestartIdle, RestartRunning, RequestSamples,
               HubCommand, DfuCommand, DopSwitch, vars, ep0Vars, bufVars, decVars
    <2> QED
      BY <2>1 DEF OneRequestInFlight
  <1>5. ASSUME TakeSampleFreq \/ \E d \in Dirs : TakeStart(d) \/ TakeStop(d)
        PROVE  OneRequestInFlight'
    <2>1. /\ flag # NoCmd /\ flag' = NoCmd /\ dec' \in {"token", "ack"}
          /\ ep0' = ep0 /\ audCtl' = audCtl /\ acks' = acks
      BY <1>5 DEF TakeSampleFreq, TakeStart, TakeStop, SignalStreamEvent, Start, Stop, ep0Vars
    <2>2. ep0 # "idle" /\ audCtl = <<>> /\ acks = 0
      BY <2>1 DEF OneRequestInFlight
    <2> QED
      BY <2>1, <2>2 DEF OneRequestInFlight
  <1>6. ASSUME ForwardCommand \/ TakeEnd PROVE OneRequestInFlight'
    <2>1. /\ dec \in {"token", "sync"} /\ dec' \in {"sync", "ack"}
          /\ ep0' = ep0 /\ audCtl' = audCtl /\ acks' = acks /\ flag' = flag
      BY <1>6, Zenon DEF ForwardCommand, TakeEnd, ep0Vars, bufVars
    <2> QED
      BY <2>1 DEF OneRequestInFlight
  <1>7. ASSUME AckEndpoint0 PROVE OneRequestInFlight'
    <2>1. /\ dec = "ack" /\ dec' = "clear" /\ acks' = acks + 1
          /\ ep0' = ep0 /\ audCtl' = audCtl /\ flag' = flag
      BY <1>7, Zenon DEF AckEndpoint0, ep0Vars, bufVars
    <2>2. ep0 # "idle" /\ audCtl = <<>> /\ flag = NoCmd /\ acks = 0
      BY <2>1 DEF OneRequestInFlight
    <2> QED
      BY <2>1, <2>2 DEF OneRequestInFlight
  <1>8. ASSUME ClearOngoing PROVE OneRequestInFlight'
    <2>1. /\ dec = "clear" /\ dec' = "poll"
          /\ ep0' = ep0 /\ audCtl' = audCtl /\ acks' = acks /\ flag' = flag
      BY <1>8, Zenon DEF ClearOngoing, ep0Vars
    <2> QED
      BY <2>1 DEF OneRequestInFlight
  <1> QED
    BY <1>1, <1>2, <1>3, <1>4, <1>5, <1>6, <1>7, <1>8 DEF Next, DecNext

\* Every command reaches decouple before another one is written over it.
THEOREM NeverOverwritten ==
  ASSUME ~BootDfu
  PROVE  Spec => []CommandNotOverwritten
  <1>1. OneRequestInFlight => CommandNotOverwritten
    BY DEF OneRequestInFlight, CommandNotOverwritten
  <1>2. Init => OneRequestInFlight
    BY OneRequestInit
  <1> QED
    BY <1>1, <1>2, TypeInit, TypeNext, OneRequestNext, PTL DEF Spec

-----------------------------------------------------------------------------
(***************************************************************************)
(* Rate changes and the DFU stop take effect before they are answered.     *)
(***************************************************************************)
USE DEF OnChannel, InFlag, InHand, OnItsWay

\* At first nothing is on its way.
LEMMA TravelInit == Init /\ ~BootDfu => RateTravels
  <1>1. Init /\ ~BootDfu => \A f : ~OnItsWay(f)
    BY DEF Init
  <1> QED
    BY <1>1, RatesAssumption DEF Init, RateTravels

\* While Endpoint0 is idle nothing is on its way.
LEMMA IdleTravel ==
  ASSUME Protocol, OneRequestInFlight, ep0 = "idle"
  PROVE  down = Nothing /\ dec # "token" /\ \A f : ~OnItsWay(f)
  BY DEF Protocol, OneRequestInFlight

\* A command other than a rate change moves no rate.
LEMMA OtherTravel ==
  ASSUME RateTravels, \A f : ~OnItsWay(f), down = Nothing, dec # "token",
         UNCHANGED <<curSamFreq, notified, flag, sampFreq, dec, decCmd, down, hubVars>>,
         \/ audCtl' = <<>>
         \/ \E c, a : c # "SET_SAMPLE_FREQ" /\ audCtl' = Append(<<>>, Message(c, a))
  PROVE  RateTravels'
  <1>1. \A f : ~OnItsWay(f)'
    <2>1. \A f : ~OnChannel(f)'
      BY OneMessage
    <2> QED
      BY <2>1
  <1>2. UNCHANGED <<inDfu, hubFreq, firstRun, command>>
    BY Zenon DEF hubVars
  <1> QED
    BY <1>1, <1>2 DEF RateTravels

\* The requests of the host, and the handshake a suspend goes on from.
LEMMA TravelHost ==
  ASSUME TypeOK, Protocol, OneRequestInFlight, RateTravels, HostNext
  PROVE  RateTravels'
  <1>0. ep0 = "idle"
    BY Zenon DEF HostNext, SetInterface, SetSampleRate, DfuRequest, Suspend, Resume, BusReset
  <1>1. down = Nothing /\ dec # "token" /\ (\A f : ~OnItsWay(f)) /\ audCtl = <<>> /\ flag = NoCmd
    BY <1>0, IdleTravel DEF OneRequestInFlight
  <1>2. UNCHANGED <<flag, sampFreq, dec, decCmd, down, inDfu, hubFreq, firstRun, command, hubVars>>
    BY Zenon DEF HostNext, SetInterface, SetSampleRate, DfuRequest, Suspend, Resume, BusReset,
           bufVars, decVars, hubVars
  <1>3. ASSUME NEW r \in Rates, SetSampleRate(r) PROVE RateTravels'
    <2>1. curSamFreq' = r /\ notified' = notified
          /\ audCtl' = Append(<<>>, Message("SET_SAMPLE_FREQ", r))
      BY <1>1, <1>3 DEF SetSampleRate, Send
    <2>2. \A f : OnItsWay(f)' <=> f = r
      BY <1>1, <1>2, <2>1, OneMessage
    <2> QED
      BY <1>1, <1>2, <2>1, <2>2 DEF RateTravels
  <1>4. ASSUME DfuRequest PROVE RateTravels'
    <2>1. notified' = TRUE /\ audCtl' = Append(<<>>, Message("SET_SAMPLE_FREQ", DfuStop))
      BY <1>1, <1>4 DEF DfuRequest, Send
    <2>2. OnItsWay(DfuStop)'
      BY <2>1, OneMessage
    <2> QED
      BY <1>2, <2>1, <2>2 DEF RateTravels
  <1>5. ASSUME \/ \E d \in Dirs : \E a \in Alts[d] \union {0} : SetInterface(d, a)
               \/ Suspend \/ Resume \/ BusReset
        PROVE  RateTravels'
    <2>1. UNCHANGED <<curSamFreq, notified>>
      BY <1>5, Zenon DEF SetInterface, Suspend, Resume, BusReset
    <2>2. audCtl' = audCtl \/ \E d \in Dirs : \E a : Send(Start(d), a) \/ Send(Stop(d), a)
      BY <1>5 DEF SetInterface, Suspend, Resume, BusReset
    <2>3. \/ audCtl' = <<>>
          \/ \E c, a : c # "SET_SAMPLE_FREQ" /\ audCtl' = Append(<<>>, Message(c, a))
      BY <1>1, <2>2 DEF Send, Start, Stop
    <2> QED
      BY <1>1, <1>2, <2>1, <2>3, OtherTravel
  <1> QED
    BY <1>3, <1>4, <1>5 DEF HostNext

LEMMA TravelHandshake ==
  ASSUME TypeOK, Protocol, OneRequestInFlight, RateTravels, Handshake
  PROVE  RateTravels'
  <1>1. acks > 0 /\ UNCHANGED <<curSamFreq, notified, flag, sampFreq, dec, decCmd, down, hubVars>>
    BY Zenon DEF Handshake, bufVars, decVars
  <1>2. audCtl = <<>> /\ flag = NoCmd /\ dec \in {"poll", "clear"}
    BY <1>1 DEF OneRequestInFlight, TypeOK, ChannelTypeOK, DecTypeOK
  <1>3. down = Nothing /\ \A f : ~OnItsWay(f)
    BY <1>2 DEF Protocol
  <1>4. \/ audCtl' = <<>>
        \/ \E c, a : c # "SET_SAMPLE_FREQ" /\ audCtl' = Append(<<>>, Message(c, a))
    BY <1>2 DEF Handshake, Send, Stop
  <1> QED
    BY <1>1, <1>2, <1>3, <1>4, OtherTravel

\* XUA_Buffer_Ep hands the rate from the channel to the flag.
LEMMA TravelBuffer ==
  ASSUME TypeOK, Protocol, OneRequestInFlight, RateTravels, BufferCommand
  PROVE  RateTravels'
  <1> DEFINE m == Head(audCtl)
  <1>1. /\ audCtl # <<>> /\ audCtl' = Tail(audCtl) /\ flag' = m.cmd
        /\ sampFreq' = IF m.cmd = "SET_SAMPLE_FREQ" THEN m.arg ELSE sampFreq
        /\ UNCHANGED <<curSamFreq, notified, dec, decCmd, down, inDfu, hubFreq, firstRun, command>>
    BY Zenon DEF BufferCommand, ep0Vars, decVars, hubVars
  <1>2. Len(audCtl) = 1 /\ flag = NoCmd /\ dec \in {"poll", "clear"} /\ m \in Messages
    BY <1>1, MessageSequences DEF OneRequestInFlight, TypeOK, ChannelTypeOK
  <1>3. audCtl' = <<>> /\ down = Nothing
    BY <1>1, <1>2 DEF Protocol, TypeOK, ChannelTypeOK
  <1>4. \A f : m = Message("SET_SAMPLE_FREQ", f) <=> m.cmd = "SET_SAMPLE_FREQ" /\ m.arg = f
    BY <1>2 DEF Messages
  <1>5. \A f : /\ ~InFlag(f) /\ ~InHand(f)
               /\ OnChannel(f) <=> m = Message("SET_SAMPLE_FREQ", f)
    <2>1. \A f : ~InFlag(f)
      BY <1>2
    <2>2. \A f : ~InHand(f)
      BY <1>2, <1>3
    <2>3. \A f : OnChannel(f) <=> m = Message("SET_SAMPLE_FREQ", f)
      BY <1>1
    <2> QED
      BY <2>1, <2>2, <2>3
  <1>6. \A f : OnItsWay(f)' <=> OnItsWay(f)
    <2> TAKE f
    <2>1. OnItsWay(f)' <=> m = Message("SET_SAMPLE_FREQ", f)
      BY <1>1, <1>2, <1>3, <1>4
    <2>2. OnItsWay(f) <=> m = Message("SET_SAMPLE_FREQ", f)
      BY <1>5
    <2> QED
      BY <2>1, <2>2
  <1>7. ~notified => sampFreq' = curSamFreq
    <2>1. CASE m.cmd = "SET_SAMPLE_FREQ"
      <3>1. m.arg \in Rates \union {DfuStop}
        BY <1>2, <2>1 DEF Messages, StreamCmds
      <3> QED
        BY <1>1, <1>4, <1>5, <2>1, <3>1 DEF RateTravels
    <2>2. CASE m.cmd # "SET_SAMPLE_FREQ"
      BY <1>1, <1>4, <1>5, <2>2 DEF RateTravels
    <2> QED
      BY <2>1, <2>2
  <1> QED
    BY <1>1, <1>3, <1>5, <1>6, <1>7 DEF RateTravels

\* The steps of decouple pass it on to AudioHub.
LEMMA TravelDec ==
  ASSUME TypeOK, Protocol, OneRequestInFlight, RateTravels, DecNext
  PROVE  RateTravels'
  <1>0. UNCHANGED <<curSamFreq, notified, sampFreq, audCtl, inDfu, hubFreq, firstRun, command>>
    BY Zenon DEF DecNext, TakeSampleFreq, TakeStart, TakeStop, ForwardCommand, TakeEnd, AckEndpoint0,
           ClearOngoing, ep0Vars, bufVars, hubVars
  <1>1. ASSUME TakeSampleFreq PROVE RateTravels'
    <2>1. /\ dec = "poll" /\ flag = "SET_SAMPLE_FREQ" /\ flag' = NoCmd
          /\ decCmd' = Message("SET_SAMPLE_FREQ", sampFreq) /\ dec' = "token" /\ down' = down
      BY <1>1 DEF TakeSampleFreq
    <2>2. audCtl = <<>> /\ down = Nothing
      BY <2>1 DEF OneRequestInFlight, Protocol
    <2>3. \A f : (OnItsWay(f) <=> f = sampFreq) /\ (OnItsWay(f)' <=> f = sampFreq)
                 /\ ~OnChannel(f)
      BY <1>0, <2>1, <2>2
    <2> QED
      BY <1>0, <2>1, <2>2, <2>3 DEF RateTravels
  <1>2. ASSUME NEW d \in Dirs, TakeStart(d) \/ TakeStop(d) PROVE RateTravels'
    <2>1. /\ dec = "poll" /\ flag \notin {NoCmd, "SET_SAMPLE_FREQ"} /\ flag' = NoCmd
          /\ SignalStreamEvent /\ down' = down
      BY <1>2 DEF TakeStart, TakeStop, Start, Stop
    <2>2. audCtl = <<>> /\ down = Nothing
      BY <2>1 DEF OneRequestInFlight, Protocol
    <2>3. \A f : decCmd' # Message("SET_SAMPLE_FREQ", f)
      BY <2>1 DEF SignalStreamEvent, EventCmd, Nothing
    <2>4. \A f : ~OnItsWay(f) /\ ~OnItsWay(f)'
      BY <1>0, <2>1, <2>2, <2>3
    <2> QED
      BY <1>0, <2>1, <2>2, <2>4 DEF RateTravels
  <1>3. ASSUME ForwardCommand PROVE RateTravels'
    <2>1. /\ dec = "token" /\ dec' = "sync" /\ down' = decCmd /\ decCmd' = decCmd /\ flag' = flag
      BY <1>3 DEF ForwardCommand, bufVars
    <2>2. decCmd # Nothing
      BY <2>1 DEF Protocol, Nothing
    <2>3. \A f : OnItsWay(f)' <=> OnItsWay(f)
      BY <1>0, <2>1, <2>2
    <2>4. \A f : OnChannel(f)' <=> OnChannel(f)
      BY <1>0
    <2> QED
      BY <1>0, <2>1, <2>3, <2>4 DEF RateTravels
  <1>4. ASSUME TakeEnd \/ AckEndpoint0 \/ ClearOngoing PROVE RateTravels'
    <2>1. /\ dec \in {"sync", "ack", "clear"} /\ dec' \in {"ack", "clear", "poll"}
          /\ down' = down /\ flag' = flag
          /\ dec = "sync" => up # <<>> /\ Head(up) = End
      BY <1>4 DEF TakeEnd, AckEndpoint0, ClearOngoing, bufVars
    <2>2. down = Nothing
      BY <2>1, UpContents DEF Protocol
    <2>3. \A f : OnItsWay(f)' <=> OnItsWay(f)
      BY <1>0, <2>1, <2>2
    <2>4. \A f : OnChannel(f)' <=> OnChannel(f)
      BY <1>0
    <2> QED
      BY <1>0, <2>1, <2>2, <2>3, <2>4 DEF RateTravels
  <1> QED
    BY <1>1, <1>2, <1>3, <1>4 DEF DecNext

\* AudioHub takes it, or is in DFU mode already.
LEMMA TravelHub ==
  ASSUME TypeOK, Protocol, OneRequestInFlight, RateTravels, HubNext \/ ServeSamples
  PROVE  RateTravels'
  <1>0. UNCHANGED <<curSamFreq, notified, flag, sampFreq, audCtl, dec, decCmd>>
    BY Zenon DEF HubNext, ServeSamples, RestartIdle, RestartRunning, RequestSamples, HubCommand,
           DfuCommand, DopSwitch, ep0Vars, bufVars, decVars
  <1>1. ASSUME HubCommand PROVE RateTravels'
    <2>1. /\ hub = "xfer" /\ down # Nothing /\ down' = Nothing /\ ~inDfu
          /\ hubFreq' = IF down.cmd = "SET_SAMPLE_FREQ" THEN down.arg ELSE hubFreq
          /\ inDfu' = (hubFreq' = DfuStop) /\ firstRun' = firstRun
      BY <1>1, Zenon DEF HubCommand
    <2>2. dec = "sync" /\ down = decCmd /\ ~firstRun
      BY <2>1 DEF Protocol, RateTravels
    <2>3. audCtl = <<>> /\ flag = NoCmd
      BY <2>2 DEF OneRequestInFlight
    <2>4. \A f : decCmd = Message("SET_SAMPLE_FREQ", f) <=> decCmd.cmd = "SET_SAMPLE_FREQ" /\ decCmd.arg = f
      BY DEF TypeOK, DecTypeOK, DecCmds, Nothing
    <2>5. decCmd.cmd = "SET_SAMPLE_FREQ" => decCmd.arg \in Rates \union {DfuStop}
      BY CommandFields DEF TypeOK, DecTypeOK
    <2>6. \A f : /\ OnItsWay(f) <=> decCmd = Message("SET_SAMPLE_FREQ", f)
                  /\ ~OnItsWay(f)' /\ ~OnChannel(f)
      BY <1>0, <2>1, <2>2, <2>3
    <2>7. ~notified => hubFreq' = curSamFreq /\ sampFreq = curSamFreq
      BY <2>1, <2>2, <2>4, <2>5, <2>6 DEF RateTravels
    <2>8. curSamFreq \in Rates
      BY DEF TypeOK, Ep0TypeOK
    <2>9. notified => inDfu'
      BY <2>1, <2>2, <2>4, <2>6 DEF RateTravels
    <2> QED
      BY <1>0, <2>1, <2>2, <2>6, <2>7, <2>8, <2>9, RatesAssumption DEF RateTravels
  <1>2. ASSUME DfuCommand PROVE RateTravels'
    <2>1. inDfu /\ down' = Nothing /\ UNCHANGED <<inDfu, firstRun, command>>
      BY <1>2, Zenon DEF DfuCommand, hubVars
    <2>2. notified
      BY <2>1 DEF RateTravels
    <2> QED
      BY <1>0, <2>1, <2>2 DEF RateTravels
  <1>3. ASSUME RestartIdle \/ RestartRunning \/ RequestSamples \/ DopSwitch \/ ServeSamples
        PROVE  RateTravels'
    <2>1. UNCHANGED <<down, inDfu, hubFreq>>
      BY <1>3, Zenon DEF RestartIdle, RestartRunning, RequestSamples, DopSwitch, ServeSamples
    <2>3. (firstRun' => firstRun) /\ (command' = NoCmd \/ command' = command)
      BY <1>3 DEF RestartIdle, RestartRunning, RequestSamples, DopSwitch, ServeSamples
    <2>2. \A f : (OnItsWay(f)' <=> OnItsWay(f)) /\ (OnChannel(f)' <=> OnChannel(f))
      BY <1>0, <2>1
    <2> QED
      BY <1>0, <2>1, <2>2, <2>3 DEF RateTravels
  <1> QED
    BY <1>1, <1>2, <1>3 DEF HubNext

\* RateTravels is inductive.
LEMMA TravelNext ==
  TypeOK /\ Protocol /\ OneRequestInFlight /\ RateTravels /\ [Next]_vars => RateTravels'
  <1> SUFFICES ASSUME TypeOK, Protocol, OneRequestInFlight, RateTravels, [Next]_vars
               PROVE  RateTravels'
    OBVIOUS
  <1>1. CASE UNCHANGED vars
    <2>1. UNCHANGED <<audCtl, flag, sampFreq, dec, decCmd, down, notified, curSamFreq, inDfu,
                      hubFreq, firstRun, command>>
      BY <1>1, Zenon DEF vars, ep0Vars, bufVars, decVars, hubVars
    <2>2. \A f : (OnItsWay(f)' <=> OnItsWay(f)) /\ (OnChannel(f)' <=> OnChannel(f))
      BY <2>1
    <2> QED
      BY <2>1, <2>2 DEF RateTravels
  <1> QED
    BY <1>1, TravelHost, TravelHandshake, TravelBuffer, TravelDec, TravelHub DEF Next

LEMMA TravelAlways ==
  ASSUME ~BootDfu
  PROVE  Spec => [](TypeOK /\ Protocol /\ OneRequestInFlight /\ RateTravels)
  <1>1. Init => OneRequestInFlight /\ RateTravels
    BY OneRequestInit, TravelInit
  <1> QED
    BY <1>1, TypeInit, TypeNext, ProtocolInit, ProtocolNext, OneRequestNext, TravelNext, PTL DEF Spec

\* When Endpoint0 goes on after a rate change AudioHub has restarted at the
\* rate Endpoint0 reports to the host.
THEOREM RateInForce ==
  ASSUME ~BootDfu
  PROVE  Spec => []RateApplied
  <1>1. TypeOK /\ Protocol /\ OneRequestInFlight /\ RateTravels => RateApplied
    <2> SUFFICES ASSUME TypeOK, Protocol, OneRequestInFlight, RateTravels, ep0 = "idle", ~notified
                 PROVE  /\ hubFreq = curSamFreq /\ sampFreq = curSamFreq
                        /\ hub = "restart" => command = NoCmd
      BY DEF RateApplied
    <2>1. \A f : ~OnItsWay(f)
      BY IdleTravel
    <2>2. dec # "sync"
      BY DEF OneRequestInFlight
    <2> QED
      BY <2>1, <2>2 DEF RateTravels, Protocol
  <1> QED
    BY <1>1, TravelAlways, PTL

\* A DFU request is served only once AudioHub has left the audio loop.
THEOREM StoppedForDfu ==
  ASSUME ~BootDfu
  PROVE  Spec => []DfuOnlyWhenStopped
  <1>1. TypeOK /\ Protocol /\ OneRequestInFlight /\ RateTravels => DfuOnlyWhenStopped
    BY IdleTravel DEF RateTravels, DfuOnlyWhenStopped
  <1> QED
    BY <1>1, TravelAlways, PTL

-----------------------------------------------------------------------------
(***************************************************************************)
(* A stream runs in the format of the alternate setting the host chose.    *)
(***************************************************************************)
\* Each command names one direction and one of start and stop.
LEMMA Distinct ==
  \A d, e \in Dirs : /\ Start(d) # NoCmd /\ Stop(d) # NoCmd /\ Start(d) # Stop(e)
                     /\ Start(d) # "SET_SAMPLE_FREQ" /\ Stop(d) # "SET_SAMPLE_FREQ"
                     /\ (Start(d) = Start(e) <=> d = e) /\ (Stop(d) = Stop(e) <=> d = e)
  BY DEF Start, Stop

\* A channel with one message on it.
LEMMA OneHead == \A c, a : LET q == Append(<<>>, Message(c, a))
                           IN  q # <<>> /\ Head(q).cmd = c /\ Head(q).arg = a
  OBVIOUS

\* The host chooses an alternate setting, and sends it.
LEMMA FormatHost ==
  ASSUME TypeOK, OneRequestInFlight, FormatTravels, HostNext \/ Handshake
  PROVE  FormatTravels'
  <1>1. /\ audCtl = <<>> /\ flag = NoCmd
        /\ UNCHANGED <<flag, formatChange, active, format>>
    <2>1. HostNext => ep0 = "idle"
      BY Zenon DEF HostNext, SetInterface, SetSampleRate, DfuRequest, Suspend, Resume, BusReset
    <2>2. Handshake => acks > 0
      BY DEF Handshake
    <2>3. UNCHANGED <<bufVars, decVars>>
      BY Zenon DEF HostNext, Handshake, SetInterface, SetSampleRate, DfuRequest, Suspend, Resume, BusReset
    <2> QED
      BY <2>1, <2>2, <2>3 DEF OneRequestInFlight, bufVars, decVars, TypeOK, ChannelTypeOK
  <1>2. \A d \in Dirs : active[d] /\ alt[d] > 0 => format[d] = alt[d]
    BY <1>1, Distinct DEF FormatTravels, Coming
  <1>3. ASSUME NEW e \in Dirs, NEW a \in Alts[e] \union {0}, SetInterface(e, a)
        PROVE  FormatTravels'
    <2>1. /\ alt' = [alt EXCEPT ![e] = a] /\ a \in Nat
          /\ audCtl' = Append(<<>>, IF a > 0 THEN Message(Start(e), a) ELSE Message(Stop(e), 0))
      BY <1>1, <1>3, AltsAssumption DEF SetInterface, Send
    <2>2. \A d \in Dirs : alt'[d] = IF d = e THEN a ELSE alt[d]
      BY <2>1 DEF TypeOK, Ep0TypeOK
    <2>3. CASE a > 0
      <3>1. audCtl' # <<>> /\ Head(audCtl').cmd = Start(e) /\ Head(audCtl').arg = a
        BY <2>1, <2>3, OneHead
      <3> QED
        BY <1>1, <1>2, <2>2, <3>1, Distinct DEF FormatTravels, Coming
    <2>4. CASE a = 0
      <3>1. audCtl' # <<>> /\ Head(audCtl').cmd = Stop(e)
        BY <2>1, <2>4, OneHead
      <3> QED
        BY <1>1, <1>2, <2>2, <2>4, <3>1, Distinct DEF FormatTravels, Coming
    <2> QED
      BY <2>1, <2>3, <2>4
  <1>4. ASSUME \/ \E r \in Rates : SetSampleRate(r)
               \/ DfuRequest \/ Suspend \/ Resume \/ Handshake
        PROVE  FormatTravels'
    <2>1. alt' = alt
      BY <1>4, Zenon DEF SetSampleRate, DfuRequest, Suspend, Resume, Handshake
    <2>2. \/ audCtl' = <<>>
          \/ \E a : audCtl' = Append(<<>>, Message("SET_SAMPLE_FREQ", a))
          \/ \E d \in Dirs : audCtl' = Append(<<>>, Message(Stop(d), 0))
      <3>1. stopsDue # <<>> => Head(stopsDue) \in Dirs
        BY DEF TypeOK, Ep0TypeOK
      <3> QED
        BY <1>1, <1>4, <3>1 DEF SetSampleRate, DfuRequest, Suspend, Resume, Handshake, Send
    <2>3. \A d \in Dirs : audCtl' # <<>> => Head(audCtl').cmd # Start(d)
      BY <2>2, OneHead, Distinct
    <2> QED
      BY <1>1, <1>2, <2>1, <2>3, Distinct DEF FormatTravels, Coming
  <1>5. ASSUME BusReset PROVE FormatTravels'
    <2>1. audCtl' = <<>> /\ \A d \in Dirs : alt'[d] = 0
      BY <1>1, <1>5 DEF BusReset
    <2> QED
      BY <1>1, <2>1, Distinct DEF FormatTravels, Coming
  <1> QED
    BY <1>3, <1>4, <1>5 DEF HostNext

\* XUA_Buffer_Ep copies it to the global.
LEMMA FormatBuffer ==
  ASSUME TypeOK, OneRequestInFlight, FormatTravels, BufferCommand
  PROVE  FormatTravels'
  <1> DEFINE m == Head(audCtl)
  <1>1. /\ audCtl # <<>> /\ audCtl' = <<>> /\ flag = NoCmd /\ flag' = m.cmd
        /\ UNCHANGED <<alt, active, format>>
    BY DEF BufferCommand, OneRequestInFlight, TypeOK, ChannelTypeOK, ep0Vars, decVars
  <1>2. \A d \in Dirs : m.cmd = Start(d) => formatChange' = m.arg
    BY DEF BufferCommand
  <1> QED
    BY <1>1, <1>2, Distinct DEF FormatTravels, Coming

\* Decouple takes it for the stream that starts.
LEMMA FormatDec ==
  ASSUME TypeOK, OneRequestInFlight, FormatTravels, DecNext
  PROVE  FormatTravels'
  <1>0. UNCHANGED <<alt, audCtl, formatChange>>
    BY Zenon DEF DecNext, TakeSampleFreq, TakeStart, TakeStop, ForwardCommand, TakeEnd, AckEndpoint0,
           ClearOngoing, ep0Vars, bufVars
  <1>1. ASSUME NEW e \in Dirs, TakeStart(e) PROVE FormatTravels'
    <2>1. /\ flag = Start(e) /\ flag' = NoCmd /\ audCtl = <<>>
          /\ format' = [format EXCEPT ![e] = formatChange] /\ active' = [active EXCEPT ![e] = TRUE]
      BY <1>1, Distinct DEF TakeStart, NewFormat, OneRequestInFlight
    <2>2. \A d \in Dirs : /\ format'[d] = IF d = e THEN formatChange ELSE format[d]
                          /\ active'[d] = IF d = e THEN TRUE ELSE active[d]
      BY <2>1 DEF TypeOK, DecTypeOK
    <2> QED
      BY <1>0, <2>1, <2>2, Distinct DEF FormatTravels, Coming
  <1>2. ASSUME NEW e \in Dirs, TakeStop(e) PROVE FormatTravels'
    <2>1. /\ flag = Stop(e) /\ flag' = NoCmd /\ audCtl = <<>> /\ format' = format
          /\ active' = [active EXCEPT ![e] = FALSE]
      BY <1>2, Distinct DEF TakeStop, OneRequestInFlight
    <2>2. \A d \in Dirs : active'[d] => active[d]
      BY <2>1 DEF TypeOK, DecTypeOK
    <2> QED
      BY <1>0, <2>1, <2>2, Distinct DEF FormatTravels, Coming
  <1>3. ASSUME TakeSampleFreq PROVE FormatTravels'
    <2>1. flag = "SET_SAMPLE_FREQ" /\ flag' = NoCmd /\ UNCHANGED <<active, format>>
      BY <1>3, Zenon DEF TakeSampleFreq
    <2> QED
      BY <1>0, <2>1, Distinct DEF FormatTravels, Coming
  <1>4. ASSUME ForwardCommand \/ TakeEnd \/ AckEndpoint0 \/ ClearOngoing PROVE FormatTravels'
    <2>1. UNCHANGED <<flag, active, format>>
      BY <1>4, Zenon DEF ForwardCommand, TakeEnd, AckEndpoint0, ClearOngoing, bufVars
    <2> QED
      BY <1>0, <2>1 DEF FormatTravels, Coming
  <1> QED
    BY <1>1, <1>2, <1>3, <1>4 DEF DecNext

\* FormatTravels is inductive.
LEMMA FormatNext ==
  TypeOK /\ OneRequestInFlight /\ FormatTravels /\ [Next]_vars => FormatTravels'
  <1> SUFFICES ASSUME TypeOK, OneRequestInFlight, FormatTravels, [Next]_vars PROVE FormatTravels'
    OBVIOUS
  <1>1. ASSUME HubNext \/ ServeSamples \/ UNCHANGED vars PROVE FormatTravels'
    <2>1. UNCHANGED <<audCtl, alt, flag, formatChange, active, format>>
      BY <1>1, Zenon DEF HubNext, ServeSamples, RestartIdle, RestartRunning, RequestSamples,
             HubCommand, DfuCommand, DopSwitch, vars, ep0Vars, bufVars, decVars
    <2> QED
      BY <2>1 DEF FormatTravels, Coming
  <1> QED
    BY <1>1, FormatHost, FormatBuffer, FormatDec DEF Next

\* A stream decouple runs uses the format of the alternate setting the host chose.
THEOREM FormatInForce ==
  ASSUME ~BootDfu
  PROVE  Spec => []FormatApplied
  <1>1. Init => OneRequestInFlight /\ FormatTravels
    BY OneRequestInit, Distinct DEF Init, FormatTravels, Coming
  <1>2. OneRequestInFlight /\ FormatTravels => FormatApplied
    BY Distinct DEF OneRequestInFlight, FormatTravels, FormatApplied, Coming
  <1> QED
    BY <1>1, <1>2, TypeInit, TypeNext, OneRequestNext, FormatNext, PTL DEF Spec

-----------------------------------------------------------------------------
(***************************************************************************)
(* AudioHub runs while a stream does, and none does in a suspended device. *)
(***************************************************************************)
\* What an event of the streams leaves with decouple.
LEMMA SignalPower ==
  ASSUME SignalStreamEvent, anyOld \in BOOLEAN
  PROVE  /\ anyOld' = AnyActive(active)'
         /\ \/ anyOld' = anyOld /\ dec' = "ack" /\ decCmd' = Nothing
            \/ /\ anyOld' = ~anyOld /\ dec' = "token"
               /\ decCmd'.cmd = IF anyOld' THEN "AUDIO_START" ELSE "AUDIO_STOP"
  BY DEF SignalStreamEvent, AnyActive, EventCmd

\* Decouple hands every change on.
LEMMA PowerDec ==
  ASSUME TypeOK, Protocol, PowerTravels, DecNext
  PROVE  PowerTravels'
  <1>0. UNCHANGED <<notified, audioActive>>
    BY Zenon DEF DecNext, TakeSampleFreq, TakeStart, TakeStop, ForwardCommand, TakeEnd, AckEndpoint0,
           ClearOngoing, ep0Vars, hubVars
  <1>1. ASSUME NEW d \in Dirs, TakeStart(d) \/ TakeStop(d) PROVE PowerTravels'
    <2>1. dec = "poll" /\ down' = down /\ SignalStreamEvent
      BY <1>1, Zenon DEF TakeStart, TakeStop
    <2>2. ~InHandEvent /\ down' = Nothing
      BY <2>1 DEF Protocol, InHandEvent
    <2>3. LowPower /\ ~notified => audioActive = anyOld
      BY <2>2 DEF PowerTravels
    <2>4. anyOld \in BOOLEAN
      BY DEF TypeOK, DecTypeOK
    <2>5. Nothing.cmd = NoCmd
      BY DEF Nothing
    <2>6. CASE anyOld' = anyOld /\ dec' = "ack"
      BY <1>0, <2>1, <2>2, <2>3, <2>4, <2>6, SignalPower DEF PowerTravels, InHandEvent
    <2>7. CASE /\ anyOld' = ~anyOld /\ dec' = "token"
               /\ decCmd'.cmd = IF anyOld' THEN "AUDIO_START" ELSE "AUDIO_STOP"
      BY <1>0, <2>1, <2>4, <2>7, SignalPower DEF PowerTravels, InHandEvent
    <2> QED
      BY <2>1, <2>4, <2>6, <2>7, SignalPower
  <1>2. ASSUME TakeSampleFreq PROVE PowerTravels'
    <2>1. /\ dec = "poll" /\ decCmd'.cmd = "SET_SAMPLE_FREQ" /\ down' = down
          /\ UNCHANGED <<active, anyOld>>
      BY <1>2 DEF TakeSampleFreq
    <2>2. ~InHandEvent
      BY <2>1 DEF Protocol, InHandEvent
    <2> QED
      BY <1>0, <2>1, <2>2 DEF PowerTravels, AnyActive
  <1>3. ASSUME ForwardCommand PROVE PowerTravels'
    <2>1. dec = "token" /\ down' = decCmd /\ UNCHANGED <<decCmd, active, anyOld>>
      BY <1>3, Zenon DEF ForwardCommand
    <2>2. InHandEvent /\ InHandEvent'
      BY <2>1 DEF Protocol, InHandEvent, Nothing
    <2> QED
      BY <1>0, <2>1, <2>2 DEF PowerTravels, AnyActive
  <1>4. ASSUME TakeEnd \/ AckEndpoint0 \/ ClearOngoing PROVE PowerTravels'
    <2>1. /\ dec \in {"sync", "ack", "clear"} /\ dec' # "token" /\ down' = down
          /\ UNCHANGED <<active, anyOld>>
          /\ dec = "sync" => up # <<>> /\ Head(up) = End
      BY <1>4 DEF TakeEnd, AckEndpoint0, ClearOngoing
    <2>2. down = Nothing
      BY <2>1, UpContents DEF Protocol
    <2>3. ~InHandEvent /\ ~InHandEvent'
      BY <2>1, <2>2 DEF InHandEvent
    <2> QED
      BY <1>0, <2>1, <2>3 DEF PowerTravels, AnyActive
  <1> QED
    BY <1>1, <1>2, <1>3, <1>4 DEF DecNext

\* AudioHub does as it is told.
LEMMA PowerHub ==
  ASSUME TypeOK, Protocol, RateTravels, PowerTravels, HubNext \/ ServeSamples
  PROVE  PowerTravels'
  <1>0. UNCHANGED <<notified, dec, decCmd, active, anyOld>>
    BY Zenon DEF HubNext, ServeSamples, RestartIdle, RestartRunning, RequestSamples, HubCommand,
           DfuCommand, DopSwitch, ep0Vars, decVars
  <1>1. ASSUME HubCommand PROVE PowerTravels'
    <2>1. /\ down # Nothing /\ down' = Nothing
          /\ audioActive' = \/ down.cmd = "AUDIO_START"
                            \/ audioActive /\ ~(down.cmd = "AUDIO_STOP" /\ LowPower)
      BY <1>1, Zenon DEF HubCommand
    <2>2. InHandEvent /\ ~InHandEvent' /\ down.cmd = decCmd.cmd
      BY <1>0, <2>1 DEF Protocol, InHandEvent, RateTravels
    <2>3. audioActive \in BOOLEAN /\ anyOld \in BOOLEAN
      BY DEF TypeOK, HubTypeOK, DecTypeOK
    <2>4. LowPower /\ ~notified => audioActive' = anyOld
      BY <2>1, <2>2, <2>3 DEF PowerTravels
    <2> QED
      BY <1>0, <2>2, <2>4 DEF PowerTravels, AnyActive
  <1>2. ASSUME DfuCommand PROVE PowerTravels'
    <2>1. inDfu /\ down' = Nothing
      BY <1>2, Zenon DEF DfuCommand
    <2>2. notified
      BY <2>1 DEF RateTravels
    <2> QED
      BY <1>0, <2>1, <2>2 DEF PowerTravels, AnyActive, InHandEvent
  <1>3. ASSUME RestartIdle \/ RestartRunning \/ RequestSamples \/ DopSwitch \/ ServeSamples
        PROVE  PowerTravels'
    <2>1. UNCHANGED <<down, audioActive>>
      BY <1>3, Zenon DEF RestartIdle, RestartRunning, RequestSamples, DopSwitch, ServeSamples
    <2> QED
      BY <1>0, <2>1 DEF PowerTravels, AnyActive, InHandEvent
  <1> QED
    BY <1>1, <1>2, <1>3 DEF HubNext

\* PowerTravels is inductive; the other actions reach neither decouple nor AudioHub.
LEMMA PowerNext ==
  TypeOK /\ Protocol /\ RateTravels /\ PowerTravels /\ [Next]_vars => PowerTravels'
  <1> SUFFICES ASSUME TypeOK, Protocol, RateTravels, PowerTravels, [Next]_vars PROVE PowerTravels'
    OBVIOUS
  <1>1. ASSUME HostNext \/ Handshake \/ BufferCommand \/ UNCHANGED vars PROVE PowerTravels'
    <2>1. /\ UNCHANGED <<dec, decCmd, active, anyOld, down, audioActive>>
          /\ ~notified' => ~notified
      <3>1. UNCHANGED <<decVars, hubVars, down>>
        BY <1>1, Zenon DEF HostNext, Handshake, BufferCommand, SetInterface, SetSampleRate, DfuRequest,
               Suspend, Resume, BusReset, vars
      <3>2. notified' = notified \/ notified'
        BY <1>1, Zenon DEF HostNext, Handshake, BufferCommand, SetInterface, SetSampleRate, DfuRequest,
               Suspend, Resume, BusReset, vars, ep0Vars
      <3> QED
        BY <3>1, <3>2 DEF decVars, hubVars
    <2> QED
      BY <2>1 DEF PowerTravels, AnyActive, InHandEvent
  <1> QED
    BY <1>1, PowerDec, PowerHub DEF Next

\* In a suspended device the stops are on their way, one after the other.
LEMMA StopsHost ==
  ASSUME TypeOK, OneRequestInFlight, StopsTravel, HostNext \/ Handshake
  PROVE  StopsTravel'
  <1>1. audCtl = <<>> /\ flag = NoCmd /\ UNCHANGED <<flag, active>>
    <2>1. HostNext => ep0 = "idle"
      BY Zenon DEF HostNext, SetInterface, SetSampleRate, DfuRequest, Suspend, Resume, BusReset
    <2>2. Handshake => acks > 0
      BY DEF Handshake
    <2>3. UNCHANGED <<bufVars, decVars>>
      BY Zenon DEF HostNext, Handshake, SetInterface, SetSampleRate, DfuRequest, Suspend, Resume, BusReset
    <2> QED
      BY <2>1, <2>2, <2>3 DEF OneRequestInFlight, bufVars, decVars, TypeOK, ChannelTypeOK
  <1>2. ASSUME \/ \E d \in Dirs : \E a \in Alts[d] \union {0} : SetInterface(d, a)
               \/ \E r \in Rates : SetSampleRate(r)
               \/ DfuRequest
        PROVE  StopsTravel'
    <2>1. ~suspended /\ suspended' = suspended /\ ep0' = "wait"
      BY <1>2 DEF SetInterface, SetSampleRate, DfuRequest, Send
    <2>2. suspended \in BOOLEAN
      BY DEF TypeOK, Ep0TypeOK
    <2> QED
      BY <2>1 DEF StopsTravel
  <1>3. ASSUME Suspend PROVE StopsTravel'
    <2>1. ep0' = "wait" /\ stopsDue' = <<"OUTPUT">> /\ audCtl' = Append(<<>>, Message("INPUT_STOP", 0))
      BY <1>1, <1>3 DEF Suspend, Send, Stop
    <2>2. audCtl' # <<>> /\ Head(audCtl').cmd = "INPUT_STOP"
      BY <2>1, OneHead
    <2> QED
      BY <1>1, <2>1, <2>2 DEF StopsTravel, Coming, Start
  <1>4. ASSUME Resume \/ BusReset PROVE StopsTravel'
    <2>1. ~suspended' /\ stopsDue' = stopsDue /\ ep0' = ep0
      BY <1>4 DEF Resume, BusReset
    <2> QED
      BY <2>1 DEF StopsTravel
  <1>5. ASSUME Handshake PROVE StopsTravel'
    <2>0. suspended' = suspended
      BY <1>5, Zenon DEF Handshake
    <2>1. suspended => ~active["INPUT"] /\ (active["OUTPUT"] => stopsDue # <<>>)
      BY <1>1 DEF StopsTravel, Coming
    <2>2. CASE stopsDue = <<>>
      <3>1. audCtl' = <<>> /\ stopsDue' = <<>>
        BY <1>1, <1>5, <2>2 DEF Handshake
      <3> QED
        BY <1>1, <2>0, <2>1, <2>2, <3>1, Distinct DEF StopsTravel, Coming
    <2>3. CASE stopsDue = <<"OUTPUT">>
      <3>1. ep0' = "wait" /\ audCtl' = Append(<<>>, Message("OUTPUT_STOP", 0))
        BY <1>1, <1>5, <2>3 DEF Handshake, Send, Stop
      <3>2. audCtl' # <<>> /\ Head(audCtl').cmd = "OUTPUT_STOP"
        BY <3>1, OneHead
      <3> QED
        BY <1>1, <2>0, <2>1, <3>1, <3>2 DEF StopsTravel, Coming, Start
    <2> QED
      BY <2>2, <2>3 DEF TypeOK, Ep0TypeOK
  <1> QED
    BY <1>2, <1>3, <1>4, <1>5 DEF HostNext

\* StopsTravel is inductive.
LEMMA StopsNext ==
  TypeOK /\ OneRequestInFlight /\ StopsTravel /\ [Next]_vars => StopsTravel'
  <1> SUFFICES ASSUME TypeOK, OneRequestInFlight, StopsTravel, [Next]_vars PROVE StopsTravel'
    OBVIOUS
  <1>1. ASSUME BufferCommand PROVE StopsTravel'
    <2>1. /\ audCtl # <<>> /\ audCtl' = <<>> /\ flag = NoCmd /\ flag' = Head(audCtl).cmd
          /\ UNCHANGED <<ep0, stopsDue, suspended, active>>
      BY <1>1 DEF BufferCommand, OneRequestInFlight, TypeOK, ChannelTypeOK, ep0Vars, decVars
    <2>2. \A c \in {Start("INPUT"), Start("OUTPUT"), "INPUT_STOP", "OUTPUT_STOP"} :
            Coming(c)' <=> Coming(c)
      BY <2>1 DEF Coming, Start
    <2> QED
      BY <2>1, <2>2 DEF StopsTravel
  <1>2. ASSUME NEW d \in Dirs, TakeStart(d) PROVE StopsTravel'
    <2>1. flag = Start(d) /\ UNCHANGED <<ep0, stopsDue, suspended>>
      BY <1>2 DEF TakeStart, ep0Vars
    <2>2. ~suspended /\ (ep0 = "idle" => stopsDue = <<>>)
      BY <2>1 DEF StopsTravel, Coming
    <2> QED
      BY <2>1, <2>2 DEF StopsTravel
  <1>3. ASSUME NEW d \in Dirs, TakeStop(d) PROVE StopsTravel'
    <2>1. /\ flag = Stop(d) /\ flag' = NoCmd /\ audCtl = <<>> /\ audCtl' = audCtl
          /\ active' = [active EXCEPT ![d] = FALSE] /\ UNCHANGED <<ep0, stopsDue, suspended>>
      BY <1>3, Distinct DEF TakeStop, OneRequestInFlight, ep0Vars
    <2>2. \A e \in Dirs : active'[e] => active[e] /\ e # d
      BY <2>1 DEF TypeOK, DecTypeOK
    <2> QED
      BY <2>1, <2>2, Distinct DEF StopsTravel, Coming, Stop
  <1>4. ASSUME TakeSampleFreq PROVE StopsTravel'
    <2>1. /\ flag = "SET_SAMPLE_FREQ" /\ flag' = NoCmd /\ audCtl' = audCtl
          /\ UNCHANGED <<ep0, stopsDue, suspended, active>>
      BY <1>4 DEF TakeSampleFreq, ep0Vars
    <2> QED
      BY <2>1, Distinct DEF StopsTravel, Coming
  <1>5. ASSUME \/ ForwardCommand \/ TakeEnd \/ AckEndpoint0 \/ ClearOngoing
               \/ HubNext \/ ServeSamples \/ UNCHANGED vars
        PROVE  StopsTravel'
    <2>1. UNCHANGED <<ep0, stopsDue, suspended, audCtl, flag, active>>
      BY <1>5, Zenon DEF ForwardCommand, TakeEnd, AckEndpoint0, ClearOngoing, HubNext, ServeSamples,
             RestartIdle, RestartRunning, RequestSamples, HubCommand, DfuCommand, DopSwitch, vars,
             ep0Vars, bufVars, decVars
    <2> QED
      BY <2>1 DEF StopsTravel, Coming
  <1> QED
    BY <1>1, <1>2, <1>3, <1>4, <1>5, StopsHost DEF Next, DecNext

\* In the low power build AudioHub runs exactly while a stream does, and none does
\* while the bus is suspended.
THEOREM PowerInForce ==
  ASSUME ~BootDfu
  PROVE  Spec => []PowerFollowsStreams
  <1>1. Init => PowerTravels /\ StopsTravel
    <2> SUFFICES ASSUME Init PROVE PowerTravels /\ StopsTravel
      OBVIOUS
    <2>1. anyOld = AnyActive(active)
      BY DEF Init, AnyActive
    <2>2. LowPower => audioActive = anyOld
      BY FlagsAssumption, Zenon DEF Init
    <2>3. ~InHandEvent
      BY DEF Init, InHandEvent
    <2> QED
      BY <2>1, <2>2, <2>3 DEF Init, PowerTravels, StopsTravel
  <1>2. /\ TypeOK /\ Protocol /\ OneRequestInFlight /\ RateTravels /\ PowerTravels /\ StopsTravel
        => PowerFollowsStreams
    <2> SUFFICES ASSUME TypeOK, Protocol, OneRequestInFlight, PowerTravels, StopsTravel,
                        ep0 = "idle", ~notified
                 PROVE  /\ LowPower => audioActive = AnyActive(active)
                        /\ suspended => \A d \in Dirs : ~active[d]
      BY DEF PowerFollowsStreams, AnyActive
    <2>1. ~InHandEvent /\ audCtl = <<>> /\ flag = NoCmd
      BY IdleTravel DEF InHandEvent, OneRequestInFlight
    <2> QED
      BY <2>1 DEF PowerTravels, StopsTravel, Coming
  <1>3. TypeOK /\ Protocol /\ OneRequestInFlight /\ RateTravels /\ PowerTravels /\ StopsTravel
          /\ [Next]_vars => PowerTravels' /\ StopsTravel'
    BY PowerNext, StopsNext
  <1> QED
    BY <1>1, <1>2, <1>3, TravelAlways, PTL DEF Spec

=============================================================================
