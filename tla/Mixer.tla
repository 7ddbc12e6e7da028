------------------------------- MODULE Mixer -------------------------------
(***************************************************************************)
(* The mixer: the requests Endpoint0 serves for its units                  *)
(* (AudioClassRequests_2), and the two cores that mix (mixer.xc,           *)
(* fastmix.S).                                                             *)
(*                                                                         *)
(* Endpoint0 keeps a copy of everything a host may read back and sends     *)
(* each change to mixer1 over c_mix_ctl; mixer1 looks at that channel once *)
(* per sample request of AudioHub.  The samples of a frame stay in one     *)
(* array: channels from the host, channels of the device, mixes, and one   *)
(* that is always zero.  mixer1 makes the even mixes, mixer2 the odd ones, *)
(* and above 96 kHz there are only the first of each.                      *)
(*                                                                         *)
(* A weight is one of three: "unity" (0 dB), "least" (0x8001, -127.996 dB) *)
(* and "inf" (0x8000).  db_to_mult gives the last two a multiplier that is *)
(* not zero, as a sign extended weight is never 0x8000: "faint".           *)
(* A request for levels is in every build without LEVEL_METER_HOST one     *)
(* that mixer1 has no case for; Levels says whether a host makes it.       *)
(***************************************************************************)
EXTENDS Integers, Sequences

CONSTANTS Out, In,          \* NUM_USB_CHAN_OUT, NUM_USB_CHAN_IN
          Inputs, Mixes,    \* MIX_INPUTS, MAX_MIX_COUNT
          Levels

ASSUME MixerBuild ==
  /\ Out \in Nat \ {0} /\ In \in Nat \ {0} /\ Inputs \in Nat /\ Mixes \in 1..8
  /\ Mixes <= Inputs /\ Inputs <= Out + In    \* at the start input i has channel i
  /\ Out + In + Mixes < 64        \* the offset of the ldw that setPtr rewrites has 6 bits
  /\ Levels \in BOOLEAN

VARIABLES ep0,       \* what Endpoint0 answers a host: mixSel, mixer1Weights, channelMapAud, channelMapUsb
          todo,      \* the commands of the request it serves that mixer1 has not taken
          ctl,       \* c_mix_ctl: "quiet", "asked", or "words" that nobody will read
          audctl,    \* the rate change on its way through the mixer, <<>> or <<above96k>>
          mixer,     \* what mixer1 and mixer2 use: source, mult, device, host
          m1, m2,    \* the two cores: [pc, left], where left is the set of mixes still to do
          fast,      \* mixer1_mix2_flag
          age        \* each mix in the sample array: "silent", of the "last" frame, or "old"

ep0Vars == <<ep0, todo, ctl, audctl>>
mixVars == <<mixer, m1, m2, fast, age>>
vars == <<ep0Vars, mixVars>>

Weights == {"unity", "least", "inf"}
SourceCount == Out + In + Mixes + 1
Off == SourceCount - 1
MixIds == 0..Mixes-1
Nodes  == 0..(Inputs * Mixes)-1

TypeOK ==
  /\ ep0 \in [mixSel : [MixIds -> [0..Inputs-1 -> 0..255]], weights : [Nodes -> Weights],
              aud : [0..Out-1 -> 0..255], usb : [0..In-1 -> 0..255]]
  /\ mixer \in [source : [MixIds -> [0..Inputs-1 -> 0..SourceCount-1]],
                mult : [MixIds -> [0..Inputs-1 -> {"unity", "faint", "zero"}]],
                device : [0..Out-1 -> 0..SourceCount-1], host : [0..In-1 -> 0..SourceCount-1]]
  /\ ctl \in {"quiet", "asked", "words"} /\ audctl \in {<<>>, <<TRUE>>, <<FALSE>>}
  /\ m1 \in [pc : {"request", "poll", "answer", "mixing", "trapped"}, left : SUBSET MixIds]
  /\ m2 \in [pc : {"mixing", "done"}, left : SUBSET MixIds]
  /\ fast \in BOOLEAN /\ age \in [MixIds -> {"silent", "last", "old"}]
-----------------------------------------------------------------------------
\* InitLocalMixerState, and the start of mixer(): the diagonal is open, the rest shut.
InitLocalMixerState ==
  [mixSel |-> [m \in MixIds |-> [i \in 0..Inputs-1 |-> i]],
   weights |-> [n \in Nodes |-> IF \E i \in MixIds : n = i * Mixes + i THEN "unity" ELSE "least"],
   aud |-> [c \in 0..Out-1 |-> c], usb |-> [c \in 0..In-1 |-> c + Out]]
InitMixer ==
  [source |-> [m \in MixIds |-> [i \in 0..Inputs-1 |-> i]],
   mult |-> [m \in MixIds |-> [i \in 0..Inputs-1 |-> IF m = i THEN "unity" ELSE "zero"]],
   device |-> [c \in 0..Out-1 |-> c], host |-> [c \in 0..In-1 |-> c + Out]]

Mult(weight) == IF weight = "unity" THEN "unity" ELSE "faint"
-----------------------------------------------------------------------------
(***************************************************************************)
(* Endpoint0.  A request is [unit, cs, cn, value]: value 255 is "off" for  *)
(* the selector; the nodes of the mixer unit are counted eight to an input.*)
(* The requests are those whose source is in range: Endpoint0 would keep   *)
(* another one, and mixer1 ignore it.                                      *)
(***************************************************************************)
Requests ==
         [unit : {"xuOut", "xuIn", "levels"}, cs : Nat, cn : Nat, value : 0..SourceCount-1]
  \union [unit : {"mixSel"}, cs : Nat, cn : Nat, value : 0..SourceCount-1 \union {255}]
  \union [unit : {"mixer"}, cs : Nat, cn : Nat, value : Weights]

Route(map, dst, src) == [cmd |-> map, at |-> <<dst>>, to |-> src]

SelectInFirst(r) ==    \* mutant of SelectSource: control selector 0 changes the first mix only
  LET source == IF r.value = 255 THEN Off ELSE r.value IN
  /\ ep0' = [ep0 EXCEPT !.mixSel = [m \in MixIds |-> [@[m] EXCEPT ![r.cn] = source]]]
  /\ todo' = <<[cmd |-> "mixMap", at |-> <<0, r.cn>>, to |-> source]>>
SelectSource(r) ==     \* control selector 0 is every mix
  LET source == IF r.value = 255 THEN Off ELSE r.value
      mixes  == IF r.cs = 0 THEN MixIds ELSE {r.cs - 1} IN
  /\ ep0' = [ep0 EXCEPT !.mixSel = [m \in MixIds |-> IF m \in mixes THEN [@[m] EXCEPT ![r.cn] = source] ELSE @[m]]]
  /\ todo' = [i \in 1..(IF r.cs = 0 THEN Mixes ELSE 1) |->
                [cmd |-> "mixMap", at |-> <<IF r.cs = 0 THEN i - 1 ELSE r.cs - 1, r.cn>>, to |-> source]]

Idle == todo = <<>> /\ audctl = <<>>

MixerRequest(r) ==
  /\ Idle
  /\ \/ r.unit = "xuOut" /\ r.cn < Out
        /\ ep0' = [ep0 EXCEPT !.aud[r.cn] = r.value] /\ todo' = <<Route("toDevice", r.cn, r.value)>>
     \/ r.unit = "xuIn" /\ r.cn < In
        /\ ep0' = [ep0 EXCEPT !.usb[r.cn] = r.value] /\ todo' = <<Route("toHost", r.cn, r.value)>>
     \/ r.unit = "mixSel" /\ r.cn < Inputs /\ r.cs <= Mixes /\ SelectSource(r)
     \/ r.unit = "mixer" /\ r.cn \in Nodes
        /\ ep0' = [ep0 EXCEPT !.weights[r.cn] = r.value]
        /\ todo' = <<[cmd |-> "mixMult", at |-> <<r.cn % 8, r.cn \div 8>>, to |-> Mult(r.value)]>>
     \/ r.unit = "levels" /\ Levels /\ UNCHANGED ep0
        /\ todo' = <<[cmd |-> "levels", at |-> <<0>>, to |-> 0]>>
  /\ UNCHANGED <<ctl, audctl, mixVars>>
RateRequest(above96k) ==    \* SetSampleFreq, which decouple hands to mixer1
  Idle /\ audctl' = <<above96k>> /\ UNCHANGED <<ep0, todo, ctl, mixVars>>

\* outct(c_mix_ctl, END), then Endpoint0 waits for mixer1's
Ask ==
  /\ todo # <<>> /\ ctl = "quiet" /\ ctl' = "asked"
  /\ UNCHANGED <<ep0, todo, audctl, mixVars>>
-----------------------------------------------------------------------------
(***************************************************************************)
(* mixer1 and mixer2.                                                      *)
(***************************************************************************)
\* The request of AudioHub goes on to decouple.
Request ==
  /\ m1.pc = "request" /\ m1' = [m1 EXCEPT !.pc = "poll"]
  /\ UNCHANGED <<ep0Vars, mixer, m2, fast, age>>

\* The switch on a command, with the ranges that mixer1 checks again
Apply(c) ==
  mixer' = IF c.cmd # "mixMult" /\ c.to >= SourceCount THEN mixer
           ELSE CASE c.cmd = "toDevice" -> [mixer EXCEPT !.device[c.at[1]] = c.to]
                  [] c.cmd = "toHost"   -> [mixer EXCEPT !.host[c.at[1]] = c.to]
                  [] c.cmd = "mixMap"   -> [mixer EXCEPT !.source[c.at[1]][c.at[2]] = c.to]
                  [] c.cmd = "mixMult"  -> IF c.at[1] < Mixes /\ c.at[2] < Inputs
                                           THEN [mixer EXCEPT !.mult[c.at[1]][c.at[2]] = c.to]
                                           ELSE mixer
                  [] OTHER -> mixer

ServeNoAnswer ==    \* mutant of ServeControl: Endpoint0's END is taken and none is sent back
  /\ m1.pc = "poll" /\ ctl = "asked" /\ m1' = [m1 EXCEPT !.pc = "answer"]
  /\ UNCHANGED <<ep0Vars, mixer, m2, fast, age>>
\* A command without a case leaves its words, and Endpoint0 waiting for the answer.
ServeControl ==
  /\ m1.pc = "poll" /\ ctl = "asked"
  /\ Apply(Head(todo))
  /\ IF Head(todo).cmd = "levels" THEN ctl' = "words" /\ UNCHANGED todo
     ELSE ctl' = "quiet" /\ todo' = Tail(todo)
  /\ m1' = [m1 EXCEPT !.pc = "answer"]
  /\ UNCHANGED <<ep0, audctl, m2, fast, age>>
\* The default of the select; a word where a control token is expected traps the core.
Pass ==
  /\ m1.pc = "poll" /\ ctl # "asked"
  /\ m1' = [m1 EXCEPT !.pc = IF ctl = "words" THEN "trapped" ELSE "answer"]
  /\ UNCHANGED <<ep0Vars, mixer, m2, fast, age>>

\* decouple answers with a command: AudioHub takes it, and the mixes start at zero.
Command ==
  /\ m1.pc = "answer" /\ audctl # <<>>
  /\ fast' = Head(audctl) /\ audctl' = <<>>
  /\ age' = [m \in MixIds |-> "silent"]
  /\ m1' = [m1 EXCEPT !.pc = "request"]
  /\ UNCHANGED <<ep0, todo, ctl, mixer, m2>>

\* the mixes that are made at a rate
Made(above96k) == {m \in MixIds : above96k => m < 2}
EvenMixes(above96k) == {m \in Made(above96k) : m % 2 = 0}
OddMixes(above96k)  == {m \in Made(above96k) : m % 2 = 1}
IsNext(m, left) == m \in left /\ \A n \in left : m <= n

Start ==    \* the frame is out and in: outuint(c_mixer2, mixer1_mix2_flag)
  /\ age' = [m \in MixIds |-> IF age[m] = "last" THEN "old" ELSE age[m]]
  /\ m1' = [pc |-> "mixing", left |-> EvenMixes(fast)]
  /\ m2' = [pc |-> "mixing", left |-> OddMixes(fast)]
  /\ UNCHANGED <<ep0Vars, mixer, fast>>
ExchangeNoWait == m1.pc = "answer" /\ audctl = <<>> /\ Start    \* mutant of Exchange: mixer2 may be behind
\* decouple answers with samples: when mixer2 has finished the frame goes to
\* AudioHub and the host, and the next one comes.
Exchange == m1.pc = "answer" /\ audctl = <<>> /\ m2.pc = "done" /\ Start

Mix1 ==
  /\ m1.pc = "mixing"
  /\ \E m \in m1.left :
       /\ IsNext(m, m1.left)
       /\ age' = [age EXCEPT ![m] = "last"]
       /\ m1' = [pc |-> IF m1.left = {m} THEN "request" ELSE "mixing", left |-> m1.left \ {m}]
  /\ UNCHANGED <<ep0Vars, mixer, m2, fast>>
\* a build with one mix has no odd ones
Mix2 ==
  /\ m2.pc = "mixing"
  /\ \/ m2.left = {} /\ m2' = [m2 EXCEPT !.pc = "done"] /\ UNCHANGED age
     \/ \E m \in m2.left :
          IsNext(m, m2.left) /\ m2' = [m2 EXCEPT !.left = @ \ {m}] /\ age' = [age EXCEPT ![m] = "last"]
  /\ UNCHANGED <<ep0Vars, mixer, m1, fast>>
-----------------------------------------------------------------------------
MixerInit ==
  /\ ep0 = InitLocalMixerState /\ todo = <<>> /\ ctl = "quiet" /\ audctl = <<>>
  /\ mixer = InitMixer /\ fast \in BOOLEAN /\ age = [m \in MixIds |-> "silent"]
  /\ m1 = [pc |-> "request", left |-> {}] /\ m2 = [pc |-> "done", left |-> {}]

Mixer1 == Request \/ ServeControl \/ Pass \/ Command \/ Exchange \/ Mix1
MixerNext == (\E r \in Requests : MixerRequest(r)) \/ (\E above96k \in BOOLEAN : RateRequest(above96k))
             \/ Ask \/ Mixer1 \/ Mix2
MixerFairness == WF_vars(Ask) /\ WF_vars(Mixer1) /\ WF_vars(Mix2)

\* The mixer on its own, whatever is asked of it
MixerSpec == MixerInit /\ [][MixerNext]_vars /\ MixerFairness
-----------------------------------------------------------------------------
\* What Endpoint0 would answer a host is what is mixed and routed, whenever it
\* serves no request: its copies follow every command mixer1 takes, and no
\* other.  The nodes are the ones a host counts, eight to an input.
MixerInStep ==
  Idle =>
    /\ ep0.mixSel = mixer.source /\ ep0.aud = mixer.device /\ ep0.usb = mixer.host
    /\ \A i \in 0..Inputs-1, m \in MixIds :
         (ep0.weights[i * Mixes + m] = "unity") <=> (mixer.mult[m][i] = "unity")

\* Every frame given out holds mixes of the frame before it: of the mixes made
\* at this rate none is older, though two cores make them side by side and a
\* change of rate interrupts them.
MixesFresh ==
  [][m1.pc = "answer" /\ m1'.pc = "mixing" =>
       \A m \in Made(fast) : age[m] # "old"]_vars

\* A request for the mixer is answered, at whatever point of a frame it comes.
RequestsServed == todo # <<>> ~> todo = <<>>

\* "--get-mixer-levels-input" reads the peak levels of the channels.
LevelsReturned == (todo # <<>> /\ Head(todo).cmd = "levels") ~> todo = <<>>
=============================================================================
