----------------------------- MODULE MixerTool -----------------------------
(***************************************************************************)
(* xmos_mixer, the program that shows and sets the mixer from a host       *)
(* (mixer_app.cpp, usb_mixer.cpp), next to other clients of the device.    *)
(*                                                                         *)
(* A run of the tool finds the device, learns from its descriptors which   *)
(* channels there are, reads the maps, the nodes and the selectors, and    *)
(* then carries out one option on what it has read.  `view` is what it     *)
(* holds of the device (usb_mixer_handle); names of sources are            *)
(* <<"daw", k>>, <<"aud", k>> and <<"mix", k>>.                            *)
(***************************************************************************)
EXTENDS Mixer, SequencesExt, FiniteSets

CONSTANTS MaxDevices,       \* how many devices may be attached
          ToolRequests,     \* the requests of options that set something
          OtherRequests,    \* the requests of other clients
          MaxRequests       \* bound on both together

ASSUME RequestsAssumption == ToolRequests \union OtherRequests \subseteq Requests

VARIABLES tool,       \* [pc, devices, view]
          written,    \* another client wrote since the tool opened the device
          requests    \* how many requests were made, for the bound

toolVars == <<tool, written, requests>>
all == <<vars, toolVars>>

Descs == INSTANCE Descriptors
Build == [out |-> Out, in |-> In, dac |-> Out, adc |-> In, mixIn |-> Inputs, minF |-> 44100, maxF |-> 192000,
          hs |-> 2, fs |-> 0, sync |-> "async", has |-> {"mixer", "outVolume", "inVolume"},
          at |-> <<>>, inRes |-> <<24, 16, 32>>]
Units == {Descs!AudioControl(Build)[i] : i \in 1..Len(Descs!AudioControl(Build))}
-----------------------------------------------------------------------------
(***************************************************************************)
(* What the tool learns from the descriptors.                              *)
(***************************************************************************)
FindUnit(id) == CHOOSE u \in Units : u.kind = "entity" /\ u.id = id
MixerUnit == CHOOSE u \in Units : u.kind = "entity" /\ u.type = "mixer"
NumMixerUnits == Cardinality({u \in Units : u.kind = "entity" /\ u.type = "mixer"})

ChannelNames(terminal) ==
  [k \in 1..terminal.chans |-> <<IF terminal.id = Descs!ID_IT_USB THEN "daw" ELSE "aud", k - 1>>]

\* The channels of a unit's input terminals, in the order of its pins
RECURSIVE AddStrings(_), AddLastFirst(_)
AddLastFirst(id) ==    \* mutant of AddStrings: the last pin comes first
  LET u == FindUnit(id) IN
  IF u.type = "input" THEN ChannelNames(u)
  ELSE FlattenSeq(Reverse([p \in 1..Len(u.sources) |-> AddLastFirst(u.sources[p])]))
AddStrings(id) ==
  LET u == FindUnit(id) IN
  IF u.type = "input" THEN ChannelNames(u)
  ELSE FlattenSeq([p \in 1..Len(u.sources) |-> AddStrings(u.sources[p])])

InputStrings == FlattenSeq([p \in 1..Len(MixerUnit.sources) |-> AddStrings(MixerUnit.sources[p])])
NumOutputs == MixerUnit.chans
NumInputs  == FindUnit(MixerUnit.sources[1]).chans
OutputNames == [j \in 1..NumOutputs |-> <<"mix", j - 1>>]
ChannelMap == InputStrings \o OutputNames      \* the sources a route can have
CountOf(kind) == Len(SelectSeq(InputStrings, LAMBDA s : s[1] = kind))

\* The text for a number of a list; outside of it is what happens to be there
NameIn(list, n) == IF n < Len(list) THEN list[n + 1] ELSE <<"none", 0>>
NodeId(i, j) == i * NumOutputs + j
-----------------------------------------------------------------------------
(***************************************************************************)
(* A run of the tool.                                                      *)
(***************************************************************************)
\* find_xmos_device: one device, with the mixer
Open ==
  /\ tool.pc = "start"
  /\ \E n \in 0..MaxDevices :
       tool' = [tool EXCEPT !.pc = IF n = 1 /\ NumMixerUnits > 0 THEN "maps" ELSE "failed"]
  /\ written' = FALSE /\ UNCHANGED <<vars, requests>>
\* The GETs, which Endpoint0 serves between other requests.  A selector is that
\* of the first mix, as the tool sets those of all mixes alike.
ReadMaps ==
  /\ tool.pc = "maps" /\ Idle
  /\ tool' = [pc |-> "nodes",
              view |-> [tool.view EXCEPT !.aud = [c \in 0..CountOf("daw")-1 |-> ep0.aud[c]],
                                         !.usb = [c \in 0..CountOf("aud")-1 |-> ep0.usb[c]]]]
  /\ UNCHANGED <<vars, written, requests>>
ReadNodes ==
  /\ tool.pc = "nodes" /\ Idle
  /\ tool' = [pc |-> "sources",
              view |-> [tool.view EXCEPT !.weights =
                          [i \in 0..NumInputs-1 |-> [j \in 0..NumOutputs-1 |-> ep0.weights[NodeId(i, j)]]]]]
  /\ UNCHANGED <<vars, written, requests>>
ReadSources ==
  /\ tool.pc = "sources" /\ Idle
  /\ tool' = [pc |-> "ready",
              view |-> [tool.view EXCEPT
                          !.sel   = [i \in 0..NumInputs-1 |-> ep0.mixSel[0][i]],
                          !.names = [i \in 0..NumInputs-1 |-> NameIn(InputStrings, ep0.mixSel[0][i])]]]
  /\ UNCHANGED <<vars, written, requests>>

\* Mutant of Updated: the name of an input stays when its source changes.
UpdatedNumber(view, r) ==
  CASE r.unit = "xuOut"  -> [view EXCEPT !.aud[r.cn] = r.value]
    [] r.unit = "xuIn"   -> [view EXCEPT !.usb[r.cn] = r.value]
    [] r.unit = "mixSel" -> [view EXCEPT !.sel[r.cn] = r.value]
    [] r.unit = "mixer"  -> [view EXCEPT !.weights[r.cn \div NumOutputs][r.cn % NumOutputs] = r.value]
    [] OTHER -> view

\* The view with what an option sets, and whether the tool tells the device:
\* the selectors always, the rest only where it differs from the view.
Updated(view, r) ==
  CASE r.unit = "xuOut"  -> [view EXCEPT !.aud[r.cn] = r.value]
    [] r.unit = "xuIn"   -> [view EXCEPT !.usb[r.cn] = r.value]
    [] r.unit = "mixSel" -> [view EXCEPT !.sel[r.cn] = r.value, !.names[r.cn] = NameIn(InputStrings, r.value)]
    [] r.unit = "mixer"  -> [view EXCEPT !.weights[r.cn \div NumOutputs][r.cn % NumOutputs] = r.value]
    [] OTHER -> view
Differs(view, r) == r.unit \in {"mixSel", "levels"} \/ Updated(view, r) # view

Set(r) ==
  /\ tool.pc = "ready" /\ Idle
  /\ tool' = [pc |-> "told", view |-> Updated(tool.view, r)]
  /\ IF Differs(tool.view, r) THEN MixerRequest(r) /\ requests < MaxRequests /\ requests' = requests + 1
     ELSE UNCHANGED <<vars, requests>>
  /\ UNCHANGED written
\* The options that only show what was read
Show ==
  /\ tool.pc = "ready" /\ tool' = [tool EXCEPT !.pc = "told"]
  /\ UNCHANGED <<vars, written, requests>>
Close ==
  /\ tool.pc \in {"told", "failed"} /\ Idle /\ tool' = [tool EXCEPT !.pc = "start"]
  /\ UNCHANGED <<vars, written, requests>>

\* Another client: a control panel, or the operating system at a change of rate
OtherClient ==
  /\ requests < MaxRequests /\ requests' = requests + 1
  /\ \/ \E r \in OtherRequests : MixerRequest(r) /\ written' = TRUE
     \/ \E above96k \in BOOLEAN : RateRequest(above96k) /\ UNCHANGED written
  /\ UNCHANGED tool
-----------------------------------------------------------------------------
Device == (Ask \/ Mixer1 \/ Mix2) /\ UNCHANGED toolVars
Tool == Open \/ ReadMaps \/ ReadNodes \/ ReadSources \/ (\E r \in ToolRequests : Set(r)) \/ Show \/ Close
Init ==
  /\ MixerInit /\ written = FALSE /\ requests = 0
  /\ tool = [pc |-> "start", view |-> [aud |-> <<>>, usb |-> <<>>, weights |-> <<>>, sel |-> <<>>, names |-> <<>>]]
Next == Device \/ Tool \/ OtherClient
Spec == Init /\ [][Next]_all /\ MixerFairness
-----------------------------------------------------------------------------
(***************************************************************************)
(* What the options show of a view.                                        *)
(***************************************************************************)
ShownNode(view, i, j) == IF view.weights[i][j] = "unity" THEN "unity" ELSE "-inf"
\* display_mixer_sources takes the name of the input that has the source's number.
ShownSource(view, i) ==
  LET chan == view.sel[i] IN
  [chan |-> chan, name |-> IF chan \in DOMAIN view.names THEN view.names[chan] ELSE <<"none", 0>>]
ShownAud(view, c) == NameIn(ChannelMap, view.aud[c])
ShownDaw(view, c) == NameIn(ChannelMap, view.usb[c])
-----------------------------------------------------------------------------
\* What the samples of a source number are, in the array the cores mix from
SampleOf(n) ==
  IF n < Out THEN <<"daw", n>> ELSE IF n < Out + In THEN <<"aud", n - Out>>
  ELSE IF n < Off THEN <<"mix", n - Out - In>> ELSE <<"none", 0>>

\* Unless another client wrote in the meantime, what the tool shows, or
\* believes to have set, is what the device mixes: a source it lists under a
\* number is the one whose samples the number selects, an input bears the name of
\* the channel it mixes, a node is listed at the input and the mix it weighs, and
\* the routes are those in use.  The name listed beside the number of a source is
\* that of what the mixer input with this number mixes: the source's own only
\* while that input mixes the channel of its number.
ToolTells ==
  tool.pc = "told" /\ Idle /\ ~written =>
    /\ \A i \in 0..Inputs-1 :
         LET shown == ShownSource(tool.view, i) IN
         /\ NameIn(InputStrings, shown.chan) = SampleOf(mixer.source[0][i])
         /\ shown.chan < Len(InputStrings) => tool.view.names[i] = SampleOf(mixer.source[0][i])
         /\ shown.chan < Inputs /\ tool.view.sel[shown.chan] < Len(InputStrings)
              => shown.name = SampleOf(mixer.source[0][shown.chan])
    /\ \A c \in 0..Out-1 : ShownAud(tool.view, c) = SampleOf(mixer.device[c])
    /\ \A c \in 0..In-1 : ShownDaw(tool.view, c) = SampleOf(mixer.host[c])
    /\ \A i \in 0..Inputs-1, m \in MixIds :
         (ShownNode(tool.view, i, m) = "unity") <=> (mixer.mult[m][i] = "unity")
=============================================================================
