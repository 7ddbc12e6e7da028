---------------------------- MODULE Mixer_proofs ----------------------------
(***************************************************************************)
(* Proofs about module Mixer, for every number of channels, inputs and     *)
(* mixes, whatever requests come and in whatever order.                    *)
(***************************************************************************)
EXTENDS Mixer, TLAPS

Sources  == 0..SourceCount-1
InputIds == 0..Inputs-1

\* What Endpoint0 sends over c_mix_ctl
Commands ==
         [cmd : {"toDevice"}, at : {<<c>> : c \in 0..Out-1}, to : Sources]
  \union [cmd : {"toHost"}, at : {<<c>> : c \in 0..In-1}, to : Sources]
  \union [cmd : {"mixMap"}, at : MixIds \X InputIds, to : Sources]
  \union [cmd : {"mixMult"}, at : Nat \X Nat, to : {"unity", "faint"}]
  \union [cmd : {"levels"}, at : {<<0>>}, to : {0}]

Copies == [mixSel : [MixIds -> [InputIds -> Sources]], weights : [Nodes -> Weights],
           aud : [0..Out-1 -> Sources], usb : [0..In-1 -> Sources]]
InRange == ep0 \in Copies

\* The types, with what Endpoint0 holds and sends in range
TypeInv ==
  /\ TypeOK /\ InRange
  /\ todo \in Seq(Commands)
  /\ ctl = "asked" => todo # <<>>

LEMMA Sizes ==
  /\ SourceCount \in Nat /\ SourceCount < 65 /\ Off \in Sources
  /\ Sources \subseteq 0..255 /\ 255 \notin Sources
  /\ MixIds \subseteq InputIds /\ InputIds \subseteq Sources /\ 0 \in MixIds
<1>1. /\ Mixes \in Nat /\ Mixes > 0 /\ Mixes <= Inputs /\ Inputs <= Out + In
      /\ Out \in Nat /\ In \in Nat /\ Out + In + Mixes < 64 /\ Inputs \in Nat
  BY MixerBuild DEF MixerBuild
<1>2. SourceCount \in Nat /\ SourceCount < 65 /\ Inputs < SourceCount
  BY <1>1 DEF SourceCount
<1>3. Off \in Sources
  BY <1>1 DEF SourceCount, Off, Sources
<1>4. Sources \subseteq 0..255 /\ 255 \notin Sources
  BY <1>2 DEF Sources
<1>5. MixIds \subseteq InputIds /\ InputIds \subseteq Sources /\ 0 \in MixIds
  BY <1>1, <1>2 DEF MixIds, InputIds, Sources
<1>6. QED
  BY <1>2, <1>3, <1>4, <1>5

\* Sources are numbers the unsigned char arrays of Endpoint0 can hold.
LEMMA RangeTypes ==
  ASSUME NEW copies \in Copies
  PROVE  copies \in [mixSel : [MixIds -> [0..Inputs-1 -> 0..255]], weights : [Nodes -> Weights],
                     aud : [0..Out-1 -> 0..255], usb : [0..In-1 -> 0..255]]
<1> DEFINE Bytes == 0..255
           Ins   == 0..Inputs-1
           Outs  == 0..Out-1
           Usbs  == 0..In-1
<1>1. /\ copies.mixSel \in [MixIds -> [Ins -> Sources]]
      /\ copies.aud \in [Outs -> Sources] /\ copies.usb \in [Usbs -> Sources]
  BY DEF Copies, InputIds
<1>2. Sources \subseteq Bytes
  BY Sizes
<1>3. /\ copies.mixSel \in [MixIds -> [Ins -> Bytes]]
      /\ copies.aud \in [Outs -> Bytes] /\ copies.usb \in [Usbs -> Bytes]
  <2> HIDE DEF Bytes, Ins, Outs, Usbs
  <2>1. \A f \in [Ins -> Sources] : f \in [Ins -> Bytes]
    BY <1>2
  <2>2. copies.mixSel \in [MixIds -> [Ins -> Bytes]]
    BY <1>1, <2>1
  <2>3. copies.aud \in [Outs -> Bytes]
    BY <1>1, <1>2
  <2>4. copies.usb \in [Usbs -> Bytes]
    BY <1>1, <1>2
  <2>5. QED
    BY <2>2, <2>3, <2>4
<1>4. QED
  BY <1>3 DEF Copies

LEMMA TypeInit == MixerInit => TypeInv
<1> SUFFICES ASSUME MixerInit PROVE TypeInv
  OBVIOUS
<1> USE DEF MixerInit
<1>1. /\ Out \in Nat /\ In \in Nat /\ Out + In < SourceCount /\ SourceCount \in Nat
  BY MixerBuild DEF MixerBuild, SourceCount
<1>2. ep0.mixSel \in [MixIds -> [InputIds -> Sources]]
  BY Sizes DEF InitLocalMixerState, InputIds
<1>3. ep0.weights \in [Nodes -> Weights]
  BY DEF InitLocalMixerState, Weights
<1>4. ep0.aud \in [0..Out-1 -> Sources] /\ ep0.usb \in [0..In-1 -> Sources]
  BY <1>1 DEF InitLocalMixerState, Sources
<1>5. InRange
  BY <1>2, <1>3, <1>4 DEF InRange, Copies, InitLocalMixerState
<1>6. mixer.source \in [MixIds -> [0..Inputs-1 -> 0..SourceCount-1]]
  BY Sizes DEF InitMixer, InputIds, Sources
<1>7. mixer.mult \in [MixIds -> [0..Inputs-1 -> {"unity", "faint", "zero"}]]
  BY DEF InitMixer
<1>8. /\ mixer.device \in [0..Out-1 -> 0..SourceCount-1]
      /\ mixer.host \in [0..In-1 -> 0..SourceCount-1]
  BY <1>1 DEF InitMixer
<1>9. mixer \in [source : [MixIds -> [0..Inputs-1 -> 0..SourceCount-1]],
                 mult : [MixIds -> [0..Inputs-1 -> {"unity", "faint", "zero"}]],
                 device : [0..Out-1 -> 0..SourceCount-1], host : [0..In-1 -> 0..SourceCount-1]]
  BY <1>6, <1>7, <1>8 DEF InitMixer
<1>10. ep0 \in [mixSel : [MixIds -> [0..Inputs-1 -> 0..255]], weights : [Nodes -> Weights],
               aud : [0..Out-1 -> 0..255], usb : [0..In-1 -> 0..255]]
  BY <1>5, RangeTypes DEF InRange
<1>11. TypeOK
  BY <1>9, <1>10 DEF TypeOK
<1>12. todo \in Seq(Commands) /\ ctl # "asked"
  OBVIOUS
<1>13. QED
  BY <1>5, <1>11, <1>12 DEF TypeInv

-----------------------------------------------------------------------------
\* What the selector does to Endpoint0's copy and which commands it sends
LEMMA SelectTypes ==
  ASSUME NEW r \in Requests, r.unit = "mixSel", r.cn < Inputs, r.cs <= Mixes, SelectSource(r), InRange
  PROVE  InRange' /\ todo' \in Seq(Commands)
<1> DEFINE source == IF r.value = 255 THEN Off ELSE r.value
           mixes  == IF r.cs = 0 THEN MixIds ELSE {r.cs - 1}
<1>1. r.cn \in InputIds /\ r.cs \in Nat /\ r.value \in Sources \union {255}
  BY MixerBuild DEF MixerBuild, Requests, InputIds, Sources
<1>2. source \in Sources
  BY <1>1, Sizes
<1>3. \A m \in MixIds : [ep0.mixSel[m] EXCEPT ![r.cn] = source] \in [InputIds -> Sources]
  BY <1>1, <1>2 DEF InRange, Copies
<1>4. InRange'
  <2>1. ep0' = [ep0 EXCEPT !.mixSel = [m \in MixIds |-> IF m \in mixes THEN [ep0.mixSel[m] EXCEPT ![r.cn] = source]
                                                          ELSE ep0.mixSel[m]]]
    BY DEF SelectSource, InRange
  <2>2. [m \in MixIds |-> IF m \in mixes THEN [ep0.mixSel[m] EXCEPT ![r.cn] = source] ELSE ep0.mixSel[m]]
          \in [MixIds -> [InputIds -> Sources]]
    BY <1>3 DEF InRange, Copies
  <2>3. QED
    BY <2>1, <2>2 DEF InRange, Copies
<1>5. todo' \in Seq(Commands)
  <2> DEFINE n == IF r.cs = 0 THEN Mixes ELSE 1
             f == [i \in 1..n |-> [cmd |-> "mixMap", at |-> <<IF r.cs = 0 THEN i - 1 ELSE r.cs - 1, r.cn>>,
                                   to |-> source]]
  <2>1. n \in Nat
    BY MixerBuild DEF MixerBuild
  <2>2. \A i \in 1..n : (IF r.cs = 0 THEN i - 1 ELSE r.cs - 1) \in MixIds
    BY <1>1, MixerBuild DEF MixerBuild, MixIds
  <2>3. \A i \in 1..n : f[i] \in Commands
    BY <1>1, <1>2, <2>2 DEF Commands
  <2>4. f \in [1..n -> Commands]
    BY <2>3
  <2>5. todo' = f
    BY DEF SelectSource
  <2> HIDE DEF f, n
  <2>6. QED
    BY <2>1, <2>4, <2>5
<1>6. QED
  BY <1>4, <1>5

LEMMA One == \A c \in Commands : <<c>> \in Seq(Commands)
  OBVIOUS

LEMMA RequestTypes ==
  ASSUME TypeInv, NEW r \in Requests, MixerRequest(r)
  PROVE  InRange' /\ todo' \in Seq(Commands)
<1>1. InRange
  BY DEF TypeInv
<1>2. CASE r.unit = "mixSel"
  BY <1>1, <1>2, SelectTypes DEF MixerRequest
<1>3. CASE r.unit = "mixer"
  <2>1. r.value \in Weights /\ r.cn \in Nodes /\ r.cn \in Nat
    BY <1>3 DEF Requests, MixerRequest
  <2>2. /\ ep0' = [ep0 EXCEPT !.weights[r.cn] = r.value]
        /\ todo' = <<[cmd |-> "mixMult", at |-> <<r.cn % 8, r.cn \div 8>>, to |-> Mult(r.value)]>>
    BY <1>3 DEF MixerRequest
  <2>3. <<r.cn % 8, r.cn \div 8>> \in Nat \X Nat /\ Mult(r.value) \in {"unity", "faint"}
    BY <2>1 DEF Mult
  <2>4. [cmd |-> "mixMult", at |-> <<r.cn % 8, r.cn \div 8>>, to |-> Mult(r.value)] \in Commands
    BY <2>3 DEF Commands
  <2>5. InRange'
    BY <1>1, <2>1, <2>2 DEF InRange, Copies
  <2>6. QED
    BY <2>2, <2>4, <2>5, One
<1>4. CASE r.unit = "xuOut"
  <2>1. r.value \in Sources /\ r.cn \in 0..Out-1
    BY <1>4, MixerBuild DEF MixerBuild, Requests, MixerRequest, Sources
  <2>2. ep0' = [ep0 EXCEPT !.aud[r.cn] = r.value] /\ todo' = <<Route("toDevice", r.cn, r.value)>>
    BY <1>4 DEF MixerRequest
  <2>3. Route("toDevice", r.cn, r.value) \in Commands
    BY <2>1 DEF Route, Commands
  <2>4. InRange'
    BY <1>1, <2>1, <2>2 DEF InRange, Copies
  <2>5. QED
    BY <2>2, <2>3, <2>4, One
<1>5. CASE r.unit = "xuIn"
  <2>1. r.value \in Sources /\ r.cn \in 0..In-1
    BY <1>5, MixerBuild DEF MixerBuild, Requests, MixerRequest, Sources
  <2>2. ep0' = [ep0 EXCEPT !.usb[r.cn] = r.value] /\ todo' = <<Route("toHost", r.cn, r.value)>>
    BY <1>5 DEF MixerRequest
  <2>3. Route("toHost", r.cn, r.value) \in Commands
    BY <2>1 DEF Route, Commands
  <2>4. InRange'
    BY <1>1, <2>1, <2>2 DEF InRange, Copies
  <2>5. QED
    BY <2>2, <2>3, <2>4, One
<1>6. CASE r.unit = "levels"
  <2>1. [cmd |-> "levels", at |-> <<0>>, to |-> 0] \in Commands
    BY DEF Commands
  <2>2. ep0' = ep0 /\ todo' = <<[cmd |-> "levels", at |-> <<0>>, to |-> 0]>>
    BY <1>6 DEF MixerRequest
  <2>3. QED
    BY <1>1, <2>1, <2>2, One DEF InRange, Copies
<1>7. QED
  BY <1>2, <1>3, <1>4, <1>5, <1>6 DEF MixerRequest

-----------------------------------------------------------------------------
Tables == [source : [MixIds -> [0..Inputs-1 -> 0..SourceCount-1]],
           mult : [MixIds -> [0..Inputs-1 -> {"unity", "faint", "zero"}]],
           device : [0..Out-1 -> 0..SourceCount-1], host : [0..In-1 -> 0..SourceCount-1]]

\* Of the commands Endpoint0 sends, mixer1 refuses only a node it has not.
LEMMA Applied ==
  ASSUME NEW c \in Commands, Apply(c)
  PROVE  /\ c.cmd = "toDevice" => mixer' = [mixer EXCEPT !.device[c.at[1]] = c.to]
         /\ c.cmd = "toHost" => mixer' = [mixer EXCEPT !.host[c.at[1]] = c.to]
         /\ c.cmd = "mixMap" => mixer' = [mixer EXCEPT !.source[c.at[1]][c.at[2]] = c.to]
         /\ c.cmd = "mixMult" => mixer' = IF c.at[1] < Mixes /\ c.at[2] < Inputs
                                          THEN [mixer EXCEPT !.mult[c.at[1]][c.at[2]] = c.to] ELSE mixer
         /\ c.cmd = "levels" => mixer' = mixer
<1>1. c.cmd # "mixMult" => ~(c.to >= SourceCount)
  <2>1. c.cmd # "mixMult" => c.to \in Sources
    BY Sizes DEF Commands, Sources
  <2>2. QED
    BY <2>1, Sizes DEF Sources
<1>2. CASE c.cmd = "toDevice"
  BY <1>1, <1>2 DEF Apply
<1>3. CASE c.cmd = "toHost"
  BY <1>1, <1>3 DEF Apply
<1>4. CASE c.cmd = "mixMap"
  BY <1>1, <1>4 DEF Apply
<1>5. CASE c.cmd = "mixMult"
  BY <1>5 DEF Apply
<1>6. CASE c.cmd = "levels"
  BY <1>1, <1>6 DEF Apply
<1>7. QED
  BY <1>2, <1>3, <1>4, <1>5, <1>6

LEMMA ApplyTypes ==
  ASSUME mixer \in Tables, NEW c \in Commands, Apply(c)
  PROVE  mixer' \in Tables
<1>1. CASE c.cmd = "toDevice"
  <2>1. c \in [cmd : {"toDevice"}, at : {<<x>> : x \in 0..Out-1}, to : Sources]
    BY <1>1 DEF Commands
  <2>2. c.at[1] \in 0..Out-1 /\ c.to \in 0..SourceCount-1
    BY <2>1 DEF Sources
  <2>3. mixer' = [mixer EXCEPT !.device[c.at[1]] = c.to]
    BY <1>1, Applied
  <2>4. QED
    BY <2>2, <2>3 DEF Tables
<1>2. CASE c.cmd = "toHost"
  <2>1. c \in [cmd : {"toHost"}, at : {<<x>> : x \in 0..In-1}, to : Sources]
    BY <1>2 DEF Commands
  <2>2. c.at[1] \in 0..In-1 /\ c.to \in 0..SourceCount-1
    BY <2>1 DEF Sources
  <2>3. mixer' = [mixer EXCEPT !.host[c.at[1]] = c.to]
    BY <1>2, Applied
  <2>4. QED
    BY <2>2, <2>3 DEF Tables
<1>3. CASE c.cmd = "mixMap"
  <2>1. c.at[1] \in MixIds /\ c.at[2] \in 0..Inputs-1 /\ c.to \in 0..SourceCount-1
    BY <1>3 DEF Commands, Sources, InputIds
  <2>2. mixer' = [mixer EXCEPT !.source[c.at[1]][c.at[2]] = c.to]
    BY <1>3, Applied
  <2>3. QED
    BY <2>1, <2>2 DEF Tables
<1>4. CASE c.cmd = "mixMult"
  <2>1. c.at[1] \in Nat /\ c.at[2] \in Nat /\ c.to \in {"unity", "faint", "zero"}
    BY <1>4 DEF Commands
  <2>2. mixer' = mixer \/ /\ c.at[1] < Mixes /\ c.at[2] < Inputs
                          /\ mixer' = [mixer EXCEPT !.mult[c.at[1]][c.at[2]] = c.to]
    BY <1>4, Applied
  <2>3. c.at[1] < Mixes /\ c.at[2] < Inputs => c.at[1] \in MixIds /\ c.at[2] \in 0..Inputs-1
    BY <2>1, MixerBuild DEF MixerBuild, MixIds
  <2>4. ASSUME NEW m \in MixIds, NEW i \in 0..Inputs-1, NEW w \in {"unity", "faint", "zero"}
        PROVE  [mixer EXCEPT !.mult[m][i] = w] \in Tables
    BY DEF Tables
  <2>5. CASE c.at[1] < Mixes /\ c.at[2] < Inputs
    <3> DEFINE m == c.at[1]  i == c.at[2]  w == c.to
    <3>1. m \in MixIds /\ i \in 0..Inputs-1 /\ w \in {"unity", "faint", "zero"}
      BY <2>1, <2>3, <2>5
    <3>2. mixer' = [mixer EXCEPT !.mult[m][i] = w]
      BY <1>4, <2>5, Applied
    <3> HIDE DEF m, i, w
    <3>3. QED
      BY <2>4, <3>1, <3>2
  <2>6. QED
    BY <2>2, <2>5
<1>5. CASE c.cmd = "levels"
  BY <1>5, Applied
<1>6. QED
  BY <1>1, <1>2, <1>3, <1>4, <1>5 DEF Commands

LEMMA TypeStep == TypeInv /\ [MixerNext]_vars => TypeInv'
<1> SUFFICES ASSUME TypeInv, [MixerNext]_vars PROVE TypeInv'
  OBVIOUS
<1> DEFINE Flow == /\ ctl \in {"quiet", "asked", "words"} /\ audctl \in {<<>>, <<TRUE>>, <<FALSE>>}
                   /\ m1 \in [pc : {"request", "poll", "answer", "mixing", "trapped"}, left : SUBSET MixIds]
                   /\ m2 \in [pc : {"mixing", "done"}, left : SUBSET MixIds]
                   /\ fast \in BOOLEAN /\ age \in [MixIds -> {"silent", "last", "old"}]
<1>a. mixer \in Tables /\ Flow
  BY DEF TypeInv, TypeOK, Tables
<1>b. InRange' /\ mixer' \in Tables /\ Flow' => InRange' /\ TypeOK'
  BY RangeTypes DEF InRange, TypeOK, Tables
<1>. USE <1>a
<1>1. ASSUME NEW r \in Requests, MixerRequest(r) PROVE TypeInv'
  <2>1. mixer' = mixer /\ Flow' /\ ctl # "asked" /\ ctl' = ctl
    BY <1>1 DEF MixerRequest, Idle, TypeInv, mixVars
  <2>2. QED
    BY <1>1, <1>b, <2>1, RequestTypes DEF TypeInv
<1>2. ASSUME NEW above96k \in BOOLEAN, RateRequest(above96k) PROVE TypeInv'
  BY <1>2, <1>b DEF RateRequest, TypeInv, InRange, mixVars
<1>3. CASE Ask
  BY <1>3, <1>b DEF Ask, TypeInv, InRange, mixVars
<1>4. CASE Request
  BY <1>4, <1>b DEF Request, TypeInv, InRange, ep0Vars
<1>5. CASE ServeControl
  <2>1. todo \in Seq(Commands) /\ todo # <<>>
    BY <1>5 DEF ServeControl, TypeInv
  <2>2. Head(todo) \in Commands /\ Tail(todo) \in Seq(Commands)
    BY <2>1
  <2>3. mixer' \in Tables
    BY <1>5, <2>2, ApplyTypes DEF ServeControl
  <2>4. Flow' /\ ctl' # "asked" /\ todo' \in Seq(Commands)
    BY <1>5, <2>1, <2>2 DEF ServeControl
  <2>5. InRange'
    BY <1>5 DEF ServeControl, TypeInv, InRange
  <2>6. QED
    BY <1>b, <2>3, <2>4, <2>5 DEF TypeInv
<1>6. CASE Pass
  BY <1>6, <1>b DEF Pass, TypeInv, InRange, ep0Vars
<1>7. CASE Command
  <2>1. audctl = <<TRUE>> \/ audctl = <<FALSE>>
    BY <1>7 DEF Command
  <2>2. fast' = Head(audctl) /\ audctl' = <<>>
    BY <1>7 DEF Command
  <2>3. audctl = <<TRUE>> => fast' = TRUE
    BY <2>2
  <2>4. audctl = <<FALSE>> => fast' = FALSE
    BY <2>2
  <2>5. fast' \in BOOLEAN
    BY <2>1, <2>3, <2>4, Zenon
  <2>6. QED
    BY <1>7, <1>b, <2>2, <2>5 DEF Command, TypeInv, InRange
<1>8. CASE Exchange
  BY <1>8, <1>b DEF Exchange, Start, EvenMixes, OddMixes, Made, TypeInv, InRange, ep0Vars
<1>9. CASE Mix1
  <2>1. PICK m \in m1.left : /\ age' = [age EXCEPT ![m] = "last"]
                             /\ m1' = [pc |-> IF m1.left = {m} THEN "request" ELSE "mixing", left |-> m1.left \ {m}]
    BY <1>9 DEF Mix1
  <2>2. m \in MixIds /\ m1.left \ {m} \in SUBSET MixIds
    OBVIOUS
  <2>3. age' \in [MixIds -> {"silent", "last", "old"}]
    BY <2>1, <2>2
  <2>4. QED
    BY <1>9, <1>b, <2>1, <2>2, <2>3 DEF Mix1, TypeInv, InRange, ep0Vars
<1>10. CASE Mix2
  <2>1. UNCHANGED <<ep0Vars, mixer, m1, fast>>
    BY <1>10 DEF Mix2
  <2>2. m2' \in [pc : {"mixing", "done"}, left : SUBSET MixIds]
    BY <1>10 DEF Mix2
  <2>3. age' \in [MixIds -> {"silent", "last", "old"}]
    BY <1>10 DEF Mix2
  <2>4. QED
    BY <1>b, <2>1, <2>2, <2>3 DEF TypeInv, InRange, ep0Vars
<1>11. CASE UNCHANGED vars
  BY <1>11, <1>b DEF vars, ep0Vars, mixVars, TypeInv, InRange
<1>12. QED
  BY <1>1, <1>2, <1>3, <1>4, <1>5, <1>6, <1>7, <1>8, <1>9, <1>10, <1>11 DEF MixerNext, Mixer1

\* Endpoint0's copies stay in the arrays that hold them, and mixer1's tables in
\* the ranges that the mixing code relies on.
THEOREM TypeCorrect == MixerSpec => []TypeOK
<1>1. MixerSpec => []TypeInv
  BY TypeInit, TypeStep, PTL DEF MixerSpec
<1>2. QED
  BY <1>1, PTL DEF TypeInv

-----------------------------------------------------------------------------
(***************************************************************************)
(* The mixes of a frame.  A mix can only be of an earlier frame while the  *)
(* core that makes it still has it to do.                                  *)
(***************************************************************************)
FreshInv ==
  /\ \A m \in EvenMixes(fast) : age[m] = "old" => m1.pc = "mixing" /\ m \in m1.left
  /\ \A m \in OddMixes(fast) : age[m] = "old" => m2.pc = "mixing" /\ m \in m2.left

LEMMA FreshInit == MixerInit => FreshInv
  BY DEF MixerInit, FreshInv, EvenMixes, OddMixes, Made

LEMMA FreshStep == TypeInv /\ FreshInv /\ [MixerNext]_vars => FreshInv'
<1> SUFFICES ASSUME TypeInv, FreshInv, [MixerNext]_vars PROVE FreshInv'
  OBVIOUS
<1>a. /\ age \in [MixIds -> {"silent", "last", "old"}]
      /\ \A above96k : EvenMixes(above96k) \subseteq MixIds /\ OddMixes(above96k) \subseteq MixIds
  BY DEF TypeInv, TypeOK, EvenMixes, OddMixes, Made
<1>b. ASSUME fast' = fast, age' = age, m2' = m2, m1' = m1 \/ (m1.pc # "mixing" /\ m1'.pc # "mixing")
      PROVE  FreshInv'
  BY <1>b DEF FreshInv, EvenMixes, OddMixes, Made
<1>1. ASSUME NEW r \in Requests, MixerRequest(r) PROVE FreshInv'
  BY <1>1, <1>b DEF MixerRequest, mixVars
<1>2. ASSUME NEW above96k \in BOOLEAN, RateRequest(above96k) PROVE FreshInv'
  BY <1>2, <1>b DEF RateRequest, mixVars
<1>3. CASE Ask
  BY <1>3, <1>b DEF Ask, mixVars
<1>4. CASE Request \/ ServeControl \/ Pass
  <2>1. m1.pc # "mixing" /\ m1'.pc # "mixing" /\ UNCHANGED <<fast, age, m2>>
    BY <1>4 DEF Request, ServeControl, Pass, TypeInv, TypeOK
  <2>2. QED
    BY <2>1, <1>b
<1>5. CASE Command
  BY <1>5, <1>a DEF Command, FreshInv
<1>6. CASE Exchange
  BY <1>6, <1>a DEF Exchange, Start, FreshInv
<1>7. CASE Mix1
  <2>1. PICK m \in m1.left : /\ age' = [age EXCEPT ![m] = "last"]
                             /\ m1' = [pc |-> IF m1.left = {m} THEN "request" ELSE "mixing", left |-> m1.left \ {m}]
    BY <1>7 DEF Mix1
  <2>2. UNCHANGED <<fast, m2>>
    BY <1>7 DEF Mix1
  <2>3. \A n \in MixIds : age'[n] = "old" => n # m /\ age[n] = "old"
    BY <1>a, <2>1
  <2>4. \A n \in EvenMixes(fast) : age'[n] = "old" => m1'.pc = "mixing" /\ n \in m1'.left
    <3>1. SUFFICES ASSUME NEW n \in EvenMixes(fast), age'[n] = "old" PROVE m1'.pc = "mixing" /\ n \in m1'.left
      OBVIOUS
    <3>2. n # m /\ n \in m1.left
      BY <1>a, <2>3, <3>1 DEF FreshInv
    <3>3. QED
      BY <2>1, <3>2
  <2>5. \A n \in OddMixes(fast) : age'[n] = "old" => m2.pc = "mixing" /\ n \in m2.left
    BY <1>a, <2>3 DEF FreshInv
  <2>6. QED
    BY <2>2, <2>4, <2>5 DEF FreshInv, EvenMixes, OddMixes, Made
<1>8. CASE Mix2
  <2>1. UNCHANGED <<fast, m1>> /\ m2.pc = "mixing"
    BY <1>8 DEF Mix2
  <2>2. CASE m2.left = {} /\ UNCHANGED age
    BY <2>1, <2>2 DEF FreshInv, EvenMixes, OddMixes, Made
  <2>3. ASSUME NEW m \in m2.left, m2' = [m2 EXCEPT !.left = m2.left \ {m}], age' = [age EXCEPT ![m] = "last"]
        PROVE  FreshInv'
    <3>1. \A n \in MixIds : age'[n] = "old" => n # m /\ age[n] = "old"
      BY <1>a, <2>3
    <3>2. m2'.pc = "mixing" /\ m2'.left = m2.left \ {m}
      BY <2>1, <2>3 DEF TypeInv, TypeOK
    <3>3. QED
      BY <1>a, <2>1, <3>1, <3>2 DEF FreshInv, EvenMixes, OddMixes, Made
  <2>4. QED
    BY <1>8, <2>2, <2>3 DEF Mix2
<1>9. CASE UNCHANGED vars
  BY <1>9, <1>b DEF vars, mixVars
<1>10. QED
  BY <1>1, <1>2, <1>3, <1>4, <1>5, <1>6, <1>7, <1>8, <1>9 DEF MixerNext, Mixer1

\* mixer1 only takes samples from AudioHub to the host and begins a frame when
\* it and mixer2 have made every mix of the last one, at any rate and with any
\* number of mixes, although only mixer2's word says that mixer2 is done.
THEOREM Freshness == MixerSpec => MixesFresh
<1> DEFINE Given == m1.pc = "answer" /\ m1'.pc = "mixing" => \A m \in Made(fast) : age[m] # "old"
<1>1. TypeInv /\ FreshInv /\ [MixerNext]_vars => [Given]_vars
  <2> SUFFICES ASSUME TypeInv, FreshInv, MixerNext, m1.pc = "answer", m1'.pc = "mixing",
                      NEW m \in Made(fast)
               PROVE  age[m] # "old"
    OBVIOUS
  <2>1. Exchange
    BY DEF MixerNext, Mixer1, MixerRequest, RateRequest, Ask, Request, ServeControl, Pass, Command, Mix1, Mix2,
           mixVars, TypeInv, TypeOK
  <2>2. m2.pc = "done" /\ m1.pc = "answer"
    BY <2>1 DEF Exchange
  <2>3. m \in EvenMixes(fast) \/ m \in OddMixes(fast)
    BY MixerBuild DEF MixerBuild, EvenMixes, OddMixes, Made, MixIds
  <2>4. QED
    BY <2>2, <2>3 DEF FreshInv
<1>2. MixerSpec => [](TypeInv /\ FreshInv)
  BY TypeInit, TypeStep, FreshInit, FreshStep, PTL DEF MixerSpec
<1>3. QED
  BY <1>1, <1>2, PTL DEF MixerSpec, MixesFresh

-----------------------------------------------------------------------------
(***************************************************************************)
(* Endpoint0's copies and mixer1's tables.  A place is what a command      *)
(* writes.  Every command on its way carries what Endpoint0 holds for its  *)
(* place, and where the two differ a command is on its way.                *)
(***************************************************************************)
Places ==
         [cmd : {"toDevice"}, at : {<<c>> : c \in 0..Out-1}]
  \union [cmd : {"toHost"}, at : {<<c>> : c \in 0..In-1}]
  \union [cmd : {"mixMap", "mixMult"}, at : MixIds \X InputIds]

Agree(p) ==
  /\ p.cmd = "toDevice" => ep0.aud[p.at[1]] = mixer.device[p.at[1]]
  /\ p.cmd = "toHost" => ep0.usb[p.at[1]] = mixer.host[p.at[1]]
  /\ p.cmd = "mixMap" => ep0.mixSel[p.at[1]][p.at[2]] = mixer.source[p.at[1]][p.at[2]]
  /\ p.cmd = "mixMult" => ((ep0.weights[p.at[2] * 8 + p.at[1]] = "unity")
                             <=> (mixer.mult[p.at[1]][p.at[2]] = "unity"))

Faithful(c) ==
  /\ c.cmd = "toDevice" => ep0.aud[c.at[1]] = c.to
  /\ c.cmd = "toHost" => ep0.usb[c.at[1]] = c.to
  /\ c.cmd = "mixMap" => ep0.mixSel[c.at[1]][c.at[2]] = c.to
  /\ c.cmd = "mixMult" => /\ c.at \in MixIds \X InputIds
                          /\ (ep0.weights[c.at[2] * 8 + c.at[1]] = "unity") <=> (c.to = "unity")

Writes(c, p) == c.cmd = p.cmd /\ c.at = p.at

StepInv ==
  /\ \A k \in 1..Len(todo) : Faithful(todo[k])
  /\ \A p \in Places : Agree(p) \/ \E k \in 1..Len(todo) : Writes(todo[k], p)

LEMMA Except1 ==
  ASSUME NEW S, NEW T, NEW f \in [S -> T], NEW x \in S, NEW y \in S, NEW v
  PROVE  [f EXCEPT ![x] = v][y] = IF x = y THEN v ELSE f[y]
  OBVIOUS

LEMMA Except2 ==
  ASSUME NEW S, NEW T, NEW U, NEW f \in [S -> [T -> U]], NEW x \in S, NEW y \in S, NEW i \in T, NEW j \in T, NEW v
  PROVE  [f EXCEPT ![x][i] = v][y][j] = IF x = y /\ i = j THEN v ELSE f[y][j]
<1>1. CASE x = y
  BY <1>1
<1>2. CASE x # y
  BY <1>2
<1>3. QED
  BY <1>1, <1>2

\* A command that mixer1 takes makes its place agree and leaves the others.
LEMMA Takes ==
  ASSUME mixer \in Tables, NEW c \in Commands, Faithful(c), Apply(c), ep0' = ep0, NEW p \in Places,
         Agree(p) \/ Writes(c, p)
  PROVE  Agree(p)'
<1>1. CASE c.cmd = "toDevice"
  <2>1. c \in [cmd : {"toDevice"}, at : {<<x>> : x \in 0..Out-1}, to : Sources]
    BY <1>1 DEF Commands
  <2>2. mixer' = [mixer EXCEPT !.device[c.at[1]] = c.to]
    BY <1>1, Applied
  <2>3. CASE p.cmd = "toDevice"
    <3>1. p.at \in {<<x>> : x \in 0..Out-1}
      BY <2>3 DEF Places
    <3>2. mixer'.device = [mixer.device EXCEPT ![c.at[1]] = c.to]
      BY <2>2 DEF Tables
    <3>3. mixer'.device[p.at[1]] = IF p.at = c.at THEN c.to ELSE mixer.device[p.at[1]]
      <4>1. PICK x \in 0..Out-1 : c.at = <<x>>
        BY <2>1
      <4>2. PICK y \in 0..Out-1 : p.at = <<y>>
        BY <3>1
      <4>3. p.at = c.at <=> x = y
        BY <4>1, <4>2
      <4>4. mixer'.device = [mixer.device EXCEPT ![x] = c.to] /\ mixer.device \in [0..Out-1 -> 0..SourceCount-1]
        BY <3>2, <4>1 DEF Tables
      <4>5. mixer'.device[y] = IF x = y THEN c.to ELSE mixer.device[y]
        BY <4>4, Except1, Zenon
      <4>6. p.at[1] = y
        BY <4>2
      <4>7. QED
        BY <4>3, <4>5, <4>6, Zenon
    <3>4. QED
      BY <1>1, <2>3, <3>3 DEF Agree, Faithful, Writes
  <2>4. CASE p.cmd # "toDevice"
    BY <1>1, <2>2, <2>4 DEF Agree, Writes, Tables
  <2>5. QED
    BY <2>3, <2>4
<1>2. CASE c.cmd = "toHost"
  <2>1. c \in [cmd : {"toHost"}, at : {<<x>> : x \in 0..In-1}, to : Sources]
    BY <1>2 DEF Commands
  <2>2. mixer' = [mixer EXCEPT !.host[c.at[1]] = c.to]
    BY <1>2, Applied
  <2>3. CASE p.cmd = "toHost"
    <3>1. p.at \in {<<x>> : x \in 0..In-1}
      BY <2>3 DEF Places
    <3>2. mixer'.host = [mixer.host EXCEPT ![c.at[1]] = c.to]
      BY <2>2 DEF Tables
    <3>3. mixer'.host[p.at[1]] = IF p.at = c.at THEN c.to ELSE mixer.host[p.at[1]]
      <4>1. PICK x \in 0..In-1 : c.at = <<x>>
        BY <2>1
      <4>2. PICK y \in 0..In-1 : p.at = <<y>>
        BY <3>1
      <4>3. p.at = c.at <=> x = y
        BY <4>1, <4>2
      <4>4. mixer'.host = [mixer.host EXCEPT ![x] = c.to] /\ mixer.host \in [0..In-1 -> 0..SourceCount-1]
        BY <3>2, <4>1 DEF Tables
      <4>5. mixer'.host[y] = IF x = y THEN c.to ELSE mixer.host[y]
        BY <4>4, Except1, Zenon
      <4>6. p.at[1] = y
        BY <4>2
      <4>7. QED
        BY <4>3, <4>5, <4>6, Zenon
    <3>4. QED
      BY <1>2, <2>3, <3>3 DEF Agree, Faithful, Writes
  <2>4. CASE p.cmd # "toHost"
    BY <1>2, <2>2, <2>4 DEF Agree, Writes, Tables
  <2>5. QED
    BY <2>3, <2>4
<1>3. CASE c.cmd = "mixMap"
  <2>1. c.at \in MixIds \X InputIds
    BY <1>3 DEF Commands
  <2>2. mixer' = [mixer EXCEPT !.source[c.at[1]][c.at[2]] = c.to]
    BY <1>3, Applied
  <2>3. CASE p.cmd = "mixMap"
    <3>1. p.at \in MixIds \X InputIds
      BY <2>3 DEF Places
    <3>2. mixer'.source = [mixer.source EXCEPT ![c.at[1]][c.at[2]] = c.to]
      BY <2>2 DEF Tables
    <3>3. mixer'.source[p.at[1]][p.at[2]] = IF p.at = c.at THEN c.to ELSE mixer.source[p.at[1]][p.at[2]]
      <4>1. PICK m \in MixIds, i \in InputIds : c.at = <<m, i>>
        BY <2>1
      <4>2. PICK n \in MixIds, j \in InputIds : p.at = <<n, j>>
        BY <3>1
      <4>3. p.at = c.at <=> m = n /\ i = j
        BY <4>1, <4>2
      <4>4. /\ mixer'.source = [mixer.source EXCEPT ![m][i] = c.to]
            /\ mixer.source \in [MixIds -> [InputIds -> 0..SourceCount-1]]
        BY <3>2, <4>1 DEF Tables, InputIds
      <4>5. mixer'.source[n][j] = IF m = n /\ i = j THEN c.to ELSE mixer.source[n][j]
        BY <4>4, Except2
      <4>6. p.at[1] = n /\ p.at[2] = j
        BY <4>2
      <4>7. QED
        BY <4>3, <4>5, <4>6, Zenon
    <3>4. QED
      BY <1>3, <2>3, <3>3 DEF Agree, Faithful, Writes
  <2>4. CASE p.cmd # "mixMap"
    BY <1>3, <2>2, <2>4 DEF Agree, Writes, Tables
  <2>5. QED
    BY <2>3, <2>4
<1>4. CASE c.cmd = "mixMult"
  <2>1. c.at \in MixIds \X InputIds
    BY <1>4 DEF Faithful
  <2>2. mixer' = [mixer EXCEPT !.mult[c.at[1]][c.at[2]] = c.to]
    <3>1. c.at[1] < Mixes /\ c.at[2] < Inputs
      BY <2>1, MixerBuild DEF MixerBuild, MixIds, InputIds
    <3>2. QED
      BY <1>4, <3>1, Applied
  <2>3. CASE p.cmd = "mixMult"
    <3>1. p.at \in MixIds \X InputIds
      BY <2>3 DEF Places
    <3>2. mixer'.mult = [mixer.mult EXCEPT ![c.at[1]][c.at[2]] = c.to]
      BY <2>2 DEF Tables
    <3>3. mixer'.mult[p.at[1]][p.at[2]] = IF p.at = c.at THEN c.to ELSE mixer.mult[p.at[1]][p.at[2]]
      <4>1. PICK m \in MixIds, i \in InputIds : c.at = <<m, i>>
        BY <2>1
      <4>2. PICK n \in MixIds, j \in InputIds : p.at = <<n, j>>
        BY <3>1
      <4>3. p.at = c.at <=> m = n /\ i = j
        BY <4>1, <4>2
      <4>4. /\ mixer'.mult = [mixer.mult EXCEPT ![m][i] = c.to]
            /\ mixer.mult \in [MixIds -> [InputIds -> {"unity", "faint", "zero"}]]
        BY <3>2, <4>1 DEF Tables, InputIds
      <4>5. mixer'.mult[n][j] = IF m = n /\ i = j THEN c.to ELSE mixer.mult[n][j]
        BY <4>4, Except2
      <4>6. p.at[1] = n /\ p.at[2] = j
        BY <4>2
      <4>7. QED
        BY <4>3, <4>5, <4>6, Zenon
    <3>4. QED
      BY <1>4, <2>3, <3>3 DEF Agree, Faithful, Writes
  <2>4. CASE p.cmd # "mixMult"
    BY <1>4, <2>2, <2>4 DEF Agree, Writes, Tables
  <2>5. QED
    BY <2>3, <2>4
<1>5. CASE c.cmd = "levels"
  <2>1. mixer' = mixer /\ ~Writes(c, p)
    BY <1>5, Applied DEF Writes, Places
  <2>2. QED
    BY <2>1 DEF Agree
<1>6. QED
  BY <1>1, <1>2, <1>3, <1>4, <1>5 DEF Commands

-----------------------------------------------------------------------------
\* The numbers of the nodes are those of the places: eight to an input.
LEMMA NodePlaces ==
  ASSUME Mixes = 8
  PROVE  /\ \A n \in Nodes : n % 8 \in MixIds /\ n \div 8 \in InputIds /\ n = (n \div 8) * 8 + (n % 8)
         /\ \A m \in MixIds, i \in InputIds :
              /\ i * 8 + m \in Nodes /\ (i * 8 + m) % 8 = m /\ (i * 8 + m) \div 8 = i
<1>1. Inputs \in Nat /\ Nodes = 0..(Inputs * 8)-1 /\ MixIds = 0..7
  BY MixerBuild DEF MixerBuild, Nodes, MixIds
<1>2. ASSUME NEW n \in Nodes
      PROVE  n % 8 \in MixIds /\ n \div 8 \in InputIds /\ n = (n \div 8) * 8 + (n % 8)
  <2>1. n \in Nat /\ n < Inputs * 8
    BY <1>1
  <2>2. n % 8 \in 0..7 /\ n \div 8 \in Int
    BY <2>1
  <2>3. n = (n \div 8) * 8 + (n % 8)
    BY <2>1
  <2>4. n \div 8 >= 0 /\ n \div 8 < Inputs
    BY <1>1, <2>1, <2>2, <2>3
  <2>5. QED
    BY <1>1, <2>2, <2>3, <2>4 DEF InputIds
<1>3. ASSUME NEW m \in MixIds, NEW i \in InputIds
      PROVE  i * 8 + m \in Nodes /\ (i * 8 + m) % 8 = m /\ (i * 8 + m) \div 8 = i
  BY <1>1 DEF InputIds
<1>4. QED
  BY <1>2, <1>3

LEMMA StepInit == ASSUME Mixes = 8 PROVE MixerInit => StepInv
<1> SUFFICES ASSUME MixerInit PROVE StepInv
  OBVIOUS
<1>1. \A k \in 1..Len(todo) : Faithful(todo[k])
  BY DEF MixerInit
<1>2. ASSUME NEW p \in Places PROVE Agree(p)
  <2>1. CASE p.cmd = "toDevice"
    BY <2>1 DEF Places, Agree, MixerInit, InitLocalMixerState, InitMixer
  <2>2. CASE p.cmd = "toHost"
    BY <2>2 DEF Places, Agree, MixerInit, InitLocalMixerState, InitMixer
  <2>3. CASE p.cmd = "mixMap"
    BY <2>3 DEF Places, Agree, MixerInit, InitLocalMixerState, InitMixer, InputIds
  <2>4. CASE p.cmd = "mixMult"
    <3>1. PICK m \in MixIds, i \in InputIds : p.at = <<m, i>>
      BY <2>4 DEF Places
    <3>2. p.at[1] = m /\ p.at[2] = i
      BY <3>1
    <3>3. (\E j \in MixIds : i * 8 + m = j * 8 + j) <=> m = i
      BY MixerBuild DEF MixerBuild, MixIds, InputIds
    <3>4. ep0.weights[i * 8 + m] = IF \E j \in MixIds : i * 8 + m = j * 8 + j THEN "unity" ELSE "least"
      BY NodePlaces DEF MixerInit, InitLocalMixerState
    <3>5. mixer.mult[m][i] = IF m = i THEN "unity" ELSE "zero"
      BY DEF MixerInit, InitMixer, InputIds
    <3>6. QED
      BY <2>4, <3>2, <3>3, <3>4, <3>5 DEF Agree
  <2>5. QED
    BY <2>1, <2>2, <2>3, <2>4 DEF Places
<1>3. QED
  BY <1>1, <1>2 DEF StepInv

\* A request that Endpoint0 serves leaves a command for every place it changes.
LEMMA RequestSteps ==
  ASSUME Mixes = 8, TypeInv, StepInv, NEW r \in Requests, MixerRequest(r)
  PROVE  StepInv'
<1>1. mixer' = mixer /\ \A p \in Places : Agree(p)
  BY DEF MixerRequest, Idle, StepInv, mixVars
<1>a. ep0 \in Copies
  BY DEF TypeInv, InRange
<1>2. CASE r.unit = "xuOut"
  <2>1. r.cn \in 0..Out-1
    BY <1>2, MixerBuild DEF MixerBuild, MixerRequest, Requests
  <2>2. ep0' = [ep0 EXCEPT !.aud[r.cn] = r.value] /\ todo' = <<Route("toDevice", r.cn, r.value)>>
    BY <1>2 DEF MixerRequest
  <2>3. /\ ep0'.aud = [ep0.aud EXCEPT ![r.cn] = r.value] /\ ep0'.usb = ep0.usb
        /\ ep0'.mixSel = ep0.mixSel /\ ep0'.weights = ep0.weights
    BY <1>a, <2>2 DEF Copies
  <2>4. Len(todo') = 1 /\ todo'[1] = [cmd |-> "toDevice", at |-> <<r.cn>>, to |-> r.value]
    BY <2>2 DEF Route
  <2>5. Faithful(todo[1])'
    <3>1. todo'[1].at[1] = r.cn /\ todo'[1].to = r.value /\ todo'[1].cmd = "toDevice"
      BY <2>4
    <3>2. ep0'.aud[r.cn] = r.value
      BY <1>a, <2>1, <2>3 DEF Copies
    <3>3. QED
      BY <3>1, <3>2 DEF Faithful
  <2>6. ASSUME NEW p \in Places PROVE Agree(p)' \/ Writes(todo'[1], p)
    <3>1. CASE p.cmd = "toDevice"
      <4>1. PICK c \in 0..Out-1 : p.at = <<c>>
        BY <3>1 DEF Places
      <4>2. p.at[1] = c /\ (c = r.cn => Writes(todo'[1], p))
        BY <2>4, <3>1, <4>1 DEF Writes
      <4>3. c # r.cn => ep0'.aud[c] = ep0.aud[c]
        BY <1>a, <2>1, <2>3 DEF Copies
      <4>4. QED
        BY <1>1, <3>1, <4>2, <4>3 DEF Agree
    <3>2. CASE p.cmd # "toDevice"
      BY <1>1, <2>3, <3>2 DEF Agree
    <3>3. QED
      BY <3>1, <3>2
  <2>7. QED
    BY <2>4, <2>5, <2>6 DEF StepInv
<1>3. CASE r.unit = "xuIn"
  <2>1. r.cn \in 0..In-1
    BY <1>3, MixerBuild DEF MixerBuild, MixerRequest, Requests
  <2>2. ep0' = [ep0 EXCEPT !.usb[r.cn] = r.value] /\ todo' = <<Route("toHost", r.cn, r.value)>>
    BY <1>3 DEF MixerRequest
  <2>3. /\ ep0'.usb = [ep0.usb EXCEPT ![r.cn] = r.value] /\ ep0'.aud = ep0.aud
        /\ ep0'.mixSel = ep0.mixSel /\ ep0'.weights = ep0.weights
    BY <1>a, <2>2 DEF Copies
  <2>4. Len(todo') = 1 /\ todo'[1] = [cmd |-> "toHost", at |-> <<r.cn>>, to |-> r.value]
    BY <2>2 DEF Route
  <2>5. Faithful(todo[1])'
    <3>1. todo'[1].at[1] = r.cn /\ todo'[1].to = r.value /\ todo'[1].cmd = "toHost"
      BY <2>4
    <3>2. ep0'.usb[r.cn] = r.value
      BY <1>a, <2>1, <2>3 DEF Copies
    <3>3. QED
      BY <3>1, <3>2 DEF Faithful
  <2>6. ASSUME NEW p \in Places PROVE Agree(p)' \/ Writes(todo'[1], p)
    <3>1. CASE p.cmd = "toHost"
      <4>1. PICK c \in 0..In-1 : p.at = <<c>>
        BY <3>1 DEF Places
      <4>2. p.at[1] = c /\ (c = r.cn => Writes(todo'[1], p))
        BY <2>4, <3>1, <4>1 DEF Writes
      <4>3. c # r.cn => ep0'.usb[c] = ep0.usb[c]
        BY <1>a, <2>1, <2>3 DEF Copies
      <4>4. QED
        BY <1>1, <3>1, <4>2, <4>3 DEF Agree
    <3>2. CASE p.cmd # "toHost"
      BY <1>1, <2>3, <3>2 DEF Agree
    <3>3. QED
      BY <3>1, <3>2
  <2>7. QED
    BY <2>4, <2>5, <2>6 DEF StepInv
<1>4. CASE r.unit = "mixer"
  <2>1. /\ r.cn \in Nodes /\ ep0' = [ep0 EXCEPT !.weights[r.cn] = r.value]
        /\ todo' = <<[cmd |-> "mixMult", at |-> <<r.cn % 8, r.cn \div 8>>, to |-> Mult(r.value)]>>
    BY <1>4 DEF MixerRequest
  <2>2. /\ ep0'.weights = [ep0.weights EXCEPT ![r.cn] = r.value] /\ ep0'.aud = ep0.aud
        /\ ep0'.mixSel = ep0.mixSel /\ ep0'.usb = ep0.usb
    BY <1>a, <2>1 DEF Copies
  <2> DEFINE m == r.cn % 8  i == r.cn \div 8
  <2>3. m \in MixIds /\ i \in InputIds /\ i * 8 + m = r.cn
    <3>1. ASSUME NEW n \in Nodes PROVE n % 8 \in MixIds /\ n \div 8 \in InputIds /\ (n \div 8) * 8 + (n % 8) = n
      BY NodePlaces
    <3>2. QED
      BY <2>1, <3>1
  <2>4. Len(todo') = 1 /\ todo'[1] = [cmd |-> "mixMult", at |-> <<m, i>>, to |-> Mult(r.value)]
    BY <2>1
  <2> HIDE DEF m, i
  <2>5. Faithful(todo[1])'
    <3>1. ep0'.weights[i * 8 + m] = r.value
      BY <1>a, <2>1, <2>2, <2>3 DEF Copies
    <3>2. todo'[1].at[1] = m /\ todo'[1].at[2] = i /\ todo'[1].at \in MixIds \X InputIds
      BY <2>3, <2>4
    <3>3. todo'[1].to = Mult(r.value) /\ todo'[1].cmd = "mixMult"
      BY <2>4
    <3>4. QED
      BY <3>1, <3>2, <3>3 DEF Faithful, Mult
  <2>6. ASSUME NEW p \in Places PROVE Agree(p)' \/ Writes(todo'[1], p)
    <3>1. CASE p.cmd = "mixMult"
      <4>1. PICK n \in MixIds, j \in InputIds : p.at = <<n, j>>
        BY <3>1 DEF Places
      <4>2. /\ p.at[1] = n /\ p.at[2] = j
            /\ n = m /\ j = i => Writes(todo'[1], p)
        BY <2>4, <3>1, <4>1 DEF Writes
      <4>3. ~(n = m /\ j = i) => j * 8 + n # r.cn
        BY <2>3, NodePlaces
      <4>4. j * 8 + n # r.cn => ep0'.weights[j * 8 + n] = ep0.weights[j * 8 + n]
        BY <1>a, <2>2, NodePlaces DEF Copies
      <4>5. QED
        BY <1>1, <3>1, <4>2, <4>3, <4>4 DEF Agree
    <3>2. CASE p.cmd # "mixMult"
      BY <1>1, <2>2, <3>2 DEF Agree
    <3>3. QED
      BY <3>1, <3>2
  <2>7. QED
    BY <2>4, <2>5, <2>6 DEF StepInv
<1>5. CASE r.unit = "mixSel"
  <2> DEFINE source == IF r.value = 255 THEN Off ELSE r.value
             mixes  == IF r.cs = 0 THEN MixIds ELSE {r.cs - 1}
             count  == IF r.cs = 0 THEN Mixes ELSE 1
             mixOf(k) == IF r.cs = 0 THEN k - 1 ELSE r.cs - 1
  <2>1. r.cn \in InputIds /\ r.cs \in Nat /\ r.cs <= Mixes
    BY <1>5, MixerBuild DEF MixerBuild, MixerRequest, Requests, InputIds
  <2>2. count \in Nat /\ \A k \in 1..count : mixOf(k) \in mixes /\ mixOf(k) \in MixIds
    BY <2>1 DEF MixIds
  <2>3. \A m \in mixes : \E k \in 1..count : mixOf(k) = m
    <3>1. CASE r.cs = 0
      <4>1. \A m \in MixIds : m + 1 \in 1..count /\ mixOf(m + 1) = m
        BY <3>1, MixerBuild DEF MixerBuild, MixIds
      <4>2. QED
        BY <3>1, <4>1
    <3>2. CASE r.cs # 0
      BY <3>2
    <3>3. QED
      BY <3>1, <3>2
  <2>4. /\ ep0'.mixSel = [m \in MixIds |-> IF m \in mixes THEN [ep0.mixSel[m] EXCEPT ![r.cn] = source]
                                            ELSE ep0.mixSel[m]]
        /\ ep0'.aud = ep0.aud /\ ep0'.usb = ep0.usb /\ ep0'.weights = ep0.weights
    BY <1>5, <1>a DEF MixerRequest, SelectSource, Copies
  <2>5. todo' = [k \in 1..count |-> [cmd |-> "mixMap", at |-> <<mixOf(k), r.cn>>, to |-> source]]
    BY <1>5 DEF MixerRequest, SelectSource
  <2> HIDE DEF source, mixes, count, mixOf
  <2>6. Len(todo') = count
    BY <2>2, <2>5
  <2>7. \A m \in MixIds, i \in InputIds :
          ep0'.mixSel[m][i] = IF m \in mixes /\ i = r.cn THEN source ELSE ep0.mixSel[m][i]
    BY <1>a, <2>1, <2>4 DEF Copies
  <2>8. ASSUME NEW k \in 1..count PROVE Faithful(todo[k])'
    <3>1. todo'[k] = [cmd |-> "mixMap", at |-> <<mixOf(k), r.cn>>, to |-> source]
      BY <2>5
    <3>2. todo'[k].at[1] = mixOf(k) /\ todo'[k].at[2] = r.cn /\ todo'[k].to = source /\ todo'[k].cmd = "mixMap"
      BY <3>1
    <3>3. ep0'.mixSel[mixOf(k)][r.cn] = source
      BY <2>1, <2>2, <2>7
    <3>4. QED
      BY <3>2, <3>3 DEF Faithful
  <2>9. ASSUME NEW p \in Places PROVE Agree(p)' \/ \E k \in 1..count : Writes(todo'[k], p)
    <3>1. CASE p.cmd = "mixMap"
      <4>1. PICK m \in MixIds, i \in InputIds : p.at = <<m, i>>
        BY <3>1 DEF Places
      <4>2. p.at[1] = m /\ p.at[2] = i
        BY <4>1
      <4>3. CASE m \in mixes /\ i = r.cn
        <5>1. PICK k \in 1..count : mixOf(k) = m
          BY <2>3, <4>3
        <5>2. todo'[k] = [cmd |-> "mixMap", at |-> <<m, i>>, to |-> source]
          BY <2>5, <4>3, <5>1
        <5>3. QED
          BY <3>1, <4>1, <5>2 DEF Writes
      <4>4. CASE ~(m \in mixes /\ i = r.cn)
        <5>1. ep0'.mixSel[m][i] = ep0.mixSel[m][i]
          BY <2>7, <4>4
        <5>2. QED
          BY <1>1, <3>1, <4>2, <5>1 DEF Agree
      <4>5. QED
        BY <4>3, <4>4
    <3>2. CASE p.cmd # "mixMap"
      BY <1>1, <2>4, <3>2 DEF Agree
    <3>3. QED
      BY <3>1, <3>2
  <2>10. QED
    BY <2>6, <2>8, <2>9 DEF StepInv
<1>6. CASE r.unit = "levels"
  <2>1. ep0' = ep0 /\ Len(todo') = 1 /\ todo'[1].cmd = "levels"
    BY <1>6 DEF MixerRequest
  <2>2. Faithful(todo[1])' /\ \A p \in Places : Agree(p)'
    BY <1>1, <2>1 DEF Faithful, Agree
  <2>3. QED
    BY <2>1, <2>2 DEF StepInv
<1>7. QED
  BY <1>2, <1>3, <1>4, <1>5, <1>6 DEF MixerRequest

LEMMA StepStep ==
  ASSUME Mixes = 8
  PROVE  TypeInv /\ StepInv /\ [MixerNext]_vars => StepInv'
<1> SUFFICES ASSUME TypeInv, StepInv, [MixerNext]_vars PROVE StepInv'
  OBVIOUS
<1>a. ASSUME UNCHANGED <<ep0, todo, mixer>> PROVE StepInv'
  BY <1>a DEF StepInv, Faithful, Agree, Writes
<1>1. ASSUME NEW r \in Requests, MixerRequest(r) PROVE StepInv'
  BY <1>1, RequestSteps
<1>2. CASE ServeControl
  <2>1. todo \in Seq(Commands) /\ todo # <<>> /\ mixer \in Tables
    BY <1>2 DEF ServeControl, TypeInv, TypeOK, Tables
  <2>2. Head(todo) \in Commands /\ Head(todo) = todo[1] /\ Len(todo) \in Nat /\ 1 \in 1..Len(todo)
    BY <2>1
  <2>3. Apply(Head(todo)) /\ ep0' = ep0 /\ Faithful(Head(todo))
    BY <1>2, <2>2 DEF ServeControl, StepInv
  <2>4. CASE Head(todo).cmd = "levels"
    <3>1. UNCHANGED <<ep0, todo, mixer>>
      BY <1>2, <2>2, <2>3, <2>4, Applied DEF ServeControl
    <3>2. QED
      BY <3>1, <1>a
  <2>5. CASE Head(todo).cmd # "levels"
    <3>1. /\ Len(todo') = Len(todo) - 1
          /\ \A k \in 1..Len(todo') : k + 1 \in 1..Len(todo) /\ todo'[k] = todo[k + 1]
          /\ \A k \in 1..Len(todo) : k # 1 => k - 1 \in 1..Len(todo') /\ todo'[k - 1] = todo[k]
      BY <1>2, <2>1, <2>5 DEF ServeControl
    <3>2. ASSUME NEW k \in 1..Len(todo') PROVE Faithful(todo[k])'
      <4>1. Faithful(todo[k + 1]) /\ todo'[k] = todo[k + 1]
        BY <3>1 DEF StepInv
      <4>2. QED
        BY <2>3, <4>1 DEF Faithful
    <3>3. ASSUME NEW p \in Places PROVE Agree(p)' \/ \E k \in 1..Len(todo') : Writes(todo'[k], p)
      <4>1. CASE Agree(p) \/ Writes(Head(todo), p)
        BY <2>1, <2>2, <2>3, <4>1, Takes
      <4>2. ASSUME NEW k \in 1..Len(todo), k # 1, Writes(todo[k], p)
            PROVE  \E j \in 1..Len(todo') : Writes(todo'[j], p)
        BY <3>1, <4>2
      <4>3. QED
        BY <2>2, <4>1, <4>2 DEF StepInv
    <3>4. QED
      BY <3>2, <3>3 DEF StepInv
  <2>6. QED
    BY <2>4, <2>5
<1>3. ASSUME NEW above96k \in BOOLEAN, RateRequest(above96k) PROVE StepInv'
  BY <1>3, <1>a DEF RateRequest, mixVars
<1>4. CASE Ask
  BY <1>4, <1>a DEF Ask, mixVars
<1>5. CASE Request \/ Pass \/ Command \/ Exchange \/ Mix1 \/ Mix2
  BY <1>5, <1>a DEF Request, Pass, Command, Exchange, Start, Mix1, Mix2, ep0Vars
<1>6. CASE UNCHANGED vars
  BY <1>6, <1>a DEF vars, ep0Vars, mixVars
<1>7. QED
  BY <1>1, <1>2, <1>3, <1>4, <1>5, <1>6 DEF MixerNext, Mixer1

\* What Endpoint0 would answer a host is what is mixed and routed whenever no
\* request is being served, for any number of channels and inputs and whatever
\* was asked before.  Eight mixes are needed: the numbers of the nodes count
\* eight to an input in Endpoint0's commands and Mixes to an input for a host.
THEOREM InStep == Mixes = 8 => (MixerSpec => []MixerInStep)
<1> SUFFICES ASSUME Mixes = 8 PROVE MixerSpec => []MixerInStep
  OBVIOUS
<1>1. TypeInv /\ StepInv => MixerInStep
  <2> SUFFICES ASSUME TypeInv, StepInv, todo = <<>> PROVE MixerInStep
    BY DEF MixerInStep, Idle
  <2>1. \A p \in Places : Agree(p)
    BY DEF StepInv
  <2>2. /\ ep0 \in Copies
        /\ mixer \in [source : [MixIds -> [InputIds -> Sources]],
                      mult : [MixIds -> [InputIds -> {"unity", "faint", "zero"}]],
                      device : [0..Out-1 -> Sources], host : [0..In-1 -> Sources]]
    BY DEF TypeInv, TypeOK, InRange, InputIds, Sources
  <2>3. ASSUME NEW m \in MixIds, NEW i \in InputIds
        PROVE  /\ ep0.mixSel[m][i] = mixer.source[m][i]
               /\ (ep0.weights[i * 8 + m] = "unity") <=> (mixer.mult[m][i] = "unity")
    <3> DEFINE p(cmd) == [cmd |-> cmd, at |-> <<m, i>>]
    <3>1. p("mixMap") \in Places /\ p("mixMult") \in Places
      BY DEF Places
    <3>2. Agree(p("mixMap")) /\ Agree(p("mixMult"))
      BY <2>1, <3>1
    <3>3. QED
      BY <3>2 DEF Agree
  <2>4. ASSUME NEW c \in 0..Out-1 PROVE ep0.aud[c] = mixer.device[c]
    <3>1. [cmd |-> "toDevice", at |-> <<c>>] \in Places
      BY DEF Places
    <3>2. QED
      BY <2>1, <3>1 DEF Agree
  <2>5. ASSUME NEW c \in 0..In-1 PROVE ep0.usb[c] = mixer.host[c]
    <3>1. [cmd |-> "toHost", at |-> <<c>>] \in Places
      BY DEF Places
    <3>2. QED
      BY <2>1, <3>1 DEF Agree
  <2>6. ep0.mixSel = mixer.source
    <3>1. ASSUME NEW m \in MixIds PROVE ep0.mixSel[m] = mixer.source[m]
      BY <2>2, <2>3 DEF Copies
    <3>2. QED
      BY <2>2, <3>1 DEF Copies
  <2>7. ep0.aud = mixer.device /\ ep0.usb = mixer.host
    <3> DEFINE outs == 0..Out-1  ins == 0..In-1
    <3>1. /\ ep0.aud \in [outs -> Sources] /\ mixer.device \in [outs -> Sources]
          /\ ep0.usb \in [ins -> Sources] /\ mixer.host \in [ins -> Sources]
      BY <2>2 DEF Copies
    <3>2. /\ \A c \in outs : ep0.aud[c] = mixer.device[c]
          /\ \A c \in ins : ep0.usb[c] = mixer.host[c]
      BY <2>4, <2>5
    <3> HIDE DEF outs, ins
    <3>3. ep0.aud = mixer.device
      BY <3>1, <3>2
    <3>4. ep0.usb = mixer.host
      BY <3>1, <3>2
    <3>5. QED
      BY <3>3, <3>4
  <2>8. QED
    BY <2>3, <2>6, <2>7 DEF MixerInStep, InputIds
<1>2. MixerSpec => [](TypeInv /\ StepInv)
  BY TypeInit, TypeStep, StepInit, StepStep, PTL DEF MixerSpec
<1>3. QED
  BY <1>1, <1>2, PTL
=============================================================================
