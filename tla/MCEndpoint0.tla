---------------------------- MODULE MCEndpoint0 ----------------------------
(***************************************************************************)
(* Builds for Endpoint0.  The descriptors are well formed for a build that *)
(* meets the conditions of Sound; the README says what each of the others  *)
(* runs into.                                                              *)
(***************************************************************************)
EXTENDS Endpoint0

\* Applications: channels out and in, and options
Applications == {
  <<2, 2, {"dfu", "outVolume", "inVolume", "control"}>>,
  <<2, 2, {"dfu", "hid", "hidOut", "midi", "feedback"}>>,
  <<10, 10, {"spdifTx", "spdifRx", "adatTx", "adatRx", "dfu", "midi", "outVolume"}>>,
  <<10, 10, {"mixer", "outVolume", "inVolume", "hid", "control", "feedback"}>>,
  <<8, 2, {"dsd", "dfu", "control", "hid"}>>,
  <<8, 2, {"dfu", "midi", "feedback", "outVolume", "spdifTx"}>>,
  <<2, 0, {"dsd", "dfu", "control", "hid"}>>,
  <<0, 2, {"dfu", "hid", "hidOut", "midi"}>>}
Classes  == {<<2, 1>>, <<2, 2>>, <<0, 1>>}
Rates    == {<<44100, 192000>>, <<48000, 48000>>, <<44100, 48000>>}

Places == [s \in {"spdifTx", "spdifRx", "adatTx", "adatRx"} |-> IF s \in {"adatTx", "adatRx"} THEN 2 ELSE 0]

\* Builds with several rates are asynchronous.
AllBuilds ==
  {[out |-> a[1], in |-> a[2], dac |-> 2, adc |-> 2, minF |-> r[1], maxF |-> r[2], hs |-> k[1], fs |-> k[2],
    sync |-> IF r[1] = r[2] THEN "adaptive" ELSE "async", has |-> a[3], at |-> Places, mixIn |-> 18,
    inRes |-> <<24, 24, 24>>] :
     a \in Applications, r \in Rates, k \in Classes}

\* What the code needs beyond what the preprocessor asks for
DispatchedApart(b) == \A n \in {"dfu", "hid"} \intersect b.has : INTERFACE_NUMBER(b, n) > 2
ControlNumbered(b) == b.fs = 1 => ~({"midi", "control"} \subseteq b.has)
FeedbackCounted(b) == b.fs = 1 /\ b.in = 0 => b.sync = "async"
InputsMunged(b)    == b.hs = 2 /\ b.fs # 1 => INPUT_FORMAT_COUNT(b) = 1
Sound(b) == DispatchedApart(b) /\ ControlNumbered(b) /\ FeedbackCounted(b) /\ InputsMunged(b)

MCBuilds == {b \in AllBuilds : Valid(b) /\ Sound(b) /\ (b.fs = 1 => RateRangeFits(b))}
=============================================================================
