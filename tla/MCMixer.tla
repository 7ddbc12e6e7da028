------------------------------ MODULE MCMixer ------------------------------
(***************************************************************************)
(* Eight mixes of eight inputs over five channels out and three in.  The   *)
(* requests change corners: the first and the last mix, a channel, a mix,  *)
(* "off"; two sources of the tool make one input borrow another's name.    *)
(***************************************************************************)
EXTENDS MixerTool

Request4(unit, cs, cn, value) == [unit |-> unit, cs |-> cs, cn |-> cn, value |-> value]
MCToolRequests ==
  {Request4("mixSel", 0, 0, 1), Request4("mixSel", 0, 1, 2), Request4("mixSel", 0, 0, 255),
   Request4("mixer", 0, 9, "inf"), Request4("mixer", 0, 8, "unity"),
   Request4("mixer", 0, 0, "unity"), Request4("xuOut", 0, 4, 6), Request4("xuIn", 0, 2, 15),
   Request4("xuOut", 0, 0, 0), Request4("levels", 0, 0, 0)}
MCOtherRequests ==
  {Request4("mixSel", 8, 1, 3), Request4("mixer", 0, 63, "inf"), Request4("xuIn", 0, 1, 0)}
=============================================================================
