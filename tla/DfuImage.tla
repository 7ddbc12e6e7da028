------------------------------ MODULE DfuImage ------------------------------
(***************************************************************************)
(* What a firmware upgrade promises: the device starts the factory image   *)
(* or one whole upgrade image, and a new upgrade image is one that the     *)
(* user asked to be installed.  In between, the device falls back to the   *)
(* factory image; an image is lost only when the user asked for another.   *)
(***************************************************************************)
CONSTANTS Factory,  \* the factory image, which is never touched
          Images    \* the upgrade images there are

VARIABLES boot,     \* the image the boot loader starts
          asked     \* the images the user asked for

Init == boot \in Images \union {Factory} /\ asked = {}

Ask(i)     == asked' = asked \union {i} /\ boot' = boot
FallBack   == asked # {} /\ boot' = Factory /\ asked' = asked
Install(i) == boot = Factory /\ i \in asked /\ boot' = i /\ asked' = asked

Next == FallBack \/ \E i \in Images \union {Factory} : Ask(i) \/ Install(i)

Spec == Init /\ [][Next]_<<boot, asked>>
=============================================================================
