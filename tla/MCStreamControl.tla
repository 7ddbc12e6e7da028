-------------------------- MODULE MCStreamControl --------------------------
(***************************************************************************)
(* Small instances of StreamControl: two sample rates, one input alternate *)
(* setting, a PCM and (where DSD is built in) a DSD output one.            *)
(***************************************************************************)
EXTENDS StreamControl

MCAlts    == [INPUT |-> {1}, OUTPUT |-> {1, 2}]
MCDsdAlts == {2}
=============================================================================
