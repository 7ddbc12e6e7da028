-------------------------------- MODULE MCDfu --------------------------------
(***************************************************************************)
(* Two firmware files for DfuTool, one of them ending in the middle of a   *)
(* flash page, and a file of less than a block, which is no image.         *)
(***************************************************************************)
EXTENDS DfuTool

FileA == [blocks |-> <<"a1", "a2", "a3">>, rem |-> <<>>]
FileB == [blocks |-> <<"b1", "b2">>, rem |-> <<>>]
FileC == [blocks |-> <<>>, rem |-> <<"c1">>]

MCData   == {"a1", "a2", "a3", "b1", "b2", "c1", Zeros}
MCFiles  == {FileA, FileB, FileC}
MCImages == {<< <<"a1", "a2">>, <<"a3", Zeros>> >>, << <<"b1", "b2">> >>}
MCFactory == << <<"factory">> >>
=============================================================================
