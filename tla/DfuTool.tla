------------------------------- MODULE DfuTool -------------------------------
(***************************************************************************)
(* The host tool xmosdfu against the device of module Dfu: it finds the    *)
(* device, detaches it from the application, downloads, uploads or reverts *)
(* in DFU mode, and detaches again.  The tool may be killed, the device    *)
(* power cycled and the bus reset at any point; the user runs the tool     *)
(* again.  A step is one control transfer and what the tool makes of its   *)
(* result.                                                                 *)
(***************************************************************************)
EXTENDS Dfu

CONSTANTS Files,      \* firmware files: [blocks, rem], rem a sequence of at most one short block
          MaxRuns,    \* bound: how often the user runs the tool
          MaxFaults   \* bound: kills of the tool, power cycles and bus resets

ASSUME FilesAssumption ==
  \A file \in Files : file \in [blocks : Seq(Data), rem : Seq(Data)] /\ Len(file.rem) <= 1

VARIABLES dev,      \* the device
          pc,       \* where the tool is
          tool,     \* what the tool was asked to do, and how far it has come
          asked,    \* the images the user asked to be installed
          runs, faults

vars == <<dev, pc, tool, asked, runs, faults>>

Ops == {"download", "upload", "revert"}
\* Whether the ids on the command line are those of the device, in its two modes
Ids == {[runtime |-> TRUE, dfu |-> TRUE], [runtime |-> TRUE, dfu |-> FALSE],
        [runtime |-> FALSE, dfu |-> TRUE]}
NoFile == [blocks |-> <<>>, rem |-> <<>>]

\* The pages a file becomes: its blocks, then zeros up to the end of the page.
Pages(file) ==
  LET blocks == file.blocks \o file.rem
      n == (Len(blocks) + SubPages - 1) \div SubPages
      BlockAt(i) == IF i <= Len(blocks) THEN blocks[i] ELSE Zeros
  IN  [p \in 1..n |-> [i \in 1..SubPages |-> BlockAt((p - 1) * SubPages + i)]]
Blocks(slot) ==
  [i \in 1..Len(slot) * SubPages |-> slot[((i - 1) \div SubPages) + 1][((i - 1) % SubPages) + 1]]

Idle == [op |-> "none", file |-> NoFile, ids |-> [runtime |-> TRUE, dfu |-> TRUE], blk |-> 0,
         got |-> <<>>, told |-> FALSE, open |-> FALSE, clean |-> FALSE,
         idle |-> FALSE, fresh |-> FALSE,
         found |-> Factory]

Init ==
  /\ \E slot \in {<<>>} \union Images : dev = Booted(slot, FALSE)
  /\ pc = "off" /\ tool = Idle /\ asked = {} /\ runs = 0 /\ faults = 0
-----------------------------------------------------------------------------
\* The user starts the tool.
Start ==
  /\ pc = "off" /\ runs < MaxRuns
  /\ \E op \in Ops, file \in Files, ids \in Ids :
       /\ op # "download" => file = CHOOSE f \in Files : TRUE
       /\ tool' = [Idle EXCEPT !.op = op, !.file = IF op = "download" THEN file ELSE NoFile,
                               !.ids = ids, !.clean = TRUE]
       /\ asked' = CASE op = "upload"   -> asked
                     [] op = "revert"   -> asked \union {Factory}
                     [] op = "download" -> asked \union {Bootable(Pages(file))}
  /\ pc' = "find" /\ runs' = runs + 1 /\ UNCHANGED <<dev, faults>>

Goto(where) == pc' = where
Quit == pc' = "off" /\ tool' = [tool EXCEPT !.open = FALSE]

\* probe_configuration: does the device match, in the mode it is in?
Matches == IF dev.dfuMode THEN tool.ids.dfu ELSE tool.ids.runtime

\* find_xmos_device and libusb_claim_interface: the device stays in or leaves the
\* application.  What it is like when the operation begins is noted.
FirstPc == CASE tool.op = "download" -> "block" [] tool.op = "upload" -> "upload" [] OTHER -> "revert"
Opened ==
  /\ Goto(FirstPc)
  /\ tool' = [tool EXCEPT !.open = TRUE, !.found = dev.slot,
                          !.idle  = dev.dfuMode /\ dev.state = "DFU_IDLE",
                          !.fresh = dev.dfuMode /\ dev.state = "DFU_IDLE" /\ ~dev.connected]
Find ==
  /\ pc = "find" /\ UNCHANGED <<dev, asked, runs, faults>>
  /\ \/ ~Matches /\ Quit
     \/ Matches /\ ~dev.dfuMode /\ Goto("detach") /\ tool' = [tool EXCEPT !.open = TRUE]
     \/ Matches /\ dev.dfuMode /\ Opened

\* DFU_DETACH out of the application, the wait of 20 seconds and the second find
DetachApp ==
  /\ pc = "detach" /\ UNCHANGED <<asked, runs, faults>>
  /\ \/ ~tool.open /\ Quit /\ UNCHANGED dev
     \/ tool.open /\ dev' = Detach(dev) /\ Goto("again") /\ tool' = [tool EXCEPT !.open = FALSE]
\* The second find does not detach a device it finds in the application.
FindAgain ==
  /\ pc = "again" /\ UNCHANGED <<dev, asked, runs, faults>>
  /\ \/ ~Matches /\ Quit
     \/ Matches /\ Opened
-----------------------------------------------------------------------------
\* The tool sends its requests to interface 0, which is that of DFU in DFU mode only.
Served == tool.open /\ dev.dfuMode

\* How much of an erase may be left when a request has been served
EraseSteps == IF dev.eraseLeft = 0 THEN {0} ELSE 0..(dev.eraseLeft - 1)
EraseBegun == IF dev.state = "DFU_IDLE" THEN 0..MaxErase ELSE {0}

\* A DFU_DNLOAD that Endpoint0 serves is answered unless the handler refuses it.
SendBlock(len, num, block) ==
  IF Served THEN \E left \in EraseBegun : dev' = Answered(Dnload(dev, len, num, block, left))
               ELSE dev' = dev
Sent(len) == Served /\ ~DnloadRefused(OpenFlash(dev), len)

\* dfu_download for the next whole block; without an answer write_dfu_image gives up.
Block ==
  /\ pc = "block" /\ tool.blk < Len(tool.file.blocks)
  /\ SendBlock(1, tool.blk, tool.file.blocks[tool.blk + 1])
  /\ Goto(IF Sent(1) THEN "poll" ELSE "leave")
  /\ UNCHANGED <<tool, asked, runs, faults>>

\* dfu_getStatus until the device is ready for the next block.  A transfer that
\* fails leaves the buffer of dfu_getStatus as it was, which is anything.
PollStatus ==
  IF Served THEN \E left \in EraseSteps : dev' = Answered(GetStatus(dev, left)) ELSE dev' = dev
StateSeen(s) == IF Served THEN s = dev'.state ELSE s \in {"ERROR", "DOWNLOAD_IDLE", "DOWNLOAD_BUSY"}
Poll ==
  /\ pc = "poll" /\ PollStatus
  /\ \E s \in States : StateSeen(s)
       /\ Goto(CASE s = "ERROR" -> "leave" [] s = "DOWNLOAD_IDLE" -> "block" [] OTHER -> "poll")
       /\ tool' = IF s = "DOWNLOAD_IDLE" THEN [tool EXCEPT !.blk = @ + 1] ELSE tool
  /\ UNCHANGED <<asked, runs, faults>>

\* The rest of the file, then the block of length zero: nobody looks at the results.
Rest ==
  /\ pc = "block" /\ tool.blk = Len(tool.file.blocks)
  /\ IF tool.file.rem = <<>> THEN dev' = dev ELSE SendBlock(1, tool.blk, tool.file.rem[1])
  /\ Goto(IF tool.file.rem = <<>> THEN "end" ELSE "restPoll")
  /\ UNCHANGED <<tool, asked, runs, faults>>
RestPoll == pc = "restPoll" /\ PollStatus /\ Goto("end") /\ UNCHANGED <<tool, asked, runs, faults>>
End ==
  /\ pc = "end" /\ SendBlock(0, 0, Zeros) /\ Goto("endPoll")
  /\ UNCHANGED <<tool, asked, runs, faults>>
EndPoll ==
  /\ pc = "endPoll" /\ PollStatus /\ Goto("leave") /\ tool' = [tool EXCEPT !.told = TRUE]
  /\ UNCHANGED <<asked, runs, faults>>
-----------------------------------------------------------------------------
\* dfu_upload until an empty block.  numBytes is unsigned: an error is no empty
\* block, and a block is written to the file all the same.
ReadBlock ==
  /\ pc = "upload" /\ UNCHANGED <<asked, runs, faults>>
  /\ \/ /\ Served /\ dev' = Answered(Upload(dev, 1))
        /\ tool' = [tool EXCEPT !.got = @ \o UploadData(dev, 1), !.told = UploadData(dev, 1) = <<>>]
        /\ Goto(IF UploadData(dev, 1) = <<>> THEN "leave" ELSE "upload")
     \/ ~Served /\ UNCHANGED <<dev, tool, pc>>

\* xmos_dfu_revertfactory, the vendor request
Revert ==
  /\ pc = "revert" /\ Goto("leave")
  /\ dev' = IF Served THEN Answered(RevertFactory(dev)) ELSE dev
  /\ tool' = [tool EXCEPT !.told = TRUE] /\ UNCHANGED <<asked, runs, faults>>

\* The last detach, which restarts the device, and "Returning device to application mode"
Leave ==
  /\ pc = "leave" /\ UNCHANGED <<asked, runs, faults>>
  /\ \/ ~tool.open /\ Quit /\ UNCHANGED dev
     \/ tool.open /\ dev' = Detach(dev) /\ Goto("done") /\ tool' = [tool EXCEPT !.open = FALSE]
Exit == pc = "done" /\ Quit /\ UNCHANGED <<dev, asked, runs, faults>>
-----------------------------------------------------------------------------
Fault == faults < MaxFaults /\ faults' = faults + 1 /\ UNCHANGED <<asked, runs>>

Kill == pc # "off" /\ Fault /\ Quit /\ UNCHANGED dev

\* The word at FLAG_ADDRESS is in RAM, and lost.
PowerCycle ==
  /\ Fault /\ dev' = Booted(dev.slot, FALSE)
  /\ tool' = [tool EXCEPT !.open = FALSE, !.clean = FALSE] /\ UNCHANGED pc

\* A bus reset; the handle of the tool is good afterwards unless the device restarts.
BusReset ==
  /\ Fault /\ \E early \in BOOLEAN :
       /\ dev' = BusResetOf(dev, early)
       /\ tool' = [tool EXCEPT !.clean = FALSE,
                               !.open = @ /\ (StaysInDfu(dev, early) \/ ~dev.dfuMode)]
  /\ UNCHANGED pc

\* Another program, or another version of the tool, talks to the DFU interface.
Stray ==
  /\ Fault /\ UNCHANGED pc
  /\ \/ /\ dev' \in {Answered(GetState(dev)), Answered(ClrStatus(dev)), Answered(Abort(dev))}
        /\ tool' = [tool EXCEPT !.clean = FALSE]
     \/ /\ dev' \in {ResetDevice(dev, TRUE), ResetDevice(dev, FALSE)}
        /\ tool' = [tool EXCEPT !.open = FALSE, !.clean = FALSE]

ToolNext == Find \/ DetachApp \/ FindAgain \/ Block \/ Poll \/ Rest \/ RestPoll \/ End \/ EndPoll
            \/ ReadBlock \/ Revert \/ Leave \/ Exit
Next == Start \/ ToolNext \/ Kill \/ PowerCycle \/ BusReset \/ Stray

\* The tool is a program that runs; nobody has to start it again or disturb it.
Spec == Init /\ [][Next]_vars /\ WF_vars(ToolNext)
-----------------------------------------------------------------------------
(***************************************************************************)
(* Properties                                                              *)
(***************************************************************************)
\* Types; the blocks left in a page are counted down in two places (dfu.xc:154
\* and 273) and up in none but NewPage: the unsigned counter never goes below zero.
TypeOK ==
  /\ dev.state \in States /\ dev.subPagesLeft \in 0..SubPages /\ dev.subIndex \in 0..SubPages
  /\ dev.eraseLeft \in 0..MaxErase /\ (dev.upgradeValid => dev.slot \in Images)
\* Whatever is killed, restarted or run again, the device starts the factory image or an
\* upgrade image that is whole and that the user asked for (or that was there).
Image == INSTANCE DfuImage WITH boot <- Bootable(dev.slot)
ImageSpec == Image!Spec

\* A download the tool calls complete, of a file of at least one block and with nobody
\* interfering, leaves the device running that file in the application.
DownloadRuns ==
  (pc = "done" /\ tool.op = "download" /\ tool.clean /\ tool.fresh /\ tool.file.blocks # <<>>)
    => tool.told /\ dev.running = Pages(tool.file) /\ ~dev.dfuMode
\* An upload returns the upgrade image as it is in the flash, each block once and in order.
UploadExact ==
  (pc = "done" /\ tool.op = "upload" /\ tool.clean /\ tool.fresh)
    => tool.got = IF tool.found \in Images THEN Blocks(tool.found) ELSE <<>>
\* A transfer the tool calls complete is what the user asked for.
TransfersExact == DownloadRuns /\ UploadExact
\* A tool that is left alone comes to an end, unless it finds an application that has
\* been sent DFU requests: then the device comes back as the application.
ToolEnds == (pc = "find" /\ (dev.dfuMode \/ dev.state = "APP_IDLE")) ~> (pc = "off" \/ ~tool.clean)

\* xmosdfu.cpp:385, "--revertfactory : revert to the factory image"
RevertReverts ==
  (pc = "done" /\ tool.op = "revert" /\ tool.clean /\ tool.idle) => dev.running = Factory
=============================================================================
