--------------------------------- MODULE Dfu ---------------------------------
(***************************************************************************)
(* The device side of a firmware upgrade: the DFU request handlers of      *)
(* dfu.xc, the flash pages of flash_interface.c behind them, what          *)
(* Endpoint0 does with the result, bus resets and reboots.                 *)
(*                                                                         *)
(* The whole device is one record, `dev`, and a handler is a function from *)
(* it to the new device (and what the host is told): a control transfer is *)
(* served before the next one starts.  Only the upgrade slot of the flash  *)
(* (slot) and the word at FLAG_ADDRESS (flag) outlive a reboot.            *)
(***************************************************************************)
EXTENDS Naturals, Sequences

CONSTANTS
  SubPages,    \* _NUM_DFU_PAGES_PER_FLASH_PAGE: DFU blocks in a flash page
  MaxErase,    \* calls of fl_startImageAdd an erase takes, after the first
  Data,        \* what a DFU block may hold
  Images,      \* the upgrade images whose checksum is right: sequences of pages
  Factory      \* the factory image

Zeros == "zeros"          \* a block of zeros

ASSUME SubPagesAssumption == SubPages \in Nat \ {0} /\ MaxErase \in Nat
ASSUME ImagesAssumption   == Zeros \in Data /\ Images \subseteq Seq([1..SubPages -> Data])

States == {"APP_IDLE", "DFU_IDLE", "DOWNLOAD_SYNC", "DOWNLOAD_BUSY", "DOWNLOAD_IDLE",
           "MANIFEST_SYNC", "UPLOAD_IDLE", "ERROR"}

NoPage == [i \in 1..SubPages |-> Zeros]

\* The boot loader takes the upgrade slot when its checksum is right.
Bootable(slot) == IF slot \in Images THEN slot ELSE Factory

\* Everything but the flash and the flag, as a reboot leaves it.  XUA_Endpoint0_init
\* asks DFUReportResetState whether to start in DFU mode.
Booted(slot, flag) ==
  [running |-> Bootable(slot), slot |-> slot, flag |-> flag, dfuMode |-> flag,
   state |-> IF flag THEN "DFU_IDLE" ELSE "APP_IDLE",
   connected |-> FALSE, upgradeValid |-> FALSE,
   subPagesLeft |-> 0, subIndex |-> 0, page |-> NoPage,
   writeInProgress |-> TRUE, eraseLeft |-> 0, savedBlock |-> Zeros, readAt |-> 0]
-----------------------------------------------------------------------------
(***************************************************************************)
(* flash_interface.c.  The library behind it (fl_xxx) is external: an      *)
(* image is erased by its deletion or by making room for a new one, which  *)
(* takes several calls, and then grows page by page.                       *)
(***************************************************************************)
OpenFlash(d) ==
  IF d.connected THEN d
  ELSE [d EXCEPT !.connected = TRUE, !.upgradeValid = @ \/ d.slot \in Images]

EraseAll(d) == IF d.upgradeValid THEN [d EXCEPT !.slot = <<>>, !.upgradeValid = FALSE] ELSE d

\* fl_startImageAdd, called until `left` more calls are needed.
StartWriteImage(d, left) ==
  [d EXCEPT !.subIndex = 0, !.slot = <<>>, !.eraseLeft = left, !.writeInProgress = left > 0]

WritePageData(d, block) ==
  LET page == [d.page EXCEPT ![d.subIndex + 1] = block] IN
  IF d.upgradeValid \/ d.subIndex >= SubPages THEN d
  ELSE [d EXCEPT !.page = page, !.subIndex = @ + 1,
                 !.slot = IF d.subIndex + 1 = SubPages THEN Append(@, page) ELSE @]

\* Zeros written into the subPagesLeft blocks a short last page lacks.
PadPage(d) ==
  LET first == d.subIndex + 1
      last  == IF d.subIndex + d.subPagesLeft <= SubPages THEN d.subIndex + d.subPagesLeft ELSE SubPages
      page  == [i \in 1..SubPages |-> IF i \in first..last THEN Zeros ELSE d.page[i]]
  IN  IF d.upgradeValid \/ last < first THEN d
      ELSE [d EXCEPT !.page = page, !.subIndex = last,
                     !.slot = IF last = SubPages THEN Append(@, page) ELSE @]

\* flash_cmd_read_page: the next page of the upgrade image, if there is one
PageLeft(d) == d.upgradeValid /\ d.readAt < Len(d.slot)
ReadPage(d) == [d EXCEPT !.subIndex = 0, !.page = d.slot[d.readAt + 1], !.readAt = @ + 1]
-----------------------------------------------------------------------------
(***************************************************************************)
(* dfu.xc: the requests.  `left` is how much of an erase is left when the  *)
(* handler returns.  Each operator is the device after the request;        *)
(* what the host sees beside it (stall, data) is an operator of its own.   *)
(***************************************************************************)
DnloadRefused(d, len) ==
  \/ d.state \notin {"DFU_IDLE", "DOWNLOAD_IDLE"}
  \/ d.state = "DFU_IDLE" /\ len = 0

NewPage(d, blockNum) ==
  IF blockNum % SubPages = 0 THEN [d EXCEPT !.subIndex = 0, !.subPagesLeft = SubPages] ELSE d

\* Mutant of DownloadBlock: an image that is there is not deleted first.
DownloadNoErase(d, blockNum, block, left) ==
  LET paged == NewPage(d, blockNum) IN
  IF d.state = "DFU_IDLE" /\ blockNum % SubPages = 0
  THEN LET started == StartWriteImage(paged, left) IN
       IF left > 0 THEN [started EXCEPT !.savedBlock = block]
       ELSE [WritePageData(started, block) EXCEPT !.subPagesLeft = @ - 1]
  ELSE [WritePageData(paged, block) EXCEPT !.subPagesLeft = @ - 1]
DownloadBlock(d, blockNum, block, left) ==
  LET paged == NewPage(d, blockNum) IN
  IF d.state = "DFU_IDLE" /\ blockNum % SubPages = 0
  THEN LET started == StartWriteImage(EraseAll(paged), left) IN
       IF left > 0 THEN [started EXCEPT !.savedBlock = block]
       ELSE [WritePageData(started, block) EXCEPT !.subPagesLeft = @ - 1]
  ELSE [WritePageData(paged, block) EXCEPT !.subPagesLeft = @ - 1]

EndDownload(d) == [PadPage(d) EXCEPT !.state = "MANIFEST_SYNC"]

Dnload(d0, len, blockNum, block, left) ==
  LET d == OpenFlash(d0) IN
  IF DnloadRefused(d, len) THEN [d EXCEPT !.state = "ERROR"]
  ELSE IF len = 0 THEN EndDownload(d)
  ELSE [DownloadBlock(d, blockNum, block, left) EXCEPT !.state = "DOWNLOAD_SYNC"]

\* DFU_Upload: the block returned, or nothing when the image has ended
UploadRefused(d, len) ==
  \/ d.state \notin {"DFU_IDLE", "UPLOAD_IDLE"}
  \/ d.state = "DFU_IDLE" /\ len = 0

\* Mutant of UploadPage: the start of an upload erases, as that of a download does.
UploadErase(d) ==
  LET start == IF d.state = "DFU_IDLE" THEN [EraseAll(d) EXCEPT !.subPagesLeft = 0, !.readAt = 0] ELSE d IN
  IF start.subPagesLeft > 0 THEN start
  ELSE IF PageLeft(start) THEN [ReadPage(start) EXCEPT !.subPagesLeft = SubPages]
  ELSE [start EXCEPT !.state = "DFU_IDLE"]
\* At the start of an upload, and where a page is used up, the next page is read.
UploadPage(d) ==
  LET start == IF d.state = "DFU_IDLE" THEN [d EXCEPT !.subPagesLeft = 0, !.readAt = 0] ELSE d IN
  IF start.subPagesLeft > 0 THEN start
  ELSE IF PageLeft(start) THEN [ReadPage(start) EXCEPT !.subPagesLeft = SubPages]
  ELSE [start EXCEPT !.state = "DFU_IDLE"]

UploadData(d0, len) ==
  LET d == OpenFlash(d0)  p == UploadPage(d) IN
  IF UploadRefused(d, len) \/ p.subPagesLeft = 0 THEN <<>> ELSE <<p.page[p.subIndex + 1]>>

\* Mutant of Upload: the index into the page stays where it is.
UploadSame(d0, len) ==
  LET d == OpenFlash(d0)  p == UploadPage(d) IN
  IF UploadRefused(d, len) THEN [d EXCEPT !.state = "ERROR"]
  ELSE IF p.subPagesLeft = 0 THEN p
  ELSE [p EXCEPT !.subPagesLeft = @ - 1, !.state = "UPLOAD_IDLE"]
Upload(d0, len) ==
  LET d == OpenFlash(d0)  p == UploadPage(d) IN
  IF UploadRefused(d, len) THEN [d EXCEPT !.state = "ERROR"]
  ELSE IF p.subPagesLeft = 0 THEN p
  ELSE [p EXCEPT !.subIndex = @ + 1, !.subPagesLeft = @ - 1, !.state = "UPLOAD_IDLE"]

\* transition_dfu_download_state: the erase goes on for a while; once it is
\* done the block that was saved is written.
\* Mutant of DownloadState: the saved block is forgotten.
DownloadStateNoSave(d, left) ==
  IF ~d.writeInProgress THEN [d EXCEPT !.state = "DOWNLOAD_IDLE"]
  ELSE IF left > 0 THEN [StartWriteImage(d, left) EXCEPT !.state = "DOWNLOAD_BUSY"]
  ELSE [StartWriteImage(d, 0) EXCEPT !.state = "DOWNLOAD_IDLE"]
DownloadState(d, left) ==
  IF ~d.writeInProgress THEN [d EXCEPT !.state = "DOWNLOAD_IDLE"]
  ELSE IF left > 0 THEN [StartWriteImage(d, left) EXCEPT !.state = "DOWNLOAD_BUSY"]
  ELSE [WritePageData(StartWriteImage(d, 0), d.savedBlock)
          EXCEPT !.state = "DOWNLOAD_IDLE", !.subPagesLeft = @ - 1]

\* Mutant of GetStatus: a device that answered "busy" once is not looked at again.
GetStatusBusy(d, left) ==
  CASE d.state = "DOWNLOAD_SYNC" -> DownloadState(d, left)
    [] d.state = "MANIFEST_SYNC" -> [d EXCEPT !.state = "DFU_IDLE"]
    [] OTHER -> d
GetStatus(d, left) ==
  CASE d.state \in {"DOWNLOAD_SYNC", "DOWNLOAD_BUSY"} -> DownloadState(d, left)
    [] d.state = "MANIFEST_SYNC" -> [d EXCEPT !.state = "DFU_IDLE"]
    [] OTHER -> d

GetState(d)  == IF d.state = "DOWNLOAD_BUSY" THEN [d EXCEPT !.state = "ERROR"] ELSE d
ClrStatus(d) == [d EXCEPT !.state = IF @ = "ERROR" THEN "DFU_IDLE" ELSE "ERROR"]
Abort(d)     == [d EXCEPT !.state = "DFU_IDLE"]

\* XMOS_DFU_REVERTFACTORY, which Endpoint0 also takes as a vendor request
RevertFactory(d) == EraseAll(OpenFlash(d))

\* DFUDeviceRequests writes the flag after every request: only DETACH in the
\* application sets it.
Answered(d) == [d EXCEPT !.flag = FALSE]

\* DFU_DETACH, then the delay and device_reboot of Endpoint0
Detach(d) == Booted(d.slot, d.state = "APP_IDLE")

\* XMOS_DFU_RESETDEVICE, _RESETFROMDFU and _RESETINTODFU
ResetDevice(d, intoDfu) == Booted(d.slot, intoDfu)
-----------------------------------------------------------------------------
(***************************************************************************)
(* DFUReportResetState and what Endpoint0 does with its answer on a bus    *)
(* reset.  DFUTimerStart is never set, so that the time-out compares the   *)
(* free-running timer itself with one second: `early` is whether the bus   *)
(* reset comes within the first second of a wrap of the timer.             *)
(***************************************************************************)
StaysInDfu(d, early) == d.flag \/ (d.state = "DFU_IDLE" /\ early)

BusResetOf(d, early) ==
  IF StaysInDfu(d, early) THEN [d EXCEPT !.state = "DFU_IDLE", !.dfuMode = TRUE]
  ELSE IF d.dfuMode THEN Booted(d.slot, d.flag)
  ELSE [d EXCEPT !.state = "APP_IDLE", !.connected = FALSE]
=============================================================================
