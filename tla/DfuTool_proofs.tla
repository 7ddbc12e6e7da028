---------------------------- MODULE DfuTool_proofs ----------------------------
(***************************************************************************)
(* Proofs about module DfuTool: the device stays in step with the tool     *)
(* through every fault (Inv), which gives the types and the step by step   *)
(* implementation of DfuImage; and what a transfer that nobody disturbs    *)
(* has moved (CleanDownload, CleanUpload), which gives TransfersExact.     *)
(***************************************************************************)
EXTENDS DfuTool, Integers, TLAPS

-----------------------------------------------------------------------------
(***************************************************************************)
(* What the requests of module Dfu do to a device that is in order, for    *)
(* every size of a page and of an erase and every set of images.           *)
(***************************************************************************)
DevType ==
  [running : Images \union {Factory}, slot : Seq([1..SubPages -> Data]),
   flag : BOOLEAN, dfuMode : BOOLEAN, state : States, connected : BOOLEAN, upgradeValid : BOOLEAN,
   subPagesLeft : 0..SubPages, subIndex : 0..SubPages, page : [1..SubPages -> Data],
   writeInProgress : BOOLEAN, eraseLeft : 0..MaxErase, savedBlock : Data, readAt : Nat]

Syncing(d) == d.state \in {"DOWNLOAD_SYNC", "DOWNLOAD_BUSY"}

Downloading(d) == Syncing(d) \/ d.state = "DOWNLOAD_IDLE"

\* A page is not read past its end, what is being written is not taken for an image.
DevInv(d) ==
  /\ d.flag => d.dfuMode
  /\ d.upgradeValid => d.slot \in Images
  /\ Downloading(d) => d.dfuMode /\ d.connected /\ ~d.upgradeValid
  /\ d.state = "DOWNLOAD_IDLE" => ~d.writeInProgress
  /\ d.state = "UPLOAD_IDLE" => d.subIndex + d.subPagesLeft = SubPages

\* The page buffer holds the first n blocks of a file, up to the last page boundary.
Holds(d, blocks, n) ==
  /\ ~d.writeInProgress
  /\ n % SubPages = 0 => d.subIndex = SubPages /\ d.subPagesLeft = 0
  /\ n % SubPages # 0 => d.subIndex = n % SubPages /\ d.subPagesLeft = SubPages - (n % SubPages)
  /\ \A j \in 1..(n % SubPages) : d.page[j] = blocks[n - (n % SubPages) + j]

\* ... or the n-th, the first of a page, waits for the erase.
Waits(d, blocks, n) ==
  /\ d.writeInProgress /\ (n - 1) % SubPages = 0 /\ d.savedBlock = blocks[n]
  /\ d.subIndex = 0 /\ d.subPagesLeft = SubPages

\* Division with remainder: quotient and remainder give the number back.
LEMMA Remainder ==
  ASSUME NEW s \in Nat, s > 0, NEW n \in Nat
  PROVE  /\ n \div s \in Nat /\ n % s \in 0..(s - 1)
         /\ n = s * (n \div s) + (n % s)
  <1>1. n \div s \in Nat /\ n % s \in 0..(s - 1)
    BY SMT
  <1>2. n = s * (n \div s) + (n % s)
    BY Z3
  <1> QED
    BY <1>1, <1>2

\* ... and are the only ones to do so.
LEMMA UniqueRemainder ==
  ASSUME NEW s \in Nat, s > 0, NEW q \in Nat, NEW r \in 0..(s - 1), NEW n \in Nat, n = s * q + r
  PROVE  n \div s = q /\ n % s = r
  <1>1. n % s = r
    BY Z3
  <1>2. n \div s = q
    BY Z3
  <1> QED
    BY <1>1, <1>2

\* The remainder counts up and starts again, where the quotient counts.
LEMMA NextRemainder ==
  ASSUME NEW s \in Nat, s > 0, NEW n \in Nat
  PROVE  /\ n % s = s - 1 => (n + 1) % s = 0 /\ (n + 1) \div s = n \div s + 1
         /\ n % s # s - 1 => (n + 1) % s = (n % s) + 1 /\ (n + 1) \div s = n \div s
  <1> DEFINE q == n \div s  r == n % s
  <1>1. q \in Nat /\ r \in 0..(s - 1) /\ n = s * q + r
    BY Remainder
  <1> HIDE DEF q, r
  <1>2. CASE r = s - 1
    <2>1. n + 1 = s * (q + 1) + 0 /\ q + 1 \in Nat /\ 0 \in 0..(s - 1) /\ n + 1 \in Nat
      BY <1>1, <1>2, Z3
    <2>2. (n + 1) \div s = q + 1 /\ (n + 1) % s = 0
      BY <2>1, <1>1, UniqueRemainder
    <2> QED
      BY <2>2, <1>2 DEF q, r
  <1>3. CASE r # s - 1
    <2>1. n + 1 = s * q + (r + 1) /\ r + 1 \in 0..(s - 1) /\ n + 1 \in Nat
      BY <1>1, <1>3
    <2>2. (n + 1) \div s = q /\ (n + 1) % s = r + 1
      BY <2>1, <1>1, UniqueRemainder
    <2> QED
      BY <2>2, <1>3 DEF q, r
  <1> QED
    BY <1>2, <1>3 DEF q, r

\* The sizes of a page and of an erase, and the block of zeros.
LEMMA Sizes == SubPages \in Nat /\ SubPages > 0 /\ MaxErase \in Nat /\ Zeros \in Data
  BY SubPagesAssumption, ImagesAssumption

Same(d, e) == e.running = d.running /\ e.flag = d.flag /\ e.dfuMode = d.dfuMode /\ e.readAt = d.readAt

\* Connecting to the flash, as every transfer does first, takes an image that is whole for one
\* to upgrade and changes nothing else.
LEMMA OpenedFlash ==
  ASSUME NEW d \in DevType, DevInv(d)
  PROVE  LET e == OpenFlash(d) IN
         /\ e \in DevType /\ DevInv(e) /\ Same(d, e) /\ e.connected
         /\ e.state = d.state /\ e.slot = d.slot
         /\ e.writeInProgress = d.writeInProgress /\ e.subIndex = d.subIndex /\ e.page = d.page
         /\ e.subPagesLeft = d.subPagesLeft /\ e.savedBlock = d.savedBlock
         /\ d.connected => e.upgradeValid = d.upgradeValid
         /\ ~d.connected => e.upgradeValid = (d.upgradeValid \/ d.slot \in Images)
  BY DEF DevType, OpenFlash, DevInv, Downloading, Syncing, Same

\* A block written to the page buffer takes its place there; the last of a page sends the page to
\* the flash.
LEMMA StoredBlock ==
  ASSUME NEW d \in DevType, NEW block \in Data, ~d.upgradeValid, d.subIndex < SubPages, d.subPagesLeft > 0
  PROVE  LET e == [WritePageData(d, block) EXCEPT !.subPagesLeft = @ - 1] IN
         /\ e \in DevType /\ Same(d, e) /\ e.connected = d.connected /\ e.state = d.state
         /\ ~e.upgradeValid /\ e.writeInProgress = d.writeInProgress
         /\ e.subIndex = d.subIndex + 1 /\ e.subPagesLeft = d.subPagesLeft - 1
         /\ e.page = [d.page EXCEPT ![d.subIndex + 1] = block]
         /\ e.slot = IF e.subIndex = SubPages THEN Append(d.slot, e.page) ELSE d.slot
  <1> DEFINE page == [d.page EXCEPT ![d.subIndex + 1] = block]
             slot == IF d.subIndex + 1 = SubPages THEN Append(d.slot, page) ELSE d.slot
             w == [d EXCEPT !.page = page, !.subIndex = d.subIndex + 1, !.slot = slot]
             e == [w EXCEPT !.subPagesLeft = w.subPagesLeft - 1]
  <1>1. WritePageData(d, block) = w
    BY Sizes DEF DevType, WritePageData
  <1>2. page \in [1..SubPages -> Data] /\ d.subIndex + 1 \in 0..SubPages
    BY Sizes DEF DevType
  <1>3. slot \in Seq([1..SubPages -> Data])
    BY <1>2 DEF DevType
  <1>4. d.subPagesLeft - 1 \in 0..SubPages
    BY Sizes DEF DevType
  <1> HIDE DEF page, slot
  <1>5. w \in DevType /\ w.subPagesLeft = d.subPagesLeft
    BY <1>2, <1>3 DEF DevType
  <1>6. e \in DevType
    BY <1>4, <1>5 DEF DevType
  <1>7. /\ e.subPagesLeft = d.subPagesLeft - 1 /\ e.subIndex = d.subIndex + 1 /\ e.page = page
        /\ e.slot = slot /\ Same(d, e) /\ e.connected = d.connected /\ e.state = d.state
        /\ ~e.upgradeValid /\ e.writeInProgress = d.writeInProgress
    BY DEF DevType, Same
  <1> QED
    BY <1>1, <1>6, <1>7 DEF page, slot

\* The page buffer is ready for block n + 1 of a file.
Filled(d, blocks, n) ==
  /\ ~d.writeInProgress
  /\ d.subIndex = n % SubPages /\ d.subPagesLeft = SubPages - (n % SubPages)
  /\ \A j \in 1..(n % SubPages) : d.page[j] = blocks[n - (n % SubPages) + j]

FullPage(page, blocks, n) == \A j \in 1..SubPages : page[j] = blocks[n - SubPages + j]

\* The next block of a file keeps the page buffer in step with it, and a full page is the file's.
LEMMA BlockAdded ==
  ASSUME NEW d \in DevType, ~d.upgradeValid, NEW blocks, NEW num \in Nat,
         blocks[num + 1] \in Data, Filled(d, blocks, num)
  PROVE  LET e == [WritePageData(d, blocks[num + 1]) EXCEPT !.subPagesLeft = @ - 1] IN
         /\ e \in DevType /\ Same(d, e) /\ e.connected = d.connected /\ e.state = d.state
         /\ ~e.upgradeValid /\ ~e.writeInProgress /\ Holds(e, blocks, num + 1)
         /\ (num + 1) % SubPages # 0 => e.slot = d.slot
         /\ (num + 1) % SubPages = 0 => e.slot = Append(d.slot, e.page) /\ FullPage(e.page, blocks, num + 1)
  <1> DEFINE block == blocks[num + 1]
             e == [WritePageData(d, block) EXCEPT !.subPagesLeft = @ - 1]
             r == num % SubPages  t == (num + 1) % SubPages
  <1>1. /\ r \in 0..(SubPages - 1)
        /\ r = SubPages - 1 => t = 0
        /\ r # SubPages - 1 => t = r + 1
    BY Sizes, Remainder, NextRemainder
  <1>2. d.subIndex = r /\ d.subPagesLeft = SubPages - r /\ ~d.writeInProgress
    BY DEF Filled
  <1>3. \A j \in 1..r : d.page[j] = blocks[num - r + j]
    BY DEF Filled
  <1> HIDE DEF r, t
  <1>4. d.subIndex < SubPages /\ d.subPagesLeft > 0
    BY <1>1, <1>2, Sizes
  <1>5. /\ e \in DevType /\ Same(d, e) /\ e.connected = d.connected /\ e.state = d.state
        /\ ~e.upgradeValid /\ e.writeInProgress = d.writeInProgress
        /\ e.subIndex = d.subIndex + 1 /\ e.subPagesLeft = d.subPagesLeft - 1
        /\ e.page = [d.page EXCEPT ![d.subIndex + 1] = block]
        /\ e.slot = IF e.subIndex = SubPages THEN Append(d.slot, e.page) ELSE d.slot
    BY <1>4, StoredBlock
  <1> HIDE DEF e
  <1>6. d.page \in [1..SubPages -> Data]
    BY DEF DevType
  <1>7. e.page[r + 1] = block /\ \A j \in 1..r : e.page[j] = blocks[num - r + j]
    <2>1. e.page = [d.page EXCEPT ![r + 1] = block] /\ r + 1 \in 1..SubPages
      BY <1>1, <1>2, <1>5, Sizes
    <2>2. e.page[r + 1] = block
      BY <2>1, <1>6
    <2>3. ASSUME NEW j \in 1..r
          PROVE  e.page[j] = blocks[num - r + j]
      <3>1. j \in 1..SubPages /\ j # r + 1
        BY <2>1, <1>1, Sizes
      <3> QED
        BY <3>1, <2>1, <1>6, <1>3
    <2> QED
      BY <2>2, <2>3
  <1>8. CASE r = SubPages - 1
    <2>1. t = 0 /\ e.subIndex = SubPages /\ e.subPagesLeft = 0
      BY <1>1, <1>2, <1>5, <1>8, Sizes
    <2>2. FullPage(e.page, blocks, num + 1)
      <3> SUFFICES ASSUME NEW j \in 1..SubPages
                   PROVE  e.page[j] = blocks[(num + 1) - SubPages + j]
        BY DEF FullPage
      <3>1. CASE j = SubPages
        BY <1>7, <1>8, <3>1, Sizes
      <3>2. CASE j # SubPages
        <4>1. j \in 1..r /\ num - r + j = (num + 1) - SubPages + j
          BY <1>8, <3>2, Sizes
        <4> QED
          BY <4>1, <1>7
      <3> QED
        BY <3>1, <3>2
    <2>3. Holds(e, blocks, num + 1)
      BY <2>1, <1>2, <1>5 DEF Holds, t
    <2> QED
      BY <2>1, <2>2, <2>3, <1>2, <1>5 DEF e, t
  <1>9. CASE r # SubPages - 1
    <2>1. t = r + 1 /\ t # 0 /\ e.subIndex = t /\ e.subPagesLeft = SubPages - t /\ e.subIndex # SubPages
      BY <1>1, <1>2, <1>5, <1>9, Sizes
    <2>2. ASSUME NEW j \in 1..t
          PROVE  e.page[j] = blocks[(num + 1) - t + j]
      <3>1. CASE j = r + 1
        <4>1. (num + 1) - t + j = num + 1
          BY <2>1, <1>1, <3>1
        <4> QED
          BY <4>1, <3>1, <1>7
      <3>2. CASE j # r + 1
        <4>1. j \in 1..r /\ (num + 1) - t + j = num - r + j
          BY <2>1, <1>1, <3>2
        <4> QED
          BY <4>1, <1>7
      <3> QED
        BY <3>1, <3>2
    <2>3. Holds(e, blocks, num + 1)
      <3>1. ~e.writeInProgress
        BY <1>2, <1>5
      <3> QED
        BY <3>1, <2>1, <2>2 DEF Holds, t
    <2> QED
      BY <2>1, <2>3, <1>2, <1>5 DEF e, t
  <1> QED
    BY <1>8, <1>9

\* The erase of an image leaves no image.
LEMMA Emptied ==
  ASSUME NEW d \in DevType
  PROVE  LET e == EraseAll(d) IN
         /\ e \in DevType /\ Same(d, e) /\ e.connected = d.connected /\ e.state = d.state
         /\ ~e.upgradeValid /\ e.writeInProgress = d.writeInProgress
         /\ e.slot = IF d.upgradeValid THEN <<>> ELSE d.slot
         /\ e.subIndex = d.subIndex /\ e.subPagesLeft = d.subPagesLeft
         /\ e.savedBlock = d.savedBlock /\ e.page = d.page
  <1> DEFINE page == [1..SubPages -> Data]
  <1>1. <<>> \in Seq(page)
    OBVIOUS
  <1> HIDE DEF page
  <1> QED
    BY <1>1 DEF DevType, EraseAll, Same, page

\* The room for a new image is made in several calls; the slot is empty from the first on.
LEMMA Restarted ==
  ASSUME NEW d \in DevType, ~d.upgradeValid, NEW left \in 0..MaxErase
  PROVE  LET e == StartWriteImage(d, left) IN
         /\ e \in DevType /\ Same(d, e) /\ e.connected = d.connected /\ e.state = d.state
         /\ ~e.upgradeValid /\ e.writeInProgress = (left > 0) /\ e.slot = <<>> /\ e.subIndex = 0
         /\ e.subPagesLeft = d.subPagesLeft /\ e.savedBlock = d.savedBlock /\ e.page = d.page
  <1> DEFINE seq == Seq([1..SubPages -> Data])  busy == left > 0
             e == [d EXCEPT !.subIndex = 0, !.slot = <<>>, !.eraseLeft = left, !.writeInProgress = busy]
  <1>1. <<>> \in seq /\ busy \in BOOLEAN /\ 0 \in 0..SubPages
    BY Sizes
  <1>2. StartWriteImage(d, left) = e
    BY DEF StartWriteImage
  <1>3. /\ Same(d, e) /\ e.connected = d.connected /\ e.state = d.state
        /\ ~e.upgradeValid /\ e.writeInProgress = busy /\ e.slot = <<>> /\ e.subIndex = 0
        /\ e.subPagesLeft = d.subPagesLeft /\ e.savedBlock = d.savedBlock /\ e.page = d.page
    BY DEF DevType, Same
  <1> HIDE DEF seq, busy
  <1>4. e \in DevType
    BY <1>1 DEF DevType, seq
  <1> QED
    BY <1>2, <1>3, <1>4 DEF busy

\* The first block of a page starts the page buffer afresh.
LEMMA PageBegun ==
  ASSUME NEW d \in DevType, NEW num \in Nat, num % SubPages = 0
  PROVE  LET e == NewPage(d, num) IN
         /\ e \in DevType /\ Same(d, e) /\ e.connected = d.connected /\ e.state = d.state
         /\ e.upgradeValid = d.upgradeValid /\ e.writeInProgress = d.writeInProgress
         /\ e.slot = d.slot /\ e.savedBlock = d.savedBlock /\ e.page = d.page
         /\ e.subIndex = 0 /\ e.subPagesLeft = SubPages
  <1>1. 0 \in 0..SubPages /\ SubPages \in 0..SubPages
    BY Sizes
  <1>2. NewPage(d, num) = [d EXCEPT !.subIndex = 0, !.subPagesLeft = SubPages]
    BY DEF NewPage
  <1> QED
    BY <1>1, <1>2 DEF DevType, Same

\* A block that DFU_DNLOAD takes; it starts an image when the device was idle.
Begins(d, num) == d.state = "DFU_IDLE" /\ num % SubPages = 0

\* What taking block num + 1 of a file does to the device.
Taken(d, e, blocks, num) ==
  LET slot == IF Begins(d, num) THEN <<>> ELSE d.slot IN
  /\ e \in DevType /\ DevInv(e) /\ e.running = d.running /\ e.dfuMode = d.dfuMode
  /\ e.connected /\ e.state = "DOWNLOAD_SYNC" /\ ~e.upgradeValid
  /\ Holds(e, blocks, num + 1) \/ Waits(e, blocks, num + 1)
  /\ e.writeInProgress => Begins(d, num) /\ e.slot = <<>>
  /\ ~e.writeInProgress /\ (num + 1) % SubPages # 0 => e.slot = slot
  /\ ~e.writeInProgress /\ (num + 1) % SubPages = 0 =>
       e.slot = Append(slot, e.page) /\ FullPage(e.page, blocks, num + 1)

\* A block that DFU_DNLOAD does not refuse is the next one in the page buffer, or waits for the
\* erase; the flash gets a page with the last block of one and is emptied by the first of a file.
LEMMA BlockTaken ==
  ASSUME NEW d \in DevType, DevInv(d), NEW blocks, NEW num \in Nat, blocks[num + 1] \in Data,
         NEW left \in 0..MaxErase, ~DnloadRefused(OpenFlash(d), 1), d.dfuMode,
         num % SubPages # 0 => d.connected /\ ~d.upgradeValid /\ Holds(d, blocks, num)
  PROVE  Taken(d, Dnload(d, 1, num, blocks[num + 1], left), blocks, num)
  <1> DEFINE block == blocks[num + 1]
             o == OpenFlash(d)
             p == NewPage(o, num)
             s == StartWriteImage(EraseAll(p), left)
             w == IF Begins(d, num) THEN s ELSE p
             a == [WritePageData(w, block) EXCEPT !.subPagesLeft = @ - 1]
             b == IF Begins(d, num) /\ left > 0 THEN [s EXCEPT !.savedBlock = block] ELSE a
             e == [b EXCEPT !.state = "DOWNLOAD_SYNC"]
             slot == IF Begins(d, num) THEN <<>> ELSE d.slot
  <1>1. /\ o \in DevType /\ DevInv(o) /\ Same(d, o) /\ o.connected /\ o.state = d.state
        /\ o.slot = d.slot /\ o.writeInProgress = d.writeInProgress /\ o.subIndex = d.subIndex
        /\ o.page = d.page /\ o.subPagesLeft = d.subPagesLeft
        /\ d.connected => o.upgradeValid = d.upgradeValid
    BY OpenedFlash
  <1>2. d.state \in {"DFU_IDLE", "DOWNLOAD_IDLE"}
    BY <1>1 DEF DnloadRefused
  <1>3. Dnload(d, 1, num, block, left) = e
    BY <1>1 DEF Dnload, DownloadBlock, Begins
  <1>4. d.state = "DOWNLOAD_IDLE" => d.connected /\ ~d.upgradeValid /\ ~d.writeInProgress
    BY DEF DevInv, Downloading
  <1> HIDE DEF o
  <1>5. /\ p \in DevType /\ Same(o, p) /\ p.connected /\ p.state = d.state
        /\ p.upgradeValid = o.upgradeValid /\ p.writeInProgress = d.writeInProgress
        /\ p.slot = d.slot
        /\ num % SubPages = 0 => p.subIndex = 0 /\ p.subPagesLeft = SubPages
        /\ num % SubPages # 0 => p.subIndex = d.subIndex /\ p.subPagesLeft = d.subPagesLeft /\ p.page = d.page
    <2>1. CASE num % SubPages = 0
      BY <2>1, <1>1, PageBegun
    <2>2. CASE num % SubPages # 0
      <3>1. p = o
        BY <2>2 DEF NewPage
      <3> QED
        BY <3>1, <2>2, <1>1 DEF Same
    <2> QED
      BY <2>1, <2>2
  <1> HIDE DEF p
  <1>6. Begins(d, num) =>
          /\ s \in DevType /\ Same(p, s) /\ s.connected /\ ~s.upgradeValid /\ s.slot = <<>>
          /\ s.writeInProgress = (left > 0) /\ s.subIndex = 0 /\ s.subPagesLeft = SubPages
    <2> DEFINE q == EraseAll(p)
    <2>1. /\ q \in DevType /\ Same(p, q) /\ q.connected = p.connected
          /\ ~q.upgradeValid /\ q.subPagesLeft = p.subPagesLeft
      BY <1>5, Emptied
    <2> HIDE DEF q
    <2>2. /\ StartWriteImage(q, left) \in DevType /\ Same(q, StartWriteImage(q, left))
          /\ StartWriteImage(q, left).connected = q.connected
          /\ ~StartWriteImage(q, left).upgradeValid /\ StartWriteImage(q, left).slot = <<>>
          /\ StartWriteImage(q, left).writeInProgress = (left > 0)
          /\ StartWriteImage(q, left).subIndex = 0
          /\ StartWriteImage(q, left).subPagesLeft = q.subPagesLeft
      BY <2>1, Restarted
    <2>3. Begins(d, num) => p.subPagesLeft = SubPages
      BY <1>5 DEF Begins
    <2> QED
      BY <2>1, <2>2, <2>3, <1>5 DEF Same, q
  <1> HIDE DEF s
  <1>7. /\ w \in DevType /\ Same(d, w) /\ w.connected /\ ~w.upgradeValid /\ w.slot = slot
        /\ Begins(d, num) => w.writeInProgress = (left > 0) /\ w.subIndex = 0 /\ w.subPagesLeft = SubPages
        /\ ~Begins(d, num) => w = p /\ ~p.writeInProgress
    <2>1. CASE Begins(d, num)
      BY <2>1, <1>6, <1>5, <1>1 DEF Same
    <2>2. CASE ~Begins(d, num)
      <3>1. ~p.upgradeValid /\ ~p.writeInProgress
        <4>1. CASE num % SubPages = 0
          BY <4>1, <2>2, <1>2, <1>4, <1>5, <1>1 DEF Begins
        <4>2. CASE num % SubPages # 0
          BY <4>2, <1>5, <1>1 DEF Holds
        <4> QED
          BY <4>1, <4>2
      <3> QED
        BY <3>1, <2>2, <1>5, <1>1 DEF Same
    <2> QED
      BY <2>1, <2>2
  <1>8. CASE Begins(d, num) /\ left > 0
    <2>1. e = [[s EXCEPT !.savedBlock = block] EXCEPT !.state = "DOWNLOAD_SYNC"] /\ w = s
      BY <1>8
    <2>2. s \in DevType /\ s.writeInProgress
      BY <1>8, <1>6
    <2>3. /\ e \in DevType /\ Same(s, e) /\ e.connected = s.connected /\ e.state = "DOWNLOAD_SYNC"
          /\ e.upgradeValid = s.upgradeValid /\ e.writeInProgress /\ e.savedBlock = block
          /\ e.subIndex = s.subIndex /\ e.subPagesLeft = s.subPagesLeft /\ e.slot = s.slot
      <3> DEFINE v == [s EXCEPT !.savedBlock = block]
      <3>1. block \in Data
        OBVIOUS
      <3> HIDE DEF block
      <3>2. /\ v \in DevType /\ Same(s, v) /\ v.connected = s.connected
            /\ v.upgradeValid = s.upgradeValid /\ v.writeInProgress /\ v.savedBlock = block
            /\ v.subIndex = s.subIndex /\ v.subPagesLeft = s.subPagesLeft /\ v.slot = s.slot
        BY <3>1, <2>2 DEF DevType, Same
      <3> HIDE DEF v
      <3>3. e = [v EXCEPT !.state = "DOWNLOAD_SYNC"]
        BY <2>1 DEF v
      <3> HIDE DEF e
      <3> QED
        BY <3>2, <3>3 DEF DevType, States, Same
    <2> HIDE DEF e
    <2>4. Waits(e, blocks, num + 1)
      <3>1. ((num + 1) - 1) % SubPages = 0
        <4>1. (num + 1) - 1 = num
          OBVIOUS
        <4> QED
          BY <4>1, <1>8 DEF Begins
      <3> QED
        BY <3>1, <2>3, <1>6, <1>8 DEF Waits
    <2>5. Same(d, e) /\ e.flag = d.flag /\ e.dfuMode
      BY <2>1, <2>3, <1>7 DEF Same
    <2>6. DevInv(e)
      BY <2>3, <2>5, <1>6, <1>8 DEF DevInv, Downloading, Syncing
    <2>7. Taken(d, e, blocks, num)
      BY <2>3, <2>4, <2>5, <2>6, <1>6, <1>8 DEF Taken, Same
    <2> QED
      BY <2>7, <1>3
  <1>9. CASE ~(Begins(d, num) /\ left > 0)
    <2>1. e = [a EXCEPT !.state = "DOWNLOAD_SYNC"]
      BY <1>9
    <2>2. Filled(w, blocks, num)
      <3>1. CASE Begins(d, num)
        <4>1. num % SubPages = 0 /\ ~w.writeInProgress /\ w.subIndex = 0 /\ w.subPagesLeft = SubPages
          BY <3>1, <1>7, <1>9 DEF Begins
        <4> HIDE DEF w
        <4> QED
          BY <4>1, Sizes DEF Filled
      <3>2. CASE ~Begins(d, num) /\ num % SubPages = 0
        <4>1. num % SubPages = 0 /\ ~w.writeInProgress /\ w.subIndex = 0 /\ w.subPagesLeft = SubPages
          BY <3>2, <1>5, <1>7
        <4> HIDE DEF w
        <4> QED
          BY <4>1, Sizes DEF Filled
      <3>3. CASE num % SubPages # 0
        <4>1. w = p /\ Holds(d, blocks, num) /\ ~w.writeInProgress
          BY <3>3, <1>7 DEF Begins
        <4>2. w.subIndex = d.subIndex /\ w.subPagesLeft = d.subPagesLeft /\ w.page = d.page
          BY <4>1, <3>3, <1>5
        <4> HIDE DEF w
        <4> QED
          BY <4>1, <4>2, <3>3 DEF Holds, Filled
      <3> QED
        BY <3>1, <3>2, <3>3
    <2> HIDE DEF w
    <2>3. /\ a \in DevType /\ Same(w, a) /\ a.connected = w.connected
          /\ ~a.upgradeValid /\ ~a.writeInProgress /\ Holds(a, blocks, num + 1)
          /\ (num + 1) % SubPages # 0 => a.slot = w.slot
          /\ (num + 1) % SubPages = 0 => a.slot = Append(w.slot, a.page) /\ FullPage(a.page, blocks, num + 1)
      <3>1. w \in DevType /\ ~w.upgradeValid
        BY <1>7
      <3> QED
        BY <3>1, <2>2, BlockAdded, Zenon
    <2> HIDE DEF a
    <2>4. /\ e \in DevType /\ Same(a, e) /\ e.connected = a.connected /\ e.state = "DOWNLOAD_SYNC"
          /\ e.upgradeValid = a.upgradeValid /\ e.writeInProgress = a.writeInProgress
          /\ e.subIndex = a.subIndex /\ e.subPagesLeft = a.subPagesLeft /\ e.slot = a.slot
          /\ e.page = a.page
      BY <2>1, <2>3 DEF DevType, States, Same
    <2> HIDE DEF e
    <2>5. Holds(e, blocks, num + 1)
      BY <2>3, <2>4 DEF Holds
    <2>6. Same(d, e) /\ e.flag = d.flag /\ e.dfuMode
      BY <2>3, <2>4, <1>7 DEF Same
    <2>7. DevInv(e)
      BY <2>3, <2>4, <2>6, <1>7 DEF DevInv, Downloading, Syncing
    <2>8. Taken(d, e, blocks, num)
      BY <2>3, <2>4, <2>5, <2>6, <2>7, <1>7 DEF Taken, Same
    <2> QED
      BY <2>8, <1>3
  <1> QED
    BY <1>8, <1>9

\* What DFU_GETSTATUS does to a device that has taken n blocks of a file.
Polled(d, e, blocks, n) ==
  /\ e \in DevType /\ DevInv(e) /\ e.running = d.running /\ e.dfuMode = d.dfuMode
  /\ e.connected = d.connected /\ e.upgradeValid = d.upgradeValid
  /\ ~Syncing(d) => /\ e.slot = d.slot
                    /\ e.state = IF d.state = "MANIFEST_SYNC" THEN "DFU_IDLE" ELSE d.state
  /\ Syncing(d) =>
       /\ \/ e.state = "DOWNLOAD_IDLE" /\ Holds(e, blocks, n)
          \/ e.state = "DOWNLOAD_BUSY" /\ Waits(e, blocks, n) /\ e.slot = <<>> /\ d.writeInProgress
       /\ ~d.writeInProgress => e.slot = d.slot
       /\ d.writeInProgress /\ SubPages # 1 => e.slot = <<>>
       /\ d.writeInProgress /\ SubPages = 1 /\ e.state = "DOWNLOAD_IDLE" =>
            e.slot = Append(<<>>, e.page) /\ FullPage(e.page, blocks, n)

\* A status request writes the block that waited as soon as the erase is done, and disturbs
\* nothing else.
LEMMA StatusAsked ==
  ASSUME NEW d \in DevType, DevInv(d), NEW blocks, NEW m \in Nat, blocks[m + 1] \in Data,
         NEW left \in 0..MaxErase,
         Syncing(d) => Holds(d, blocks, m + 1) \/ Waits(d, blocks, m + 1)
  PROVE  Polled(d, GetStatus(d, left), blocks, m + 1)
  <1> DEFINE e == GetStatus(d, left)
             s(k) == StartWriteImage(d, k)
  <1>1. CASE ~Syncing(d)
    <2>1. e = IF d.state = "MANIFEST_SYNC" THEN [d EXCEPT !.state = "DFU_IDLE"] ELSE d
      BY <1>1 DEF GetStatus, Syncing
    <2>2. /\ e \in DevType /\ Same(d, e) /\ e.connected = d.connected
          /\ e.upgradeValid = d.upgradeValid /\ e.slot = d.slot
          /\ e.state = (IF d.state = "MANIFEST_SYNC" THEN "DFU_IDLE" ELSE d.state)
          /\ e.subIndex = d.subIndex /\ e.subPagesLeft = d.subPagesLeft
          /\ e.writeInProgress = d.writeInProgress /\ e.flag = d.flag
      BY <2>1 DEF DevType, States, Same
    <2> HIDE DEF e
    <2>3. DevInv(e)
      BY <2>2, <1>1 DEF DevInv, Downloading, Syncing, Same
    <2> QED
      BY <2>2, <2>3, <1>1 DEF e, Polled, Same
  <1>2. CASE Syncing(d)
    <2>1. e = DownloadState(d, left)
      BY <1>2 DEF GetStatus, Syncing
    <2>2. d.dfuMode /\ d.connected /\ ~d.upgradeValid
      BY <1>2 DEF DevInv, Downloading
    <2>3. ASSUME NEW k \in 0..MaxErase
          PROVE  /\ s(k) \in DevType /\ Same(d, s(k)) /\ s(k).connected = d.connected
                 /\ ~s(k).upgradeValid /\ s(k).writeInProgress = (k > 0) /\ s(k).slot = <<>>
                 /\ s(k).subIndex = 0 /\ s(k).subPagesLeft = d.subPagesLeft
                 /\ s(k).savedBlock = d.savedBlock
      BY <2>2, Restarted
    <2> HIDE DEF s
    <2>4. CASE ~d.writeInProgress
      <3>1. e = [d EXCEPT !.state = "DOWNLOAD_IDLE"]
        BY <2>1, <2>4 DEF DownloadState
      <3>2. /\ e \in DevType /\ Same(d, e) /\ e.connected = d.connected
            /\ e.upgradeValid = d.upgradeValid /\ e.slot = d.slot /\ e.page = d.page
            /\ e.state = "DOWNLOAD_IDLE" /\ e.subIndex = d.subIndex /\ e.subPagesLeft = d.subPagesLeft
            /\ e.writeInProgress = d.writeInProgress
        BY <3>1 DEF DevType, States, Same
      <3> HIDE DEF e
      <3>3. Holds(e, blocks, m + 1)
        <4>1. Holds(d, blocks, m + 1)
          BY <1>2, <2>4 DEF Waits
        <4> QED
          BY <4>1, <3>2 DEF Holds
      <3>4. DevInv(e)
        BY <3>2, <2>2, <2>4 DEF DevInv, Same
      <3>5. Polled(d, e, blocks, m + 1)
        BY <3>2, <3>3, <3>4, <1>2, <2>4 DEF Polled, Same
      <3> QED
        BY <3>5 DEF e
    <2>5. CASE d.writeInProgress /\ left > 0
      <3>1. e = [s(left) EXCEPT !.state = "DOWNLOAD_BUSY"]
        BY <2>1, <2>5 DEF DownloadState, s
      <3>2. Waits(d, blocks, m + 1)
        BY <1>2, <2>5 DEF Holds
      <3>3. /\ e \in DevType /\ Same(s(left), e) /\ e.connected = s(left).connected
            /\ e.upgradeValid = s(left).upgradeValid /\ e.slot = s(left).slot
            /\ e.state = "DOWNLOAD_BUSY" /\ e.subIndex = s(left).subIndex
            /\ e.subPagesLeft = s(left).subPagesLeft /\ e.writeInProgress = s(left).writeInProgress
            /\ e.savedBlock = s(left).savedBlock
        BY <3>1, <2>3 DEF DevType, States, Same
      <3> HIDE DEF e
      <3>4. /\ Same(d, e) /\ e.connected = d.connected /\ ~e.upgradeValid /\ e.slot = <<>>
            /\ e.subIndex = 0 /\ e.subPagesLeft = d.subPagesLeft /\ e.writeInProgress
            /\ e.savedBlock = d.savedBlock
        BY <3>3, <2>3, <2>5 DEF Same
      <3>5. Waits(e, blocks, m + 1)
        BY <3>2, <3>4 DEF Waits
      <3>6. DevInv(e)
        BY <3>3, <3>4, <2>2 DEF DevInv, Same
      <3>7. e.upgradeValid = d.upgradeValid
        BY <3>3, <3>4, <2>2 DEF DevType
      <3>8. Polled(d, e, blocks, m + 1)
        BY <3>7, <3>3, <3>4, <3>5, <3>6, <1>2, <2>2, <2>5 DEF Polled, Same
      <3> QED
        BY <3>8 DEF e
    <2>6. CASE d.writeInProgress /\ ~(left > 0)
      <3> DEFINE a == [WritePageData(s(0), blocks[m + 1]) EXCEPT !.subPagesLeft = @ - 1]
      <3>1. Waits(d, blocks, m + 1)
        BY <1>2, <2>6 DEF Holds
      <3>2. (m + 1) - 1 = m
        OBVIOUS
      <3>3. m % SubPages = 0 /\ d.savedBlock = blocks[m + 1] /\ blocks[m + 1] \in Data
        BY <3>1, <3>2 DEF Waits
      <3>4. e = [a EXCEPT !.state = "DOWNLOAD_IDLE"]
        <4>1. e = [WritePageData(s(0), d.savedBlock) EXCEPT !.state = "DOWNLOAD_IDLE", !.subPagesLeft = @ - 1]
          BY <2>1, <2>6 DEF DownloadState, s
        <4>2. WritePageData(s(0), d.savedBlock) = WritePageData(s(0), blocks[m + 1])
          BY <3>3
        <4> HIDE DEF e
        <4> DEFINE v == WritePageData(s(0), blocks[m + 1])
        <4>3. e = [v EXCEPT !.state = "DOWNLOAD_IDLE", !.subPagesLeft = v.subPagesLeft - 1]
          BY <4>1, <4>2
        <4>4. a = [v EXCEPT !.subPagesLeft = v.subPagesLeft - 1]
          OBVIOUS
        <4>5. v \in DevType
          <5> DEFINE f == s(0)  g == d.savedBlock
                     page == [f.page EXCEPT ![f.subIndex + 1] = g]  slots == Seq([1..SubPages -> Data])
                     slot == IF f.subIndex + 1 = SubPages THEN Append(f.slot, page) ELSE f.slot
          <5>1. f \in DevType /\ f.subIndex = 0 /\ ~f.upgradeValid /\ f.slot = <<>> /\ g \in Data
            BY <2>3, <3>3, Sizes
          <5> HIDE DEF f, g
          <5>2. page \in [1..SubPages -> Data] /\ f.subIndex + 1 \in 0..SubPages
            BY <5>1, Sizes DEF DevType
          <5>3. slot \in slots
            BY <5>1, <5>2
          <5>4. WritePageData(f, g) = [f EXCEPT !.page = page, !.subIndex = f.subIndex + 1, !.slot = slot]
            BY <5>1, Sizes DEF WritePageData, DevType
          <5> HIDE DEF page, slot, slots
          <5>5. WritePageData(f, g) \in DevType
            BY <5>1, <5>2, <5>3, <5>4 DEF DevType, slots
          <5> QED
            BY <5>5, <3>3 DEF f, g
        <4> HIDE DEF v, a
        <4> QED
          BY <4>3, <4>4, <4>5 DEF DevType
      <3>5. /\ s(0) \in DevType /\ ~s(0).upgradeValid /\ Same(d, s(0)) /\ s(0).connected = d.connected
            /\ s(0).slot = <<>>
        BY <2>3, Sizes
      <3>6. Filled(s(0), blocks, m)
        <4> DEFINE f == s(0)
        <4>1. f.writeInProgress = (0 > 0) /\ f.subIndex = 0 /\ f.subPagesLeft = SubPages
          BY <2>3, <3>1, Sizes DEF Waits
        <4>2. (0 > 0) = FALSE
          OBVIOUS
        <4>3. ~f.writeInProgress /\ f.subIndex = 0 /\ f.subPagesLeft = SubPages
          BY <4>1, <4>2, Zenon
        <4> HIDE DEF f
        <4>4. Filled(f, blocks, m)
          BY <4>3, <3>2, <3>3, Sizes DEF Filled
        <4> QED
          BY <4>4 DEF f
      <3> HIDE DEF e
      <3>7. /\ a \in DevType /\ Same(s(0), a) /\ a.connected = s(0).connected
            /\ ~a.upgradeValid /\ ~a.writeInProgress /\ Holds(a, blocks, m + 1)
            /\ (m + 1) % SubPages # 0 => a.slot = s(0).slot
            /\ (m + 1) % SubPages = 0 => a.slot = Append(s(0).slot, a.page) /\ FullPage(a.page, blocks, m + 1)
        <4>1. s(0) \in DevType /\ ~s(0).upgradeValid /\ m \in Nat /\ blocks[m + 1] \in Data
          BY <3>2, <3>3, <3>5
        <4> DEFINE f == s(0)
                   c == [WritePageData(f, blocks[m + 1]) EXCEPT !.subPagesLeft = @ - 1]
        <4> HIDE DEF f
        <4>2. f \in DevType /\ ~f.upgradeValid /\ Filled(f, blocks, m)
          BY <4>1, <3>6 DEF f
        <4>3. /\ c \in DevType /\ Same(f, c) /\ c.connected = f.connected
              /\ ~c.upgradeValid /\ ~c.writeInProgress /\ Holds(c, blocks, m + 1)
              /\ (m + 1) % SubPages # 0 => c.slot = f.slot
              /\ (m + 1) % SubPages = 0 => c.slot = Append(f.slot, c.page) /\ FullPage(c.page, blocks, m + 1)
          BY <4>1, <4>2, BlockAdded
        <4> QED
          BY <4>3 DEF f
      <3> HIDE DEF a
      <3>8. /\ e \in DevType /\ Same(a, e) /\ e.connected = a.connected
            /\ e.upgradeValid = a.upgradeValid /\ e.slot = a.slot /\ e.page = a.page
            /\ e.state = "DOWNLOAD_IDLE" /\ e.subIndex = a.subIndex /\ e.subPagesLeft = a.subPagesLeft
            /\ e.writeInProgress = a.writeInProgress
        BY <3>4, <3>7 DEF DevType, States, Same
      <3>9. Holds(e, blocks, m + 1)
        BY <3>2, <3>7, <3>8 DEF Holds
      <3>10. DevInv(e)
        BY <3>8, <3>7, <3>5, <2>2 DEF DevInv, Same
      <3>11. IF SubPages = 1 THEN (m + 1) % SubPages = 0 ELSE (m + 1) % SubPages # 0
        BY <3>2, <3>3, NextRemainder, Sizes
      <3>12. /\ Same(d, e) /\ e.connected = d.connected /\ ~e.upgradeValid
             /\ SubPages # 1 => e.slot = <<>>
             /\ SubPages = 1 => e.slot = Append(<<>>, e.page) /\ FullPage(e.page, blocks, m + 1)
        BY <3>2, <3>5, <3>7, <3>8, <3>11 DEF Same
      <3>13. e.upgradeValid = d.upgradeValid
        BY <3>8, <3>12, <2>2 DEF DevType
      <3>14. Polled(d, e, blocks, m + 1)
        BY <3>13, <3>8, <3>9, <3>10, <3>12, <1>2, <2>2, <2>6 DEF Polled, Same
      <3> QED
        BY <3>14 DEF e
    <2> QED
      BY <2>4, <2>5, <2>6
  <1> QED
    BY <1>1, <1>2

\* Padding writes into the page buffer and at most one page to the flash.
LEMMA PadTypes ==
  ASSUME NEW d \in DevType
  PROVE  LET w == PadPage(d) IN
         w \in DevType /\ Same(d, w) /\ w.connected = d.connected /\ w.upgradeValid = d.upgradeValid
  <1> DEFINE last  == IF d.subIndex + d.subPagesLeft <= SubPages THEN d.subIndex + d.subPagesLeft ELSE SubPages
             page  == [i \in 1..SubPages |-> IF i \in (d.subIndex + 1)..last THEN Zeros ELSE d.page[i]]
             slot  == IF last = SubPages THEN Append(d.slot, page) ELSE d.slot
             slots == Seq([1..SubPages -> Data])
             v     == [d EXCEPT !.page = page, !.subIndex = last, !.slot = slot]
  <1>1. PadPage(d) = d \/ PadPage(d) = v
    BY DEF PadPage
  <1>2. d.subIndex \in 0..SubPages /\ d.subPagesLeft \in 0..SubPages /\ d.slot \in slots
        /\ d.page \in [1..SubPages -> Data]
    BY DEF DevType
  <1>3. last \in 0..SubPages /\ page \in [1..SubPages -> Data]
    BY <1>2, Sizes
  <1> HIDE DEF page, last
  <1>4. slot \in slots
    BY <1>2, <1>3
  <1> HIDE DEF slot, slots
  <1>5. v \in DevType /\ Same(d, v) /\ v.connected = d.connected /\ v.upgradeValid = d.upgradeValid
    BY <1>3, <1>4 DEF DevType, Same, slots
  <1> HIDE DEF v
  <1> QED
    BY <1>1, <1>5 DEF Same

\* An upload returns the blocks of a page one after another, then goes on to the next page, and
\* changes nothing of the image.
LEMMA Uploaded ==
  ASSUME NEW d \in DevType, DevInv(d), d.dfuMode
  PROVE  LET e     == Upload(d, 1)
             data  == UploadData(d, 1)
             o     == OpenFlash(d)
             idle  == d.state = "DFU_IDLE"
             at    == IF idle THEN 0 ELSE d.readAt
             left  == IF idle THEN 0 ELSE d.subPagesLeft
             takes == d.state \in {"DFU_IDLE", "UPLOAD_IDLE"}
             next  == o.upgradeValid /\ at < Len(d.slot)
         IN  /\ e \in DevType /\ DevInv(e) /\ e.running = d.running /\ e.flag = d.flag
             /\ e.dfuMode = d.dfuMode /\ e.slot = d.slot /\ e.connected
             /\ e.upgradeValid = o.upgradeValid /\ data \in Seq(Data)
             /\ ~takes => data = <<>> /\ e.state = "ERROR"
             /\ takes /\ left > 0 =>
                  /\ d.subIndex + 1 \in 1..SubPages /\ data = <<d.page[d.subIndex + 1]>>
                  /\ e.state = "UPLOAD_IDLE"
                  /\ e.page = d.page /\ e.subIndex = d.subIndex + 1 /\ e.readAt = at
             /\ takes /\ left = 0 /\ next =>
                  /\ data = <<d.slot[at + 1][1]>> /\ e.state = "UPLOAD_IDLE"
                  /\ e.page = d.slot[at + 1] /\ e.subIndex = 1 /\ e.readAt = at + 1
             /\ takes /\ left = 0 /\ ~next => data = <<>> /\ e.state = "DFU_IDLE"
  <1> DEFINE o     == OpenFlash(d)
             idle  == d.state = "DFU_IDLE"
             at    == IF idle THEN 0 ELSE d.readAt
             left  == IF idle THEN 0 ELSE d.subPagesLeft
             takes == d.state \in {"DFU_IDLE", "UPLOAD_IDLE"}
             next  == o.upgradeValid /\ at < Len(d.slot)
             e     == Upload(d, 1)
             data  == UploadData(d, 1)
             start == IF idle THEN [o EXCEPT !.subPagesLeft = 0, !.readAt = 0] ELSE o
             pages == [1..SubPages -> Data]
  <1>1. /\ o \in DevType /\ DevInv(o) /\ Same(d, o) /\ o.connected /\ o.state = d.state
        /\ o.slot = d.slot /\ o.subIndex = d.subIndex /\ o.page = d.page
        /\ o.subPagesLeft = d.subPagesLeft
    BY OpenedFlash
  <1> HIDE DEF o
  <1>2. /\ start \in DevType /\ start.running = d.running /\ start.flag = d.flag
        /\ start.dfuMode = d.dfuMode /\ start.slot = d.slot /\ start.connected
        /\ start.upgradeValid = o.upgradeValid /\ start.state = d.state
        /\ start.page = d.page /\ start.subIndex = d.subIndex
        /\ start.subPagesLeft = left /\ start.readAt = at
    <2>1. CASE idle
      <3>1. start = [o EXCEPT !.subPagesLeft = 0, !.readAt = 0] /\ 0 \in 0..SubPages /\ 0 \in Nat
        BY <2>1, Sizes
      <3>2. left = 0 /\ at = 0
        BY <2>1
      <3> QED
        BY <3>1, <3>2, <1>1 DEF DevType, Same
    <2>2. CASE ~idle
      BY <2>2, <1>1 DEF Same
    <2> QED
      BY <2>1, <2>2
  <1>3. /\ left \in 0..SubPages /\ at \in Nat /\ d.slot \in Seq(pages) /\ d.page \in pages
        /\ d.subIndex \in 0..SubPages
    BY Sizes DEF DevType
  <1>4. o.upgradeValid => d.slot \in Images
    BY <1>1 DEF DevInv
  <1>5. d.state = "UPLOAD_IDLE" => d.subIndex + d.subPagesLeft = SubPages
    BY DEF DevInv
  <1>6. CASE ~takes
    <2>1. e = [o EXCEPT !.state = "ERROR"] /\ data = <<>>
      BY <1>6, <1>1 DEF Upload, UploadData, UploadRefused, o
    <2>2. /\ e \in DevType /\ e.running = d.running /\ e.flag = d.flag
          /\ e.dfuMode = d.dfuMode /\ e.slot = d.slot /\ e.connected
          /\ e.upgradeValid = o.upgradeValid /\ e.state = "ERROR"
      BY <2>1, <1>1 DEF DevType, States, Same
    <2>3. DevInv(e)
      <3> HIDE DEF e
      <3> QED
        BY <2>2, <1>1 DEF DevInv, Downloading, Syncing
    <2>4. data \in Seq(Data)
      <3> HIDE DEF data
      <3> QED
        BY <2>1
    <2> QED
      BY <2>1, <2>2, <2>3, <2>4, <1>6 DEF o
  <1> DEFINE p == IF left > 0 THEN start
                  ELSE IF next THEN [[start EXCEPT !.subIndex = 0, !.page = d.slot[at + 1], !.readAt = at + 1]
                                     EXCEPT !.subPagesLeft = SubPages]
                  ELSE [start EXCEPT !.state = "DFU_IDLE"]
  <1> HIDE DEF left, at, start
  <1>7. UploadPage(o) = p
    <2>1. start = IF o.state = "DFU_IDLE" THEN [o EXCEPT !.subPagesLeft = 0, !.readAt = 0] ELSE o
      BY <1>1 DEF start
    <2>2. PageLeft(start) = next
      BY <1>2 DEF PageLeft
    <2>3. ReadPage(start) = [start EXCEPT !.subIndex = 0, !.page = d.slot[at + 1], !.readAt = at + 1]
      BY <1>2 DEF ReadPage
    <2>4. UploadPage(o) = IF start.subPagesLeft > 0 THEN start
                          ELSE IF PageLeft(start) THEN [ReadPage(start) EXCEPT !.subPagesLeft = SubPages]
                          ELSE [start EXCEPT !.state = "DFU_IDLE"]
      BY <2>1 DEF UploadPage
    <2> QED
      BY <2>2, <2>3, <2>4, <1>2
  <1>8. takes => /\ data = IF p.subPagesLeft = 0 THEN <<>> ELSE <<p.page[p.subIndex + 1]>>
                 /\ e = IF p.subPagesLeft = 0 THEN p
                        ELSE [p EXCEPT !.subIndex = p.subIndex + 1, !.subPagesLeft = p.subPagesLeft - 1,
                                       !.state = "UPLOAD_IDLE"]
    BY <1>1, <1>7 DEF Upload, UploadData, UploadRefused, o
  <1>9. ASSUME takes, p \in DevType, p.running = d.running, p.flag = d.flag, p.dfuMode = d.dfuMode,
               p.slot = d.slot, p.connected, p.upgradeValid = o.upgradeValid,
               p.subPagesLeft > 0, p.subIndex + p.subPagesLeft = SubPages
        PROVE  /\ e \in DevType /\ DevInv(e) /\ e.running = d.running /\ e.flag = d.flag
               /\ e.dfuMode = d.dfuMode /\ e.slot = d.slot /\ e.connected
               /\ e.upgradeValid = o.upgradeValid /\ e.state = "UPLOAD_IDLE"
               /\ p.subIndex + 1 \in 1..SubPages
               /\ data = <<p.page[p.subIndex + 1]>> /\ p.page[p.subIndex + 1] \in Data
               /\ e.page = p.page /\ e.subIndex = p.subIndex + 1 /\ e.readAt = p.readAt
    <2> DEFINE x == p.subIndex + 1  y == p.subPagesLeft - 1
    <2> HIDE DEF p, e, data
    <2>1. /\ p.subIndex \in 0..SubPages /\ p.subPagesLeft \in 0..SubPages /\ p.page \in pages
      BY <1>9 DEF DevType
    <2>2. x \in 0..SubPages /\ y \in 0..SubPages /\ x \in 1..SubPages /\ x + y = SubPages
      BY <2>1, <1>9, Sizes
    <2>3. e = [p EXCEPT !.subIndex = x, !.subPagesLeft = y, !.state = "UPLOAD_IDLE"]
          /\ data = <<p.page[x]>>
      BY <1>8, <1>9, <2>1
    <2>4. p.page[x] \in Data
      BY <2>1, <2>2
    <2> HIDE DEF x, y
    <2>5. /\ e \in DevType /\ e.running = d.running /\ e.flag = d.flag
          /\ e.dfuMode = d.dfuMode /\ e.slot = d.slot /\ e.connected
          /\ e.upgradeValid = o.upgradeValid /\ e.state = "UPLOAD_IDLE"
          /\ e.page = p.page /\ e.subIndex = x /\ e.readAt = p.readAt /\ e.subPagesLeft = y
      BY <2>2, <2>3, <1>9 DEF DevType, States
    <2>6. DevInv(e)
      BY <2>2, <2>5, <1>1, <1>4 DEF DevInv, Downloading, Syncing, Same
    <2> QED
      BY <2>2, <2>3, <2>4, <2>5, <2>6 DEF x
  <1>10. CASE takes /\ left > 0
    <2>1. p = start /\ d.state = "UPLOAD_IDLE" /\ left = d.subPagesLeft
      BY <1>10 DEF left
    <2> HIDE DEF p
    <2>2. p.subIndex + p.subPagesLeft = SubPages /\ p.subPagesLeft > 0 /\ p.subIndex = d.subIndex
          /\ p.page = d.page /\ p.readAt = at
      BY <2>1, <1>2, <1>5, <1>10
    <2>3. /\ p \in DevType /\ p.running = d.running /\ p.flag = d.flag /\ p.dfuMode = d.dfuMode
          /\ p.slot = d.slot /\ p.connected /\ p.upgradeValid = o.upgradeValid
      BY <2>1, <1>2
    <2> HIDE DEF e, data
    <2>4. /\ e \in DevType /\ DevInv(e) /\ e.running = d.running /\ e.flag = d.flag
          /\ e.dfuMode = d.dfuMode /\ e.slot = d.slot /\ e.connected
          /\ e.upgradeValid = o.upgradeValid /\ e.state = "UPLOAD_IDLE"
          /\ p.subIndex + 1 \in 1..SubPages
          /\ data = <<p.page[p.subIndex + 1]>> /\ p.page[p.subIndex + 1] \in Data
          /\ e.page = p.page /\ e.subIndex = p.subIndex + 1 /\ e.readAt = p.readAt
      BY <2>2, <2>3, <1>9, <1>10
    <2>5. data \in Seq(Data)
      BY <2>4
    <2>6. left # 0
      BY <1>10
    <2> QED
      BY <2>2, <2>4, <2>5, <2>6, <1>10 DEF e, data, o, left, at
  <1>11. CASE takes /\ ~(left > 0) /\ next
    <2> DEFINE k == at + 1  pg == d.slot[k]
    <2>1. k \in Nat /\ pg \in pages /\ 0 \in 0..SubPages /\ SubPages \in 0..SubPages /\ SubPages > 0
      <3>1. at + 1 \in 1..Len(d.slot)
        BY <1>3, <1>11
      <3> QED
        BY <3>1, <1>3, Sizes
    <2>2. p = [[start EXCEPT !.subIndex = 0, !.page = pg, !.readAt = k] EXCEPT !.subPagesLeft = SubPages]
      BY <1>11
    <2> HIDE DEF k, pg, p
    <2> DEFINE u == [start EXCEPT !.subIndex = 0, !.page = pg, !.readAt = k]
    <2>3. /\ u \in DevType /\ u.running = d.running /\ u.flag = d.flag /\ u.dfuMode = d.dfuMode
          /\ u.slot = d.slot /\ u.connected /\ u.upgradeValid = o.upgradeValid
          /\ u.subIndex = 0 /\ u.page = pg /\ u.readAt = k
      BY <2>1, <1>2 DEF DevType
    <2>4. p = [u EXCEPT !.subPagesLeft = SubPages]
      BY <2>2
    <2> HIDE DEF u
    <2>5. /\ p \in DevType /\ p.running = d.running /\ p.flag = d.flag /\ p.dfuMode = d.dfuMode
          /\ p.slot = d.slot /\ p.connected /\ p.upgradeValid = o.upgradeValid
          /\ p.subIndex = 0 /\ p.page = pg /\ p.readAt = k /\ p.subPagesLeft = SubPages
      BY <2>1, <2>3, <2>4 DEF DevType
    <2>6. p.subIndex + p.subPagesLeft = SubPages /\ p.subPagesLeft > 0 /\ p.subIndex + 1 = 1
      BY <2>5, <2>1, Sizes
    <2> HIDE DEF e, data
    <2>7. /\ e \in DevType /\ DevInv(e) /\ e.running = d.running /\ e.flag = d.flag
          /\ e.dfuMode = d.dfuMode /\ e.slot = d.slot /\ e.connected
          /\ e.upgradeValid = o.upgradeValid /\ e.state = "UPLOAD_IDLE"
          /\ data = <<p.page[1]>> /\ p.page[1] \in Data
          /\ e.page = p.page /\ e.subIndex = 1 /\ e.readAt = p.readAt
      BY <2>5, <2>6, <1>9, <1>11
    <2>8. data \in Seq(Data)
      BY <2>7
    <2> QED
      BY <2>5, <2>7, <2>8, <1>11 DEF e, data, o, left, at, k, pg
  <1>12. CASE takes /\ ~(left > 0) /\ ~next
    <2>1. left = 0
      BY <1>3, <1>12
    <2>2. p = [start EXCEPT !.state = "DFU_IDLE"] /\ p.subPagesLeft = 0
      BY <2>1, <1>12, <1>2 DEF DevType
    <2>3. e = p /\ data = <<>>
      BY <2>2, <1>8, <1>12
    <2> HIDE DEF p, e, data
    <2>4. /\ e \in DevType /\ e.running = d.running /\ e.flag = d.flag
          /\ e.dfuMode = d.dfuMode /\ e.slot = d.slot /\ e.connected
          /\ e.upgradeValid = o.upgradeValid /\ e.state = "DFU_IDLE"
      BY <2>2, <2>3, <1>2 DEF DevType, States
    <2>5. DevInv(e)
      BY <2>4, <1>1, <1>4 DEF DevInv, Downloading, Syncing, Same
    <2>6. data \in Seq(Data)
      BY <2>3
    <2> QED
      BY <2>1, <2>3, <2>4, <2>5, <2>6, <1>12 DEF e, data, o, left, at
  <1> QED
    BY <1>6, <1>10, <1>11, <1>12

\* The return to the factory image leaves the slot as it was, when it held none, or empty.
LEMMA Reverted ==
  ASSUME NEW d \in DevType, DevInv(d)
  PROVE  LET e == RevertFactory(d) IN
         /\ e \in DevType /\ DevInv(e) /\ Same(d, e) /\ e.connected /\ e.state = d.state
         /\ ~e.upgradeValid /\ (e.slot = d.slot \/ e.slot = <<>>)
  <1> DEFINE o == OpenFlash(d)  e == RevertFactory(d)
  <1>1. /\ o \in DevType /\ DevInv(o) /\ Same(d, o) /\ o.connected /\ o.state = d.state
        /\ o.slot = d.slot
    BY OpenedFlash
  <1>2. e = EraseAll(o)
    BY DEF RevertFactory
  <1> HIDE DEF o, e
  <1>3. /\ e \in DevType /\ Same(o, e) /\ e.connected = o.connected /\ e.state = o.state
        /\ ~e.upgradeValid /\ e.slot = (IF o.upgradeValid THEN <<>> ELSE o.slot)
        /\ e.subIndex = o.subIndex /\ e.subPagesLeft = o.subPagesLeft
        /\ e.writeInProgress = o.writeInProgress
    BY <1>1, <1>2, Emptied
  <1>4. DevInv(e)
    BY <1>1, <1>3 DEF DevInv, Downloading, Syncing, Same
  <1> QED
    BY <1>1, <1>3, <1>4 DEF e, Same

\* Requests out of turn leave the page buffer and the flash alone.
LEMMA Strayed ==
  ASSUME NEW d \in DevType, DevInv(d), NEW e \in {GetState(d), ClrStatus(d), Abort(d)}
  PROVE  /\ e \in DevType /\ DevInv(e) /\ e = [d EXCEPT !.state = e.state]
         /\ e.state \in {d.state, "ERROR", "DFU_IDLE"}
         /\ d.state = "DOWNLOAD_IDLE" \/ e.state # "DOWNLOAD_IDLE"
  <1>1. /\ e \in DevType /\ e = [d EXCEPT !.state = e.state]
        /\ e.state = d.state \/ e.state = "ERROR" \/ e.state = "DFU_IDLE"
    BY DEF DevType, GetState, ClrStatus, Abort, States
  <1>2. DevInv(e)
    BY <1>1 DEF DevInv, Downloading, Syncing, DevType
  <1> QED
    BY <1>1, <1>2

\* A device that has started is in order.
LEMMA BootedDevice ==
  ASSUME NEW slot \in Seq([1..SubPages -> Data]), NEW flag \in BOOLEAN
  PROVE  LET e == Booted(slot, flag) IN
         /\ e \in DevType /\ DevInv(e) /\ e.slot = slot /\ e.running = Bootable(slot)
         /\ e.dfuMode = flag /\ e.flag = flag /\ ~e.connected
         /\ e.state = IF flag THEN "DFU_IDLE" ELSE "APP_IDLE"
  <1> DEFINE e == Booted(slot, flag)
  <1>1. /\ Bootable(slot) \in Images \union {Factory} /\ NoPage \in [1..SubPages -> Data]
        /\ 0 \in 0..SubPages /\ 0 \in 0..MaxErase /\ 0 \in Nat
        /\ (IF flag THEN "DFU_IDLE" ELSE "APP_IDLE") \in States
    BY Sizes DEF Bootable, NoPage, States
  <1>2. e \in DevType
    BY <1>1, Sizes DEF Booted, DevType
  <1>3. /\ e.slot = slot /\ e.running = Bootable(slot) /\ e.dfuMode = flag /\ e.flag = flag
        /\ ~e.connected /\ ~e.upgradeValid /\ e.state = IF flag THEN "DFU_IDLE" ELSE "APP_IDLE"
    BY DEF Booted
  <1> HIDE DEF e
  <1>4. DevInv(e)
    BY <1>3 DEF DevInv, Downloading, Syncing
  <1> QED
    BY <1>2, <1>3, <1>4 DEF e

\* A bus reset leaves a device in order, and its flash alone.
LEMMA BusResetDevice ==
  ASSUME NEW d \in DevType, DevInv(d), NEW early \in BOOLEAN
  PROVE  LET e == BusResetOf(d, early) IN
         /\ e \in DevType /\ DevInv(e) /\ e.slot = d.slot
         /\ StaysInDfu(d, early) =>
              e = [d EXCEPT !.state = "DFU_IDLE", !.dfuMode = TRUE]
         /\ ~StaysInDfu(d, early) /\ ~d.dfuMode => ~e.dfuMode /\ e.state = "APP_IDLE"
  <1> DEFINE e == BusResetOf(d, early)
  <1>1. CASE StaysInDfu(d, early)
    <2>1. e = [d EXCEPT !.state = "DFU_IDLE", !.dfuMode = TRUE]
      BY <1>1 DEF BusResetOf
    <2> HIDE DEF e
    <2>2. /\ e \in DevType /\ e.slot = d.slot /\ e.state = "DFU_IDLE" /\ e.dfuMode
          /\ e.upgradeValid = d.upgradeValid
      BY <2>1 DEF DevType, States
    <2>3. DevInv(e)
      BY <2>2 DEF DevInv, Downloading, Syncing
    <2> QED
      BY <2>1, <2>2, <2>3, <1>1 DEF e
  <1>2. CASE ~StaysInDfu(d, early) /\ d.dfuMode
    <2>1. e = Booted(d.slot, d.flag)
      BY <1>2 DEF BusResetOf
    <2>2. d.slot \in Seq([1..SubPages -> Data]) /\ d.flag \in BOOLEAN
      BY DEF DevType
    <2> HIDE DEF e
    <2>3. e \in DevType /\ DevInv(e) /\ e.slot = d.slot
      BY <2>1, <2>2, BootedDevice
    <2> QED
      BY <2>3, <1>2 DEF e
  <1>3. CASE ~StaysInDfu(d, early) /\ ~d.dfuMode
    <2>1. e = [d EXCEPT !.state = "APP_IDLE", !.connected = FALSE]
      BY <1>3 DEF BusResetOf
    <2> HIDE DEF e
    <2>2. /\ e \in DevType /\ e.slot = d.slot /\ e.state = "APP_IDLE" /\ ~e.dfuMode /\ e.flag = d.flag
          /\ e.upgradeValid = d.upgradeValid
      BY <2>1, <1>3 DEF DevType, States
    <2>3. DevInv(e)
      BY <2>2, <1>3 DEF DevInv, Downloading, Syncing
    <2> QED
      BY <2>2, <2>3, <1>3 DEF e
  <1> QED
    BY <1>1, <1>2, <1>3

\* Writing the flag disturbs nothing else.
LEMMA AnsweredDevice ==
  ASSUME NEW d \in DevType, DevInv(d)
  PROVE  LET e == Answered(d) IN
         /\ e \in DevType /\ DevInv(e) /\ e = [d EXCEPT !.flag = FALSE] /\ ~e.flag
         /\ e.running = d.running /\ e.slot = d.slot /\ e.dfuMode = d.dfuMode /\ e.state = d.state
         /\ e.connected = d.connected /\ e.upgradeValid = d.upgradeValid
         /\ e.subPagesLeft = d.subPagesLeft /\ e.subIndex = d.subIndex /\ e.page = d.page
         /\ e.writeInProgress = d.writeInProgress /\ e.savedBlock = d.savedBlock
         /\ e.readAt = d.readAt
  BY DEF Answered, DevType, DevInv, Downloading, Syncing

\* ... not the page buffer,
LEMMA AnsweredHolds ==
  ASSUME NEW d \in DevType, NEW blocks, NEW n
  PROVE  LET e == Answered(d) IN
         /\ Holds(d, blocks, n) => Holds(e, blocks, n)
         /\ Waits(d, blocks, n) => Waits(e, blocks, n)
  <1> DEFINE e == Answered(d)
  <1>1. /\ e.subPagesLeft = d.subPagesLeft /\ e.subIndex = d.subIndex /\ e.page = d.page
        /\ e.writeInProgress = d.writeInProgress /\ e.savedBlock = d.savedBlock
    BY DEF Answered, DevType
  <1> HIDE DEF e
  <1> QED
    BY <1>1 DEF Holds, Waits, e

\* ... not what taking a block has done,
LEMMA AnsweredTaken ==
  ASSUME NEW d, NEW e, NEW blocks, NEW num, Taken(d, e, blocks, num)
  PROVE  Taken(d, Answered(e), blocks, num)
  <1> DEFINE a == Answered(e)
  <1>1. /\ a \in DevType /\ DevInv(a)
        /\ a.running = e.running /\ a.slot = e.slot /\ a.dfuMode = e.dfuMode /\ a.state = e.state
        /\ a.connected = e.connected /\ a.upgradeValid = e.upgradeValid
        /\ a.page = e.page /\ a.writeInProgress = e.writeInProgress
    BY AnsweredDevice DEF Taken
  <1>2. Holds(a, blocks, num + 1) \/ Waits(a, blocks, num + 1)
    BY AnsweredHolds DEF Taken
  <1> HIDE DEF a
  <1> QED
    BY <1>1, <1>2 DEF Taken, a

\* ... and not what a status request has done.
LEMMA AnsweredPolled ==
  ASSUME NEW d, NEW e, NEW blocks, NEW n, Polled(d, e, blocks, n)
  PROVE  Polled(d, Answered(e), blocks, n)
  <1> DEFINE a == Answered(e)
  <1>1. /\ a \in DevType /\ DevInv(a)
        /\ a.running = e.running /\ a.slot = e.slot /\ a.dfuMode = e.dfuMode /\ a.state = e.state
        /\ a.connected = e.connected /\ a.upgradeValid = e.upgradeValid
        /\ a.page = e.page /\ a.writeInProgress = e.writeInProgress
    BY AnsweredDevice DEF Polled
  <1>2. /\ Holds(e, blocks, n) => Holds(a, blocks, n)
        /\ Waits(e, blocks, n) => Waits(a, blocks, n)
    BY AnsweredHolds DEF Polled
  <1> HIDE DEF a
  <1>3. Polled(d, a, blocks, n)
    BY <1>1, <1>2 DEF Polled
  <1> QED
    BY <1>3 DEF a

\* A block that is refused ends the transfer and leaves the flash alone.
LEMMA RefusedDevice ==
  ASSUME NEW d \in DevType, DevInv(d), NEW len, NEW num, NEW block, NEW left,
         DnloadRefused(OpenFlash(d), len)
  PROVE  LET e == Dnload(d, len, num, block, left) IN
         e \in DevType /\ DevInv(e) /\ Same(d, e) /\ e.slot = d.slot /\ e.state = "ERROR"
  <1> DEFINE o == OpenFlash(d)  e == Dnload(d, len, num, block, left)
  <1>1. /\ o \in DevType /\ DevInv(o) /\ Same(d, o) /\ o.slot = d.slot
    BY OpenedFlash
  <1>2. e = [o EXCEPT !.state = "ERROR"]
    BY DEF Dnload
  <1> HIDE DEF o, e
  <1>3. /\ e \in DevType /\ Same(o, e) /\ e.slot = o.slot /\ e.state = "ERROR"
        /\ e.upgradeValid = o.upgradeValid
    BY <1>1, <1>2 DEF DevType, States, Same
  <1>4. DevInv(e)
    BY <1>1, <1>3 DEF DevInv, Downloading, Syncing, Same
  <1> QED
    BY <1>1, <1>3, <1>4 DEF e, Same

\* A detach restarts the device out of the flash, in the mode opposite to the one it was in.
LEMMA DetachedDevice ==
  ASSUME NEW d \in DevType
  PROVE  Detach(d) \in DevType /\ DevInv(Detach(d)) /\ Detach(d).slot = d.slot
         /\ Detach(d).running = Bootable(d.slot)
         /\ Detach(d).dfuMode = (d.state = "APP_IDLE")
  <1>1. d.slot \in Seq([1..SubPages -> Data]) /\ (d.state = "APP_IDLE") \in BOOLEAN
    BY DEF DevType
  <1> DEFINE flag == d.state = "APP_IDLE"
  <1> HIDE DEF flag
  <1>2. flag \in BOOLEAN
    BY DEF flag
  <1>3. /\ Booted(d.slot, flag) \in DevType /\ DevInv(Booted(d.slot, flag))
        /\ Booted(d.slot, flag).slot = d.slot /\ Booted(d.slot, flag).running = Bootable(d.slot)
        /\ Booted(d.slot, flag).dfuMode = flag
    BY <1>1, <1>2, BootedDevice
  <1> QED
    BY <1>3 DEF Detach, flag

-----------------------------------------------------------------------------
(***************************************************************************)
(* The tool and the device together.                                       *)
(***************************************************************************)

Pcs == {"off", "find", "detach", "again", "block", "poll", "restPoll", "end", "endPoll",
        "upload", "revert", "leave", "done"}

AllFiles == Files \union {NoFile}

ToolType ==
  [op : Ops \union {"none"}, file : AllFiles, ids : Ids, blk : Nat, got : Seq(Data),
   told : BOOLEAN, open : BOOLEAN, clean : BOOLEAN, idle : BOOLEAN, fresh : BOOLEAN,
   found : {Factory} \union Seq([1..SubPages -> Data])]

TypeInv ==
  /\ dev \in DevType /\ pc \in Pcs /\ tool \in ToolType
  /\ asked \in SUBSET (Images \union {Factory}) /\ runs \in Nat /\ faults \in Nat

All(file) == file.blocks \o file.rem

RunInv ==
  /\ tool.op \in {"download", "revert"} => asked # {}
  /\ tool.op = "download" => tool.file \in Files /\ Bootable(Pages(tool.file)) \in asked
  /\ pc \in {"block", "poll", "restPoll", "end", "endPoll"} => tool.op = "download"
  /\ pc = "revert" => tool.op = "revert"
  /\ pc = "upload" => tool.op = "upload"
  /\ pc \in {"find", "detach", "again"} => tool.blk = 0 /\ tool.op # "none" /\ tool.got = <<>>
  /\ pc = "block" => tool.blk <= Len(tool.file.blocks)
  /\ pc = "poll" => tool.blk < Len(tool.file.blocks)
  /\ pc = "restPoll" => tool.file.rem # <<>>

InStep(d) ==
  LET blocks == All(tool.file) IN
  tool.open =>
    /\ pc = "block" /\ tool.blk > 0 =>
         d.dfuMode /\ d.connected /\ ~d.upgradeValid /\ Holds(d, blocks, tool.blk)
    /\ pc = "poll" =>
         /\ d.dfuMode /\ d.connected /\ ~d.upgradeValid /\ d.state # "DOWNLOAD_IDLE"
         /\ Syncing(d) => Holds(d, blocks, tool.blk + 1) \/ Waits(d, blocks, tool.blk + 1)
    /\ pc = "restPoll" =>
         /\ d.state # "DOWNLOAD_IDLE"
         /\ Syncing(d) => Holds(d, blocks, Len(blocks)) \/ Waits(d, blocks, Len(blocks))
    /\ pc = "end" /\ d.state = "DOWNLOAD_IDLE" /\ blocks # <<>> => Holds(d, blocks, Len(blocks))
    /\ pc = "endPoll" => ~Syncing(d)

Inv == TypeInv /\ DevInv(dev) /\ RunInv /\ InStep(dev)

\* The flash holds the pages of a file that its first n blocks fill.
Loaded(d, file, n) == d.slot = SubSeq(Pages(file), 1, n \div SubPages)

\* A run that nobody disturbs, on a device that was fresh when the transfer began
Clean(op) == tool.op = op /\ tool.clean /\ tool.fresh

CleanDownload ==
  LET file == tool.file  n == Len(All(file)) IN
  Clean("download") /\ file.blocks # <<>> =>
    /\ pc \in {"block", "poll", "restPoll", "end", "endPoll", "leave"} => tool.open /\ dev.dfuMode
    /\ pc = "block" => IF tool.blk = 0 THEN dev.state = "DFU_IDLE" /\ ~dev.connected
                       ELSE dev.state = "DOWNLOAD_IDLE" /\ Loaded(dev, file, tool.blk)
    /\ pc = "poll" => /\ Syncing(dev)
                      /\ IF dev.writeInProgress THEN tool.blk = 0 /\ dev.slot = <<>>
                         ELSE Loaded(dev, file, tool.blk + 1)
    /\ pc = "restPoll" => Syncing(dev) /\ ~dev.writeInProgress /\ Loaded(dev, file, n)
    /\ pc = "end" => dev.state = "DOWNLOAD_IDLE" /\ Loaded(dev, file, n)
    /\ pc = "endPoll" => dev.state = "MANIFEST_SYNC" /\ dev.slot = Pages(file)
    /\ pc = "leave" => dev.state = "DFU_IDLE" /\ dev.slot = Pages(file) /\ tool.told
    /\ pc = "done" => ~dev.dfuMode /\ dev.running = Bootable(Pages(file)) /\ tool.told

\* The blocks got are the first ones of the image.
Got(got, slot) == \A i \in 1..Len(got) : got[i] = Blocks(slot)[i]

Given == IF tool.found \in Images THEN Blocks(tool.found) ELSE <<>>

CleanUpload ==
  Clean("upload") =>
    /\ pc = "upload" => tool.open /\ dev.dfuMode /\ dev.slot = tool.found
    /\ pc = "upload" /\ ~dev.connected => dev.state = "DFU_IDLE" /\ tool.got = <<>>
    /\ pc = "upload" /\ dev.connected =>
         /\ dev.state = "UPLOAD_IDLE" /\ dev.upgradeValid
         /\ dev.readAt \in 1..Len(dev.slot) /\ dev.page = dev.slot[dev.readAt]
         /\ Len(tool.got) = (dev.readAt - 1) * SubPages + dev.subIndex
         /\ Got(tool.got, dev.slot)
    /\ pc \in {"leave", "done"} => tool.got = Given

Marked ==
  \A i \in Images :
    /\ i # <<>>
    /\ \A file \in Files : i[Len(i)] \in {Pages(file)[p] : p \in 1..Len(Pages(file))} => i = Pages(file)

\* A firmware file is a sequence of blocks, of which the last may be short.
LEMMA FileTypes ==
  ASSUME NEW file \in AllFiles
  PROVE  /\ file \in [blocks : Seq(Data), rem : Seq(Data)] /\ All(file) \in Seq(Data)
         /\ Len(All(file)) \in Nat /\ Len(file.blocks) \in Nat
         /\ Len(All(file)) = Len(file.blocks) + Len(file.rem) /\ Len(file.rem) \in 0..1
         /\ \A i \in 1..Len(file.blocks) : All(file)[i] = file.blocks[i] /\ file.blocks[i] \in Data
         /\ \A i \in 1..Len(All(file)) : All(file)[i] \in Data
         /\ file.rem # <<>> => /\ Len(All(file)) = Len(file.blocks) + 1
                               /\ file.rem[1] = All(file)[Len(file.blocks) + 1] /\ file.rem[1] \in Data
         /\ file.rem = <<>> => Len(All(file)) = Len(file.blocks)
  <1>1. file \in [blocks : Seq(Data), rem : Seq(Data)] /\ Len(file.rem) <= 1
    <2>1. CASE file \in Files
      BY <2>1, FilesAssumption
    <2>2. CASE file = NoFile
      <3>1. <<>> \in Seq(Data) /\ Len(<<>>) <= 1
        OBVIOUS
      <3> QED
        BY <3>1, <2>2 DEF NoFile
    <2> QED
      BY <2>1, <2>2 DEF AllFiles
  <1> DEFINE b == file.blocks  r == file.rem
  <1>2. b \in Seq(Data) /\ r \in Seq(Data) /\ Len(r) \in 0..1
    <2>1. b \in Seq(Data) /\ r \in Seq(Data)
      BY <1>1
    <2>2. Len(r) \in Nat /\ Len(r) <= 1
      BY <1>1, <2>1
    <2> HIDE DEF b, r
    <2>3. Len(r) \in 0..1
      <3> DEFINE l == Len(r)
      <3>1. l \in Nat /\ l <= 1
        BY <2>2
      <3> HIDE DEF l
      <3>2. l \in 0..1
        BY <3>1
      <3> QED
        BY <3>2 DEF l
    <2> QED
      BY <2>1, <2>3
  <1>3. All(file) = b \o r
    BY DEF All
  <1> HIDE DEF b, r
  <1>4. /\ b \o r \in Seq(Data) /\ Len(b \o r) = Len(b) + Len(r)
        /\ \A i \in 1..Len(b) : (b \o r)[i] = b[i] /\ b[i] \in Data
        /\ \A i \in 1..Len(b \o r) : (b \o r)[i] \in Data
        /\ Len(b) \in Nat /\ Len(b \o r) \in Nat
        /\ r # <<>> => Len(r) = 1 /\ r[1] = (b \o r)[Len(b) + 1] /\ r[1] \in Data
        /\ r = <<>> => Len(r) = 0
    BY <1>2
  <1> QED
    BY <1>1, <1>2, <1>3, <1>4 DEF b, r

\* How many pages a file becomes, and which block is where in them.
LEMMA PagesOf ==
  ASSUME NEW file \in AllFiles
  PROVE  LET n == Len(All(file))
             m == IF n % SubPages = 0 THEN n \div SubPages ELSE n \div SubPages + 1
             At(p, i) == (p - 1) * SubPages + i
         IN  /\ Pages(file) \in Seq([1..SubPages -> Data]) /\ Len(Pages(file)) = m /\ m \in Nat
             /\ \A p \in 1..m, i \in 1..SubPages :
                  Pages(file)[p][i] = IF At(p, i) <= n THEN All(file)[At(p, i)] ELSE Zeros
  <1> DEFINE blocks == All(file)
             n == Len(blocks)
             c == (n + SubPages - 1) \div SubPages
             m == IF n % SubPages = 0 THEN n \div SubPages ELSE n \div SubPages + 1
             At(p, i) == (p - 1) * SubPages + i
             PageAt(p) == [i \in 1..SubPages |-> IF At(p, i) <= n THEN blocks[At(p, i)] ELSE Zeros]
  <1>1. blocks \in Seq(Data) /\ n \in Nat /\ \A i \in 1..n : blocks[i] \in Data
    BY FileTypes
  <1>2. Pages(file) = [p \in 1..c |-> PageAt(p)]
    BY DEF Pages, All
  <1>3. c = m /\ m \in Nat
    <2> DEFINE q == n \div SubPages  r == n % SubPages
    <2>1. q \in Nat /\ r \in 0..(SubPages - 1) /\ n = SubPages * q + r
      BY <1>1, Remainder, Sizes
    <2> HIDE DEF q, r, n
    <2>2. CASE r = 0
      <3>1. n + SubPages - 1 = SubPages * q + (SubPages - 1) /\ SubPages - 1 \in 0..(SubPages - 1)
            /\ n + SubPages - 1 \in Nat
        BY <2>1, <2>2, <1>1, Sizes
      <3>2. c = q
        BY <3>1, <2>1, UniqueRemainder, Sizes
      <3> QED
        BY <3>2, <2>1, <2>2 DEF q, r
    <2>3. CASE r # 0
      <3>1. n + SubPages - 1 = SubPages * (q + 1) + (r - 1) /\ r - 1 \in 0..(SubPages - 1)
            /\ n + SubPages - 1 \in Nat /\ q + 1 \in Nat
        BY <2>1, <2>3, <1>1, Sizes, Z3
      <3>2. c = q + 1
        BY <3>1, <2>1, UniqueRemainder, Sizes
      <3> QED
        BY <3>1, <3>2, <2>3 DEF q, r
    <2> QED
      BY <2>2, <2>3
  <1> HIDE DEF c, m, n, blocks
  <1>4. \A p \in 1..m : PageAt(p) \in [1..SubPages -> Data]
    <2> SUFFICES ASSUME NEW p \in 1..m, NEW i \in 1..SubPages
                 PROVE  (IF At(p, i) <= n THEN blocks[At(p, i)] ELSE Zeros) \in Data
      OBVIOUS
    <2>1. At(p, i) \in Nat /\ At(p, i) > 0
      <3>1. p - 1 \in Nat /\ (p - 1) * SubPages \in Nat
        BY <1>3, Sizes
      <3> QED
        BY <3>1, Sizes
    <2> QED
      BY <2>1, <1>1, Sizes
  <1>5. Pages(file) = [p \in 1..m |-> PageAt(p)]
    BY <1>2, <1>3
  <1>6. Pages(file) \in Seq([1..SubPages -> Data]) /\ Len(Pages(file)) = m
    <2> HIDE DEF PageAt
    <2> DEFINE D == [1..SubPages -> Data]
    <2>1. \A p \in 1..m : PageAt(p) \in D
      BY <1>4
    <2> HIDE DEF D
    <2>2. [p \in 1..m |-> PageAt(p)] \in Seq(D) /\ Len([p \in 1..m |-> PageAt(p)]) = m
      BY <2>1, <1>3
    <2> QED
      BY <2>2, <1>5 DEF D
  <1>7. \A p \in 1..m, i \in 1..SubPages :
          Pages(file)[p][i] = IF At(p, i) <= n THEN blocks[At(p, i)] ELSE Zeros
    BY <1>5
  <1> QED
    BY <1>3, <1>6, <1>7 DEF m, n, blocks

\* A page buffer that is full is the page of the file that has just been completed.
LEMMA FullPageIs ==
  ASSUME NEW file \in AllFiles, NEW k \in 1..Len(All(file)), k % SubPages = 0,
         NEW page \in [1..SubPages -> Data], FullPage(page, All(file), k)
  PROVE  k \div SubPages \in 1..Len(Pages(file)) /\ page = Pages(file)[k \div SubPages]
  <1> DEFINE n == Len(All(file))  q == n \div SubPages  r == n % SubPages
             m == Len(Pages(file))  p == k \div SubPages
  <1>1. n \in Nat
    BY FileTypes
  <1>2. /\ p \in Nat /\ k = SubPages * p /\ q \in Nat /\ r \in 0..(SubPages - 1)
        /\ n = SubPages * q + r
    BY <1>1, Remainder, Sizes
  <1>3. /\ m = IF r = 0 THEN q ELSE q + 1
        /\ m \in Nat /\ Pages(file) \in Seq([1..SubPages -> Data])
        /\ \A x \in 1..m, i \in 1..SubPages :
             Pages(file)[x][i] = IF (x - 1) * SubPages + i <= n THEN All(file)[(x - 1) * SubPages + i]
                                 ELSE Zeros
    BY PagesOf
  <1> HIDE DEF n, q, r, m, p
  <1>4. p \in 1..q
    <2>1. p > 0 /\ SubPages * p <= SubPages * q + r
      BY <1>2, Sizes DEF n
    <2>2. CASE p > q
      <3>1. PICK x \in Nat : p = q + 1 + x
        BY <2>2, <1>2
      <3>2. SubPages * p = SubPages * q + SubPages + SubPages * x /\ SubPages * x \in Nat
        BY <3>1, <1>2, Sizes, Z3
      <3> QED
        BY <3>2, <2>1, <1>2, Sizes
    <2> QED
      BY <2>1, <2>2, <1>2
  <1>5. p \in 1..m
    BY <1>4, <1>3, <1>2
  <1>6. ASSUME NEW i \in 1..SubPages
        PROVE  page[i] = Pages(file)[p][i]
    <2>1. (p - 1) * SubPages + i = k - SubPages + i
      BY <1>2, Sizes, Z3
    <2>2. k - SubPages + i <= n
      BY <1>1, Sizes DEF n
    <2> QED
      BY <2>1, <2>2, <1>3, <1>5 DEF FullPage
  <1>7. Pages(file)[p] \in [1..SubPages -> Data]
    BY <1>5, <1>3 DEF m
  <1>8. page = Pages(file)[p]
    <2> DEFINE f == Pages(file)[p]
    <2>1. f \in [1..SubPages -> Data] /\ \A i \in 1..SubPages : page[i] = f[i]
      BY <1>6, <1>7
    <2> HIDE DEF f
    <2>2. page = [i \in 1..SubPages |-> page[i]] /\ f = [i \in 1..SubPages |-> f[i]]
      BY <2>1
    <2>3. page = f
      BY <2>1, <2>2, Zenon
    <2> QED
      BY <2>3 DEF f
  <1> QED
    BY <1>5, <1>8 DEF m, p

\* The end of a download completes the last page with zeros.
LEMMA PadAdded ==
  ASSUME NEW d \in DevType, DevInv(d), d.state = "DOWNLOAD_IDLE", NEW file \in AllFiles,
         All(file) # <<>>, Holds(d, All(file), Len(All(file)))
  PROVE  LET e == Dnload(d, 0, 0, Zeros, 0)
             n == Len(All(file))
             q == n \div SubPages
         IN  /\ e \in DevType /\ DevInv(e) /\ Same(d, e) /\ e.connected /\ e.state = "MANIFEST_SYNC"
             /\ ~e.upgradeValid
             /\ n % SubPages = 0 => e.slot = d.slot
             /\ n % SubPages # 0 => /\ q + 1 \in 1..Len(Pages(file))
                                    /\ e.slot = Append(d.slot, Pages(file)[q + 1])
  <1> DEFINE blocks == All(file)  n == Len(blocks)  q == n \div SubPages  r == n % SubPages
             w == PadPage(d)
             e == [w EXCEPT !.state = "MANIFEST_SYNC"]
  <1>1. n \in Nat
    BY FileTypes
  <1>2. /\ q \in Nat /\ r \in 0..(SubPages - 1) /\ n = SubPages * q + r
    BY <1>1, Remainder, Sizes
  <1>3. d.connected /\ ~d.upgradeValid /\ d.dfuMode
    BY DEF DevInv, Downloading
  <1>4. Dnload(d, 0, 0, Zeros, 0) = e
    BY <1>3 DEF Dnload, OpenFlash, DnloadRefused, EndDownload
  <1>5. /\ r = 0 => d.subIndex = SubPages /\ d.subPagesLeft = 0
        /\ r # 0 => d.subIndex = r /\ d.subPagesLeft = SubPages - r
        /\ \A j \in 1..r : d.page[j] = blocks[n - r + j]
    BY DEF Holds
  <1>6. ASSUME w \in DevType, Same(d, w), w.connected = d.connected, w.upgradeValid = d.upgradeValid
        PROVE  /\ e \in DevType /\ Same(d, e) /\ e.connected /\ e.state = "MANIFEST_SYNC" /\ e.slot = w.slot
               /\ ~e.upgradeValid /\ DevInv(e)
    <2> HIDE DEF w
    <2>1. /\ e \in DevType /\ Same(d, e) /\ e.connected /\ e.state = "MANIFEST_SYNC"
          /\ ~e.upgradeValid /\ e.slot = w.slot
      BY <1>3, <1>6 DEF DevType, States, Same
    <2> HIDE DEF e
    <2>2. DevInv(e)
      BY <2>1, <1>3 DEF DevInv, Downloading, Syncing, Same
    <2> QED
      BY <2>1, <2>2
  <1>7. CASE r = 0
    <2>1. w = d
      BY <1>5, <1>7, Sizes DEF PadPage
    <2> HIDE DEF w, e, r, q
    <2>2. e \in DevType /\ Same(d, e) /\ e.connected /\ e.state = "MANIFEST_SYNC" /\ e.slot = w.slot
          /\ ~e.upgradeValid /\ DevInv(e)
      BY <2>1, <1>6 DEF Same
    <2> QED
      BY <2>1, <2>2, <1>4, <1>7 DEF r
  <1>8. CASE r # 0
    <2> DEFINE page == [i \in 1..SubPages |-> IF i \in (r + 1)..SubPages THEN Zeros ELSE d.page[i]]
               slots == Seq([1..SubPages -> Data])
               slot == Append(d.slot, page)
               z == Pages(file)[q + 1]
               v == [d EXCEPT !.page = page, !.subIndex = SubPages, !.slot = slot]
    <2> HIDE DEF r, q
    <2>1. d.subIndex = r /\ d.subPagesLeft = SubPages - r /\ r \in 1..(SubPages - 1)
      BY <1>2, <1>5, <1>8, Sizes
    <2>2. w = v
      <3> DEFINE last == IF d.subIndex + d.subPagesLeft <= SubPages THEN d.subIndex + d.subPagesLeft ELSE SubPages
      <3>1. last = SubPages /\ d.subIndex + 1 = r + 1 /\ r + 1 <= SubPages
        BY <2>1, Sizes
      <3> HIDE DEF last
      <3>2. w = IF last < d.subIndex + 1 THEN d
                ELSE LET pg == [i \in 1..SubPages |-> IF i \in (d.subIndex + 1)..last THEN Zeros ELSE d.page[i]]
                     IN [d EXCEPT !.page = pg, !.subIndex = last,
                         !.slot = IF last = SubPages THEN Append(d.slot, pg) ELSE d.slot]
        BY <1>3 DEF PadPage, last
      <3> HIDE DEF w
      <3> QED
        BY <3>1, <3>2, <2>1, Sizes
    <2>3. page \in [1..SubPages -> Data] /\ d.slot \in slots
      BY Sizes DEF DevType
    <2>4. /\ \A i \in 1..r : page[i] = blocks[n - r + i]
          /\ \A i \in (r + 1)..SubPages : page[i] = Zeros
      <3>1. ASSUME NEW i \in 1..r
            PROVE  page[i] = blocks[n - r + i]
        <4>1. i \in 1..SubPages /\ i \notin (r + 1)..SubPages
          BY <2>1, Sizes
        <4> QED
          BY <4>1, <1>5
      <3>2. ASSUME NEW i \in (r + 1)..SubPages
            PROVE  page[i] = Zeros
        <4>1. i \in 1..SubPages
          BY <2>1, Sizes
        <4> QED
          BY <4>1
      <3> QED
        BY <3>1, <3>2
    <2> HIDE DEF page, w, e
    <2>5. /\ Len(Pages(file)) = q + 1 /\ Pages(file) \in slots
          /\ \A i \in 1..SubPages :
               z[i] = IF ((q + 1) - 1) * SubPages + i <= n THEN blocks[((q + 1) - 1) * SubPages + i] ELSE Zeros
      <3> DEFINE m == Len(Pages(file))
      <3>1. /\ m = (IF r = 0 THEN q ELSE q + 1) /\ Pages(file) \in slots
            /\ \A p \in 1..m, i \in 1..SubPages :
                 Pages(file)[p][i] = IF (p - 1) * SubPages + i <= n THEN blocks[(p - 1) * SubPages + i] ELSE Zeros
        BY PagesOf DEF r, q
      <3> HIDE DEF m
      <3>2. m = q + 1 /\ q + 1 \in 1..m
        BY <3>1, <1>8, <1>2
      <3> QED
        BY <3>1, <3>2 DEF m
    <2> HIDE DEF n, blocks
    <2>6. \A i \in 1..SubPages : page[i] = z[i]
      <3> SUFFICES ASSUME NEW i \in 1..SubPages
                   PROVE  page[i] = z[i]
        OBVIOUS
      <3>1. ((q + 1) - 1) * SubPages + i = n - r + i
        BY <1>2, Sizes, Z3
      <3>2. CASE i \in 1..r
        <4>1. n - r + i <= n
          BY <1>1, <1>2, <3>2
        <4> QED
          BY <4>1, <3>1, <3>2, <2>4, <2>5
      <3>3. CASE i \in (r + 1)..SubPages
        <4>1. ~(n - r + i <= n)
          BY <1>1, <1>2, <3>3
        <4> QED
          BY <4>1, <3>1, <3>3, <2>4, <2>5
      <3> QED
        BY <3>2, <3>3, <2>1
    <2>7. z \in [1..SubPages -> Data] /\ q + 1 \in 1..Len(Pages(file))
      BY <2>5, <1>2
    <2> HIDE DEF z
    <2>8. page = z
      <3>1. page = [i \in 1..SubPages |-> page[i]] /\ z = [i \in 1..SubPages |-> z[i]]
        BY <2>3, <2>7
      <3> QED
        BY <3>1, <2>6, Zenon
    <2>9. v.slot = slot
      BY DEF DevType
    <2> HIDE DEF slot, v
    <2>10. w \in DevType /\ Same(d, w) /\ w.connected = d.connected /\ w.upgradeValid = d.upgradeValid
      BY PadTypes DEF w
    <2>11. e \in DevType /\ Same(d, e) /\ e.connected /\ e.state = "MANIFEST_SYNC" /\ e.slot = w.slot
           /\ ~e.upgradeValid /\ DevInv(e)
      BY <2>10, <1>6
    <2> QED
      BY <2>2, <2>7, <2>8, <2>9, <2>11, <1>4, <1>8 DEF slot, z, q, r, n, blocks
  <1> QED
    BY <1>7, <1>8

\* The tool and the device start in order.
LEMMA InvInit == Init => Inv
  <1> SUFFICES ASSUME Init PROVE Inv
    OBVIOUS
  <1>1. PICK slot \in {<<>>} \union Images : dev = Booted(slot, FALSE)
    BY DEF Init
  <1>2. slot \in Seq([1..SubPages -> Data])
    <2> DEFINE pages == [1..SubPages -> Data]
    <2>1. Images \subseteq Seq(pages) /\ <<>> \in Seq(pages)
      BY ImagesAssumption
    <2> QED
      BY <2>1, <1>1
  <1>3. dev \in DevType /\ DevInv(dev)
    BY <1>1, <1>2, BootedDevice
  <1>4. pc = "off" /\ tool = Idle /\ asked = {} /\ runs = 0 /\ faults = 0
    BY DEF Init
  <1>5. Idle \in ToolType
    <2>1. <<>> \in Seq(Data)
      OBVIOUS
    <2> QED
      BY <2>1 DEF Idle, ToolType, AllFiles, Ids
  <1>6. TypeInv
    BY <1>3, <1>4, <1>5 DEF TypeInv, Pcs
  <1>7. RunInv /\ InStep(dev)
    BY <1>4 DEF RunInv, InStep, Idle
  <1> QED
    BY <1>3, <1>6, <1>7 DEF Inv

\* The user starts the tool.
LEMMA InvStart == Inv /\ Start => Inv'
  <1> SUFFICES ASSUME Inv, Start PROVE Inv'
    OBVIOUS
  <1>1. PICK op \in Ops, file \in Files, ids \in Ids :
          /\ tool' = [Idle EXCEPT !.op = op, !.file = IF op = "download" THEN file ELSE NoFile,
                                  !.ids = ids, !.clean = TRUE]
          /\ asked' = CASE op = "upload"   -> asked
                        [] op = "revert"   -> asked \union {Factory}
                        [] op = "download" -> asked \union {Bootable(Pages(file))}
    BY DEF Start
  <1>2. pc' = "find" /\ runs' = runs + 1 /\ UNCHANGED <<dev, faults>>
    BY DEF Start
  <1>3. Bootable(Pages(file)) \in Images \union {Factory}
    BY DEF Bootable
  <1>4. <<>> \in Seq(Data)
    OBVIOUS
  <1>5. Idle \in ToolType
    BY <1>4 DEF Idle, ToolType, AllFiles, Ids
  <1>6. /\ tool' \in ToolType /\ tool'.op = op /\ tool'.blk = 0 /\ ~tool'.open /\ tool'.got = <<>>
        /\ tool'.file = IF op = "download" THEN file ELSE NoFile
    BY <1>1, <1>4 DEF Idle, ToolType, AllFiles, Ids
  <1>7. asked' \in SUBSET (Images \union {Factory}) /\ (op # "upload" => asked' # {})
        /\ (op = "download" => Bootable(Pages(file)) \in asked')
    BY <1>1, <1>3 DEF Ops, Inv, TypeInv
  <1>8. TypeInv'
    BY <1>2, <1>6, <1>7 DEF Inv, TypeInv, Pcs
  <1>9. RunInv'
    BY <1>2, <1>6, <1>7 DEF RunInv, Ops
  <1>10. InStep(dev)' /\ DevInv(dev)'
    BY <1>2, <1>6 DEF InStep, Inv
  <1> QED
    BY <1>8, <1>9, <1>10 DEF Inv

\* The tool lets go of the device; what it was asked to do stands.
LetGo == /\ tool' \in ToolType /\ ~tool'.open
         /\ tool'.op = tool.op /\ tool'.file = tool.file /\ tool'.blk = tool.blk /\ tool'.got = tool.got
         /\ tool'.told = tool.told /\ tool'.fresh = tool.fresh /\ tool'.found = tool.found

\* What the tool knows when it lets the device go ...
LEMMA ToolLetGo ==
  ASSUME tool \in ToolType,
         \/ tool' = [tool EXCEPT !.open = FALSE]
         \/ tool' = [tool EXCEPT !.open = FALSE, !.clean = FALSE]
  PROVE  LetGo
  BY DEF ToolType, LetGo

\* ... is what it knew of the run,
LEMMA RunKept ==
  ASSUME RunInv, asked' = asked, tool'.op = tool.op, tool'.file = tool.file, tool'.blk = tool.blk,
         tool'.got = tool.got, pc' = pc \/ pc' \in {"off", "leave", "done"}
  PROVE  RunInv'
  BY DEF RunInv

\* ... so that letting go of a device in order leaves everything in order.
LEMMA InvLetGo ==
  ASSUME Inv, LetGo, dev' \in DevType, DevInv(dev)', pc' = pc \/ pc' \in {"off", "leave", "done"},
         asked' = asked, runs' \in Nat, faults' \in Nat
  PROVE  Inv'
  <1>1. TypeInv'
    BY DEF Inv, TypeInv, Pcs, LetGo
  <1>2. RunInv'
    BY RunKept DEF Inv, LetGo
  <1>3. InStep(dev)'
    BY DEF InStep, LetGo
  <1> QED
    BY <1>1, <1>2, <1>3 DEF Inv

\* The tool is killed.
LEMMA InvKill == Inv /\ Kill => Inv'
  <1> SUFFICES ASSUME Inv, Kill PROVE Inv'
    OBVIOUS
  <1>1. LetGo /\ pc' = "off" /\ UNCHANGED dev /\ asked' = asked /\ runs' \in Nat /\ faults' \in Nat
    BY ToolLetGo DEF Inv, TypeInv, Kill, Fault, Quit
  <1> QED
    BY <1>1, InvLetGo DEF Inv, TypeInv

\* The tool finds the device, in the application, in DFU mode, or not.
LEMMA InvFinds == Inv /\ (Find \/ FindAgain) => Inv'
  <1> SUFFICES ASSUME Inv, Find \/ FindAgain PROVE Inv'
    OBVIOUS
  <1>1. UNCHANGED <<dev, asked, runs, faults>> /\ dev \in DevType /\ tool \in ToolType /\ runs \in Nat
        /\ faults \in Nat /\ pc \in {"find", "again"} /\ DevInv(dev)
    BY DEF Find, FindAgain, Inv, TypeInv
  <1>2. CASE Quit
    <2>1. LetGo /\ pc' = "off"
      BY <1>1, <1>2, ToolLetGo DEF Quit
    <2> QED
      BY <2>1, <1>1, InvLetGo
  <1>3. CASE Goto("detach") /\ tool' = [tool EXCEPT !.open = TRUE]
    <2>1. /\ pc' = "detach" /\ tool' \in ToolType
          /\ tool'.op = tool.op /\ tool'.file = tool.file /\ tool'.blk = tool.blk /\ tool'.got = tool.got
      BY <1>1, <1>3 DEF Goto, ToolType
    <2>2. TypeInv'
      BY <1>1, <2>1 DEF Inv, TypeInv, Pcs
    <2>3. RunInv'
      BY <1>1, <2>1 DEF Inv, RunInv
    <2>4. InStep(dev)'
      BY <2>1 DEF InStep
    <2> QED
      BY <2>2, <2>3, <2>4, <1>1 DEF Inv
  <1>4. CASE Opened
    <2>1. /\ tool' \in ToolType /\ tool'.op = tool.op /\ tool'.file = tool.file
          /\ tool'.blk = tool.blk /\ tool'.got = tool.got
      <3> DEFINE idle == dev.dfuMode /\ dev.state = "DFU_IDLE"
                 fresh == dev.dfuMode /\ dev.state = "DFU_IDLE" /\ ~dev.connected
                 seq == Seq([1..SubPages -> Data])
                 found == {Factory} \union seq
      <3>1. tool' = [tool EXCEPT !.open = TRUE, !.found = dev.slot, !.idle = idle, !.fresh = fresh]
        BY <1>4 DEF Opened
      <3>2. idle \in BOOLEAN /\ fresh \in BOOLEAN /\ dev.slot \in found
        BY <1>1 DEF DevType
      <3> HIDE DEF idle, fresh, found
      <3> QED
        BY <3>1, <3>2, <1>1 DEF ToolType, found
    <2>2. pc' = FirstPc
      BY <1>4 DEF Opened, Goto
    <2>3. pc' \in {"block", "upload", "revert"} /\ (pc' = "block" => tool.op = "download")
          /\ (pc' = "revert" => tool.op = "revert") /\ (pc' = "upload" => tool.op = "upload")
      <3>1. RunInv /\ tool.op \in Ops \union {"none"}
        BY <1>1 DEF Inv, ToolType
      <3>2. tool.op # "none"
        BY <1>1, <3>1 DEF RunInv
      <3> QED
        BY <2>2, <3>1, <3>2 DEF FirstPc, Ops
    <2>4. tool'.blk = 0
      BY <1>1, <2>1 DEF Inv, RunInv
    <2>5. tool'.op = "download" => Len(tool'.file.blocks) \in Nat
      <3> SUFFICES ASSUME tool.op = "download" PROVE Len(tool.file.blocks) \in Nat
        BY <2>1
      <3>1. tool.file \in AllFiles
        BY DEF Inv, RunInv, AllFiles
      <3> QED
        BY <3>1, FileTypes
    <2>6. TypeInv'
      BY <1>1, <2>1, <2>3 DEF Inv, TypeInv, Pcs
    <2>7. RunInv'
      BY <1>1, <2>1, <2>3, <2>4, <2>5 DEF Inv, RunInv
    <2>8. InStep(dev)'
      BY <2>3, <2>4 DEF InStep
    <2> QED
      BY <2>6, <2>7, <2>8, <1>1 DEF Inv
  <1> QED
    BY <1>2, <1>3, <1>4 DEF Find, FindAgain

\* The tool detaches the device, out of the application or at the end.
LEMMA InvDetaches == Inv /\ (DetachApp \/ Leave) => Inv'
  <1> SUFFICES ASSUME Inv, DetachApp \/ Leave PROVE Inv'
    OBVIOUS
  <1>1. UNCHANGED <<asked, runs, faults>> /\ dev \in DevType /\ tool \in ToolType /\ runs \in Nat
        /\ faults \in Nat /\ DevInv(dev) /\ pc \in {"detach", "leave"}
    BY DEF DetachApp, Leave, Inv, TypeInv
  <1>2. CASE Quit /\ UNCHANGED dev
    <2>1. LetGo /\ pc' = "off"
      BY <1>1, <1>2, ToolLetGo DEF Quit
    <2> QED
      BY <2>1, <1>1, <1>2, InvLetGo
  <1>3. CASE dev' = Detach(dev) /\ tool' = [tool EXCEPT !.open = FALSE] /\ pc' \in {"again", "done"}
             /\ (pc' = "again" => pc = "detach")
    <2>1. dev' \in DevType /\ DevInv(dev)' /\ LetGo
      BY <1>1, <1>3, DetachedDevice, ToolLetGo
    <2>2. TypeInv'
      BY <1>1, <1>3, <2>1 DEF Inv, TypeInv, Pcs, LetGo
    <2>3. RunInv'
      BY <1>1, <1>3, <2>1 DEF Inv, RunInv, LetGo
    <2>4. InStep(dev)'
      BY <2>1 DEF InStep, LetGo
    <2> QED
      BY <2>1, <2>2, <2>3, <2>4 DEF Inv
  <1> QED
    BY <1>2, <1>3 DEF DetachApp, Leave, Goto

\* The tool exits, the power fails, the bus is reset, or a stray request comes.
LEMMA InvFaults == Inv /\ (Exit \/ PowerCycle \/ BusReset \/ Stray) => Inv'
  <1> SUFFICES ASSUME Inv, Exit \/ PowerCycle \/ BusReset \/ Stray PROVE Inv'
    OBVIOUS
  <1>1. /\ dev \in DevType /\ tool \in ToolType /\ runs \in Nat /\ faults \in Nat /\ pc \in Pcs
        /\ DevInv(dev) /\ dev.slot \in Seq([1..SubPages -> Data]) /\ asked' = asked
        /\ runs' \in Nat /\ faults' \in Nat
    <2>1. /\ dev \in DevType /\ tool \in ToolType /\ runs \in Nat /\ faults \in Nat /\ pc \in Pcs
          /\ DevInv(dev)
      BY DEF Inv, TypeInv
    <2>2. dev.slot \in Seq([1..SubPages -> Data])
      BY <2>1 DEF DevType
    <2>3. asked' = asked /\ runs' = runs /\ (faults' = faults \/ faults' = faults + 1)
      BY DEF Exit, PowerCycle, BusReset, Stray, Fault
    <2> QED
      BY <2>1, <2>2, <2>3
  <1>2. CASE Exit
    <2>1. LetGo /\ pc' = "off" /\ UNCHANGED dev
      BY <1>1, <1>2, ToolLetGo DEF Exit, Quit
    <2> QED
      BY <2>1, <1>1, InvLetGo
  <1>3. CASE PowerCycle
    <2>1. LetGo /\ pc' = pc /\ dev' = Booted(dev.slot, FALSE)
      BY <1>1, <1>3, ToolLetGo DEF PowerCycle
    <2>2. dev' \in DevType /\ DevInv(dev)'
      BY <2>1, <1>1, BootedDevice
    <2> QED
      BY <2>1, <2>2, <1>1, InvLetGo
  <1> DEFINE Loose == /\ tool' \in ToolType /\ pc' = pc
                      /\ tool'.op = tool.op /\ tool'.file = tool.file /\ tool'.blk = tool.blk
                      /\ tool'.got = tool.got
                      /\ (tool'.open => tool.open)
  <1>4. ASSUME Loose, dev' \in DevType, DevInv(dev)', InStep(dev)'
        PROVE  Inv'
    <2>1. TypeInv'
      BY <1>1, <1>4 DEF Inv, TypeInv
    <2>2. RunInv'
      BY <1>1, <1>4, RunKept DEF Inv
    <2> QED
      BY <2>1, <2>2, <1>4 DEF Inv
  <1>5. CASE BusReset
    <2>1. PICK early \in BOOLEAN :
            /\ dev' = BusResetOf(dev, early)
            /\ tool' = [tool EXCEPT !.clean = FALSE,
                                    !.open = @ /\ (StaysInDfu(dev, early) \/ ~dev.dfuMode)]
      BY <1>5 DEF BusReset
    <2> DEFINE open == tool.open /\ (StaysInDfu(dev, early) \/ ~dev.dfuMode)
    <2>2. open \in BOOLEAN /\ tool' = [tool EXCEPT !.clean = FALSE, !.open = open] /\ pc' = pc
          /\ (open => tool.open /\ (StaysInDfu(dev, early) \/ ~dev.dfuMode))
      BY <2>1, <1>5 DEF BusReset
    <2> HIDE DEF open
    <2>3. Loose /\ (tool'.open => StaysInDfu(dev, early) \/ ~dev.dfuMode)
      BY <2>2, <1>1 DEF ToolType
    <2>4. /\ dev' \in DevType /\ DevInv(dev)'
          /\ StaysInDfu(dev, early) => dev' = [dev EXCEPT !.state = "DFU_IDLE", !.dfuMode = TRUE]
          /\ ~StaysInDfu(dev, early) /\ ~dev.dfuMode => ~dev'.dfuMode /\ dev'.state = "APP_IDLE"
      BY <2>1, <1>1, BusResetDevice
    <2>5. InStep(dev)'
      <3> SUFFICES ASSUME tool'.open PROVE InStep(dev)'
        BY DEF InStep
      <3>1. tool.open /\ InStep(dev)
        BY <2>3 DEF Inv
      <3>2. CASE StaysInDfu(dev, early)
        <4>1. /\ dev'.state = "DFU_IDLE" /\ dev'.dfuMode /\ dev'.connected = dev.connected
              /\ dev'.upgradeValid = dev.upgradeValid
              /\ dev'.subPagesLeft = dev.subPagesLeft /\ dev'.subIndex = dev.subIndex
              /\ dev'.page = dev.page /\ dev'.writeInProgress = dev.writeInProgress
          BY <2>4, <3>2, <1>1 DEF DevType
        <4>2. \A x, n : Holds(dev, x, n) => Holds(dev', x, n)
          BY <4>1 DEF Holds
        <4> QED
          BY <4>1, <4>2, <3>1, <2>3 DEF InStep, Syncing
      <3>3. CASE ~StaysInDfu(dev, early) /\ ~dev.dfuMode
        <4>1. ~dev'.dfuMode /\ dev'.state = "APP_IDLE"
          BY <2>4, <3>3
        <4> QED
          BY <4>1, <3>1, <3>3, <2>3 DEF InStep, Syncing
      <3> QED
        BY <3>2, <3>3, <2>3
    <2> QED
      BY <2>3, <2>4, <2>5, <1>4
  <1>6. CASE dev' \in {Answered(GetState(dev)), Answered(ClrStatus(dev)), Answered(Abort(dev))}
             /\ tool' = [tool EXCEPT !.clean = FALSE] /\ UNCHANGED pc
    <2>1. PICK e \in {GetState(dev), ClrStatus(dev), Abort(dev)} : dev' = Answered(e)
      BY <1>6
    <2>2. /\ e \in DevType /\ DevInv(e) /\ e = [dev EXCEPT !.state = e.state]
          /\ e.state \in {dev.state, "ERROR", "DFU_IDLE"}
          /\ dev.state = "DOWNLOAD_IDLE" \/ e.state # "DOWNLOAD_IDLE"
      BY <1>1, Strayed
    <2>3. /\ dev' \in DevType /\ DevInv(dev)' /\ dev'.dfuMode = e.dfuMode /\ dev'.state = e.state
          /\ dev'.connected = e.connected /\ dev'.upgradeValid = e.upgradeValid
          /\ dev'.subPagesLeft = e.subPagesLeft /\ dev'.subIndex = e.subIndex /\ dev'.page = e.page
          /\ dev'.writeInProgress = e.writeInProgress /\ dev'.savedBlock = e.savedBlock
      BY <2>1, <2>2, AnsweredDevice
    <2>4. /\ e.dfuMode = dev.dfuMode
          /\ e.connected = dev.connected /\ e.upgradeValid = dev.upgradeValid
          /\ e.subPagesLeft = dev.subPagesLeft /\ e.subIndex = dev.subIndex /\ e.page = dev.page
          /\ e.writeInProgress = dev.writeInProgress /\ e.savedBlock = dev.savedBlock
      BY <2>2, <1>1 DEF DevType
    <2>5. Loose /\ (tool'.open => tool.open)
      BY <1>6, <1>1 DEF ToolType
    <2>6. \A x, n : /\ Holds(dev, x, n) => Holds(dev', x, n)
                    /\ Waits(dev, x, n) => Waits(dev', x, n)
      BY <2>3, <2>4 DEF Holds, Waits
    <2>7. InStep(dev)'
      <3> SUFFICES ASSUME tool'.open PROVE InStep(dev)'
        BY DEF InStep
      <3>1. InStep(dev) /\ tool.open
        BY <2>5 DEF Inv
      <3>2. /\ dev'.state \in {dev.state, "ERROR", "DFU_IDLE"}
            /\ Syncing(dev') => Syncing(dev)
            /\ dev'.state = "DOWNLOAD_IDLE" => dev.state = "DOWNLOAD_IDLE"
        BY <2>2, <2>3 DEF Syncing
      <3> QED
        BY <3>1, <3>2, <2>3, <2>4, <2>5, <2>6 DEF InStep
    <2> QED
      BY <2>3, <2>5, <2>7, <1>4
  <1>7. CASE dev' \in {ResetDevice(dev, TRUE), ResetDevice(dev, FALSE)} /\ UNCHANGED pc
             /\ tool' = [tool EXCEPT !.open = FALSE, !.clean = FALSE]
    <2>1. dev' \in DevType /\ DevInv(dev)'
      BY <1>7, <1>1, BootedDevice DEF ResetDevice
    <2>2. LetGo
      BY <1>7, <1>1, ToolLetGo
    <2> QED
      BY <2>1, <2>2, <1>1, <1>7, InvLetGo
  <1> QED
    BY <1>2, <1>3, <1>5, <1>6, <1>7 DEF Stray

\* What the tool's transfers have in common.
LEMMA InStage ==
  ASSUME Inv
  PROVE  /\ dev \in DevType /\ tool \in ToolType /\ runs \in Nat /\ faults \in Nat /\ pc \in Pcs
         /\ DevInv(dev) /\ tool.file \in AllFiles /\ tool.blk \in Nat
         /\ EraseBegun \subseteq 0..MaxErase /\ EraseSteps \subseteq 0..MaxErase
         /\ tool.open /\ ~Served => ~Downloading(dev)
         /\ Served => tool.open /\ dev.dfuMode
  <1>1. /\ dev \in DevType /\ tool \in ToolType /\ runs \in Nat /\ faults \in Nat /\ pc \in Pcs
        /\ DevInv(dev)
    BY DEF Inv, TypeInv
  <1>2. tool.file \in AllFiles /\ tool.blk \in Nat /\ dev.eraseLeft \in 0..MaxErase
    BY <1>1 DEF ToolType, DevType
  <1>3. EraseBegun \subseteq 0..MaxErase /\ EraseSteps \subseteq 0..MaxErase
    BY <1>2, Sizes DEF EraseBegun, EraseSteps
  <1>4. tool.open /\ ~Served => ~Downloading(dev)
    BY <1>1 DEF Served, DevInv
  <1> QED
    BY <1>1, <1>2, <1>3, <1>4 DEF Served

\* A transfer leaves the types as they are when it leaves those of the device and the tool.
LEMMA TypesKept ==
  ASSUME Inv, dev' \in DevType, tool' \in ToolType, pc' \in Pcs, UNCHANGED <<asked, runs, faults>>
  PROVE  TypeInv'
  BY DEF Inv, TypeInv

\* A block sent to a device that is in step is taken or refused.
LEMMA BlockSent ==
  ASSUME Inv, NEW num \in Nat, NEW block \in Data, block = All(tool.file)[num + 1],
         num > 0 => pc = "block" /\ tool.blk = num, SendBlock(1, num, block)
  PROVE  /\ dev' \in DevType /\ DevInv(dev)'
         /\ ~Served => dev' = dev
         /\ Served /\ ~Sent(1) => dev'.state = "ERROR" /\ dev'.slot = dev.slot
         /\ Sent(1) => Taken(dev, dev', All(tool.file), num)
  <1>1. /\ dev \in DevType /\ DevInv(dev) /\ EraseBegun \subseteq 0..MaxErase
        /\ Served => tool.open /\ dev.dfuMode
    BY InStage
  <1>2. CASE ~Served
    BY <1>1, <1>2 DEF SendBlock, Sent
  <1>3. CASE Served
    <2>1. PICK left \in 0..MaxErase : dev' = Answered(Dnload(dev, 1, num, block, left))
      BY <1>1, <1>3 DEF SendBlock
    <2> DEFINE e == Dnload(dev, 1, num, block, left)
    <2>2. CASE DnloadRefused(OpenFlash(dev), 1)
      <3>1. e \in DevType /\ DevInv(e) /\ e.slot = dev.slot /\ e.state = "ERROR"
        BY <1>1, <2>2, RefusedDevice
      <3> HIDE DEF e
      <3>2. dev' \in DevType /\ DevInv(dev)' /\ dev'.slot = e.slot /\ dev'.state = e.state
        BY <2>1, <3>1, AnsweredDevice DEF e
      <3> QED
        BY <3>1, <3>2, <1>3, <2>2 DEF Sent
    <2>3. CASE ~DnloadRefused(OpenFlash(dev), 1)
      <3>1. num % SubPages # 0 => dev.connected /\ ~dev.upgradeValid /\ Holds(dev, All(tool.file), num)
        <4> SUFFICES ASSUME num % SubPages # 0
                     PROVE  dev.connected /\ ~dev.upgradeValid /\ Holds(dev, All(tool.file), num)
          OBVIOUS
        <4>1. num # 0
          <5>1. 0 % SubPages = 0
            BY Sizes, UniqueRemainder
          <5> QED
            BY <5>1
        <4>2. pc = "block" /\ tool.blk = num /\ tool.open /\ tool.blk > 0
          BY <4>1, <1>1, <1>3
        <4> QED
          BY <4>2 DEF Inv, InStep
      <3>2. All(tool.file)[num + 1] \in Data
        OBVIOUS
      <3> DEFINE f == Dnload(dev, 1, num, All(tool.file)[num + 1], left)
      <3>3. Taken(dev, f, All(tool.file), num)
        BY <1>1, <1>3, <2>3, <3>1, <3>2, BlockTaken
      <3>4. dev' = Answered(f)
        BY <2>1
      <3> HIDE DEF f
      <3>5. Taken(dev, dev', All(tool.file), num)
        BY <3>3, <3>4, AnsweredTaken
      <3>6. dev' \in DevType /\ DevInv(dev)'
        BY <3>5 DEF Taken
      <3> QED
        BY <3>5, <3>6, <1>3, <2>3 DEF Sent
    <2> QED
      BY <2>2, <2>3
  <1> QED
    BY <1>2, <1>3

\* A block the tool sends and the device takes is the next of the file.
LEMMA BlockStep ==
  ASSUME Inv, Block
  PROVE  /\ tool.blk + 1 \in 1..Len(tool.file.blocks)
         /\ dev' \in DevType /\ DevInv(dev)'
         /\ ~Served => dev' = dev
         /\ Served /\ ~Sent(1) => dev'.state = "ERROR" /\ dev'.slot = dev.slot
         /\ Sent(1) => Taken(dev, dev', All(tool.file), tool.blk)
  <1> DEFINE num == tool.blk  block == tool.file.blocks[num + 1]
  <1>1. /\ tool.file \in AllFiles /\ num \in Nat
    BY InStage
  <1>2. pc = "block" /\ num < Len(tool.file.blocks) /\ SendBlock(1, num, block)
    BY DEF Block
  <1>3. num + 1 \in 1..Len(tool.file.blocks)
    BY <1>1, <1>2, FileTypes
  <1>4. block \in Data /\ block = All(tool.file)[num + 1]
    BY <1>1, <1>3, FileTypes
  <1> HIDE DEF num, block
  <1>5. num > 0 => pc = "block" /\ tool.blk = num
    BY <1>2 DEF num
  <1>6. /\ dev' \in DevType /\ DevInv(dev)'
        /\ ~Served => dev' = dev
        /\ Served /\ ~Sent(1) => dev'.state = "ERROR" /\ dev'.slot = dev.slot
        /\ Sent(1) => Taken(dev, dev', All(tool.file), num)
    BY <1>1, <1>2, <1>4, <1>5, BlockSent
  <1> QED
    BY <1>3, <1>6 DEF num

\* The tool sends a block.
LEMMA InvBlock == Inv /\ Block => Inv'
  <1> SUFFICES ASSUME Inv, Block PROVE Inv'
    OBVIOUS
  <1>1. /\ tool \in ToolType /\ tool.file \in AllFiles /\ tool.blk \in Nat
    BY InStage
  <1>2. /\ pc = "block" /\ tool.blk < Len(tool.file.blocks)
        /\ pc' = (IF Sent(1) THEN "poll" ELSE "leave") /\ UNCHANGED <<tool, asked, runs, faults>>
    BY DEF Block, Goto
  <1>3. /\ dev' \in DevType /\ DevInv(dev)'
        /\ Sent(1) => Taken(dev, dev', All(tool.file), tool.blk)
    BY BlockStep
  <1>4. TypeInv'
    BY <1>1, <1>2, <1>3, TypesKept DEF Pcs
  <1>5. RunInv'
    BY <1>2 DEF Inv, RunInv
  <1>6. InStep(dev)'
    <2>1. Sent(1) => tool.open /\ dev.dfuMode
      BY InStage DEF Sent
    <2> QED
      BY <2>1, <1>2, <1>3 DEF InStep, Taken
  <1> QED
    BY <1>3, <1>4, <1>5, <1>6 DEF Inv

\* A status request to a device that has taken m + 1 blocks.
LEMMA StatusPolled ==
  ASSUME Inv, PollStatus, NEW blocks, NEW m \in Nat, blocks[m + 1] \in Data,
         Served /\ Syncing(dev) => Holds(dev, blocks, m + 1) \/ Waits(dev, blocks, m + 1)
  PROVE  /\ dev' \in DevType /\ DevInv(dev)'
         /\ ~Served => dev' = dev
         /\ Served => Polled(dev, dev', blocks, m + 1)
  <1>1. /\ dev \in DevType /\ DevInv(dev) /\ EraseSteps \subseteq 0..MaxErase
        /\ Served => tool.open /\ dev.dfuMode
    BY InStage
  <1>2. CASE ~Served
    BY <1>1, <1>2 DEF PollStatus
  <1>3. CASE Served
    <2>1. PICK left \in 0..MaxErase : dev' = Answered(GetStatus(dev, left))
      BY <1>1, <1>3 DEF PollStatus
    <2> DEFINE e == GetStatus(dev, left)
    <2>2. Polled(dev, e, blocks, m + 1)
      BY <1>1, <1>3, StatusAsked
    <2>3. dev' = Answered(e)
      BY <2>1
    <2> HIDE DEF e
    <2>4. Polled(dev, dev', blocks, m + 1)
      BY <2>2, <2>3, AnsweredPolled
    <2> QED
      BY <2>4, <1>3 DEF Polled
  <1> QED
    BY <1>2, <1>3

\* The tool's status request after a block finds the device in step with it.
LEMMA PollStep ==
  ASSUME Inv, Poll
  PROVE  /\ tool.blk + 1 \in 1..Len(tool.file.blocks) /\ Len(tool.file.blocks) \in Nat
         /\ dev' \in DevType /\ DevInv(dev)'
         /\ ~Served => dev' = dev
         /\ Served => Polled(dev, dev', All(tool.file), tool.blk + 1)
  <1> DEFINE m == tool.blk  blocks == All(tool.file)
  <1>1. tool.file \in AllFiles /\ m \in Nat /\ (Served => tool.open)
    BY InStage
  <1>2. pc = "poll" /\ PollStatus /\ m < Len(tool.file.blocks)
    BY DEF Poll, Inv, RunInv
  <1>3. m + 1 \in 1..Len(tool.file.blocks) /\ Len(tool.file.blocks) \in Nat
    BY <1>1, <1>2, FileTypes
  <1>4. blocks[m + 1] \in Data
    BY <1>1, <1>3, FileTypes
  <1>5. Served /\ Syncing(dev) => Holds(dev, blocks, m + 1) \/ Waits(dev, blocks, m + 1)
    BY <1>1, <1>2 DEF Inv, InStep
  <1> HIDE DEF m, blocks
  <1>6. /\ dev' \in DevType /\ DevInv(dev)'
        /\ ~Served => dev' = dev
        /\ Served => Polled(dev, dev', blocks, m + 1)
    BY <1>1, <1>2, <1>4, <1>5, StatusPolled
  <1> QED
    BY <1>3, <1>6 DEF m, blocks

\* The tool polls until the device is ready for the next block.
LEMMA InvPoll == Inv /\ Poll => Inv'
  <1> SUFFICES ASSUME Inv, Poll PROVE Inv'
    OBVIOUS
  <1> DEFINE m == tool.blk  blocks == All(tool.file)
  <1>1. tool \in ToolType /\ m \in Nat
    BY InStage
  <1>2. pc = "poll" /\ UNCHANGED <<asked, runs, faults>>
    BY DEF Poll
  <1>3. PICK s \in States :
          /\ StateSeen(s)
          /\ pc' = CASE s = "ERROR" -> "leave" [] s = "DOWNLOAD_IDLE" -> "block" [] OTHER -> "poll"
          /\ tool' = IF s = "DOWNLOAD_IDLE" THEN [tool EXCEPT !.blk = @ + 1] ELSE tool
    BY DEF Poll, Goto
  <1>4. tool.open => dev.dfuMode /\ dev.connected /\ ~dev.upgradeValid /\ dev.state # "DOWNLOAD_IDLE"
    BY <1>2 DEF Inv, InStep
  <1>5. /\ tool' \in ToolType /\ tool'.op = tool.op /\ tool'.file = tool.file /\ tool'.open = tool.open
        /\ tool'.blk = IF s = "DOWNLOAD_IDLE" THEN m + 1 ELSE m
    BY <1>1, <1>3 DEF ToolType
  <1> HIDE DEF m, blocks
  <1>6. /\ m + 1 \in 1..Len(tool.file.blocks) /\ Len(tool.file.blocks) \in Nat
        /\ dev' \in DevType /\ DevInv(dev)'
        /\ Served => Polled(dev, dev', blocks, m + 1)
    BY PollStep DEF m, blocks
  <1>7. Served => /\ dev.dfuMode => dev'.dfuMode
                  /\ dev'.connected = dev.connected /\ dev'.upgradeValid = dev.upgradeValid
                  /\ ~Syncing(dev) => dev'.state = (IF dev.state = "MANIFEST_SYNC" THEN "DFU_IDLE" ELSE dev.state)
                  /\ Syncing(dev) =>
                       \/ dev'.state = "DOWNLOAD_IDLE" /\ Holds(dev', blocks, m + 1)
                       \/ dev'.state = "DOWNLOAD_BUSY" /\ Waits(dev', blocks, m + 1)
    BY <1>6 DEF Polled
  <1>8. pc' \in {"leave", "block", "poll"} /\ (pc' = "block" <=> s = "DOWNLOAD_IDLE")
    BY <1>3
  <1>9. TypeInv'
    BY <1>2, <1>5, <1>6, <1>8, TypesKept DEF Pcs
  <1>10. RunInv'
    BY <1>2, <1>5, <1>6, <1>8 DEF Inv, RunInv, m
  <1>11. InStep(dev)'
    <2> SUFFICES ASSUME tool'.open PROVE InStep(dev)'
      BY DEF InStep
    <2>1. Served
      BY <1>4, <1>5 DEF Served
    <2>2. s = dev'.state
      BY <1>3, <2>1 DEF StateSeen
    <2>3. CASE pc' = "leave"
      BY <2>3 DEF InStep
    <2>4. CASE pc' = "block"
      <3>1. dev'.state = "DOWNLOAD_IDLE" /\ tool'.blk = m + 1
        BY <2>2, <2>4, <1>5, <1>8
      <3>2. Syncing(dev)
        BY <3>1, <2>1, <1>4, <1>5, <1>7
      <3>3. dev'.dfuMode /\ dev'.connected /\ ~dev'.upgradeValid /\ Holds(dev', blocks, m + 1)
        BY <3>1, <3>2, <2>1, <1>4, <1>5, <1>7
      <3> QED
        BY <3>1, <3>3, <2>4, <1>5 DEF InStep, blocks
    <2>5. CASE pc' = "poll"
      <3>1. dev'.state # "DOWNLOAD_IDLE" /\ tool'.blk = m
        BY <2>2, <2>5, <1>5, <1>8
      <3>2. dev'.dfuMode /\ dev'.connected /\ ~dev'.upgradeValid
        BY <2>1, <1>4, <1>5, <1>7
      <3>3. Syncing(dev') => Waits(dev', blocks, m + 1)
        BY <3>1, <2>1, <1>7 DEF Syncing
      <3> QED
        BY <3>1, <3>2, <3>3, <2>5, <1>5 DEF InStep, blocks
    <2> QED
      BY <2>3, <2>4, <2>5, <1>8
  <1> QED
    BY <1>6, <1>9, <1>10, <1>11 DEF Inv

\* The short block at the end of a file is sent like the others.
LEMMA RestStep ==
  ASSUME Inv, Rest
  PROVE  /\ dev' \in DevType /\ DevInv(dev)'
         /\ tool.blk \in Nat /\ tool.blk = Len(tool.file.blocks)
         /\ tool.file.rem = <<>> => /\ dev' = dev /\ pc' = "end"
                                    /\ Len(All(tool.file)) = tool.blk
         /\ tool.file.rem # <<>> => /\ pc' = "restPoll"
                                    /\ Len(All(tool.file)) = tool.blk + 1
         /\ ~Served => dev' = dev
         /\ tool.file.rem # <<>> /\ Served /\ ~Sent(1) => dev'.state = "ERROR" /\ dev'.slot = dev.slot
         /\ tool.file.rem # <<>> /\ Sent(1) => Taken(dev, dev', All(tool.file), tool.blk)
  <1> DEFINE num == tool.blk  block == tool.file.rem[1]  blocks == All(tool.file)
  <1>1. dev \in DevType /\ DevInv(dev) /\ tool.file \in AllFiles /\ num \in Nat
    BY InStage
  <1>2. /\ pc = "block" /\ num = Len(tool.file.blocks)
        /\ tool.file.rem = <<>> => dev' = dev /\ pc' = "end"
        /\ tool.file.rem # <<>> => SendBlock(1, num, block) /\ pc' = "restPoll"
    BY DEF Rest, Goto
  <1>3. CASE tool.file.rem = <<>>
    BY <1>1, <1>2, <1>3, FileTypes
  <1>4. CASE tool.file.rem # <<>>
    <2>1. block \in Data /\ block = blocks[num + 1] /\ Len(blocks) = num + 1
      BY <1>1, <1>2, <1>4, FileTypes
    <2>2. num > 0 => pc = "block" /\ tool.blk = num
      BY <1>2
    <2> HIDE DEF num, block
    <2>3. /\ dev' \in DevType /\ DevInv(dev)'
          /\ ~Served => dev' = dev
          /\ Served /\ ~Sent(1) => dev'.state = "ERROR" /\ dev'.slot = dev.slot
          /\ Sent(1) => Taken(dev, dev', blocks, num)
      BY <1>1, <1>2, <1>4, <2>1, <2>2, BlockSent
    <2> QED
      BY <2>1, <2>3, <1>1, <1>2, <1>4 DEF num
  <1> QED
    BY <1>3, <1>4

\* The tool sends the rest of the file.
LEMMA InvRest == Inv /\ Rest => Inv'
  <1> SUFFICES ASSUME Inv, Rest PROVE Inv'
    OBVIOUS
  <1> DEFINE num == tool.blk  blocks == All(tool.file)
  <1>1. /\ tool \in ToolType /\ tool.file \in AllFiles /\ blocks \in Seq(Data)
        /\ tool.open /\ ~Served => ~Downloading(dev)
    BY InStage, FileTypes
  <1>2. pc = "block" /\ UNCHANGED <<tool, asked, runs, faults>> /\ pc' \in {"end", "restPoll"}
    BY DEF Rest, Goto
  <1>3. /\ dev' \in DevType /\ DevInv(dev)' /\ num \in Nat
        /\ tool.file.rem = <<>> => dev' = dev /\ pc' = "end" /\ Len(blocks) = num
        /\ tool.file.rem # <<>> => pc' = "restPoll" /\ Len(blocks) = num + 1
        /\ ~Served => dev' = dev
        /\ tool.file.rem # <<>> /\ Served /\ ~Sent(1) => dev'.state = "ERROR"
        /\ tool.file.rem # <<>> /\ Sent(1) => Taken(dev, dev', blocks, num)
    BY RestStep
  <1>4. RunInv'
    BY <1>2, <1>3 DEF Inv, RunInv
  <1>5. TypeInv'
    BY <1>1, <1>2, <1>3, TypesKept DEF Pcs
  <1>6. InStep(dev)'
    <2> SUFFICES ASSUME tool'.open PROVE InStep(dev)'
      BY DEF InStep
    <2>1. CASE tool.file.rem = <<>>
      <3>1. blocks # <<>> => num > 0
        <4> HIDE DEF blocks, num
        <4> QED
          BY <1>1, <1>3, <2>1
      <3> QED
        BY <3>1, <2>1, <1>2, <1>3 DEF Inv, InStep
    <2>2. CASE tool.file.rem # <<>>
      <3> HIDE DEF num, blocks
      <3>1. dev'.state # "DOWNLOAD_IDLE"
        BY <2>2, <1>1, <1>2, <1>3 DEF Downloading, Taken, Sent
      <3>2. Syncing(dev') => Holds(dev', blocks, num + 1) \/ Waits(dev', blocks, num + 1)
        BY <2>2, <1>1, <1>2, <1>3 DEF Downloading, Syncing, Taken, Sent
      <3> QED
        BY <3>1, <3>2, <2>2, <1>2, <1>3 DEF InStep, blocks
    <2> QED
      BY <2>1, <2>2
  <1> QED
    BY <1>3, <1>4, <1>5, <1>6 DEF Inv

\* The one status request after it finds the device in step.
LEMMA RestPollStep ==
  ASSUME Inv, RestPoll
  PROVE  /\ dev' \in DevType /\ DevInv(dev)' /\ All(tool.file) # <<>>
         /\ ~Served => dev' = dev
         /\ Served => Polled(dev, dev', All(tool.file), Len(All(tool.file)))
  <1> DEFINE blocks == All(tool.file)  m == Len(blocks) - 1
  <1>1. tool.file \in AllFiles /\ (Served => tool.open)
    BY InStage
  <1>2. pc = "restPoll" /\ PollStatus
    BY DEF RestPoll
  <1>3. m \in Nat /\ m + 1 = Len(blocks) /\ blocks[m + 1] \in Data /\ blocks # <<>>
    <2>1. tool.file.rem # <<>>
      BY <1>2 DEF Inv, RunInv
    <2>2. blocks \in Seq(Data) /\ Len(blocks) = Len(tool.file.blocks) + 1 /\ Len(tool.file.blocks) \in Nat
      BY <2>1, <1>1, FileTypes
    <2> HIDE DEF blocks
    <2> QED
      BY <2>2
  <1>4. Served /\ Syncing(dev) => Holds(dev, blocks, m + 1) \/ Waits(dev, blocks, m + 1)
    BY <1>1, <1>2, <1>3 DEF Inv, InStep
  <1> HIDE DEF blocks, m
  <1>5. /\ dev' \in DevType /\ DevInv(dev)'
        /\ ~Served => dev' = dev
        /\ Served => Polled(dev, dev', blocks, m + 1)
    BY <1>2, <1>3, <1>4, StatusPolled
  <1> QED
    BY <1>3, <1>5 DEF blocks

\* The tool asks once after the rest.
LEMMA InvRestPoll == Inv /\ RestPoll => Inv'
  <1> SUFFICES ASSUME Inv, RestPoll PROVE Inv'
    OBVIOUS
  <1> DEFINE blocks == All(tool.file)  n == Len(blocks)
  <1>1. /\ tool \in ToolType
        /\ tool.open /\ ~Served => ~Downloading(dev)
        /\ Served => tool.open
    BY InStage
  <1>2. pc = "restPoll" /\ pc' = "end" /\ UNCHANGED <<tool, asked, runs, faults>>
    BY DEF RestPoll, Goto
  <1>3. /\ dev' \in DevType /\ DevInv(dev)'
        /\ ~Served => dev' = dev
        /\ Served => Polled(dev, dev', blocks, n)
    BY RestPollStep
  <1>4. tool.open => dev.state # "DOWNLOAD_IDLE"
    BY <1>2 DEF Inv, InStep
  <1>5. TypeInv'
    BY <1>1, <1>2, <1>3, TypesKept DEF Pcs
  <1>6. RunInv'
    BY <1>2 DEF Inv, RunInv
  <1> HIDE DEF blocks, n
  <1>7. InStep(dev)'
    <2> SUFFICES ASSUME tool'.open, dev'.state = "DOWNLOAD_IDLE" PROVE Holds(dev', blocks, n)
      BY <1>2 DEF InStep, blocks, n
    <2> QED
      BY <1>1, <1>2, <1>3, <1>4 DEF Downloading, Polled
  <1> QED
    BY <1>3, <1>5, <1>6, <1>7 DEF Inv

\* The tool ends the download.
LEMMA InvEnd == Inv /\ End => Inv'
  <1> SUFFICES ASSUME Inv, End PROVE Inv'
    OBVIOUS
  <1>1. /\ dev \in DevType /\ DevInv(dev) /\ tool \in ToolType /\ tool.file \in AllFiles
        /\ tool.open /\ ~Served => ~Downloading(dev)
        /\ Served => tool.open /\ dev.dfuMode
    BY InStage
  <1>2. pc = "end" /\ SendBlock(0, 0, Zeros) /\ pc' = "endPoll" /\ UNCHANGED <<tool, asked, runs, faults>>
    BY DEF End, Goto
  <1>3. /\ dev' \in DevType /\ DevInv(dev)' /\ (tool.open => ~Syncing(dev'))
    <2>1. CASE ~Served
      BY <2>1, <1>1, <1>2 DEF SendBlock, Downloading
    <2>2. CASE Served
      <3>1. PICK left : dev' = Answered(Dnload(dev, 0, 0, Zeros, left))
        BY <1>2, <2>2 DEF SendBlock
      <3> DEFINE e == Dnload(dev, 0, 0, Zeros, left)
      <3>2. CASE DnloadRefused(OpenFlash(dev), 0)
        <4>1. e \in DevType /\ DevInv(e) /\ e.state = "ERROR"
          BY <1>1, <3>2, RefusedDevice
        <4> HIDE DEF e
        <4>2. dev' \in DevType /\ DevInv(dev)' /\ dev'.state = e.state
          BY <3>1, <4>1, AnsweredDevice DEF e
        <4> QED
          BY <4>1, <4>2 DEF Syncing
      <3>3. CASE ~DnloadRefused(OpenFlash(dev), 0)
        <4>1. dev.state = "DOWNLOAD_IDLE"
          BY <1>1, <3>3, OpenedFlash DEF DnloadRefused
        <4> DEFINE w == PadPage(dev)  f == [w EXCEPT !.state = "MANIFEST_SYNC"]
        <4>2. dev.connected /\ ~dev.upgradeValid /\ dev.dfuMode
          BY <4>1, <1>1 DEF DevInv, Downloading
        <4>3. /\ w \in DevType /\ w.dfuMode = dev.dfuMode /\ w.upgradeValid = dev.upgradeValid
          BY <1>1, PadTypes DEF Same
        <4>4. f \in DevType /\ DevInv(f) /\ f.state = "MANIFEST_SYNC"
          <5> HIDE DEF w
          <5>1. f \in DevType /\ f.state = "MANIFEST_SYNC" /\ f.dfuMode /\ ~f.upgradeValid
            BY <4>2, <4>3 DEF DevType, States
          <5> HIDE DEF f
          <5> QED
            BY <5>1 DEF DevInv, Downloading, Syncing
        <4>5. e = f
          BY <4>2, <3>3 DEF Dnload, OpenFlash, EndDownload
        <4> HIDE DEF e, f
        <4>6. dev' \in DevType /\ DevInv(dev)' /\ dev'.state = f.state
          BY <3>1, <4>4, <4>5, AnsweredDevice DEF e
        <4> QED
          BY <4>4, <4>6 DEF Syncing
      <3> QED
        BY <3>2, <3>3
    <2> QED
      BY <2>1, <2>2
  <1>4. TypeInv'
    BY <1>1, <1>2, <1>3, TypesKept DEF Pcs
  <1>5. RunInv' /\ InStep(dev)'
    BY <1>2, <1>3 DEF Inv, RunInv, InStep
  <1> QED
    BY <1>3, <1>4, <1>5 DEF Inv

\* The status request after the end writes nothing.
LEMMA EndPollStep ==
  ASSUME Inv, EndPoll
  PROVE  /\ dev' \in DevType /\ DevInv(dev)' /\ (Served => ~Syncing(dev))
         /\ ~Served => dev' = dev
         /\ Served => Polled(dev, dev', <<Zeros>>, 0 + 1)
  <1>1. Served => tool.open
    BY InStage
  <1>2. pc = "endPoll" /\ PollStatus
    BY DEF EndPoll
  <1>3. Served => ~Syncing(dev)
    BY <1>1, <1>2 DEF Inv, InStep
  <1> DEFINE blocks == <<Zeros>>
  <1>4. blocks[0 + 1] \in Data /\ 0 \in Nat
    BY Sizes
  <1> HIDE DEF blocks
  <1>5. /\ dev' \in DevType /\ DevInv(dev)'
        /\ ~Served => dev' = dev
        /\ Served => Polled(dev, dev', blocks, 0 + 1)
    BY <1>2, <1>3, <1>4, StatusPolled
  <1> QED
    BY <1>3, <1>5 DEF blocks

\* The tool asks once after the end.
LEMMA InvEndPoll == Inv /\ EndPoll => Inv'
  <1> SUFFICES ASSUME Inv, EndPoll PROVE Inv'
    OBVIOUS
  <1>1. /\ pc' = "leave" /\ UNCHANGED <<asked, runs, faults>> /\ tool' = [tool EXCEPT !.told = TRUE]
        /\ tool \in ToolType
    BY InStage DEF EndPoll, Goto
  <1>2. dev' \in DevType /\ DevInv(dev)'
    BY EndPollStep
  <1>3. tool' \in ToolType /\ tool'.op = tool.op /\ tool'.file = tool.file /\ tool'.blk = tool.blk
        /\ tool'.got = tool.got
    BY <1>1 DEF ToolType
  <1>4. TypeInv'
    BY <1>1, <1>2, <1>3, TypesKept DEF Pcs
  <1>5. RunInv' /\ InStep(dev)'
    BY <1>1, <1>3, RunKept DEF Inv, InStep
  <1> QED
    BY <1>2, <1>4, <1>5 DEF Inv

\* The tool reads a block, or reverts the device to the factory image.
LEMMA InvReads == Inv /\ (ReadBlock \/ Revert) => Inv'
  <1> SUFFICES ASSUME Inv, ReadBlock \/ Revert PROVE Inv'
    OBVIOUS
  <1>1. /\ dev \in DevType /\ DevInv(dev) /\ tool \in ToolType /\ runs \in Nat /\ faults \in Nat
        /\ pc \in Pcs /\ (Served => dev.dfuMode)
    BY InStage
  <1>2. UNCHANGED <<asked, runs, faults>> /\ pc \in {"upload", "revert"}
    BY DEF ReadBlock, Revert
  <1>3. ASSUME dev' \in DevType, DevInv(dev)', tool' \in ToolType, tool'.op = tool.op,
               tool'.file = tool.file, tool'.blk = tool.blk,
               pc' \in {"upload", "leave"}, pc' = "upload" => pc = "upload"
        PROVE  Inv'
    <2>1. TypeInv'
      BY <1>2, <1>3, TypesKept DEF Pcs
    <2>2. RunInv'
      BY <1>2, <1>3 DEF Inv, RunInv
    <2>3. InStep(dev)'
      BY <1>3 DEF InStep
    <2> QED
      BY <2>1, <2>2, <2>3, <1>3 DEF Inv
  <1>4. CASE ReadBlock
    <2>1. CASE ~Served
      <3>1. pc = "upload" /\ UNCHANGED <<dev, tool, pc>>
        BY <1>4, <2>1 DEF ReadBlock
      <3> QED
        BY <3>1, <1>1, <1>3
    <2>2. CASE Served
      <3> DEFINE e == Upload(dev, 1)  data == UploadData(dev, 1)
      <3>1. /\ dev' = Answered(e)
            /\ tool' = [tool EXCEPT !.got = @ \o data, !.told = (data = <<>>)]
            /\ pc' \in {"leave", "upload"}
        BY <1>4, <2>2 DEF ReadBlock, Goto
      <3>2. e \in DevType /\ DevInv(e) /\ data \in Seq(Data)
        BY <1>1, <2>2, Uploaded
      <3> HIDE DEF e, data
      <3> DEFINE got == tool.got \o data  told == data = <<>>
      <3>3. got \in Seq(Data) /\ told \in BOOLEAN
        <4>1. tool.got \in Seq(Data)
          BY <1>1 DEF ToolType
        <4> QED
          BY <4>1, <3>2
      <3>4. tool' = [tool EXCEPT !.got = got, !.told = told]
        BY <3>1
      <3> HIDE DEF got, told
      <3>5. tool' \in ToolType /\ tool'.op = tool.op /\ tool'.file = tool.file /\ tool'.blk = tool.blk
        BY <1>1, <3>3, <3>4 DEF ToolType
      <3>6. dev' \in DevType /\ DevInv(dev)'
        BY <3>1, <3>2, AnsweredDevice
      <3> QED
        BY <3>1, <3>5, <3>6, <1>3, <1>4 DEF ReadBlock
    <2> QED
      BY <2>1, <2>2
  <1>5. CASE Revert
    <2>1. tool' \in ToolType /\ tool'.op = tool.op /\ tool'.file = tool.file /\ tool'.blk = tool.blk
          /\ pc' = "leave"
      BY <1>1, <1>5 DEF Revert, Goto, ToolType
    <2>2. dev' \in DevType /\ DevInv(dev)'
      BY <1>1, <1>5, Reverted, AnsweredDevice DEF Revert
    <2> QED
      BY <2>1, <2>2, <1>3
  <1> QED
    BY <1>4, <1>5

\* Every step keeps the device in step with the tool.
LEMMA InvNext == Inv /\ [Next]_vars => Inv'
  <1>1. Inv /\ UNCHANGED vars => Inv'
    BY DEF Inv, TypeInv, RunInv, InStep, vars
  <1> QED
    BY <1>1, InvStart, InvKill, InvFinds, InvDetaches, InvFaults, InvBlock, InvPoll, InvRest, InvRestPoll,
       InvEnd, InvEndPoll, InvReads DEF Next, ToolNext

\* The inductive invariant, for every size of a page and of an erase, every set of images and
\* files, and every number of runs and faults.
LEMMA InvHolds ==  Spec => []Inv
  <1>1. Inv /\ [Next]_vars => Inv'
    BY InvNext
  <1> QED
    BY <1>1, InvInit, PTL DEF Spec

\* TypeOK: types are kept, the count of blocks left in a page never goes below zero, and what the
\* flash interface takes for an image is one.
THEOREM TypeCorrect ==  Spec => []TypeOK
  <1>1. Inv => TypeOK
    BY DEF Inv, TypeInv, DevInv, DevType, TypeOK
  <1> QED
    BY <1>1, InvHolds, PTL

NoneEmpty == \A file \in Files : All(file) # <<>>

\* A page of the file the tool downloads is added to the upgrade slot.
Grows == /\ tool.op = "download" /\ UNCHANGED asked
         /\ \E p \in 1..Len(Pages(tool.file)) : dev'.slot = Append(dev.slot, Pages(tool.file)[p])

\* The upgrade slot is erased, which somebody asked for.
Erased == asked # {} /\ dev'.slot = <<>> /\ UNCHANGED asked

FlashKept == dev'.slot = dev.slot /\ UNCHANGED asked

FlashStep == Grows \/ Erased \/ FlashKept

\* A block that is taken adds a page of the file to the flash, erases it or leaves it.
LEMMA TakenSlot ==
  ASSUME Inv, SubPages > 1, tool.op = "download", UNCHANGED asked, NEW num \in Nat,
         num + 1 \in 1..Len(All(tool.file)), Taken(dev, dev', All(tool.file), num)
  PROVE  FlashStep
  <1> DEFINE slot == IF Begins(dev, num) THEN <<>> ELSE dev.slot
             blocks == All(tool.file)
  <1>1. asked # {} /\ tool.file \in AllFiles
    BY InStage DEF Inv, RunInv
  <1>2. /\ dev'.writeInProgress => dev'.slot = <<>>
        /\ ~dev'.writeInProgress /\ (num + 1) % SubPages # 0 => dev'.slot = slot
        /\ ~dev'.writeInProgress /\ (num + 1) % SubPages = 0 =>
             dev'.slot = Append(slot, dev'.page) /\ FullPage(dev'.page, blocks, num + 1)
        /\ dev'.page \in [1..SubPages -> Data]
    BY DEF Taken, DevType
  <1>3. CASE ~dev'.writeInProgress /\ (num + 1) % SubPages = 0
    <2>1. num % SubPages # 0
      BY <1>3, NextRemainder, Sizes
    <2>2. dev'.slot = Append(dev.slot, dev'.page)
      BY <2>1, <1>2, <1>3 DEF Begins
    <2>3. LET p == (num + 1) \div SubPages
          IN  p \in 1..Len(Pages(tool.file)) /\ dev'.page = Pages(tool.file)[p]
      BY <1>1, <1>2, <1>3, FullPageIs
    <2> QED
      BY <2>2, <2>3 DEF FlashStep, Grows
  <1>4. CASE ~(~dev'.writeInProgress /\ (num + 1) % SubPages = 0)
    BY <1>1, <1>2, <1>4 DEF FlashStep, Erased, FlashKept
  <1> QED
    BY <1>3, <1>4

\* A status request after one block leaves the flash or has erased it.
LEMMA PolledSlot ==
  ASSUME Inv, SubPages > 1, tool.op = "download", UNCHANGED asked, NEW blocks, NEW n,
         Polled(dev, dev', blocks, n)
  PROVE  FlashStep
  <1>1. asked # {} /\ SubPages # 1
    BY DEF Inv, RunInv
  <1> QED
    BY <1>1 DEF Polled, FlashStep, Erased, FlashKept

\* The end of a download adds the last page of the file.
LEMMA EndSlot ==
  ASSUME Inv, End, NoneEmpty
  PROVE  Grows \/ FlashKept
  <1>1. /\ dev \in DevType /\ DevInv(dev) /\ tool.file \in AllFiles /\ (Served => tool.open)
    BY InStage
  <1>2. /\ pc = "end" /\ SendBlock(0, 0, Zeros) /\ UNCHANGED asked
        /\ tool.op = "download" /\ tool.file \in Files
    BY DEF End, Inv, RunInv
  <1>3. CASE ~Served
    BY <1>2, <1>3 DEF SendBlock, FlashKept
  <1>4. CASE Served
    <2>1. PICK left : dev' = Answered(Dnload(dev, 0, 0, Zeros, left))
      BY <1>2, <1>4 DEF SendBlock
    <2> DEFINE e == Dnload(dev, 0, 0, Zeros, left)
    <2>2. CASE DnloadRefused(OpenFlash(dev), 0)
      <3>1. e \in DevType /\ DevInv(e) /\ e.slot = dev.slot
        BY <1>1, <2>2, RefusedDevice
      <3> HIDE DEF e
      <3>2. dev'.slot = dev.slot
        BY <2>1, <3>1, AnsweredDevice DEF e
      <3> QED
        BY <3>2, <1>2 DEF FlashKept
    <2>3. CASE ~DnloadRefused(OpenFlash(dev), 0)
      <3> DEFINE f == Dnload(dev, 0, 0, Zeros, 0)
                 n == Len(All(tool.file))  q == n \div SubPages
      <3>1. dev.state = "DOWNLOAD_IDLE"
        BY <1>1, <2>3, OpenedFlash DEF DnloadRefused
      <3>2. All(tool.file) # <<>>
        BY <1>2 DEF NoneEmpty
      <3>3. Holds(dev, All(tool.file), n)
        BY <3>1, <3>2, <1>1, <1>2, <1>4 DEF Inv, InStep
      <3>4. /\ f \in DevType /\ DevInv(f)
            /\ n % SubPages = 0 => f.slot = dev.slot
            /\ n % SubPages # 0 => /\ q + 1 \in 1..Len(Pages(tool.file))
                                   /\ f.slot = Append(dev.slot, Pages(tool.file)[q + 1])
        BY <3>1, <3>2, <3>3, <1>1, PadAdded
      <3>5. e = f
        BY DEF Dnload
      <3> HIDE DEF e, f
      <3>6. dev'.slot = f.slot
        BY <2>1, <3>4, <3>5, AnsweredDevice DEF e
      <3> QED
        BY <3>4, <3>6, <1>2 DEF Grows, FlashKept
    <2> QED
      BY <2>2, <2>3
  <1> QED
    BY <1>3, <1>4

\* All other steps leave the flash or erase it.
LEMMA OtherSlot ==
  ASSUME Inv, \/ Find \/ DetachApp \/ FindAgain \/ ReadBlock \/ Revert \/ Leave \/ Exit
              \/ Kill \/ PowerCycle \/ BusReset \/ Stray
  PROVE  Erased \/ FlashKept
  <1>1. /\ dev \in DevType /\ DevInv(dev) /\ (Served => dev.dfuMode)
        /\ dev.slot \in Seq([1..SubPages -> Data])
    BY InStage DEF DevType
  <1>2. CASE Find \/ FindAgain \/ Exit \/ Kill
    BY <1>2 DEF Find, FindAgain, Exit, Kill, Fault, FlashKept
  <1>3. CASE DetachApp \/ Leave
    BY <1>1, <1>3, DetachedDevice DEF DetachApp, Leave, FlashKept
  <1>4. CASE ReadBlock
    <2>1. UNCHANGED asked
      BY <1>4 DEF ReadBlock
    <2>2. CASE ~Served
      BY <1>4, <2>2 DEF ReadBlock, FlashKept
    <2>3. CASE Served
      <3> DEFINE e == Upload(dev, 1)
      <3>1. dev' = Answered(e)
        BY <1>4, <2>3 DEF ReadBlock
      <3>2. e \in DevType /\ DevInv(e) /\ e.slot = dev.slot
        BY <1>1, <2>3, Uploaded
      <3> HIDE DEF e
      <3>3. dev'.slot = e.slot
        BY <3>1, <3>2, AnsweredDevice
      <3> QED
        BY <3>2, <3>3, <2>1 DEF FlashKept
    <2> QED
      BY <2>2, <2>3
  <1>5. CASE Revert
    <2>1. UNCHANGED asked /\ asked # {}
      BY <1>5 DEF Revert, Inv, RunInv
    <2>2. CASE ~Served
      BY <1>5, <2>1, <2>2 DEF Revert, FlashKept
    <2>3. CASE Served
      <3> DEFINE e == RevertFactory(dev)
      <3>1. dev' = Answered(e)
        BY <1>5, <2>3 DEF Revert
      <3>2. e \in DevType /\ DevInv(e) /\ (e.slot = dev.slot \/ e.slot = <<>>)
        BY <1>1, Reverted
      <3> HIDE DEF e
      <3>3. dev'.slot = e.slot
        BY <3>1, <3>2, AnsweredDevice
      <3> QED
        BY <3>2, <3>3, <2>1 DEF FlashKept, Erased
    <2> QED
      BY <2>2, <2>3
  <1>6. CASE PowerCycle
    <2>1. dev'.slot = dev.slot
      BY <1>1, <1>6, BootedDevice DEF PowerCycle
    <2> QED
      BY <2>1, <1>6 DEF PowerCycle, Fault, FlashKept
  <1>7. CASE BusReset
    <2>1. PICK early \in BOOLEAN : dev' = BusResetOf(dev, early)
      BY <1>7 DEF BusReset
    <2>2. dev'.slot = dev.slot
      BY <2>1, <1>1, BusResetDevice
    <2> QED
      BY <2>2, <1>7 DEF BusReset, Fault, FlashKept
  <1>8. CASE Stray
    <2>1. CASE dev' \in {Answered(GetState(dev)), Answered(ClrStatus(dev)), Answered(Abort(dev))}
      <3>1. PICK e \in {GetState(dev), ClrStatus(dev), Abort(dev)} : dev' = Answered(e)
        BY <2>1
      <3>2. e \in DevType /\ DevInv(e) /\ e = [dev EXCEPT !.state = e.state]
        BY <1>1, Strayed
      <3>3. dev'.slot = e.slot /\ e.slot = dev.slot
        BY <3>1, <3>2, <1>1, AnsweredDevice DEF DevType
      <3> QED
        BY <3>3, <1>8 DEF Stray, Fault, FlashKept
    <2>2. CASE dev' \in {ResetDevice(dev, TRUE), ResetDevice(dev, FALSE)}
      <3>1. dev'.slot = dev.slot
        BY <2>2, <1>1, BootedDevice DEF ResetDevice
      <3> QED
        BY <3>1, <1>8 DEF Stray, Fault, FlashKept
    <2> QED
      BY <2>1, <2>2, <1>8 DEF Stray
  <1> QED
    BY <1>2, <1>3, <1>4, <1>5, <1>6, <1>7, <1>8

\* In every step the flash grows by a page of the file being downloaded, is erased on somebody's
\* request, or stays as it is.
LEMMA FlashSteps ==
  ASSUME Inv, NoneEmpty, SubPages > 1, ToolNext \/ Kill \/ PowerCycle \/ BusReset \/ Stray
  PROVE  FlashStep
  <1>1. tool.file \in AllFiles /\ tool.blk \in Nat
    BY InStage
  <1>2. CASE Block
    <2>1. UNCHANGED asked /\ tool.op = "download" /\ tool.blk + 1 \in 1..Len(tool.file.blocks)
      BY <1>2, BlockStep DEF Block, Inv, RunInv
    <2>2. tool.blk + 1 \in 1..Len(All(tool.file))
      <3> DEFINE k == tool.blk + 1  b == Len(tool.file.blocks)  r == Len(tool.file.rem)
                 n == Len(All(tool.file))
      <3>1. k \in 1..b /\ b \in Nat /\ r \in 0..1 /\ n = b + r
        BY <2>1, <1>1, FileTypes
      <3> HIDE DEF k, b, r, n
      <3>2. k \in 1..n
        BY <3>1
      <3> QED
        BY <3>2 DEF k, n
    <2>3. CASE Sent(1)
      BY <1>1, <1>2, <2>1, <2>2, <2>3, BlockStep, TakenSlot
    <2>4. CASE ~Sent(1)
      BY <1>2, <2>1, <2>4, BlockStep DEF FlashStep, FlashKept
    <2> QED
      BY <2>3, <2>4
  <1>3. CASE Rest
    <2>1. UNCHANGED asked /\ tool.op = "download"
      BY <1>3 DEF Rest, Inv, RunInv
    <2>2. CASE tool.file.rem # <<>> /\ Sent(1)
      <3>1. tool.blk + 1 \in 1..Len(All(tool.file)) /\ Taken(dev, dev', All(tool.file), tool.blk)
        BY <1>1, <1>3, <2>2, RestStep, FileTypes
      <3> QED
        BY <3>1, <1>1, <2>1, TakenSlot
    <2>3. CASE ~(tool.file.rem # <<>> /\ Sent(1))
      BY <1>3, <2>1, <2>3, RestStep DEF FlashStep, FlashKept
    <2> QED
      BY <2>2, <2>3
  <1>4. CASE Poll
    <2>1. UNCHANGED asked /\ tool.op = "download"
      BY <1>4 DEF Poll, Inv, RunInv
    <2>2. CASE Served
      BY <1>4, <2>1, <2>2, PollStep, PolledSlot
    <2>3. CASE ~Served
      BY <1>4, <2>1, <2>3, PollStep DEF FlashStep, FlashKept
    <2> QED
      BY <2>2, <2>3
  <1>5. CASE RestPoll
    <2>1. UNCHANGED asked /\ tool.op = "download"
      BY <1>5 DEF RestPoll, Inv, RunInv
    <2>2. CASE Served
      BY <1>5, <2>1, <2>2, RestPollStep, PolledSlot
    <2>3. CASE ~Served
      BY <1>5, <2>1, <2>3, RestPollStep DEF FlashStep, FlashKept
    <2> QED
      BY <2>2, <2>3
  <1>6. CASE EndPoll
    <2>1. UNCHANGED asked /\ tool.op = "download"
      BY <1>6 DEF EndPoll, Inv, RunInv
    <2>2. CASE Served
      BY <1>6, <2>1, <2>2, EndPollStep, PolledSlot
    <2>3. CASE ~Served
      BY <1>6, <2>1, <2>3, EndPollStep DEF FlashStep, FlashKept
    <2> QED
      BY <2>2, <2>3
  <1>7. CASE End
    BY <1>7, EndSlot DEF FlashStep
  <1> QED
    BY <1>2, <1>3, <1>4, <1>5, <1>6, <1>7, OtherSlot DEF ToolNext, FlashStep

\* The step of the abstract specification that a change of the flash is.
LEMMA ImageStep ==
  ASSUME Inv, Marked, FlashStep
  PROVE  [Image!Next]_<<Bootable(dev.slot), asked>>
  <1> DEFINE slot == dev.slot  slots == Seq([1..SubPages -> Data])  file == tool.file
  <1>1. slot \in slots /\ file \in AllFiles
    BY InStage DEF DevType
  <1>2. <<>> \notin Images
    BY DEF Marked
  <1>3. CASE FlashKept
    BY <1>3 DEF FlashKept, Bootable
  <1>4. CASE Erased
    BY <1>2, <1>4 DEF Erased, Bootable, Image!Next, Image!FallBack
  <1>5. CASE Grows
    <2>1. /\ file \in Files /\ Bootable(Pages(file)) \in asked /\ asked' = asked /\ asked # {}
      BY <1>5 DEF Grows, Inv, RunInv
    <2>2. PICK p \in 1..Len(Pages(file)) : dev'.slot = Append(slot, Pages(file)[p])
      BY <1>5 DEF Grows
    <2>3. Pages(file) \in slots /\ Len(Pages(file)) \in Nat
      BY <1>1, PagesOf
    <2> DEFINE page == Pages(file)[p]  pages == [1..SubPages -> Data]  grown == Append(slot, page)
    <2>4. /\ grown \in slots /\ Len(grown) = Len(slot) + 1 /\ grown[Len(grown)] = page
          /\ \A i \in 1..Len(slot) : grown[i] = slot[i]
          /\ Len(slot) \in Nat
      <3>1. page \in pages /\ slot \in Seq(pages)
        BY <1>1, <2>3
      <3> HIDE DEF page, slot, pages
      <3> QED
        BY <3>1 DEF pages
    <2>5. CASE grown \notin Images
      <3>1. Bootable(dev'.slot) = Factory
        BY <2>2, <2>5 DEF Bootable
      <3> QED
        BY <3>1, <2>1 DEF Image!Next, Image!FallBack
    <2>6. CASE grown \in Images
      <3>1. grown = Pages(file)
        <4>1. grown[Len(grown)] \in {Pages(file)[x] : x \in 1..Len(Pages(file))}
          BY <2>4
        <4> HIDE DEF grown
        <4> QED
          BY <4>1, <2>1, <2>6 DEF Marked
      <3>2. Bootable(dev'.slot) = grown /\ grown \in asked
        BY <3>1, <2>1, <2>2, <2>6 DEF Bootable
      <3>3. slot \notin Images
        <4> SUFFICES ASSUME slot \in Images PROVE FALSE
          OBVIOUS
        <4>1. slot # <<>>
          BY <1>2
        <4>2. Len(slot) > 0
          <5> HIDE DEF slot
          <5> QED
            BY <4>1, <1>1
        <4>3. slot[Len(slot)] = Pages(file)[Len(slot)] /\ Len(slot) \in 1..Len(Pages(file))
          <5> HIDE DEF grown
          <5> QED
            BY <4>2, <2>4, <3>1
        <4>4. slot[Len(slot)] \in {Pages(file)[x] : x \in 1..Len(Pages(file))}
          BY <4>3
        <4>5. slot = Pages(file)
          BY <4>4, <2>1 DEF Marked
        <4> HIDE DEF grown, slot
        <4> QED
          BY <4>5, <3>1, <2>4
      <3>4. Bootable(dev.slot) = Factory
        BY <3>3 DEF Bootable
      <3> QED
        BY <3>2, <3>4, <2>1, <2>6 DEF Image!Next, Image!Install
    <2> QED
      BY <2>5, <2>6
  <1> QED
    BY <1>3, <1>4, <1>5 DEF FlashStep

\* ImageSpec: the tool and the device implement DfuImage, step by step: whatever is killed,
\* restarted or run again, the device starts the factory image or a whole image that was there or
\* that the user asked for.  A page holds more than one block, no file is empty, and a checksum is
\* right only when the last page of the image is there.
THEOREM ImageImplemented ==
  ASSUME SubPages > 1, NoneEmpty, Marked
  PROVE  Spec => ImageSpec
  <1>1. Init => Image!Init
    BY DEF Init, Booted, Bootable, Image!Init
  <1>2. Inv /\ [Next]_vars => [Image!Next]_<<Bootable(dev.slot), asked>>
    <2> SUFFICES ASSUME Inv, [Next]_vars
                 PROVE  [Image!Next]_<<Bootable(dev.slot), asked>>
      OBVIOUS
    <2>1. CASE UNCHANGED vars
      BY <2>1 DEF vars, Bootable
    <2>2. CASE Start
      <3>1. PICK op \in Ops, file \in Files :
              asked' = CASE op = "upload"   -> asked
                         [] op = "revert"   -> asked \union {Factory}
                         [] op = "download" -> asked \union {Bootable(Pages(file))}
        BY <2>2 DEF Start
      <3>2. UNCHANGED dev /\ Bootable(Pages(file)) \in Images \union {Factory}
        BY <2>2 DEF Start, Bootable
      <3>3. asked' = asked \/ \E i \in Images \union {Factory} : asked' = asked \union {i}
        BY <3>1, <3>2 DEF Ops
      <3> QED
        BY <3>2, <3>3 DEF Image!Next, Image!Ask
    <2>3. CASE ToolNext \/ Kill \/ PowerCycle \/ BusReset \/ Stray
      BY <2>3, FlashSteps, ImageStep
    <2> QED
      BY <2>1, <2>2, <2>3 DEF Next
  <1> QED
    BY <1>1, <1>2, InvHolds, PTL DEF Spec, ImageSpec, Image!Spec

\* A page more of a file in the flash
LEMMA PageLoaded ==
  ASSUME NEW file \in AllFiles, NEW k \in Nat, k + 1 \in 1..Len(Pages(file))
  PROVE  Append(SubSeq(Pages(file), 1, k), Pages(file)[k + 1]) = SubSeq(Pages(file), 1, k + 1)
  <1> DEFINE pages == [1..SubPages -> Data]  s == Pages(file)
  <1>1. s \in Seq(pages)
    BY PagesOf
  <1> HIDE DEF pages, s
  <1>2. /\ SubSeq(s, 1, k) \in Seq(pages) /\ Len(SubSeq(s, 1, k)) = k
        /\ \A i \in 1..k : SubSeq(s, 1, k)[i] = s[i]
    BY <1>1 DEF s
  <1>3. /\ SubSeq(s, 1, k + 1) \in Seq(pages) /\ Len(SubSeq(s, 1, k + 1)) = k + 1
        /\ \A i \in 1..(k + 1) : SubSeq(s, 1, k + 1)[i] = s[i]
    BY <1>1 DEF s
  <1> DEFINE a == Append(SubSeq(s, 1, k), s[k + 1])  b == SubSeq(s, 1, k + 1)
  <1>4. /\ a \in Seq(pages) /\ Len(a) = k + 1
        /\ \A i \in 1..(k + 1) : a[i] = s[i]
    <2>1. s[k + 1] \in pages
      BY <1>1 DEF s
    <2> QED
      BY <2>1, <1>2
  <1> HIDE DEF a, b
  <1>5. a = b
    BY <1>3, <1>4 DEF b
  <1> QED
    BY <1>5 DEF a, b, s

\* No page of a file is an empty slot,
LEMMA NoneLoaded ==
  ASSUME NEW file \in AllFiles
  PROVE  SubSeq(Pages(file), 1, 0) = <<>>
  <1> DEFINE pages == [1..SubPages -> Data]  s == Pages(file)
  <1>1. s \in Seq(pages)
    BY PagesOf
  <1> HIDE DEF pages, s
  <1>2. SubSeq(s, 1, 0) = <<>>
    BY <1>1
  <1> QED
    BY <1>2 DEF s

\* ... all of them are the image.
LEMMA AllLoaded ==
  ASSUME NEW file \in AllFiles
  PROVE  SubSeq(Pages(file), 1, Len(Pages(file))) = Pages(file)
  <1> DEFINE pages == [1..SubPages -> Data]  s == Pages(file)
  <1>1. s \in Seq(pages)
    BY PagesOf
  <1> HIDE DEF pages, s
  <1>2. SubSeq(s, 1, Len(s)) = s
    <2> DEFINE b == SubSeq(s, 1, Len(s))
    <2>1. b \in Seq(pages) /\ Len(b) = Len(s) /\ \A i \in 1..Len(s) : b[i] = s[i]
      BY <1>1
    <2> HIDE DEF b
    <2>2. b = s
      BY <1>1, <2>1
    <2> QED
      BY <2>2 DEF b
  <1> QED
    BY <1>2 DEF s

\* What is in the flash once a block has been taken whose page was waiting for it.
LEMMA TakenLoaded ==
  ASSUME NEW d, NEW file \in AllFiles, NEW num \in Nat, num + 1 \in 1..Len(All(file)), NEW e,
         Taken(d, e, All(file), num), ~e.writeInProgress,
         Begins(d, num) => num = 0, ~Begins(d, num) => Loaded(d, file, num)
  PROVE  Loaded(e, file, num + 1)
  <1> DEFINE slot == IF Begins(d, num) THEN <<>> ELSE d.slot
             k == num \div SubPages
  <1>1. k \in Nat /\ slot = SubSeq(Pages(file), 1, k)
    <2>1. CASE Begins(d, num)
      <3>1. 0 \div SubPages = 0
        BY Sizes, UniqueRemainder
      <3> QED
        BY <2>1, <3>1, NoneLoaded
    <2>2. CASE ~Begins(d, num)
      BY <2>2, Remainder, Sizes DEF Loaded
    <2> QED
      BY <2>1, <2>2
  <1>2. /\ (num + 1) % SubPages # 0 => e.slot = slot
        /\ (num + 1) % SubPages = 0 => e.slot = Append(slot, e.page) /\ FullPage(e.page, All(file), num + 1)
        /\ e.page \in [1..SubPages -> Data]
    BY DEF Taken, DevType
  <1> HIDE DEF slot, k
  <1>3. CASE (num + 1) % SubPages # 0
    <2>1. (num + 1) \div SubPages = k
      BY <1>3, NextRemainder, Sizes DEF k
    <2> QED
      BY <2>1, <1>1, <1>2, <1>3 DEF Loaded
  <1>4. CASE (num + 1) % SubPages = 0
    <2>1. (num + 1) \div SubPages = k + 1
      BY <1>4, NextRemainder, Remainder, Sizes DEF k
    <2>2. (num + 1) \div SubPages \in 1..Len(Pages(file))
          /\ e.page = Pages(file)[(num + 1) \div SubPages]
      BY <1>2, <1>4, FullPageIs
    <2>3. Append(slot, e.page) = SubSeq(Pages(file), 1, k + 1)
      BY <2>1, <2>2, <1>1, PageLoaded
    <2> QED
      BY <2>1, <2>3, <1>2, <1>4 DEF Loaded
  <1> QED
    BY <1>3, <1>4

\* While the tool is in the middle of a download it was asked for.
Busy == Clean("download") /\ tool.file.blocks # <<>>

\* Steps that are none of a download's keep it clean, or break it off.
LEMMA DownloadKept ==
  ASSUME Inv, CleanDownload, [Next]_vars,
         ~(FindAgain \/ Find \/ Block \/ Poll \/ Rest \/ RestPoll \/ End \/ EndPoll \/ Leave)
  PROVE  CleanDownload'
  <1>1. /\ dev \in DevType /\ tool \in ToolType
    BY InStage
  <1>2. CASE UNCHANGED vars
    BY <1>2 DEF vars, CleanDownload, Clean, Loaded, Syncing
  <1>3. CASE Start
    <2>1. ~tool'.fresh
      BY <1>3 DEF Start, Idle
    <2> QED
      BY <2>1 DEF CleanDownload, Clean
  <1>4. CASE DetachApp \/ Exit \/ Kill
    <2>1. pc' \in {"off", "again"}
      BY <1>4 DEF DetachApp, Exit, Kill, Quit, Goto
    <2> QED
      BY <2>1 DEF CleanDownload
  <1>5. CASE ReadBlock \/ Revert
    <2>1. tool.op # "download" /\ tool'.op = tool.op
      BY <1>1, <1>5 DEF ReadBlock, Revert, Inv, RunInv, ToolType
    <2> QED
      BY <2>1 DEF CleanDownload, Clean
  <1>6. CASE PowerCycle \/ BusReset \/ Stray
    <2>1. ~tool'.clean
      BY <1>1, <1>6 DEF PowerCycle, BusReset, Stray, ToolType
    <2> QED
      BY <2>1 DEF CleanDownload, Clean
  <1> QED
    BY <1>2, <1>3, <1>4, <1>5, <1>6 DEF Next, ToolNext

\* A download begins with a device that is idle.
LEMMA DownloadFound ==
  ASSUME Inv, CleanDownload, Find \/ FindAgain
  PROVE  CleanDownload'
  <1>1. dev \in DevType /\ tool \in ToolType /\ pc \in {"find", "again"} /\ UNCHANGED dev
    BY InStage DEF Find, FindAgain
  <1>2. CASE pc' \in {"off", "detach"}
    BY <1>2 DEF CleanDownload
  <1>3. CASE Opened
    <2> DEFINE idle  == dev.dfuMode /\ dev.state = "DFU_IDLE"
               fresh == dev.dfuMode /\ dev.state = "DFU_IDLE" /\ ~dev.connected
    <2>1. tool' = [tool EXCEPT !.open = TRUE, !.found = dev.slot, !.idle = idle, !.fresh = fresh]
          /\ pc' = FirstPc
      BY <1>3 DEF Opened, Goto
    <2>2. tool'.fresh = fresh /\ tool'.open /\ tool'.op = tool.op /\ tool'.blk = tool.blk
      BY <2>1, <1>1 DEF ToolType
    <2>3. tool.op = "download" => pc' = "block"
      BY <2>1 DEF FirstPc
    <2>4. tool.blk = 0
      BY <1>1 DEF Inv, RunInv
    <2> QED
      BY <2>2, <2>3, <2>4, <1>1 DEF CleanDownload, Clean
  <1> QED
    BY <1>2, <1>3 DEF Find, FindAgain, Quit, Goto

\* A device that is in a download takes the next block.
LEMMA BlockServed ==
  ASSUME Inv, CleanDownload, Busy, pc = "block"
  PROVE  /\ Sent(1) /\ Served /\ tool.open /\ dev.dfuMode
         /\ Begins(dev, tool.blk) <=> tool.blk = 0
         /\ ~Begins(dev, tool.blk) => Loaded(dev, tool.file, tool.blk) /\ dev.state = "DOWNLOAD_IDLE"
  <1>1. dev \in DevType /\ DevInv(dev)
    BY InStage
  <1>2. tool.open /\ dev.dfuMode
    BY DEF CleanDownload, Busy
  <1>3. IF tool.blk = 0 THEN dev.state = "DFU_IDLE"
        ELSE dev.state = "DOWNLOAD_IDLE" /\ Loaded(dev, tool.file, tool.blk)
    BY DEF CleanDownload, Busy
  <1>4. OpenFlash(dev).state = dev.state
    BY <1>1, OpenedFlash
  <1>5. ~DnloadRefused(OpenFlash(dev), 1)
    BY <1>3, <1>4 DEF DnloadRefused
  <1>6. 0 % SubPages = 0
    BY Sizes, UniqueRemainder
  <1>7. Begins(dev, tool.blk) <=> tool.blk = 0
    BY <1>3, <1>6 DEF Begins
  <1> QED
    BY <1>2, <1>3, <1>5, <1>7 DEF Served, Sent

\* The pages in the flash are those of the blocks sent,
LEMMA DownloadBlocks ==
  ASSUME Inv, CleanDownload, Block
  PROVE  CleanDownload'
  <1> SUFFICES ASSUME Busy' PROVE CleanDownload'
    BY DEF CleanDownload, Busy
  <1>1. /\ tool.file \in AllFiles /\ tool.blk \in Nat
    BY InStage
  <1>2. pc = "block" /\ UNCHANGED tool /\ pc' = IF Sent(1) THEN "poll" ELSE "leave"
    BY DEF Block, Goto
  <1>3. Busy
    BY <1>2 DEF Busy, Clean
  <1>4. /\ Sent(1) /\ tool.open /\ dev.dfuMode
        /\ Begins(dev, tool.blk) => tool.blk = 0
        /\ ~Begins(dev, tool.blk) => Loaded(dev, tool.file, tool.blk)
    BY <1>2, <1>3, BlockServed
  <1>5. tool.blk + 1 \in 1..Len(tool.file.blocks) /\ Taken(dev, dev', All(tool.file), tool.blk)
    BY <1>4, BlockStep
  <1>6. tool.blk + 1 \in 1..Len(All(tool.file))
    <2> DEFINE k == tool.blk + 1  b == Len(tool.file.blocks)  r == Len(tool.file.rem)
               n == Len(All(tool.file))
    <2>1. k \in 1..b /\ b \in Nat /\ r \in 0..1 /\ n = b + r
      BY <1>1, <1>5, FileTypes
    <2> HIDE DEF k, b, r, n
    <2>2. k \in 1..n
      BY <2>1
    <2> QED
      BY <2>2 DEF k, n
  <1>7. ~dev'.writeInProgress => Loaded(dev', tool.file, tool.blk + 1)
    BY <1>1, <1>4, <1>5, <1>6, TakenLoaded
  <1>8. /\ dev'.dfuMode /\ Syncing(dev')
        /\ dev'.writeInProgress => tool.blk = 0 /\ dev'.slot = <<>>
    BY <1>4, <1>5 DEF Taken, Syncing
  <1> QED
    BY <1>2, <1>4, <1>7, <1>8 DEF CleanDownload

\* ... also when the first block has waited for the erase,
LEMMA DownloadPolls ==
  ASSUME Inv, CleanDownload, Poll
  PROVE  CleanDownload'
  <1> SUFFICES ASSUME Busy' PROVE CleanDownload'
    BY DEF CleanDownload, Busy
  <1> DEFINE m == tool.blk
  <1>1. tool.file \in AllFiles /\ m \in Nat /\ tool \in ToolType
    BY InStage
  <1>2. PICK s \in States :
          /\ StateSeen(s)
          /\ pc' = CASE s = "ERROR" -> "leave" [] s = "DOWNLOAD_IDLE" -> "block" [] OTHER -> "poll"
          /\ tool' = IF s = "DOWNLOAD_IDLE" THEN [tool EXCEPT !.blk = @ + 1] ELSE tool
    BY DEF Poll, Goto
  <1>3. /\ tool'.op = tool.op /\ tool'.file = tool.file /\ tool'.open = tool.open
        /\ tool'.clean = tool.clean /\ tool'.fresh = tool.fresh
        /\ tool'.blk = IF s = "DOWNLOAD_IDLE" THEN m + 1 ELSE m
    BY <1>1, <1>2 DEF ToolType
  <1>4. Busy /\ pc = "poll"
    BY <1>3 DEF Busy, Clean, Poll
  <1>5. /\ tool.open /\ dev.dfuMode /\ Syncing(dev)
        /\ dev.writeInProgress => m = 0 /\ dev.slot = <<>>
        /\ ~dev.writeInProgress => Loaded(dev, tool.file, m + 1)
    BY <1>4 DEF Busy, CleanDownload
  <1>6. Served /\ s = dev'.state
    BY <1>2, <1>5 DEF Served, StateSeen
  <1>7. Polled(dev, dev', All(tool.file), m + 1) /\ m + 1 \in 1..Len(tool.file.blocks)
    BY <1>6, PollStep
  <1> HIDE DEF m
  <1>8. dev'.dfuMode /\ tool'.open
    BY <1>3, <1>5, <1>7 DEF Polled
  <1>9. CASE dev'.state = "DOWNLOAD_BUSY"
    <2>1. dev.writeInProgress /\ dev'.writeInProgress /\ dev'.slot = <<>>
      BY <1>5, <1>7, <1>9 DEF Polled, Waits
    <2>2. pc' = "poll" /\ tool'.blk = m
      BY <1>2, <1>3, <1>6, <1>9
    <2> QED
      BY <2>1, <2>2, <1>5, <1>8, <1>9 DEF CleanDownload, Syncing
  <1>10. CASE dev'.state = "DOWNLOAD_IDLE"
    <2>1. pc' = "block" /\ tool'.blk = m + 1 /\ m + 1 # 0
      BY <1>1, <1>2, <1>3, <1>6, <1>10 DEF m
    <2>2. Loaded(dev', tool.file, m + 1)
      <3>1. CASE ~dev.writeInProgress
        BY <3>1, <1>5, <1>7 DEF Polled, Loaded
      <3>2. CASE dev.writeInProgress /\ SubPages # 1
        <4>1. dev'.slot = <<>> /\ m + 1 = 1
          BY <3>2, <1>5, <1>7 DEF Polled
        <4>2. 1 \div SubPages = 0
          BY <3>2, Sizes, UniqueRemainder
        <4> QED
          BY <4>1, <4>2, <1>1, NoneLoaded DEF Loaded
      <3>3. CASE dev.writeInProgress /\ SubPages = 1
        <4>1. m + 1 = 1 /\ dev'.slot = Append(<<>>, dev'.page) /\ FullPage(dev'.page, All(tool.file), 1)
              /\ dev'.page \in [1..SubPages -> Data]
          BY <3>3, <1>5, <1>7, <1>10 DEF Polled, DevType
        <4>2. 1 \div SubPages = 1 /\ 1 % SubPages = 0
          BY <3>3
        <4>3. 1 \in 1..Len(All(tool.file))
          <5> DEFINE b == Len(tool.file.blocks)  r == Len(tool.file.rem)
                     n == Len(All(tool.file))
          <5>1. 1 \in 1..b /\ b \in Nat /\ r \in 0..1 /\ n = b + r
            BY <1>1, <1>7, <4>1, FileTypes
          <5> HIDE DEF b, r, n
          <5>2. 1 \in 1..n
            BY <5>1
          <5> QED
            BY <5>2 DEF n
        <4>4. 1 \in 1..Len(Pages(tool.file)) /\ dev'.page = Pages(tool.file)[1]
          BY <4>1, <4>2, <4>3, <1>1, FullPageIs
        <4>5. Append(SubSeq(Pages(tool.file), 1, 0), Pages(tool.file)[0 + 1]) = SubSeq(Pages(tool.file), 1, 0 + 1)
          BY <4>4, <1>1, PageLoaded
        <4> QED
          BY <4>1, <4>2, <4>4, <4>5, <1>1, NoneLoaded DEF Loaded
      <3> QED
        BY <3>1, <3>2, <3>3
    <2> QED
      BY <2>1, <2>2, <1>3, <1>8, <1>10 DEF CleanDownload
  <1> QED
    BY <1>5, <1>7, <1>9, <1>10 DEF Polled

\* ... and with the rest of the file,
LEMMA DownloadRest ==
  ASSUME Inv, CleanDownload, Rest \/ RestPoll
  PROVE  CleanDownload'
  <1> SUFFICES ASSUME Busy' PROVE CleanDownload'
    BY DEF CleanDownload, Busy
  <1> DEFINE file == tool.file  n == Len(All(file))
  <1>1. file \in AllFiles /\ UNCHANGED tool
    BY InStage DEF Rest, RestPoll
  <1>2. Busy
    BY <1>1 DEF Busy, Clean
  <1>3. CASE Rest
    <2>1. pc = "block" /\ tool.blk = Len(file.blocks) /\ tool.blk # 0
      <3>1. file.blocks \in Seq(Data) /\ file.blocks # <<>>
        BY <1>1, <1>2, FileTypes DEF Busy
      <3>2. Len(file.blocks) # 0
        <4> DEFINE b == file.blocks
        <4> HIDE DEF b
        <4>1. b # <<>> /\ b \in Seq(Data) => Len(b) # 0
          OBVIOUS
        <4> QED
          BY <3>1, <4>1 DEF b
      <3> QED
        BY <1>3, <3>2 DEF Rest
    <2>2. /\ Sent(1) /\ tool.open /\ dev.dfuMode /\ ~Begins(dev, tool.blk)
          /\ Loaded(dev, file, tool.blk) /\ dev.state = "DOWNLOAD_IDLE"
      BY <2>1, <1>2, BlockServed
    <2>3. CASE file.rem = <<>>
      <3>1. dev' = dev /\ pc' = "end" /\ n = tool.blk
        BY <1>3, <2>3, RestStep
      <3> QED
        BY <2>2, <3>1, <1>1 DEF CleanDownload, Loaded
    <2>4. CASE file.rem # <<>>
      <3>1. pc' = "restPoll" /\ n = tool.blk + 1 /\ tool.blk \in Nat /\ Taken(dev, dev', All(file), tool.blk)
        BY <1>3, <2>2, <2>4, RestStep
      <3>2. ~dev'.writeInProgress /\ Syncing(dev') /\ dev'.dfuMode
        BY <2>2, <3>1 DEF Taken, Syncing
      <3>3. tool.blk + 1 \in 1..n
        BY <3>1
      <3>4. Loaded(dev', file, n)
        BY <2>2, <3>1, <3>2, <3>3, <1>1, TakenLoaded
      <3> QED
        BY <2>2, <3>1, <3>2, <3>4, <1>1 DEF CleanDownload
    <2> QED
      BY <2>3, <2>4
  <1>4. CASE RestPoll
    <2>1. tool.open /\ dev.dfuMode /\ Syncing(dev) /\ ~dev.writeInProgress /\ Loaded(dev, file, n)
          /\ pc' = "end"
      BY <1>2, <1>4 DEF CleanDownload, Busy, RestPoll, Goto
    <2>2. Polled(dev, dev', All(file), n)
      BY <1>4, <2>1, RestPollStep DEF Served
    <2>3. dev'.dfuMode /\ dev'.state = "DOWNLOAD_IDLE" /\ Loaded(dev', file, n)
      BY <2>1, <2>2 DEF Polled, Loaded
    <2> QED
      BY <2>1, <2>3, <1>1 DEF CleanDownload
  <1> QED
    BY <1>3, <1>4

\* ... and the end of the download completes the last of them.
LEMMA DownloadEnds ==
  ASSUME Inv, CleanDownload, End \/ EndPoll \/ Leave
  PROVE  CleanDownload'
  <1> SUFFICES ASSUME Busy' PROVE CleanDownload'
    BY DEF CleanDownload, Busy
  <1> DEFINE file == tool.file  blocks == All(file)  n == Len(blocks)
  <1>1. dev \in DevType /\ DevInv(dev) /\ file \in AllFiles /\ tool \in ToolType
    BY InStage
  <1>2. CASE End
    <2>1. pc = "end" /\ SendBlock(0, 0, Zeros) /\ pc' = "endPoll" /\ UNCHANGED tool
      BY <1>2 DEF End, Goto
    <2>2. Busy
      BY <2>1 DEF Busy, Clean
    <2>3. tool.open /\ dev.dfuMode /\ dev.state = "DOWNLOAD_IDLE" /\ Loaded(dev, file, n)
      BY <2>1, <2>2 DEF CleanDownload, Busy
    <2>4. blocks # <<>> /\ n \in Nat
      <3> DEFINE b == file.blocks  a == blocks
      <3>1. b \in Seq(Data) /\ b # <<>> /\ a \in Seq(Data) /\ Len(a) = Len(b) + Len(file.rem)
            /\ Len(file.rem) \in 0..1
        BY <1>1, <2>2, FileTypes DEF Busy
      <3> HIDE DEF b, a
      <3>2. a # <<>> /\ Len(a) \in Nat
        BY <3>1
      <3> QED
        BY <3>2 DEF a
    <2>5. Holds(dev, blocks, n)
      BY <2>1, <2>3, <2>4 DEF Inv, InStep
    <2> DEFINE f == Dnload(dev, 0, 0, Zeros, 0)  q == n \div SubPages
    <2>6. /\ f \in DevType /\ DevInv(f) /\ Same(dev, f) /\ f.state = "MANIFEST_SYNC"
          /\ n % SubPages = 0 => f.slot = dev.slot
          /\ n % SubPages # 0 => /\ q + 1 \in 1..Len(Pages(file))
                                 /\ f.slot = Append(dev.slot, Pages(file)[q + 1])
      BY <2>3, <2>4, <2>5, <1>1, PadAdded
    <2>7. dev' = Answered(f)
      <3>1. PICK left : dev' = Answered(Dnload(dev, 0, 0, Zeros, left))
        BY <2>1, <2>3 DEF SendBlock, Served
      <3>2. Dnload(dev, 0, 0, Zeros, left) = f
        BY DEF Dnload
      <3> QED
        BY <3>1, <3>2
    <2> HIDE DEF f
    <2>8. dev'.slot = f.slot /\ dev'.state = f.state /\ dev'.dfuMode = f.dfuMode
      BY <2>6, <2>7, AnsweredDevice
    <2>9. f.slot = Pages(file)
      <3>1. Len(Pages(file)) = (IF n % SubPages = 0 THEN q ELSE q + 1) /\ q \in Nat
        BY <1>1, <2>4, PagesOf, Remainder, Sizes
      <3> HIDE DEF q, n
      <3>2. dev.slot = SubSeq(Pages(file), 1, q)
        BY <2>3 DEF Loaded, q
      <3> QED
        BY <2>6, <3>1, <3>2, <1>1, PageLoaded, AllLoaded
    <2> QED
      BY <2>1, <2>3, <2>6, <2>8, <2>9 DEF CleanDownload, Same
  <1>3. CASE EndPoll
    <2>1. pc = "endPoll" /\ pc' = "leave" /\ tool' = [tool EXCEPT !.told = TRUE]
      BY <1>3 DEF EndPoll, Goto
    <2>2. /\ tool'.op = tool.op /\ tool'.file = tool.file /\ tool'.clean = tool.clean
          /\ tool'.fresh = tool.fresh /\ tool'.open = tool.open /\ tool'.told
      BY <2>1, <1>1 DEF ToolType
    <2>3. Busy
      BY <2>2 DEF Busy, Clean
    <2>4. tool.open /\ dev.dfuMode /\ dev.state = "MANIFEST_SYNC" /\ dev.slot = Pages(file)
      BY <2>1, <2>3 DEF CleanDownload, Busy
    <2>5. Polled(dev, dev', <<Zeros>>, 0 + 1)
      BY <1>3, <2>4, EndPollStep DEF Served
    <2>6. dev'.dfuMode /\ dev'.state = "DFU_IDLE" /\ dev'.slot = Pages(file)
      BY <2>4, <2>5 DEF Polled, Syncing
    <2> QED
      BY <2>1, <2>2, <2>4, <2>6 DEF CleanDownload
  <1>4. CASE Leave
    <2>1. pc = "leave" /\ tool' = [tool EXCEPT !.open = FALSE]
      BY <1>4 DEF Leave, Quit
    <2>2. /\ tool'.op = tool.op /\ tool'.file = tool.file /\ tool'.clean = tool.clean
          /\ tool'.fresh = tool.fresh /\ tool'.told = tool.told
      BY <2>1, <1>1 DEF ToolType
    <2>3. Busy
      BY <2>2 DEF Busy, Clean
    <2>4. tool.open /\ dev.dfuMode /\ dev.state = "DFU_IDLE" /\ dev.slot = Pages(file) /\ tool.told
      BY <2>1, <2>3 DEF CleanDownload, Busy
    <2>5. dev' = Detach(dev) /\ pc' = "done"
      BY <1>4, <2>4 DEF Leave, Goto
    <2>6. dev'.running = Bootable(Pages(file)) /\ ~dev'.dfuMode
      BY <2>4, <2>5, <1>1, DetachedDevice
    <2> QED
      BY <2>2, <2>4, <2>5, <2>6 DEF CleanDownload
  <1> QED
    BY <1>2, <1>3, <1>4

\* What an upload should return has as many blocks as the image.
LEMMA BlocksOf ==
  ASSUME NEW slot \in Seq([1..SubPages -> Data])
  PROVE  /\ Len(slot) * SubPages \in Nat /\ Len(Blocks(slot)) = Len(slot) * SubPages
         /\ Blocks(slot) = [i \in 1..Len(slot) * SubPages |-> Blocks(slot)[i]]
  <1> DEFINE m == Len(slot) * SubPages
  <1>1. m \in Nat
    <2> DEFINE a == Len(slot)
    <2>1. a \in Nat /\ SubPages \in Nat
      BY Sizes
    <2> HIDE DEF a
    <2>2. a * SubPages \in Nat
      BY <2>1
    <2> QED
      BY <2>2 DEF a
  <1> DEFINE f[i \in 1..m] == slot[((i - 1) \div SubPages) + 1][((i - 1) % SubPages) + 1]
  <1>2. Blocks(slot) = [i \in 1..m |-> slot[((i - 1) \div SubPages) + 1][((i - 1) % SubPages) + 1]]
    BY DEF Blocks
  <1> HIDE DEF m
  <1>3. Len(Blocks(slot)) = m
    BY <1>1, <1>2
  <1>4. Blocks(slot) = [i \in 1..m |-> Blocks(slot)[i]]
    BY <1>2
  <1> QED
    BY <1>1, <1>3, <1>4 DEF m

\* Where the j-th block of the k-th page is among them.
LEMMA BlockAt ==
  ASSUME NEW slot \in Seq([1..SubPages -> Data]), NEW k \in 1..Len(slot), NEW j \in 1..SubPages
  PROVE  LET i == ((k - 1) * SubPages) + j IN
         i \in 1..Len(slot) * SubPages /\ Blocks(slot)[i] = slot[k][j]
  <1> DEFINE i == ((k - 1) * SubPages) + j  n == Len(slot)
  <1>1. /\ k \in Nat /\ k - 1 \in Nat /\ j \in Nat /\ j - 1 \in 0..(SubPages - 1) /\ n \in Nat /\ k <= n
        /\ j <= SubPages /\ 1 <= j /\ SubPages \in Nat /\ SubPages > 0 /\ 1 <= k
    BY Sizes
  <1> HIDE DEF n
  <1>2. i \in Nat /\ i >= 1 /\ i <= n * SubPages /\ n * SubPages \in Nat
    <2> DEFINE b == (k - 1) * SubPages  m == n * SubPages
    <2>1. b \in Nat /\ m \in Nat
      BY <1>1
    <2>2. b + SubPages <= m
      BY <1>1, Z3
    <2>3. i = b + j
      OBVIOUS
    <2> HIDE DEF b, m, i
    <2>4. i \in Nat /\ i >= 1 /\ i <= m
      BY <1>1, <2>1, <2>2, <2>3
    <2> QED
      BY <2>1, <2>4 DEF m
  <1>3. i - 1 = SubPages * (k - 1) + (j - 1) /\ i - 1 \in Nat
    BY <1>1, <1>2, Z3
  <1> HIDE DEF i
  <1>4. (i - 1) \div SubPages = k - 1 /\ (i - 1) % SubPages = j - 1
    <2> DEFINE n1 == i - 1  q == k - 1  r == j - 1
    <2>1. n1 \in Nat /\ q \in Nat /\ r \in 0..(SubPages - 1) /\ n1 = SubPages * q + r
      BY <1>1, <1>3
    <2> HIDE DEF n1, q, r
    <2>2. n1 \div SubPages = q /\ n1 % SubPages = r
      BY <2>1, <1>1, UniqueRemainder
    <2> QED
      BY <2>2 DEF n1, q, r
  <1>5. i \in 1..n * SubPages
    BY <1>2
  <1>6. Blocks(slot)[i] = slot[((i - 1) \div SubPages) + 1][((i - 1) % SubPages) + 1]
    BY <1>5 DEF Blocks, n
  <1>7. (k - 1) + 1 = k /\ (j - 1) + 1 = j
    BY <1>1
  <1> QED
    BY <1>4, <1>5, <1>6, <1>7 DEF i, n

\* The blocks got are the first ones of the image, and the next one is got.
LEMMA NextGot ==
  ASSUME NEW got \in Seq(Data), NEW slot \in Seq([1..SubPages -> Data]), NEW k \in 1..Len(slot),
         NEW j \in 1..SubPages, Got(got, slot), Len(got) = ((k - 1) * SubPages) + (j - 1)
  PROVE  LET more == got \o <<slot[k][j]>> IN
         Len(more) = ((k - 1) * SubPages) + j /\ Got(more, slot)
  <1> DEFINE x == slot[k][j]  more == got \o <<x>>  i == ((k - 1) * SubPages) + j  b == (k - 1) * SubPages
  <1>1. Blocks(slot)[i] = x
    BY BlockAt
  <1>2. b \in Nat /\ j \in Nat /\ j >= 1
    <2>1. k - 1 \in Nat /\ SubPages \in Nat /\ j \in Nat /\ j >= 1
      BY Sizes
    <2> QED
      BY <2>1
  <1>3. Len(got) = b + (j - 1) /\ i = b + j /\ Len(got) \in Nat
    OBVIOUS
  <1> HIDE DEF x, b, i
  <1>4. Len(got) + 1 = i /\ i \in Nat
    <2> DEFINE l == Len(got)
    <2>1. l = b + (j - 1) /\ i = b + j /\ l \in Nat
      BY <1>3
    <2> HIDE DEF l
    <2>2. l + 1 = i /\ i \in Nat
      BY <1>2, <2>1
    <2> QED
      BY <2>2 DEF l
  <1>5. /\ Len(more) = Len(got) + 1 /\ more[Len(got) + 1] = x
        /\ \A n \in 1..Len(got) : more[n] = got[n]
    BY <1>3
  <1>6. Got(more, slot)
    <2> SUFFICES ASSUME NEW n \in 1..Len(more) PROVE more[n] = Blocks(slot)[n]
      BY DEF Got
    <2>1. n \in 1..Len(got) \/ n = Len(got) + 1
      BY <1>3, <1>5
    <2> QED
      BY <2>1, <1>1, <1>4, <1>5 DEF Got
  <1> QED
    BY <1>4, <1>5, <1>6 DEF i, x

\* When there are as many as the image has, they are the image.
LEMMA AllGot ==
  ASSUME NEW got \in Seq(Data), NEW slot \in Seq([1..SubPages -> Data]), Got(got, slot),
         Len(got) = Len(slot) * SubPages
  PROVE  got = Blocks(slot)
  <1> DEFINE m == Len(slot) * SubPages
  <1>1. Blocks(slot) = [i \in 1..m |-> Blocks(slot)[i]]
    BY BlocksOf
  <1>2. got = [i \in 1..Len(got) |-> got[i]]
    OBVIOUS
  <1> HIDE DEF m
  <1>3. Len(got) = m
    BY DEF m
  <1>4. \A i \in 1..m : got[i] = Blocks(slot)[i]
    BY <1>3 DEF Got
  <1>5. got = [i \in 1..m |-> got[i]]
    BY <1>2, <1>3
  <1>6. [i \in 1..m |-> got[i]] = [i \in 1..m |-> Blocks(slot)[i]]
    BY <1>4, Zenon
  <1> QED
    BY <1>1, <1>5, <1>6, Zenon

\* A read of an upload that nobody disturbs gets the next block, or finds that the image has ended.
LEMMA UploadReads ==
  ASSUME Inv, CleanUpload, ReadBlock, Clean("upload")
  PROVE  CleanUpload'
  <1> DEFINE e == Upload(dev, 1)  data == UploadData(dev, 1)  got == tool.got \o data
             slot == dev.slot  pages == [1..SubPages -> Data]  image == OpenFlash(dev).upgradeValid
  <1>1. dev \in DevType /\ tool \in ToolType /\ DevInv(dev)
    BY InStage
  <1>2. pc = "upload" /\ tool.open /\ dev.dfuMode /\ slot = tool.found /\ Served
    BY DEF ReadBlock, CleanUpload, Served
  <1>3. /\ dev' = Answered(e) /\ pc' = IF data = <<>> THEN "leave" ELSE "upload"
        /\ tool' = [tool EXCEPT !.got = @ \o data, !.told = (data = <<>>)]
    BY <1>2 DEF ReadBlock, Goto
  <1>4. /\ slot \in Seq(pages) /\ tool.got \in Seq(Data) /\ dev.subPagesLeft \in 0..SubPages
        /\ dev.subIndex \in 0..SubPages
    BY <1>1 DEF DevType, ToolType
  <1>5. /\ dev.connected => image = dev.upgradeValid
        /\ ~dev.connected => image = (slot \in Images)
        /\ dev.upgradeValid => slot \in Images
    BY <1>1, OpenedFlash DEF DevInv
  <1>6. /\ e \in DevType /\ DevInv(e) /\ e.dfuMode /\ e.slot = slot /\ e.connected
        /\ e.upgradeValid = image
    BY <1>1, <1>2, Uploaded
  <1>7. /\ tool'.op = tool.op /\ tool'.clean = tool.clean /\ tool'.fresh = tool.fresh
        /\ tool'.open /\ tool'.found = slot /\ tool'.got = got
    <2>1. tool' = [tool EXCEPT !.got = got, !.told = (data = <<>>)]
      BY <1>3
    <2> HIDE DEF data, got
    <2> QED
      BY <2>1, <1>1, <1>2 DEF ToolType
  <1>8. /\ dev'.dfuMode /\ dev'.slot = slot /\ dev'.connected /\ dev'.upgradeValid = image
        /\ dev'.state = e.state /\ dev'.subIndex = e.subIndex /\ dev'.page = e.page
        /\ dev'.readAt = e.readAt
    <2> HIDE DEF e
    <2> QED
      BY <1>3, <1>6, AnsweredDevice
  <1>9. image => slot \in Images
    BY <1>5
  <1>10. ASSUME NEW k \in 1..Len(slot), NEW j \in 1..SubPages, image, e.state = "UPLOAD_IDLE",
                data = <<slot[k][j]>>, e.page = slot[k], e.subIndex = j, e.readAt = k,
                Got(tool.got, slot), Len(tool.got) = ((k - 1) * SubPages) + (j - 1)
         PROVE  CleanUpload'
    <2>1. Len(got) = ((k - 1) * SubPages) + j /\ Got(got, slot)
      <3>1. got = tool.got \o <<slot[k][j]>>
        BY <1>10
      <3> HIDE DEF got, slot
      <3> QED
        BY <3>1, <1>4, <1>10, NextGot
    <2>2. pc' = "upload"
      <3>1. data # <<>>
        <4> DEFINE x == slot[k][j]
        <4> HIDE DEF x
        <4>1. <<x>> # <<>>
          OBVIOUS
        <4>2. data = <<x>>
          BY <1>10 DEF x
        <4> HIDE DEF data
        <4> QED
          BY <4>1, <4>2
      <3> QED
        BY <3>1, <1>3
    <2> HIDE DEF e, data, got, image
    <2> QED
      BY <2>1, <2>2, <1>7, <1>8, <1>10 DEF CleanUpload
  <1>11. ASSUME data = <<>>, tool.got = Given PROVE CleanUpload'
    <2>1. got = tool.got
      BY <1>4, <1>11
    <2>2. pc' = "leave"
      BY <1>3, <1>11
    <2> QED
      BY <2>1, <2>2, <1>2, <1>7, <1>11 DEF CleanUpload, Given
  <1>12. CASE ~dev.connected
    <2>1. dev.state = "DFU_IDLE" /\ tool.got = <<>>
      BY <1>2, <1>12 DEF CleanUpload
    <2>2. CASE image /\ 0 < Len(slot)
      <3>1. 1 \in 1..Len(slot) /\ 1 \in 1..SubPages
        BY <2>2, <1>4, Sizes
      <3>2. /\ data = <<slot[0 + 1][1]>> /\ e.state = "UPLOAD_IDLE" /\ e.page = slot[0 + 1]
            /\ e.subIndex = 1 /\ e.readAt = 0 + 1
        BY <2>1, <2>2, <1>1, <1>2, Uploaded
      <3>3. Len(tool.got) = ((1 - 1) * SubPages) + (1 - 1) /\ Got(tool.got, slot)
        <4>1. (1 - 1) * SubPages = 0
          BY Sizes
        <4> QED
          BY <4>1, <2>1 DEF Got
      <3>4. 0 + 1 = 1
        OBVIOUS
      <3> HIDE DEF e, data, slot, image
      <3>5. /\ data = <<slot[1][1]>> /\ e.page = slot[1] /\ e.readAt = 1
        BY <3>2, <3>4
      <3> QED
        BY <3>1, <3>2, <3>3, <3>5, <2>2, <1>10
    <2>3. CASE ~(image /\ 0 < Len(slot))
      <3>1. data = <<>>
        BY <2>1, <2>3, <1>1, <1>2, Uploaded
      <3>2. Given = <<>>
        <4>1. CASE slot \notin Images
          BY <4>1, <1>2 DEF Given
        <4>2. CASE slot \in Images
          <5>1. Len(slot) = 0
            <6>1. image
              BY <4>2, <1>5, <1>12
            <6>2. Len(slot) \in Nat
              BY <1>4
            <6> HIDE DEF slot, image
            <6> QED
              BY <6>1, <6>2, <2>3
          <5>2. Len(slot) * SubPages = 0 /\ Len(<<>>) = 0 /\ <<>> \in Seq(Data)
            BY <5>1, Sizes
          <5>3. Got(<<>>, slot)
            BY DEF Got
          <5>4. <<>> = Blocks(slot)
            BY <5>2, <5>3, <1>4, AllGot
          <5> QED
            BY <5>4, <1>2 DEF Given
        <4> QED
          BY <4>1, <4>2
      <3> QED
        BY <3>1, <3>2, <2>1, <1>11
    <2> QED
      BY <2>2, <2>3
  <1>13. CASE dev.connected
    <2> DEFINE k == dev.readAt  j == dev.subIndex  left == dev.subPagesLeft
    <2>1. /\ dev.state = "UPLOAD_IDLE" /\ dev.upgradeValid /\ k \in 1..Len(slot) /\ dev.page = slot[k]
          /\ Len(tool.got) = ((k - 1) * SubPages) + j /\ Got(tool.got, slot)
      BY <1>2, <1>13 DEF CleanUpload
    <2>2. j + left = SubPages /\ image /\ j \in 0..SubPages /\ left \in 0..SubPages /\ SubPages \in Nat
          /\ slot \in Images
      BY <2>1, <1>1, <1>4, <1>5, <1>9, <1>13, Sizes DEF DevInv
    <2>3. CASE left > 0
      <3>1. /\ j + 1 \in 1..SubPages /\ data = <<dev.page[j + 1]>> /\ e.state = "UPLOAD_IDLE"
            /\ e.page = dev.page /\ e.subIndex = j + 1 /\ e.readAt = k
        BY <2>1, <2>3, <1>1, <1>2, Uploaded
      <3>2. (j + 1) - 1 = j
        BY <2>2
      <3> HIDE DEF e, data, slot, image, k, j
      <3> QED
        BY <3>1, <3>2, <2>1, <2>2, <1>10
    <2>4. CASE left = 0 /\ k < Len(slot)
      <3>1. /\ data = <<slot[k + 1][1]>> /\ e.state = "UPLOAD_IDLE"
            /\ e.page = slot[k + 1] /\ e.subIndex = 1 /\ e.readAt = k + 1
        BY <2>1, <2>2, <2>4, <1>1, <1>2, Uploaded
      <3>2. k + 1 \in 1..Len(slot) /\ 1 \in 1..SubPages
        BY <2>1, <2>2, <2>4, <1>4, Sizes
      <3>3. Len(tool.got) = (((k + 1) - 1) * SubPages) + (1 - 1)
        <4>1. k \in Nat /\ j = SubPages
          BY <2>1, <2>2, <2>4
        <4> DEFINE l == Len(tool.got)
        <4>2. l = ((k - 1) * SubPages) + j
          BY <2>1
        <4> HIDE DEF k, j, l
        <4>3. l = (((k + 1) - 1) * SubPages) + (1 - 1)
          BY <4>1, <4>2, Sizes, Z3
        <4> QED
          BY <4>3 DEF l
      <3> HIDE DEF e, data, slot, image, k
      <3> QED
        BY <3>1, <3>2, <3>3, <2>1, <2>2, <1>10
    <2>5. CASE left = 0 /\ ~(k < Len(slot))
      <3>1. data = <<>>
        BY <2>1, <2>2, <2>5, <1>1, <1>2, Uploaded
      <3>2. Len(tool.got) = Len(slot) * SubPages
        <4> DEFINE l == Len(tool.got)  n == Len(slot)
        <4>1. k = n /\ j = SubPages /\ n \in Nat /\ l = ((k - 1) * SubPages) + j
          BY <2>1, <2>2, <2>5, <1>4
        <4> HIDE DEF k, j, l, n
        <4>2. l = n * SubPages
          BY <4>1, Sizes, Z3
        <4> QED
          BY <4>2 DEF l, n
      <3>3. tool.got = Blocks(slot)
        <4> HIDE DEF slot
        <4> QED
          BY <3>2, <2>1, <1>4, AllGot
      <3> QED
        BY <3>1, <3>3, <2>2, <1>2, <1>11 DEF Given
    <2> QED
      BY <2>2, <2>3, <2>4, <2>5
  <1> QED
    BY <1>12, <1>13

\* An upload that nobody disturbs has got the first blocks of the image.
LEMMA UploadKept == Inv /\ CleanUpload /\ [Next]_vars => CleanUpload'
  <1> SUFFICES ASSUME Inv, CleanUpload, [Next]_vars, Clean("upload")' PROVE CleanUpload'
    BY DEF CleanUpload
  <1>1. /\ dev \in DevType /\ tool \in ToolType
    BY InStage
  <1>2. CASE UNCHANGED vars
    BY <1>2 DEF vars, CleanUpload, Clean, Given
  <1>3. CASE Start
    <2>1. ~tool'.fresh
      BY <1>3 DEF Start, Idle
    <2> QED
      BY <2>1 DEF Clean
  <1>4. CASE DetachApp \/ Exit \/ Kill
    <2>1. pc' \in {"off", "again"}
      BY <1>4 DEF DetachApp, Exit, Kill, Quit, Goto
    <2> QED
      BY <2>1 DEF CleanUpload
  <1>5. CASE Block \/ Poll \/ Rest \/ RestPoll \/ End \/ EndPoll \/ Revert
    <2>1. tool.op # "upload" /\ tool'.op = tool.op
      BY <1>1, <1>5 DEF Block, Poll, Rest, RestPoll, End, EndPoll, Revert, Inv, RunInv, ToolType
    <2> QED
      BY <2>1 DEF Clean
  <1>6. CASE PowerCycle \/ BusReset \/ Stray
    <2>1. ~tool'.clean
      BY <1>1, <1>6 DEF PowerCycle, BusReset, Stray, ToolType
    <2> QED
      BY <2>1 DEF Clean
  <1>7. CASE Find \/ FindAgain
    <2>1. pc \in {"find", "again"} /\ UNCHANGED dev
      BY <1>7 DEF Find, FindAgain
    <2>2. CASE pc' \in {"off", "detach"}
      BY <2>2 DEF CleanUpload
    <2>3. CASE Opened
      <3> DEFINE idle  == dev.dfuMode /\ dev.state = "DFU_IDLE"
                 fresh == dev.dfuMode /\ dev.state = "DFU_IDLE" /\ ~dev.connected
      <3>1. tool' = [tool EXCEPT !.open = TRUE, !.found = dev.slot, !.idle = idle, !.fresh = fresh]
            /\ pc' \in {"block", "upload", "revert"}
        BY <2>3 DEF Opened, Goto, FirstPc
      <3>2. tool'.fresh = fresh /\ tool'.open /\ tool'.found = dev.slot /\ tool'.got = tool.got
        BY <3>1, <1>1 DEF ToolType
      <3>3. tool.got = <<>>
        BY <2>1 DEF Inv, RunInv
      <3> QED
        BY <3>1, <3>2, <3>3, <2>1 DEF CleanUpload, Clean
    <2> QED
      BY <1>7, <2>2, <2>3 DEF Find, FindAgain, Quit, Goto
  <1>8. CASE ReadBlock
    <2>1. Clean("upload")
      BY <1>1, <1>8 DEF ReadBlock, Clean, ToolType
    <2> QED
      BY <2>1, <1>8, UploadReads
  <1>9. CASE Leave
    <2>1. pc = "leave" /\ pc' \in {"off", "done"} /\ tool' = [tool EXCEPT !.open = FALSE]
      BY <1>9 DEF Leave, Quit, Goto
    <2>2. /\ tool'.op = tool.op /\ tool'.clean = tool.clean /\ tool'.fresh = tool.fresh
          /\ tool'.got = tool.got /\ tool'.found = tool.found
      BY <2>1, <1>1 DEF ToolType
    <2> QED
      BY <2>1, <2>2 DEF CleanUpload, Clean, Given
  <1> QED
    BY <1>2, <1>3, <1>4, <1>5, <1>6, <1>7, <1>8, <1>9 DEF Next, ToolNext

\* A download that nobody disturbs has loaded the first pages of the file.
LEMMA DownloadNext == Inv /\ CleanDownload /\ [Next]_vars => CleanDownload'
  BY DownloadKept, DownloadFound, DownloadBlocks, DownloadPolls, DownloadRest, DownloadEnds

\* What a file becomes in the flash is an image the boot loader takes.
Installable == \A file \in Files : file.blocks # <<>> => Pages(file) \in Images

\* TransfersExact: a download that nobody disturbs leaves the device running the file, an upload
\* returns the image as it is in the flash, each block once and in order, for files of every
\* length, images that the boot loader takes, and every size of a page.
THEOREM TransfersHold ==
  ASSUME Installable
  PROVE  Spec => []TransfersExact
  <1>1. Init => CleanDownload /\ CleanUpload
    BY DEF Init, Idle, CleanDownload, CleanUpload, Clean
  <1>2. Inv /\ CleanDownload /\ CleanUpload => TransfersExact
    <2> SUFFICES ASSUME Inv, CleanDownload, CleanUpload PROVE TransfersExact
      OBVIOUS
    <2>1. DownloadRuns
      <3> SUFFICES ASSUME pc = "done", Busy PROVE tool.told /\ dev.running = Pages(tool.file) /\ ~dev.dfuMode
        BY DEF DownloadRuns, Busy, Clean
      <3>1. ~dev.dfuMode /\ dev.running = Bootable(Pages(tool.file)) /\ tool.told
        BY DEF CleanDownload, Busy
      <3>2. tool.file \in Files /\ tool.file.blocks # <<>>
        BY DEF Inv, RunInv, Busy, Clean
      <3> QED
        BY <3>1, <3>2 DEF Installable, Bootable
    <2>2. UploadExact
      BY DEF UploadExact, CleanUpload, Clean, Given
    <2> QED
      BY <2>1, <2>2 DEF TransfersExact
  <1>3. Inv /\ CleanDownload /\ CleanUpload /\ [Next]_vars => (CleanDownload /\ CleanUpload)'
    BY DownloadNext, UploadKept
  <1> QED
    BY <1>1, <1>2, <1>3, InvHolds, PTL DEF Spec
=============================================================================
