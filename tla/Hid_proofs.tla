------------------------------ MODULE Hid_proofs ------------------------------
(***************************************************************************)
(* Proofs about module Hid, for every set of report descriptors, every     *)
(* interval of the endpoint, every modulus of the clock that is more than  *)
(* twice the longest period, and every set of durations.  First the edits  *)
(* of the descriptor, then the times of the reports; that no two reports   *)
(* have the same id follows from hidReportValidate, as does, in the last   *)
(* part, that the host finds each control where the application reports    *)
(* it.                                                                     *)
(***************************************************************************)
EXTENDS Hid, WellFoundedInduction, TLAPS

(***************************************************************************)
(* The report descriptor the host reads, and the length announced to it.   *)
(***************************************************************************)
CountOf(item) == 1 + item.size

\* An edit that crosses a preparation is remembered, but by none before Endpoint0's own; every other
\* one is in what is prepared next; and the lengths change with a resized item only.
Served ==
  /\ editing # NoEdit /\ prepared => "overtaken" \in spoilt
  /\ boot = "prepare" => "overtaken" \notin spoilt
  /\ prepared /\ "overtaken" \notin spoilt => made = Translated
  /\ boot # "prepare" /\ "resized" \notin spoilt
       => \A e \in DOMAIN usages : made[e].count = CountOf(usages[e])
  /\ boot = "run" /\ spoilt \cap {"unmeasured", "resized"} = {}
       => \A e \in DOMAIN usages : announced[e] = made[e].count

\* What the translation of the items counts
LEMMA Counted ==
  \A e \in DOMAIN usages : Translated[e].count = CountOf(usages[e])
  BY DEF Translated, hidTranslateItem, CountOf

\* The descriptor is prepared only when no edit is under way, and nothing is announced yet.
LEMMA ServedInit == Init => Served
  BY DEF Init, Served

\* A step that leaves the descriptor alone
LEMMA ServedStill ==
  ASSUME Served, UNCHANGED config
  PROVE  Served'
  BY DEF Served, config, Translated

\* The checks of an edit pass while the descriptor is not prepared only.
LEMMA ServedItem ==
  ASSUME Served, NEW place, NEW page, NEW item, hidSetReportItem(place, page, item)
  PROVE  Served'
  BY DEF Served, hidSetReportItem, Translated

\* A reset leaves nothing to read.
LEMMA ServedReset ==
  ASSUME Served, hidResetReportDescriptor
  PROVE  Served'
  BY DEF Served, hidResetReportDescriptor, Translated

\* The store of an item is in no prepared descriptor, and changes no length unless it is remembered.
LEMMA ServedStore ==
  ASSUME Served, StoreItem
  PROVE  Served'
  <1>1. /\ editing # NoEdit /\ editing' = NoEdit
        /\ usages' = [usages EXCEPT ![editing.element] = editing.item]
        /\ UNCHANGED <<prepared, made, boot, announced>>
        /\ spoilt' = IF boot # "prepare" /\ editing.item.size # usages[editing.element].size
                     THEN spoilt \cup {"resized"} ELSE spoilt
    BY DEF StoreItem
  <1>2. /\ DOMAIN usages' = DOMAIN usages
        /\ \A e \in DOMAIN usages : usages'[e] = IF e = editing.element THEN editing.item ELSE usages[e]
    BY <1>1
  <1>3. /\ "overtaken" \in spoilt' <=> "overtaken" \in spoilt
        /\ "resized" \notin spoilt' => "resized" \notin spoilt
        /\ spoilt' \cap {"unmeasured", "resized"} = {} => spoilt \cap {"unmeasured", "resized"} = {}
    BY <1>1
  <1>4. ~(prepared' /\ "overtaken" \notin spoilt')
    BY <1>1, <1>3 DEF Served
  <1>5. ASSUME boot' # "prepare", "resized" \notin spoilt', NEW e \in DOMAIN usages'
        PROVE  made'[e].count = CountOf(usages'[e])
    <2>1. editing.item.size = usages[editing.element].size
      BY <1>1, <1>5
    <2>2. CountOf(usages'[e]) = CountOf(usages[e])
      BY <2>1, <1>2, <1>5 DEF CountOf
    <2> QED
      BY <2>2, <1>1, <1>2, <1>3, <1>5 DEF Served
  <1>6. boot' = "run" /\ spoilt' \cap {"unmeasured", "resized"} = {}
          => \A e \in DOMAIN usages' : announced'[e] = made'[e].count
    BY <1>1, <1>2, <1>3 DEF Served
  <1>7. boot' = "prepare" => "overtaken" \notin spoilt'
    BY <1>1, <1>3 DEF Served
  <1> QED
    BY <1>1, <1>4, <1>5, <1>6, <1>7 DEF Served

\* The application prepares the descriptor again, with no edit under way.
LEMMA ServedPrepare ==
  ASSUME Served, hidPrepareReportDescriptor
  PROVE  Served'
  <1>1. /\ editing = NoEdit /\ prepared' /\ made' = Translated /\ spoilt' = spoilt \ {"overtaken"}
        /\ UNCHANGED <<usages, announced, editing, boot>>
    BY DEF hidPrepareReportDescriptor, Prepare
  <1>2. Translated' = Translated
    BY <1>1 DEF Translated
  <1>3. \A e \in DOMAIN usages : made'[e].count = CountOf(usages[e])
    BY <1>1, Counted
  <1>4. /\ "resized" \in spoilt' <=> "resized" \in spoilt
        /\ "overtaken" \notin spoilt'
        /\ spoilt' \cap {"unmeasured", "resized"} = spoilt \cap {"unmeasured", "resized"}
    BY <1>1
  <1>5. ASSUME boot = "run", spoilt \cap {"unmeasured", "resized"} = {}, NEW e \in DOMAIN usages
        PROVE  announced[e] = made'[e].count
    <2>1. announced[e] = made[e].count
      BY <1>5 DEF Served
    <2>2. made[e].count = CountOf(usages[e])
      BY <1>5 DEF Served
    <2> QED
      BY <2>1, <2>2, <1>3
  <1> QED
    BY <1>1, <1>2, <1>3, <1>4, <1>5 DEF Served

\* Endpoint0 prepares it, unless that is done, and an edit under way is overtaken.
LEMMA ServedBootPrepare ==
  ASSUME Served, BootPrepare
  PROVE  Served'
  <1>1. /\ boot = "prepare" /\ boot' = "measure" /\ prepared'
        /\ made' = IF prepared THEN made ELSE Translated
        /\ spoilt' = IF editing = NoEdit THEN spoilt ELSE spoilt \cup {"overtaken"}
        /\ UNCHANGED <<usages, announced, editing>>
    BY DEF BootPrepare, Prepare
  <1>2. made' = Translated /\ Translated' = Translated
    BY <1>1 DEF Served, Translated
  <1>3. \A e \in DOMAIN usages : made'[e].count = CountOf(usages[e])
    BY <1>2, Counted
  <1> QED
    BY <1>1, <1>2, <1>3 DEF Served

\* It announces the length of what is prepared.
LEMMA ServedBootMeasure ==
  ASSUME Served, BootMeasure
  PROVE  Served'
  <1>1. /\ boot = "measure" /\ boot' = "run"
        /\ announced' = [e \in DOMAIN usages |-> IF prepared THEN made[e].count ELSE 0]
        /\ spoilt' = IF prepared THEN spoilt ELSE spoilt \cup {"unmeasured"}
        /\ UNCHANGED <<usages, prepared, made, editing>>
    BY DEF BootMeasure
  <1>2. Translated' = Translated
    BY <1>1 DEF Translated
  <1>3. spoilt' \cap {"unmeasured", "resized"} = {}
          => \A e \in DOMAIN usages : announced'[e] = made[e].count
    BY <1>1
  <1>4. /\ "overtaken" \in spoilt' <=> "overtaken" \in spoilt
        /\ "resized" \in spoilt' <=> "resized" \in spoilt
    BY <1>1
  <1> QED
    BY <1>1, <1>2, <1>3, <1>4 DEF Served

\* The other steps of Endpoint0, and those of the other tasks, leave the descriptor alone.
LEMMA ServedNext == Served /\ [Next]_vars => Served'
  <1> SUFFICES ASSUME Served, [Next]_vars PROVE Served'
    OBVIOUS
  <1>1. CASE Edit \/ hidResetReportDescriptor \/ StoreItem \/ hidPrepareReportDescriptor
               \/ BootPrepare \/ BootMeasure
    BY <1>1, ServedItem, ServedReset, ServedStore, ServedPrepare, ServedBootPrepare, ServedBootMeasure
    DEF Edit
  <1>2. CASE UNCHANGED vars \/ Tick \/ HidReportTaken
    BY <1>2, ServedStill DEF vars, Tick, HidReportTaken
  <1>3. CASE Buffer
    BY <1>3, ServedStill DEF Buffer, WaitPrepared, LookPending, LookIdle, LookPeriod, LookTime, Look,
                             hidCalcNextReportTime, hidClearChangePending
  <1>4. CASE HidSetIdle \/ HidReadTime \/ HidSetNextTime \/ HidSetPeriod
    BY <1>4, ServedStill DEF HidSetIdle, HidReadTime, HidSetNextTime, HidSetPeriod
  <1>5. CASE \/ \E r \in Reports : hidSetChangePending(r) \/ Change(r)
             \/ \E id \in 0..hidGetReportIdLimit(descriptor), d \in Durations : SetIdle(id, d)
    BY <1>5, ServedStill DEF hidSetChangePending, Change, SetIdle
  <1> QED
    BY <1>1, <1>2, <1>3, <1>4, <1>5 DEF Next, App, Endpoint0

\* ItemsCurrent, LengthCurrent: while the report descriptor is in use, what the host reads is the items as they
\* are, in the length announced, whatever calls the application makes in whatever order with
\* Endpoint0's: an edit is missing only after Endpoint0 has prepared the descriptor between its check
\* and its store, and the length is wrong only after a reset before it was measured, or an edit
\* afterwards that changed the size of an item.
THEOREM PreparedHolds == Spec => [](ItemsCurrent /\ LengthCurrent)
  <1>1. Served => ItemsCurrent /\ LengthCurrent
    BY DEF Served, ItemsCurrent, LengthCurrent
  <1> QED
    BY <1>1, ServedInit, ServedNext, PTL DEF Spec

(***************************************************************************)
(* The times of the reports.                                               *)
(***************************************************************************)
Wide    == (W - 1) \div 2
\* No report, or one every so many units, no more often than the endpoint's interval.
Periods == {0} \union (Interval..Wide)
IdOf(r) == descriptor.reports[r].id

Requests == [at : {"idle", "time", "next", "period"}, id : Nat, duration : Durations, start : Nat,
             old : Periods, next : 0..W-1]
Scans == [id : Nat, at : {"wait", "pending", "idle", "period", "time", "calc", "clear"}]

TypeInv ==
  /\ descriptor \in Descriptors /\ hidReportValidate(descriptor)
  /\ period \in [Reports -> Periods] /\ idle \in [Reports -> BOOLEAN]
  /\ due \in [Reports -> 0..W-1] /\ since \in [Reports -> 0..W-1]
  /\ age \in [Reports -> 0..Interval]
  /\ value \in [Reports -> BOOLEAN]
  /\ request = NoIdle \/ request \in Requests
  /\ request # NoIdle => hidIsReportIdValid(descriptor, request.id)
  /\ scan \in Scans
  /\ scan.at \notin {"wait", "pending"} => hidIsReportIdValid(descriptor, scan.id)
  /\ scan.at \in {"calc", "clear"} => ready = None /\ ~looked
  /\ ready # None => hidIsReportIdValid(descriptor, ready.id) /\ ready.report = First(ready.id)

\* What Endpoint0 has worked out of a request so far
Working ==
  /\ request.at \in {"time", "next"} => Active(request.duration)
  /\ request.at = "time" \/ (request.at = "period" /\ ~Active(request.duration))
       => request.old = period[First(request.id)]
  /\ request.at = "next" \/ (request.at = "period" /\ Active(request.duration))
       => request.old = request.duration

\* XUA_Buffer_Ep has noted that a report was sent and not yet when the next one is.
Closing(r) == scan.at = "calc" /\ scan.id = IdOf(r)

\* When an unchanged report that was sent a while ago is due: after the interval
Late(r, time) == time \in (Interval - age[r])..Wide
PacedAt(r) ==
  /\ since[r] = age[r]
  /\ Pace(r) = 0 \/ Late(r, due[r])
  /\ request.at = "next" /\ request.id = IdOf(r)
       => request.duration = 0 \/ Late(r, request.next)
Paced == \A r \in Reports : IF Closing(r) THEN since[r] = 0 /\ age[r] = 0
                             ELSE age[r] < Interval => PacedAt(r)

\* A request for all the reports has reached those up to the one it works on.
Told ==
  request.start # 0 =>
    /\ request.start = IdOf(1)
    /\ \A r \in Reports : r < First(request.id) \/ (r = First(request.id) /\ request.at # "idle")
         => idle[r] = Active(request.duration)

Inv == TypeInv /\ Working /\ Paced /\ Told

\* The least element of a set with one element
LEMMA OnlyOne == ASSUME NEW i \in Nat PROVE Min({i}) = i
  BY DEF Min

\* The reports of a descriptor that hidReportValidate accepts have ids of their own, so that the
\* first report with an id is the only one.
LEMMA OwnIds ==
  ASSUME NEW d \in Descriptors, hidReportValidate(d)
  PROVE  /\ DOMAIN d.reports = 1..Len(d.reports) /\ Len(d.reports) \in Nat \ {0}
         /\ \A r \in DOMAIN d.reports : d.reports[r].id \in Nat /\ Having(d, d.reports[r].id) = {r}
  <1> DEFINE reports == d.reports  shape == [id : Nat, length : Nat, page : Nat]
  <1>1. reports \in Seq(shape) /\ reports # <<>>
    BY DescriptorsAssumption
  <1>2. ReportIDsRight(d, Seen(d))
    BY DEF hidReportValidate
  <1>3. \A i, j \in DOMAIN reports : i # j => reports[i].id # reports[j].id
    BY <1>2 DEF ReportIDsRight
  <1>4. \A r \in DOMAIN reports : Having(d, reports[r].id) = {r}
    BY <1>3 DEF Having
  <1> HIDE DEF reports, shape
  <1>5. DOMAIN reports = 1..Len(reports) /\ Len(reports) \in Nat \ {0}
    BY <1>1
  <1>6. \A r \in DOMAIN reports : reports[r] \in shape
    BY <1>1, <1>5
  <1> QED
    BY <1>4, <1>5, <1>6 DEF reports, shape

\* The interval and the periods are less than half of what the clock counts.
LEMMA Sizes ==
  ASSUME TypeInv
  PROVE  /\ Interval \in Nat \ {0} /\ W \in Nat /\ Wide \in Nat /\ 2 * Wide < W /\ Interval <= Wide
         /\ Interval * Len(descriptor.reports) \in Interval..Wide
         /\ Durations \subseteq Nat /\ \A d \in Durations : d <= Wide
  <1> DEFINE n == Len(descriptor.reports)  p == Interval * n
  <1>1. n \in Nat \ {0} /\ W > 2 * Interval * n
    BY OwnIds, HidAssumption DEF TypeInv
  <1>2. Interval \in Nat \ {0} /\ W \in Nat /\ Durations \subseteq Nat /\ \A d \in Durations : W > 2 * d
    BY HidAssumption
  <1> HIDE DEF n
  <1>3. p \in Nat /\ Interval <= p /\ W > 2 * p
    BY <1>1, <1>2, Z3
  <1> HIDE DEF p
  <1>4. Wide \in Nat /\ 2 * Wide < W /\ 2 * Wide + 2 >= W
    BY <1>2, <1>3 DEF Wide
  <1>5. p <= Wide /\ Interval <= Wide
    BY <1>2, <1>3, <1>4
  <1>6. \A d \in Durations : d <= Wide
    BY <1>2, <1>4
  <1> QED
    BY <1>2, <1>3, <1>4, <1>5, <1>6 DEF p, n

\* An id that is in use is that of one report, the first and only one to have it.
LEMMA Ids ==
  ASSUME TypeInv
  PROVE  /\ Reports = 1..Len(descriptor.reports) /\ Len(descriptor.reports) \in Nat \ {0}
         /\ \A r \in Reports : /\ IdOf(r) \in Nat /\ Having(descriptor, IdOf(r)) = {r}
                               /\ First(IdOf(r)) = r /\ hidIsReportIdValid(descriptor, IdOf(r))
         /\ \A id : hidIsReportIdValid(descriptor, id) => First(id) \in Reports /\ IdOf(First(id)) = id
  <1>1. /\ Reports = 1..Len(descriptor.reports) /\ Len(descriptor.reports) \in Nat \ {0}
        /\ \A r \in Reports : IdOf(r) \in Nat /\ Having(descriptor, IdOf(r)) = {r}
    BY OwnIds DEF TypeInv, Reports, IdOf
  <1>2. ASSUME NEW r \in Reports
        PROVE  First(IdOf(r)) = r /\ hidIsReportIdValid(descriptor, IdOf(r))
    <2>1. r \in Nat /\ Having(descriptor, IdOf(r)) = {r}
      BY <1>1
    <2>2. Min({r}) = r
      BY <2>1, OnlyOne
    <2> QED
      BY <2>1, <2>2 DEF First, hidIsReportIdValid
  <1>3. ASSUME NEW id, hidIsReportIdValid(descriptor, id)
        PROVE  First(id) \in Reports /\ IdOf(First(id)) = id
    <2>1. PICK r \in Reports : IdOf(r) = id
      BY <1>3 DEF hidIsReportIdValid, Having, Reports, IdOf
    <2> QED
      BY <2>1, <1>2
  <1> QED
    BY <1>1, <1>2, <1>3

\* Nothing rewrites the reports of a descriptor.
LEMMA Kept ==
  ASSUME descriptor' = descriptor
  PROVE  /\ Reports' = Reports
         /\ \A r : IdOf(r)' = IdOf(r)
         /\ \A id : First(id)' = First(id)
  BY DEF Reports, IdOf, First

\* The report that a request is for
LEMMA Worked ==
  ASSUME TypeInv, request.at # "none"
  PROVE  LET k == First(request.id)
         IN  /\ request \in Requests /\ k \in Reports /\ IdOf(k) = request.id
             /\ \A r \in Reports : IdOf(r) = request.id <=> r = k
  <1>1. request \in Requests /\ hidIsReportIdValid(descriptor, request.id)
    BY DEF TypeInv, NoIdle
  <1> QED
    BY <1>1, Ids

\* A step that leaves the times, the idle flags and the request alone, and closes no report, ...
Still == /\ UNCHANGED <<descriptor, period, idle, due, since, age, request>>
         /\ scan.at = "calc" \/ scan'.at = "calc" => scan' = scan

\* ... keeps the reports paced and told.
LEMMA StillPaced ==
  ASSUME Working, Paced, Told, Still
  PROVE  Working' /\ Paced' /\ Told'
  <1>1. Reports' = Reports /\ (\A r : IdOf(r)' = IdOf(r)) /\ \A id : First(id)' = First(id)
    BY Kept DEF Still
  <1>2. \A r : Pace(r)' = Pace(r)
    BY DEF Still, Pace
  <1>3. \A r : Closing(r)' <=> Closing(r)
    BY <1>1 DEF Still, Closing
  <1>4. \A r : PacedAt(r)' <=> PacedAt(r)
    BY <1>1, <1>2 DEF Still, PacedAt, Late
  <1>5. Paced'
    BY <1>1, <1>3, <1>4 DEF Still, Paced
  <1>6. Told'
    BY <1>1 DEF Still, Told
  <1>7. Working'
    BY <1>1 DEF Still, Working
  <1> QED
    BY <1>5, <1>6, <1>7

\* The first report may go out at once: the interval is over from the start.
LEMMA InvInit == Init => Inv
  <1> SUFFICES ASSUME Init PROVE Inv
    OBVIOUS
  <1> DEFINE n == Len(descriptor.reports)  p == Interval * n
  <1>1. descriptor \in Descriptors /\ hidReportValidate(descriptor)
    BY DEF Init
  <1>2. n \in Nat \ {0} /\ W > 2 * p /\ Interval \in Nat \ {0} /\ W \in Nat
    <2>1. n \in Nat \ {0} /\ W > 2 * Interval * n /\ Interval \in Nat \ {0} /\ W \in Nat
      BY <1>1, OwnIds, HidAssumption
    <2> HIDE DEF n
    <2> QED
      BY <2>1, Z3
  <1>3. p \in Periods /\ 0 \in 0..W-1 /\ Interval \in 0..Interval
    <2> HIDE DEF n
    <2>1. p \in Nat /\ Interval <= p
      BY <1>2, Z3
    <2> HIDE DEF p
    <2>2. p <= Wide /\ Wide \in Nat
      BY <2>1, <1>2 DEF Wide
    <2> QED
      BY <2>1, <2>2, <1>2 DEF Periods
  <1>4. /\ period = [r \in Reports |-> p] /\ idle = [r \in Reports |-> FALSE]
        /\ due = [r \in Reports |-> 0] /\ since = [r \in Reports |-> 0]
        /\ age = [r \in Reports |-> Interval] /\ value = [r \in Reports |-> FALSE]
        /\ request = NoIdle /\ scan = [id |-> FirstId, at |-> "wait"] /\ ready = None
    BY DEF Init
  <1> HIDE DEF p
  <1>5. TypeInv
    BY <1>1, <1>3, <1>4 DEF TypeInv, FirstId, Scans
  <1>6. Paced
    BY <1>2, <1>4 DEF Paced, Closing
  <1>7. Told /\ Working
    BY <1>4 DEF Told, Working, NoIdle
  <1> QED
    BY <1>5, <1>6, <1>7 DEF Inv

\* The buttons and the descriptor change.
LEMMA InvEdits ==
  ASSUME Inv, \/ Edit \/ hidResetReportDescriptor \/ App \/ BootPrepare \/ BootMeasure
              \/ \E r \in Reports : Change(r)
  PROVE  Inv'
  <1>1. TypeInv /\ Working /\ Paced /\ Told
    BY DEF Inv
  <1>2. /\ UNCHANGED <<descriptor, times, since, age, request, scan, ready>> /\ looked' \in {looked, FALSE}
        /\ value' = value \/ \E r \in Reports : value' = [value EXCEPT ![r] = ~@]
    BY DEF Edit, hidSetReportItem, hidResetReportDescriptor, hidPrepareReportDescriptor, App, StoreItem,
           hidSetChangePending, Change, BootPrepare, BootMeasure, Prepare, Rest, config
  <1>3. Still
    BY <1>2 DEF Still, times
  <1>4. value' \in [Reports -> BOOLEAN]
    BY <1>1, <1>2 DEF TypeInv
  <1>5. First(ready.id)' = First(ready.id)
    BY <1>2, Kept
  <1>6. ~looked => ~looked'
    <2>1. looked' = looked \/ looked' = FALSE
      BY <1>2
    <2> QED
      BY <2>1, Zenon
  <1>7. UNCHANGED <<descriptor, times, since, age, request, scan, ready>>
    BY <1>2
  <1>8. TypeInv'
    BY <1>1, <1>4, <1>5, <1>6, <1>7 DEF TypeInv, Reports, times
  <1> QED
    BY <1>1, <1>3, <1>8, StillPaced DEF Inv

\* XUA_Buffer_Ep waits for the descriptor, looks for a report to offer and is done with one.
LEMMA InvLook ==
  ASSUME Inv, \/ WaitPrepared \/ LookPending \/ LookIdle \/ LookPeriod \/ LookTime
              \/ hidClearChangePending
  PROVE  Inv'
  <1> DEFINE looking == LookPending \/ LookIdle \/ LookPeriod \/ LookTime
             known   == hidIsReportIdValid(descriptor, scan.id)
  <1>1. TypeInv /\ Working /\ Paced /\ Told
    BY DEF Inv
  <1>2. UNCHANGED <<descriptor, period, idle, due, since, age, request, value>>
    BY DEF WaitPrepared, LookPending, LookIdle, LookPeriod, LookTime, Look, hidClearChangePending, config, times
  <1>3. \A id : First(id)' = First(id) /\ hidIsReportIdValid(descriptor, id)' = hidIsReportIdValid(descriptor, id)
    BY <1>2, Kept
  <1>4. scan \in Scans /\ FirstId \in Nat /\ (scan.at \notin {"wait", "pending"} => known)
    BY <1>1 DEF TypeInv, FirstId
  <1>5. CASE looking
    <2>1. ready = None /\ scan.at \notin {"calc", "clear"}
      BY <1>5 DEF LookPending, LookIdle, LookPeriod, LookTime, Look
    <2>2. \/ Offer /\ known
          \/ GoOn
          \/ known /\ UNCHANGED ready /\ \E at \in {"idle", "period", "time"} : scan' = [scan EXCEPT !.at = at]
      BY <1>4, <1>5 DEF LookPending, LookIdle, LookPeriod, LookTime, Look, hidIsReportIdValid
    <2>3. /\ scan' \in [id : Nat, at : {"pending", "idle", "period", "time"}]
          /\ scan'.at # "pending" => hidIsReportIdValid(descriptor, scan'.id)
          /\ ready' # None => hidIsReportIdValid(descriptor, ready'.id) /\ ready'.report = First(ready'.id)
      BY <2>1, <2>2, <1>4 DEF Offer, GoOn, Scans
    <2>4. TypeInv'
      <3>1. scan' \in Scans /\ scan'.at \notin {"calc", "clear"}
        BY <2>3 DEF Scans
      <3> QED
        BY <3>1, <2>3, <1>1, <1>2, <1>3 DEF TypeInv, Reports
    <2>5. Still
      BY <2>1, <2>3, <1>2 DEF Still
    <2> QED
      BY <2>4, <2>5, <1>1, StillPaced DEF Inv
  <1>6. CASE WaitPrepared \/ hidClearChangePending
    <2>1. /\ scan.at # "calc" /\ UNCHANGED <<ready, looked>>
          /\ scan' \in {[scan EXCEPT !.at = "pending"], [id |-> FirstId, at |-> "pending"]}
      BY <1>6 DEF WaitPrepared, hidClearChangePending
    <2>2. scan' \in Scans /\ scan'.at = "pending"
      BY <2>1, <1>4 DEF Scans
    <2>3. TypeInv'
      BY <2>1, <2>2, <1>1, <1>2, <1>3 DEF TypeInv, Reports
    <2>4. Still
      BY <2>1, <2>2, <1>2 DEF Still
    <2> QED
      BY <2>3, <2>4, <1>1, StillPaced DEF Inv
  <1> QED
    BY <1>5, <1>6

\* The clock, modulo W
LEMMA Clock ==
  ASSUME NEW w \in Nat, w > 0, NEW x \in Int
  PROVE  x % w \in 0..(w - 1) /\ (x \in 0..(w - 1) => x % w = x)
  BY Z3

\* The smaller of two numbers.
LEMMA Least == ASSUME NEW a \in Nat, NEW b \in Nat PROVE Min({a, b}) = IF a <= b THEN a ELSE b
  BY DEF Min

\* A unit of time passes: what is due comes nearer and the last report is longer ago.
LEMMA InvTick == Inv /\ Tick => Inv'
  <1> SUFFICES ASSUME Inv, Tick PROVE Inv'
    OBVIOUS
  <1>1. TypeInv /\ Working /\ Paced /\ Told
    BY DEF Inv
  <1>2. /\ request = NoIdle /\ UNCHANGED <<config, period, idle, scan, ready, request, value>>
        /\ due' = [r \in Reports |-> (due[r] - 1) % W]
        /\ since' = [r \in Reports |-> (since[r] + 1) % W] /\ looked' = FALSE
        /\ age' = [r \in Reports |-> Min({age[r] + 1, Interval})]
        /\ ready = None => looked
    BY DEF Tick
  <1>3. Reports' = Reports /\ (\A r : IdOf(r)' = IdOf(r)) /\ \A id : First(id)' = First(id)
    BY <1>2, Kept DEF config
  <1>4. /\ Interval \in Nat \ {0} /\ W \in Nat /\ Wide \in Nat /\ 2 * Wide < W /\ Interval <= Wide
    BY <1>1, Sizes
  <1>5. ASSUME NEW r \in Reports
        PROVE  /\ due[r] \in 0..W-1 /\ since[r] \in 0..W-1 /\ age[r] \in 0..Interval
               /\ due'[r] = (due[r] - 1) % W /\ since'[r] = (since[r] + 1) % W
               /\ age'[r] = (IF age[r] + 1 <= Interval THEN age[r] + 1 ELSE Interval)
               /\ due'[r] \in 0..W-1 /\ since'[r] \in 0..W-1 /\ age'[r] \in 0..Interval
    <2>1. due[r] \in 0..W-1 /\ since[r] \in 0..W-1 /\ age[r] \in 0..Interval
      BY <1>1 DEF TypeInv
    <2>2. due'[r] = (due[r] - 1) % W /\ since'[r] = (since[r] + 1) % W
          /\ age'[r] = Min({age[r] + 1, Interval})
      BY <1>2
    <2>3. Min({age[r] + 1, Interval}) = (IF age[r] + 1 <= Interval THEN age[r] + 1 ELSE Interval)
      BY <2>1, <1>4, Least
    <2>4. due'[r] \in 0..W-1 /\ since'[r] \in 0..W-1
      BY <2>1, <2>2, <1>4, Clock
    <2> QED
      BY <2>1, <2>2, <2>3, <2>4, <1>4
  <1>6. scan.at # "calc" /\ scan.at # "clear"
    BY <1>1, <1>2 DEF TypeInv
  <1>7. TypeInv'
    <2>1. due' \in [Reports -> 0..W-1] /\ since' \in [Reports -> 0..W-1] /\ age' \in [Reports -> 0..Interval]
      BY <1>2, <1>5
    <2> QED
      BY <2>1, <1>1, <1>2, <1>3, <1>6 DEF TypeInv, config
  <1>8. Paced'
    <2> SUFFICES ASSUME NEW r \in Reports, age'[r] < Interval
                 PROVE  PacedAt(r)'
      BY <1>2, <1>3, <1>6 DEF Paced, Closing
    <2>1. Pace(r)' = Pace(r)
      BY <1>2 DEF Pace, config
    <2>2. age[r] < Interval /\ age'[r] = age[r] + 1
      BY <1>4, <1>5
    <2>3. since[r] = age[r] /\ (Pace(r) = 0 \/ due[r] \in (Interval - age[r])..Wide)
      BY <2>2, <1>1, <1>6 DEF Paced, Closing, PacedAt, Late
    <2>4. since'[r] = age'[r]
      <3>1. since[r] + 1 \in 0..(W - 1)
        BY <2>2, <2>3, <1>4, <1>5
      <3> QED
        BY <3>1, <2>2, <2>3, <1>4, <1>5, Clock
    <2>5. Pace(r) # 0 => due'[r] \in (Interval - age'[r])..Wide
      <3> SUFFICES ASSUME due[r] \in (Interval - age[r])..Wide
                   PROVE  due'[r] \in (Interval - age'[r])..Wide
        BY <2>3
      <3>1. due[r] - 1 \in 0..(W - 1) /\ due[r] - 1 \in (Interval - age'[r])..Wide
        BY <2>2, <1>4, <1>5
      <3>2. due'[r] = due[r] - 1
        BY <3>1, <1>4, <1>5, Clock
      <3> QED
        BY <3>1, <3>2
    <2>6. request'.at # "next"
      BY <1>2 DEF NoIdle
    <2> QED
      BY <2>1, <2>4, <2>5, <2>6 DEF PacedAt, Late
  <1>9. Told' /\ Working'
    BY <1>2 DEF Told, Working, NoIdle
  <1> QED
    BY <1>7, <1>8, <1>9 DEF Inv

\* The host takes a report: its time starts again.
LEMMA InvTaken == Inv /\ HidReportTaken => Inv'
  <1> SUFFICES ASSUME Inv, HidReportTaken PROVE Inv'
    OBVIOUS
  <1>1. TypeInv /\ Working /\ Paced /\ Told
    BY DEF Inv
  <1> DEFINE q == ready.report
  <1>2. /\ UNCHANGED <<config, times, request, value>> /\ ready # None /\ ready' = None
        /\ scan' = [id |-> ready.id, at |-> "calc"] /\ looked' = FALSE
        /\ age' = [age EXCEPT ![q] = 0]
        /\ since' = Sending(ready.id, since, [r \in Reports |-> 0])
    BY DEF HidReportTaken
  <1>3. Reports' = Reports /\ (\A r : IdOf(r)' = IdOf(r)) /\ \A id : First(id)' = First(id)
    BY <1>2, Kept DEF config
  <1>4. /\ Interval \in Nat \ {0} /\ W \in Nat /\ Wide \in Nat /\ 2 * Wide < W /\ Interval <= Wide
    BY <1>1, Sizes
  <1>5. /\ q \in Reports /\ IdOf(q) = ready.id /\ ready.id \in Nat /\ Having(descriptor, ready.id) = {q}
        /\ \A r \in Reports : IdOf(r) = ready.id <=> r = q
        /\ hidIsReportIdValid(descriptor, ready.id)
    BY <1>1, <1>2, Ids DEF TypeInv
  <1>6. since' = [r \in Reports |-> IF r = q THEN 0 ELSE since[r]]
    BY <1>2, <1>5 DEF Sending
  <1>7. age \in [Reports -> 0..Interval] /\ since \in [Reports -> 0..W-1]
    BY <1>1 DEF TypeInv
  <1>8. scan.at # "calc"
    BY <1>1, <1>2 DEF TypeInv
  <1>9. TypeInv'
    <2>1. 0 \in 0..W-1 /\ 0 \in 0..Interval
      BY <1>4
    <2>2. since' \in [Reports -> 0..W-1] /\ age' \in [Reports -> 0..Interval]
      BY <2>1, <1>2, <1>6, <1>7
    <2>3. scan' \in Scans /\ hidIsReportIdValid(descriptor, scan'.id)
      BY <1>2, <1>5 DEF Scans
    <2> QED
      BY <2>2, <2>3, <1>1, <1>2, <1>3 DEF TypeInv, config, times
  <1>10. Paced'
    <2> SUFFICES ASSUME NEW r \in Reports
                 PROVE  /\ r = q => since'[r] = 0 /\ age'[r] = 0
                        /\ r # q /\ age'[r] < Interval => PacedAt(r)'
      BY <1>2, <1>3, <1>5 DEF Paced, Closing
    <2>1. r = q => since'[r] = 0 /\ age'[r] = 0
      BY <1>2, <1>6, <1>7
    <2>2. ASSUME r # q, age'[r] < Interval
          PROVE  PacedAt(r)'
      <3>1. age'[r] = age[r] /\ since'[r] = since[r]
        BY <2>2, <1>2, <1>6, <1>7
      <3>2. PacedAt(r)
        BY <3>1, <2>2, <1>1, <1>8 DEF Paced, Closing
      <3>3. Pace(r)' = Pace(r)
        BY <1>2 DEF Pace, config, times
      <3> QED
        BY <3>1, <3>2, <3>3, <1>2, <1>3 DEF PacedAt, Late, times
    <2> QED
      BY <2>1, <2>2
  <1>11. Told' /\ Working'
    BY <1>1, <1>2, <1>3 DEF Told, Working, times
  <1> QED
    BY <1>9, <1>10, <1>11 DEF Inv

\* The time of the next report follows from that of the last.
LEMMA InvCalc == Inv /\ hidCalcNextReportTime => Inv'
  <1> SUFFICES ASSUME Inv, hidCalcNextReportTime PROVE Inv'
    OBVIOUS
  <1> DEFINE q    == First(scan.id)
             half == HalfSet(scan.id)
  <1>1. TypeInv /\ Working /\ Paced /\ Told
    BY DEF Inv
  <1>2. /\ UNCHANGED <<config, period, idle, since, looked, ready, request, value>>
        /\ scan.at = "calc" /\ scan' = [scan EXCEPT !.at = "clear"]
        /\ due' = Sending(scan.id, due, [r \in Reports |-> (period[r] - since[r]) % W])
        /\ age' = IF half THEN [age EXCEPT ![q] = Interval] ELSE age
    BY DEF hidCalcNextReportTime
  <1>3. Reports' = Reports /\ (\A r : IdOf(r)' = IdOf(r)) /\ \A id : First(id)' = First(id)
    BY <1>2, Kept DEF config
  <1>4. /\ Interval \in Nat \ {0} /\ W \in Nat /\ Wide \in Nat /\ 2 * Wide < W /\ Interval <= Wide
    BY <1>1, Sizes
  <1>5. /\ q \in Reports /\ IdOf(q) = scan.id /\ Having(descriptor, scan.id) = {q}
        /\ \A r \in Reports : IdOf(r) = scan.id <=> r = q
        /\ hidIsReportIdValid(descriptor, scan.id)
    BY <1>1, <1>2, Ids DEF TypeInv
  <1>6. due' = [r \in Reports |-> IF r = q THEN (period[r] - since[r]) % W ELSE due[r]]
    BY <1>2, <1>5 DEF Sending
  <1>7. /\ period \in [Reports -> Periods] /\ age \in [Reports -> 0..Interval]
        /\ due \in [Reports -> 0..W-1] /\ since \in [Reports -> 0..W-1] /\ scan \in Scans
    BY <1>1 DEF TypeInv
  <1>8. since[q] = 0 /\ age[q] = 0
    BY <1>1, <1>2, <1>5 DEF Paced, Closing
  <1>9. period[q] \in 0..Wide /\ (period[q] = 0 \/ period[q] >= Interval)
    BY <1>4, <1>5, <1>7 DEF Periods
  <1>10. due'[q] = period[q]
    <2>1. (period[q] - since[q]) % W = period[q]
      <3> HIDE DEF q
      <3>1. period[q] \in 0..(W - 1) /\ period[q] - since[q] = period[q]
        BY <1>4, <1>8, <1>9
      <3> QED
        BY <3>1, <1>4, Clock
    <2> QED
      BY <2>1, <1>5, <1>6
  <1> HIDE DEF q, half
  <1>11. TypeInv'
    <2>1. \A r \in Reports : due'[r] \in 0..W-1
      BY <1>4, <1>6, <1>7, <1>9, <1>10
    <2>2. due' \in [Reports -> 0..W-1]
      BY <2>1, <1>6
    <2>3. age' \in [Reports -> 0..Interval]
      <3>1. Interval \in 0..Interval
        BY <1>4
      <3> QED
        BY <3>1, <1>2, <1>7
    <2>4. scan' \in Scans /\ scan'.id = scan.id /\ scan'.at = "clear"
      BY <1>2, <1>7 DEF Scans
    <2> QED
      BY <2>2, <2>3, <2>4, <1>1, <1>2, <1>3, <1>5 DEF TypeInv, config
  <1>12. Paced'
    <2>1. scan'.at = "clear"
      BY <1>2, <1>7 DEF Scans
    <2> SUFFICES ASSUME NEW r \in Reports, age'[r] < Interval
                 PROVE  PacedAt(r)'
      BY <2>1, <1>3 DEF Paced, Closing
    <2>2. Pace(r)' = Pace(r)
      BY <1>2 DEF Pace, config
    <2>3. CASE r # q
      <3>1. age'[r] = age[r] /\ due'[r] = due[r] /\ since'[r] = since[r]
        BY <2>3, <1>2, <1>6, <1>7
      <3>2. PacedAt(r)
        BY <3>1, <2>3, <1>1, <1>5 DEF Paced, Closing
      <3> QED
        BY <3>1, <3>2, <2>2, <1>2, <1>3 DEF PacedAt, Late
    <2>4. CASE r = q
      <3>1. ~half /\ age'[r] = 0 /\ since'[r] = 0
        BY <2>4, <1>2, <1>4, <1>5, <1>7, <1>8
      <3>2. request.id = IdOf(r) => request.at # "next" /\ (request.at = "period" => ~Active(request.duration))
        BY <3>1, <2>4, <1>1, <1>5 DEF half, HalfSet, Working
      <3>3. Pace(r) = period[r]
        BY <3>2, <2>4, <1>1, <1>5 DEF Pace, Working, IdOf, q
      <3>4. period[r] = 0 \/ period[r] \in (Interval - 0)..Wide
        BY <2>4, <1>4, <1>9
      <3>5. due'[r] = period[r]
        BY <2>4, <1>10
      <3> QED
        BY <3>1, <3>2, <3>3, <3>4, <3>5, <2>2, <1>2, <1>3 DEF PacedAt, Late
    <2> QED
      BY <2>3, <2>4
  <1>13. Told' /\ Working'
    BY <1>1, <1>2, <1>3 DEF Told, Working
  <1> QED
    BY <1>11, <1>12, <1>13 DEF Inv

\* The next report of a request for all of them, from the last back to the first.
LEMMA Following ==
  ASSUME TypeInv, NEW k \in Reports
  PROVE  hidGetNextValidReportId(descriptor, IdOf(k))
           = IdOf(IF k = Len(descriptor.reports) THEN 1 ELSE k + 1)
  <1> DEFINE n == Len(descriptor.reports)  i == k % n
  <1>1. k \in 1..n /\ n \in Nat \ {0} /\ Having(descriptor, IdOf(k)) = {k} /\ Min({k}) = k
    BY Ids, OnlyOne
  <1>2. Having(descriptor, IdOf(k)) # {}
    BY <1>1
  <1>3. hidGetNextValidReportId(descriptor, IdOf(k)) = descriptor.reports[i + 1].id
    BY <1>1, <1>2 DEF hidGetNextValidReportId
  <1> HIDE DEF n
  <1>4. k = n => i = 0
    BY <1>1
  <1>5. k # n => i = k
    BY <1>1
  <1> HIDE DEF i
  <1>6. i + 1 = IF k = n THEN 1 ELSE k + 1
    BY <1>1, <1>4, <1>5
  <1> QED
    BY <1>3, <1>6 DEF IdOf, n

\* ... and it begins with the first.
LEMMA Beginning ==
  ASSUME TypeInv, ~hidIsReportIdValid(descriptor, 0)
  PROVE  hidGetNextValidReportId(descriptor, 0) = IdOf(1)
  BY DEF hidGetNextValidReportId, hidIsReportIdValid, IdOf

\* A SET_IDLE request comes, for one report or for all of them.
LEMMA InvSetIdle ==
  ASSUME Inv, NEW id \in 0..hidGetReportIdLimit(descriptor), NEW d \in Durations, SetIdle(id, d)
  PROVE  Inv'
  <1>1. TypeInv /\ Working /\ Paced /\ Told
    BY DEF Inv
  <1> DEFINE valid == hidIsReportIdValid(descriptor, id)
             first == IF valid THEN id ELSE hidGetNextValidReportId(descriptor, id)
             new   == [at |-> "idle", id |-> first, duration |-> d,
                       start |-> IF valid THEN 0 ELSE first, old |-> 0, next |-> 0]
  <1>2. /\ UNCHANGED <<config, times, since, scan, looked, ready, value, age>> /\ request = NoIdle
        /\ request' = IF valid \/ id = 0 THEN new ELSE NoIdle
    BY DEF SetIdle
  <1>3. /\ Reports' = Reports /\ (\A r : IdOf(r)' = IdOf(r)) /\ (\A x : First(x)' = First(x))
        /\ 1 \in Reports
    BY <1>1, <1>2, Kept, Ids DEF config
  <1>4. CASE request' = NoIdle
    <2>1. Still
      BY <1>2, <1>4 DEF Still, config, times
    <2>2. TypeInv'
      BY <1>1, <1>2, <1>3, <1>4 DEF TypeInv, config, times
    <2> QED
      BY <2>1, <2>2, <1>1, StillPaced DEF Inv
  <1>5. CASE request' = new /\ (valid \/ id = 0)
    <2>1. hidIsReportIdValid(descriptor, first) /\ (valid \/ first = IdOf(1))
      BY <1>1, <1>3, <1>5, Beginning, Ids
    <2>2. first \in Nat
      BY <2>1, <1>1, Ids
    <2> HIDE DEF first, valid
    <2>3. /\ request'.at = "idle" /\ request'.id = first /\ request'.duration = d
          /\ request'.start = (IF valid THEN 0 ELSE first)
      BY <1>5
    <2>4. request' \in Requests
      <3>1. 0 \in 0..W-1
        BY <1>1, Sizes
      <3> QED
        BY <2>2, <3>1, <1>5 DEF Requests, Periods
    <2>5. TypeInv'
      <3>1. hidIsReportIdValid(descriptor, request'.id)
        BY <2>1, <2>3
      <3> QED
        BY <2>4, <3>1, <1>1, <1>2, <1>3 DEF TypeInv, config, times
    <2>6. Paced'
      <3>1. \A r : Pace(r)' = Pace(r)
        BY <2>3, <1>2 DEF Pace, NoIdle, times, config
      <3>2. \A r : Closing(r)' <=> Closing(r)
        BY <1>2, <1>3 DEF Closing
      <3>3. \A r : PacedAt(r) => PacedAt(r)'
        BY <2>3, <3>1, <1>2 DEF PacedAt, Late, times
      <3> QED
        BY <3>2, <3>3, <1>1, <1>2, <1>3 DEF Paced
    <2>7. Told'
      <3> SUFFICES ASSUME request'.start # 0
                   PROVE  /\ request'.start = IdOf(1)
                          /\ \A r \in Reports : ~(r < First(first))
        BY <2>3, <1>3 DEF Told
      <3>1. request'.start = IdOf(1) /\ first = IdOf(1)
        BY <2>1, <2>3
      <3>2. First(first) = 1 /\ Reports = 1..Len(descriptor.reports)
        BY <3>1, <1>1, <1>3, Ids
      <3> QED
        BY <3>1, <3>2
    <2>8. Working'
      BY <2>3 DEF Working
    <2> QED
      BY <2>5, <2>6, <2>7, <2>8 DEF Inv
  <1> QED
    BY <1>2, <1>4, <1>5

\* What a step of Endpoint0 keeps when it goes on with a request and moves no period: the types,
\* and what has been told.
LEMMA InvWorks ==
  ASSUME Inv, request.at # "none", request' \in Requests, request'.at # "idle",
         request'.id = request.id, request'.duration = request.duration, request'.start = request.start,
         due' \in [Reports -> 0..W-1], (~looked => ~looked'),
         \/ idle' = [idle EXCEPT ![First(request.id)] = Active(request.duration)]
         \/ UNCHANGED idle /\ request.at # "idle",
         UNCHANGED <<config, period, since, scan, ready, value, age>>
  PROVE  TypeInv' /\ Told'
  <1> DEFINE k == First(request.id)
  <1>1. TypeInv /\ Told
    BY DEF Inv
  <1>2. Reports' = Reports /\ (\A r : IdOf(r)' = IdOf(r)) /\ \A id : First(id)' = First(id)
    BY Kept DEF config
  <1>3. request \in Requests /\ k \in Reports /\ hidIsReportIdValid(descriptor, request.id)
    BY <1>1, Worked DEF TypeInv, NoIdle
  <1>4. Active(request.duration) \in BOOLEAN
    BY DEF Active
  <1>5. idle \in [Reports -> BOOLEAN]
    BY <1>1 DEF TypeInv
  <1>6. TypeInv'
    <2>1. idle' \in [Reports -> BOOLEAN]
      BY <1>4, <1>5
    <2> QED
      BY <2>1, <1>1, <1>2, <1>3 DEF TypeInv, config
  <1>7. Told'
    <2> SUFFICES ASSUME request.start # 0
                 PROVE  /\ request.start = IdOf(1)
                        /\ \A r \in Reports : r < k \/ r = k => idle'[r] = Active(request.duration)
      BY <1>2 DEF Told
    <2>1. /\ request.start = IdOf(1) /\ \A r \in Reports : r < k => idle[r] = Active(request.duration)
          /\ request.at # "idle" => idle[k] = Active(request.duration)
      BY <1>1, <1>3 DEF Told
    <2>2. \A r \in Reports : r # k => idle'[r] = idle[r]
      BY <1>5
    <2>3. idle'[k] = Active(request.duration)
      BY <2>1, <1>3, <1>5
    <2>4. \A r \in Reports : r < k => r # k
      <3>1. k \in Nat /\ Reports \subseteq Nat
        BY <1>1, <1>3, Ids
      <3> HIDE DEF k
      <3> QED
        BY <3>1
    <2> HIDE DEF k
    <2> QED
      BY <2>1, <2>2, <2>3, <2>4, Zenon
  <1> QED
    BY <1>6, <1>7

\* Endpoint0 stores the idle flag, ...
LEMMA InvHidSetIdle == Inv /\ HidSetIdle => Inv'
  <1> SUFFICES ASSUME Inv, HidSetIdle PROVE Inv'
    OBVIOUS
  <1> DEFINE k  == First(request.id)
             at == IF Active(request.duration) THEN "time" ELSE "period"
  <1>1. TypeInv /\ Working /\ Paced /\ Told
    BY DEF Inv
  <1>2. /\ request.at = "idle" /\ request' = [request EXCEPT !.at = at, !.old = period[k]]
        /\ idle' = [idle EXCEPT ![k] = Active(request.duration)] /\ looked' = FALSE
        /\ UNCHANGED <<config, period, due, since, scan, ready, value, age>>
    BY DEF HidSetIdle
  <1>3. Reports' = Reports /\ (\A r : IdOf(r)' = IdOf(r)) /\ \A id : First(id)' = First(id)
    BY <1>2, Kept DEF config
  <1>4. /\ request \in Requests /\ k \in Reports /\ IdOf(k) = request.id
        /\ \A r \in Reports : IdOf(r) = request.id <=> r = k
    BY <1>1, <1>2, Worked
  <1>5. period[k] \in Periods /\ due \in [Reports -> 0..W-1]
    BY <1>1, <1>4 DEF TypeInv
  <1> HIDE DEF k
  <1>6. /\ request'.at = at /\ request'.id = request.id /\ request'.duration = request.duration
        /\ request'.start = request.start /\ request'.old = period[k] /\ request' \in Requests
        /\ at # "idle" /\ at # "next"
    BY <1>2, <1>4, <1>5 DEF Requests
  <1>7. TypeInv' /\ Told'
    BY <1>2, <1>5, <1>6, InvWorks DEF k
  <1>8. Working'
    BY <1>2, <1>3, <1>6 DEF Working, Active, k
  <1>9. Paced'
    <2>1. ASSUME NEW r \in Reports PROVE Pace(r)' = Pace(r)
      BY <1>2, <1>4, <1>6 DEF Pace, config, IdOf
    <2>2. \A r \in Reports : PacedAt(r) => PacedAt(r)'
      BY <2>1, <1>2, <1>6 DEF PacedAt, Late
    <2> QED
      BY <2>2, <1>1, <1>2, <1>3 DEF Paced, Closing
  <1> QED
    BY <1>7, <1>8, <1>9 DEF Inv

\* ... works the time of the next report out, which is after the interval when nothing comes between, ...
LEMMA InvHidReadTime == Inv /\ HidReadTime => Inv'
  <1> SUFFICES ASSUME Inv, HidReadTime PROVE Inv'
    OBVIOUS
  <1> DEFINE k    == First(request.id)
             d    == request.duration
             time == HidCalcNewReportTime(request.old, since[k], d)
  <1>1. TypeInv /\ Working /\ Paced /\ Told
    BY DEF Inv
  <1>2. /\ request.at = "time" /\ request' = [request EXCEPT !.at = "next", !.old = d, !.next = time]
        /\ UNCHANGED <<config, times, since, scan, looked, ready, value, age>>
    BY DEF HidReadTime
  <1>3. Reports' = Reports /\ (\A r : IdOf(r)' = IdOf(r)) /\ \A id : First(id)' = First(id)
    BY <1>2, Kept DEF config
  <1>4. /\ Interval \in Nat \ {0} /\ W \in Nat /\ Wide \in Nat /\ 2 * Wide < W /\ Interval <= Wide
        /\ Durations \subseteq Nat /\ \A x \in Durations : x <= Wide
    BY <1>1, Sizes
  <1>5. /\ request \in Requests /\ k \in Reports /\ IdOf(k) = request.id /\ d \in Durations
        /\ \A r \in Reports : IdOf(r) = request.id <=> r = k
    BY <1>1, <1>2, Worked DEF Requests
  <1>6. /\ period[k] \in Periods /\ since[k] \in 0..W-1 /\ age[k] \in 0..Interval
        /\ due \in [Reports -> 0..W-1]
    BY <1>1, <1>5 DEF TypeInv
  <1>7. Active(d) /\ request.old = period[k]
    BY <1>1, <1>2 DEF Working
  <1> HIDE DEF k
  <1>8. d \in Nat /\ d <= Wide /\ (d = 0 \/ Interval < d) /\ d \in Periods
    <2>1. d \in Nat /\ d <= Wide /\ (d = 0 \/ Interval < d)
      BY <1>4, <1>5, <1>7 DEF Active
    <2> QED
      BY <2>1, <1>4 DEF Periods
  <1>9. time \in 0..W-1
    <2>1. period[k] - since[k] \in Int /\ d - since[k] \in Int
      BY <1>4, <1>6, <1>8 DEF Periods
    <2> HIDE DEF d
    <2> QED
      BY <2>1, <1>4, <1>7, Clock DEF HidCalcNewReportTime
  <1>10. age[k] < Interval /\ since[k] = age[k] => d = 0 \/ Late(k, time)
    <2> SUFFICES ASSUME age[k] < Interval, since[k] = age[k], d # 0
                 PROVE  time \in (Interval - age[k])..Wide
      BY DEF Late
    <2>1. CASE NearEnd(period[k], since[k])
      <3>1. period[k] = since[k] + 1 /\ time = (period[k] - since[k]) % W
        BY <2>1, <1>6, <1>7 DEF NearEnd, HidCalcNewReportTime
      <3>2. period[k] - since[k] = 1 /\ period[k] \in Interval..Wide
        BY <3>1, <1>4, <1>6 DEF Periods
      <3>3. 1 \in 0..(W - 1)
        BY <1>4
      <3>4. time = 1
        BY <3>1, <3>2, <3>3, <1>4, Clock
      <3> HIDE DEF time, d
      <3> QED
        BY <3>1, <3>2, <3>4, <1>4, <1>6
    <2>2. CASE ~NearEnd(period[k], since[k])
      <3>1. time = (d - since[k]) % W
        BY <2>2, <1>7 DEF HidCalcNewReportTime
      <3> HIDE DEF time, d
      <3>2. d - since[k] \in 0..(W - 1) /\ d - since[k] \in (Interval - age[k])..Wide
        BY <1>4, <1>6, <1>8
      <3>3. time = d - since[k]
        BY <3>1, <3>2, <1>4, Clock
      <3> QED
        BY <3>2, <3>3
    <2> QED
      BY <2>1, <2>2
  <1> HIDE DEF time
  <1>11. /\ request'.at = "next" /\ request'.id = request.id /\ request'.duration = d
         /\ request'.start = request.start /\ request'.old = d /\ request'.next = time
         /\ request' \in Requests
    BY <1>2, <1>5, <1>8, <1>9 DEF Requests
  <1>12. TypeInv' /\ Told'
    BY <1>2, <1>6, <1>11, InvWorks DEF times
  <1>13. Working'
    BY <1>7, <1>11 DEF Working, Active
  <1>14. Paced'
    <2>1. \A r : Pace(r)' = Pace(r)
      BY <1>2, <1>11 DEF Pace, config, times
    <2>2. ASSUME NEW r \in Reports, age[r] < Interval, PacedAt(r) PROVE PacedAt(r)'
      <3>1. since[r] = age[r] /\ (Pace(r) = 0 \/ Late(r, due[r]))
        BY <2>2 DEF PacedAt
      <3>2. request'.id = IdOf(r) => d = 0 \/ Late(r, time)
        BY <2>2, <3>1, <1>5, <1>10, <1>11
      <3> QED
        BY <2>1, <3>1, <3>2, <1>2, <1>3, <1>11 DEF PacedAt, Late, times
    <2> QED
      BY <2>2, <1>1, <1>2, <1>3 DEF Paced, Closing
  <1> QED
    BY <1>12, <1>13, <1>14 DEF Inv

\* ... stores it ...
LEMMA InvHidSetNextTime == Inv /\ HidSetNextTime => Inv'
  <1> SUFFICES ASSUME Inv, HidSetNextTime PROVE Inv'
    OBVIOUS
  <1> DEFINE k == First(request.id)
             d == request.duration
  <1>1. TypeInv /\ Working /\ Paced /\ Told
    BY DEF Inv
  <1>2. /\ request.at = "next" /\ request' = [request EXCEPT !.at = "period"]
        /\ due' = [due EXCEPT ![k] = request.next] /\ looked' = FALSE
        /\ UNCHANGED <<config, period, idle, since, scan, ready, value, age>>
    BY DEF HidSetNextTime
  <1>3. Reports' = Reports /\ (\A r : IdOf(r)' = IdOf(r)) /\ \A id : First(id)' = First(id)
    BY <1>2, Kept DEF config
  <1>4. /\ request \in Requests /\ k \in Reports /\ IdOf(k) = request.id
        /\ \A r \in Reports : IdOf(r) = request.id <=> r = k
    BY <1>1, <1>2, Worked
  <1>5. due \in [Reports -> 0..W-1] /\ request.next \in 0..W-1 /\ request.old = d /\ Active(d)
    BY <1>1, <1>2, <1>4 DEF TypeInv, Requests, Working
  <1>6. due' \in [Reports -> 0..W-1]
        /\ \A r \in Reports : due'[r] = IF r = k THEN request.next ELSE due[r]
    BY <1>2, <1>5
  <1>7. /\ request'.at = "period" /\ request'.id = request.id /\ request'.duration = d
        /\ request'.start = request.start /\ request'.old = request.old
        /\ request' \in Requests
    BY <1>2, <1>4 DEF Requests
  <1>8. TypeInv' /\ Told'
    BY <1>2, <1>6, <1>7, InvWorks
  <1>9. Working'
    BY <1>5, <1>7 DEF Working, Active
  <1>10. Paced'
    <2>1. ASSUME NEW r \in Reports, PacedAt(r) PROVE PacedAt(r)'
      <3>1. since[r] = age[r] /\ (Pace(r) = 0 \/ Late(r, due[r]))
        BY <2>1 DEF PacedAt
      <3>2. CASE r # k
        <4>1. Pace(r)' = Pace(r) /\ due'[r] = due[r]
          BY <3>2, <1>2, <1>4, <1>6, <1>7 DEF Pace, config, IdOf
        <4> QED
          BY <3>1, <4>1, <1>2, <1>7 DEF PacedAt, Late
      <3>3. CASE r = k
        <4>1. Pace(r)' = d /\ due'[r] = request.next
          BY <3>3, <1>2, <1>4, <1>5, <1>6, <1>7 DEF Pace, config, IdOf
        <4>2. d = 0 \/ Late(r, request.next)
          BY <2>1, <3>3, <1>2, <1>4 DEF PacedAt
        <4> QED
          BY <3>1, <4>1, <4>2, <1>2, <1>7 DEF PacedAt, Late
      <3> QED
        BY <3>2, <3>3
    <2> QED
      BY <2>1, <1>1, <1>2, <1>3 DEF Paced, Closing
  <1> QED
    BY <1>8, <1>9, <1>10 DEF Inv

\* What the store of a period knows: the report, and the one that comes next.
LEMMA PeriodStored ==
  ASSUME TypeInv, HidSetPeriod
  PROVE  LET k == First(request.id)
             n == Len(descriptor.reports)
         IN  /\ request \in Requests /\ request.at = "period" /\ k \in Reports /\ IdOf(k) = request.id
             /\ n \in Nat /\ Reports = 1..n /\ period' = [period EXCEPT ![k] = request.old]
             /\ UNCHANGED <<config, idle, due, since, scan, ready, value, age>> /\ looked' = FALSE
             /\ request.start # 0 /\ request.start = IdOf(1) =>
                  request' = IF k = n THEN NoIdle
                             ELSE [request EXCEPT !.at = "idle", !.id = IdOf(k + 1), !.old = 0, !.next = 0]
             /\ request.start = 0 => request' = NoIdle
             /\ request' = NoIdle \/ \E j \in Reports : request' = [request EXCEPT !.at = "idle", !.id = IdOf(j), !.old = 0, !.next = 0]
  <1> DEFINE k == First(request.id)
             n == Len(descriptor.reports)
             j == IF k = n THEN 1 ELSE k + 1
             new == [request EXCEPT !.at = "idle", !.id = IdOf(j), !.old = 0, !.next = 0]
  <1>1. /\ request.at = "period" /\ period' = [period EXCEPT ![k] = request.old]
        /\ UNCHANGED <<config, idle, due, since, scan, ready, value, age>> /\ looked' = FALSE
        /\ request' = NextIdle(request.id)
    BY DEF HidSetPeriod
  <1>2. request \in Requests /\ k \in Reports /\ IdOf(k) = request.id
    <2>1. request # NoIdle
      BY <1>1 DEF NoIdle
    <2> QED
      BY <2>1, <1>1, Ids DEF TypeInv
  <1>3. n \in Nat \ {0} /\ Reports = 1..n
    BY Ids
  <1>4. hidGetNextValidReportId(descriptor, request.id) = IdOf(j)
    BY <1>2, Following
  <1>5. j \in Reports /\ 1 \in Reports
    <2> HIDE DEF n, k
    <2>1. k \in 1..n
      BY <1>2, <1>3 DEF k
    <2> QED
      BY <2>1, <1>3
  <1>6. request' = IF request.start = 0 \/ IdOf(j) = request.start THEN NoIdle ELSE new
    BY <1>1, <1>4 DEF NextIdle
  <1>7. IdOf(j) = IdOf(1) <=> j = 1
    <2>1. First(IdOf(j)) = j /\ First(IdOf(1)) = 1
      BY <1>5, Ids
    <2> HIDE DEF j
    <2> QED
      BY <2>1
  <1>8. j = 1 <=> k = n
    <2> HIDE DEF n, k
    <2>1. k \in 1..n /\ n \in Nat
      BY <1>2, <1>3 DEF k
    <2> QED
      BY <2>1
  <1>9. k # n => j = k + 1
    OBVIOUS
  <1>10. request' = NoIdle \/ request' = new
    BY <1>6
  <1>11. request.start # 0 /\ request.start = IdOf(1) =>
           request' = IF k = n THEN NoIdle ELSE [request EXCEPT !.at = "idle", !.id = IdOf(k + 1), !.old = 0, !.next = 0]
    <2> HIDE DEF k, n, j
    <2> QED
      BY <1>6, <1>7, <1>8, <1>9
  <1> QED
    BY <1>1, <1>2, <1>3, <1>5, <1>6, <1>10, <1>11

\* ... and at last the period.
LEMMA InvHidSetPeriod == Inv /\ HidSetPeriod => Inv'
  <1> SUFFICES ASSUME Inv, HidSetPeriod PROVE Inv'
    OBVIOUS
  <1> DEFINE k == First(request.id)
             n == Len(descriptor.reports)
  <1>1. TypeInv /\ Working /\ Paced /\ Told
    BY DEF Inv
  <1>2. /\ request \in Requests /\ request.at = "period" /\ k \in Reports /\ IdOf(k) = request.id
        /\ n \in Nat /\ Reports = 1..n /\ period' = [period EXCEPT ![k] = request.old]
        /\ UNCHANGED <<config, idle, due, since, scan, ready, value, age>> /\ looked' = FALSE
        /\ request.start # 0 /\ request.start = IdOf(1) =>
             request' = IF k = n THEN NoIdle ELSE [request EXCEPT !.at = "idle", !.id = IdOf(k + 1), !.old = 0, !.next = 0]
        /\ request.start = 0 => request' = NoIdle
        /\ request' = NoIdle \/ \E j \in Reports : request' = [request EXCEPT !.at = "idle", !.id = IdOf(j), !.old = 0, !.next = 0]
    BY <1>1, PeriodStored
  <1>3. Reports' = Reports /\ (\A r : IdOf(r)' = IdOf(r)) /\ \A id : First(id)' = First(id)
    BY <1>2, Kept DEF config
  <1>4. TypeInv'
    <2>1. period' \in [Reports -> Periods]
      <3>1. request.old \in Periods /\ period \in [Reports -> Periods]
        BY <1>1, <1>2 DEF Requests, TypeInv
      <3> QED
        BY <3>1, <1>2
    <2>2. /\ request' = NoIdle \/ request' \in Requests
          /\ request' # NoIdle => hidIsReportIdValid(descriptor, request'.id)
      <3>1. CASE request' = NoIdle
        BY <3>1
      <3>2. CASE \E j \in Reports : request' = [request EXCEPT !.at = "idle", !.id = IdOf(j), !.old = 0, !.next = 0]
        <4>1. PICK j \in Reports : request' = [request EXCEPT !.at = "idle", !.id = IdOf(j), !.old = 0, !.next = 0]
          BY <3>2
        <4>2. IdOf(j) \in Nat /\ hidIsReportIdValid(descriptor, IdOf(j)) /\ 0 \in 0..W-1
          BY <1>1, Ids, Sizes
        <4> QED
          BY <4>1, <4>2, <1>2 DEF Requests, Periods
      <3> QED
        BY <3>1, <3>2, <1>2
    <2> QED
      BY <2>1, <2>2, <1>1, <1>2, <1>3 DEF TypeInv, config
  <1>5. request'.at \in {"none", "idle"}
    <2>1. NoIdle.at = "none"
      BY DEF NoIdle
    <2>2. \A j : [request EXCEPT !.at = "idle", !.id = IdOf(j), !.old = 0, !.next = 0].at = "idle"
      BY <1>2 DEF Requests
    <2> QED
      BY <2>1, <2>2, <1>2
  <1>6. Paced'
    <2>1. ASSUME NEW r \in Reports PROVE Pace(r)' = Pace(r)
      <3>1. Pace(r)' = period'[r]
        BY <1>5 DEF Pace
      <3>2. period'[r] = IF r = k THEN request.old ELSE period[r]
        BY <1>1, <1>2 DEF TypeInv
      <3>3. IdOf(r) = request.id <=> r = k
        BY <1>1, <1>2, Ids
      <3> QED
        BY <3>1, <3>2, <3>3, <1>2 DEF Pace, IdOf
    <2>2. \A r \in Reports : PacedAt(r) => PacedAt(r)'
      BY <2>1, <1>2, <1>5 DEF PacedAt, Late
    <2> QED
      BY <2>2, <1>1, <1>2, <1>3 DEF Paced, Closing
  <1>7. Told'
    <2> SUFFICES ASSUME request'.start # 0
                 PROVE  /\ request'.start = IdOf(1)
                        /\ \A r \in Reports : r < First(request'.id) \/ (r = First(request'.id) /\ request'.at # "idle")
                             => idle[r] = Active(request'.duration)
      BY <1>2, <1>3 DEF Told, Active
    <2>1. request' # NoIdle
      BY DEF NoIdle
    <2>2. request.start # 0
      BY <2>1, <1>2
    <2>3. request.start = IdOf(1) /\ \A r \in Reports : r < k \/ r = k => idle[r] = Active(request.duration)
      BY <2>2, <1>1, <1>2 DEF Told
    <2>4. k # n /\ request' = [request EXCEPT !.at = "idle", !.id = IdOf(k + 1), !.old = 0, !.next = 0]
      BY <2>1, <2>2, <2>3, <1>2
    <2>5. /\ request'.start = request.start /\ request'.duration = request.duration
          /\ request'.at = "idle" /\ request'.id = IdOf(k + 1)
      BY <2>4, <1>2 DEF Requests
    <2>6. First(IdOf(k + 1)) = k + 1
      <3>1. k + 1 \in Reports
        <4>1. k \in 1..n /\ n \in Nat /\ Reports = 1..n /\ k # n
          BY <2>4, <1>2
        <4> HIDE DEF k, n
        <4> QED
          BY <4>1
      <3> QED
        BY <3>1, <1>1, Ids
    <2>7. \A r \in Reports : r < k + 1 => r < k \/ r = k
      <3>1. k \in 1..n /\ n \in Nat /\ Reports = 1..n
        BY <1>2
      <3> HIDE DEF k, n
      <3> QED
        BY <3>1
    <2> QED
      BY <2>3, <2>5, <2>6, <2>7
  <1>8. Working'
    BY <1>5 DEF Working
  <1> QED
    BY <1>4, <1>6, <1>7, <1>8 DEF Inv

\* Every step keeps the invariant.
LEMMA InvNext == Inv /\ [Next]_vars => Inv'
  <1>1. Inv /\ UNCHANGED vars => Inv'
    <2> SUFFICES ASSUME Inv, UNCHANGED vars PROVE Inv'
      OBVIOUS
    <2>1. TypeInv /\ Working /\ Paced /\ Told
      BY DEF Inv
    <2>2. Still /\ UNCHANGED <<scan, looked, ready, value>>
      BY DEF Still, vars, config, times
    <2>3. First(ready.id)' = First(ready.id)
      BY <2>2, Kept DEF Still
    <2>4. TypeInv'
      BY <2>1, <2>2, <2>3 DEF TypeInv, Still, Reports
    <2> QED
      BY <2>1, <2>2, <2>4, StillPaced DEF Inv
  <1>2. Inv /\ Buffer => Inv'
    BY InvLook, InvCalc DEF Buffer
  <1>3. Inv /\ Endpoint0 => Inv'
    BY InvEdits, InvHidSetIdle, InvHidReadTime, InvHidSetNextTime, InvHidSetPeriod DEF Endpoint0
  <1> QED
    BY <1>1, <1>2, <1>3, InvEdits, InvTick, InvTaken, InvSetIdle DEF Next

\* The inductive invariant, for every set of descriptors, interval, clock and set of durations.
LEMMA InvHolds == Spec => []Inv
  <1>1. Inv /\ [Next]_vars => Inv'
    BY InvNext
  <1> QED
    BY <1>1, InvInit, PTL DEF Spec

\* NoFlood: an unchanged report is not offered sooner after the last than the endpoint's interval,
\* however SET_IDLE requests have moved its time: except one whose next time both tasks have worked
\* out at once, and one a request silences for ever when its period has been read already.
THEOREM NeverFloods == Spec => NoFlood
  <1> DEFINE Paces == ready = None /\ ready' # None
                        => \/ pending[ready'.report] \/ age[ready'.report] = Interval
                           \/ Pace(ready'.report) = 0
  <1>1. ASSUME Inv, [Next]_vars PROVE [Paces]_vars
    <2> SUFFICES ASSUME ready = None, ready' # None,
                        ~pending[ready'.report], Pace(ready'.report) # 0
                 PROVE  age[ready'.report] = Interval
      OBVIOUS
    <2>1. TypeInv /\ Paced
      BY <1>1 DEF Inv
    <2>2. LookPending \/ LookIdle \/ LookPeriod \/ LookTime
      BY <1>1 DEF Next, vars, Tick, HidReportTaken, App, hidSetChangePending, StoreItem, Endpoint0, BootPrepare,
                  BootMeasure, Prepare, HidSetIdle, HidReadTime, HidSetNextTime, HidSetPeriod, Rest,
                  Edit, hidSetReportItem, hidResetReportDescriptor, hidPrepareReportDescriptor, Change, SetIdle,
                  Buffer, WaitPrepared, hidCalcNextReportTime, hidClearChangePending
    <2> DEFINE r == First(scan.id)
    <2>3. ready'.report = r
      BY <2>2 DEF LookPending, LookIdle, LookPeriod, LookTime, Look, GoOn, Offer
    <2>4. LookTime /\ ~timeafter(due[r]) /\ scan.at = "time"
      BY <2>2, <2>3 DEF LookPending, LookIdle, LookPeriod, LookTime, Look, GoOn
    <2>5. r \in Reports
      BY <2>1, <2>4, Ids DEF TypeInv
    <2>6. age[r] \in 0..Interval /\ Interval \in Nat \ {0} /\ Wide \in Nat
      BY <2>1, <2>5, Sizes DEF TypeInv
    <2>7. ~(age[r] < Interval)
      <3> SUFFICES ASSUME age[r] < Interval PROVE FALSE
        OBVIOUS
      <3>1. due[r] \in (Interval - age[r])..Wide
        BY <2>1, <2>3, <2>4, <2>5 DEF Paced, Closing, PacedAt, Late
      <3>2. due[r] \in 1..Wide
        BY <3>1, <2>6
      <3> QED
        BY <3>2, <2>4 DEF timeafter, Wide
    <2> QED
      BY <2>3, <2>6, <2>7
  <1> QED
    BY <1>1, InvHolds, PTL DEF Spec, NoFlood

\* AllTold: when a SET_IDLE request for all the reports is over, every one of them has been told.
THEOREM AllAreTold == Spec => AllTold
  <1> DEFINE Tells == \A r \in Reports : request.start # 0 /\ request' = NoIdle
                        => idle'[r] = Active(request.duration)
  <1>1. ASSUME Inv, [Next]_vars PROVE [Tells]_vars
    <2> SUFFICES ASSUME request.start # 0, request' = NoIdle
                 PROVE  \A r \in Reports : idle'[r] = Active(request.duration)
      OBVIOUS
    <2>1. TypeInv /\ Told
      BY <1>1 DEF Inv
    <2>2. request # NoIdle
      BY DEF NoIdle
    <2>3. /\ HidSetIdle => request'.at # "none"
          /\ HidReadTime => request'.at # "none"
          /\ HidSetNextTime => request'.at # "none"
      BY <2>1, <2>2 DEF HidSetIdle, HidReadTime, HidSetNextTime, TypeInv, Requests
    <2>4. ~HidSetIdle /\ ~HidReadTime /\ ~HidSetNextTime
      BY <2>3 DEF NoIdle
    <2>5. HidSetPeriod
      BY <1>1, <2>2, <2>4 DEF Next, vars, Tick, HidReportTaken, App, hidSetChangePending, StoreItem, Endpoint0,
                  BootPrepare, BootMeasure, Prepare, Rest,
                  Edit, hidSetReportItem, hidResetReportDescriptor, hidPrepareReportDescriptor, Change, SetIdle,
                  Buffer, WaitPrepared, hidCalcNextReportTime, hidClearChangePending,
                  LookPending, LookIdle, LookPeriod, LookTime, Look, Offer, GoOn
    <2> DEFINE k == First(request.id)  n == Len(descriptor.reports)
    <2>6. /\ request.at = "period" /\ Reports = 1..n /\ n \in Nat /\ k \in Reports /\ UNCHANGED idle
          /\ request.start = IdOf(1) =>
               request' = IF k = n THEN NoIdle ELSE [request EXCEPT !.at = "idle", !.id = IdOf(k + 1), !.old = 0, !.next = 0]
          /\ request \in Requests
      BY <2>1, <2>5, PeriodStored
    <2>7. request.start = IdOf(1) /\ \A r \in Reports : r < k \/ r = k => idle[r] = Active(request.duration)
      BY <2>1, <2>6 DEF Told
    <2>8. k = n
      <3> SUFFICES ASSUME k # n PROVE FALSE
        OBVIOUS
      <3>1. request'.start = request.start
        BY <2>6, <2>7 DEF Requests
      <3> QED
        BY <3>1 DEF NoIdle
    <2> HIDE DEF k, n
    <2> QED
      BY <2>6, <2>7, <2>8
  <1> QED
    BY <1>1, InvHolds, PTL DEF Spec, AllTold

(***************************************************************************)
(* What the host finds in a descriptor that hidReportValidate accepts.     *)
(***************************************************************************)
\* A set that holds 0, and with the number before it each one up to n, holds all of them.
LEMMA Induction ==
  ASSUME NEW n \in Nat, NEW S, 0 \in S, \A i \in 1..n : i - 1 \in S => i \in S
  PROVE  \A i \in 0..n : i \in S
  <1> DEFINE Missing == {i \in Nat : i <= n /\ i \notin S}
             R == OpToRel(<, Nat)
  <1> SUFFICES ASSUME Missing # {} PROVE FALSE
    OBVIOUS
  <1>1. IsWellFoundedOn(R, Nat) /\ Missing \subseteq Nat
    BY NatLessThanWellFounded
  <1>2. ASSUME NEW i \in Nat, NEW j \in Nat, i < j PROVE <<i, j>> \in R
    BY <1>2, SMT DEF OpToRel
  <1> HIDE DEF R
  <1>3. PICK j \in Missing : \A i \in Missing : ~ (<<i, j>> \in R)
    BY <1>1, WFMin
  <1>4. j \in Nat /\ j <= n /\ j \notin S /\ j # 0
    BY <1>3
  <1>5. j \in 1..n /\ j - 1 \in Nat /\ j - 1 <= n /\ j - 1 < j
    BY <1>4
  <1>6. j - 1 \in S
    BY <1>2, <1>3, <1>4, <1>5
  <1> QED
    BY <1>4, <1>5, <1>6

\* A function that begins at "start" and goes on by the steps
StepsFrom(f, S, n, start, step) ==
  f \in [0..n -> S] /\ f[0] = start /\ \A i \in 1..n : f[i] = step[i][f[i - 1]]

\* A function of 0..n may be defined by where it starts and the step it takes at each number.
LEMMA Recursion ==
  ASSUME NEW S, NEW n \in Nat, NEW start \in S, NEW step \in [1..n -> [S -> S]]
  PROVE  \E f : StepsFrom(f, S, n, start, step)
  <1> DEFINE Solves(f, k) == f[0] = start /\ \A i \in 1..k : f[i] = step[i][f[i - 1]]
             Solved == {k \in Nat : \E f \in [0..k -> S] : Solves(f, k)}
  <1>1. 0 \in Solved
    <2> DEFINE f == [i \in 0..0 |-> start]
    <2>1. f \in [0..0 -> S] /\ Solves(f, 0)
      OBVIOUS
    <2> QED
      BY <2>1
  <1>2. ASSUME NEW k \in 1..n, k - 1 \in Solved PROVE k \in Solved
    <2>1. PICK f \in [0..k - 1 -> S] : Solves(f, k - 1)
      BY <1>2
    <2> DEFINE g == [i \in 0..k |-> IF i = k THEN step[k][f[k - 1]] ELSE f[i]]
    <2>2. f[k - 1] \in S /\ step[k] \in [S -> S]
      OBVIOUS
    <2>3. g \in [0..k -> S]
      BY <2>2
    <2>4. ASSUME NEW i \in 1..k PROVE g[i] = step[i][g[i - 1]]
      <3>1. CASE i = k
        BY <3>1
      <3>2. CASE i # k
        <4>1. i \in 1..k - 1 /\ i - 1 # k /\ i - 1 \in 0..k
          BY <3>2
        <4>2. f[i] = step[i][f[i - 1]]
          BY <2>1, <4>1
        <4> QED
          BY <3>2, <4>1, <4>2
      <3> QED
        BY <3>1, <3>2
    <2>5. g[0] = start
      BY <2>1
    <2> HIDE DEF g
    <2> QED
      BY <2>3, <2>4, <2>5
  <1>3. n \in Solved
    <2> HIDE DEF Solved
    <2>1. \A k \in 0..n : k \in Solved
      BY <1>1, <1>2, Induction
    <2> QED
      BY <2>1
  <1>4. PICK f \in [0..n -> S] : Solves(f, n)
    BY <1>3
  <1> QED
    BY <1>4 DEF StepsFrom

\* The domain and the elements of a sequence
LEMMA Elements ==
  ASSUME NEW T, NEW s \in Seq(T)
  PROVE  Len(s) \in Nat /\ DOMAIN s = 1..Len(s) /\ \A i \in 1..Len(s) : s[i] \in T
  OBVIOUS

Items  == [tag : STRING, size : Nat, data : Nat, element : Nat]
Places == [id : Nat, byte : Nat, bit : 0..7]
Shapes == [id : Nat, length : Nat, page : Nat]
Infos(d) ==
  [good : BOOLEAN, open : Nat, count : 0..Len(d.reports), report : 1..Len(d.reports),
   element : Nat, ids : [1..Len(d.reports) -> Nat], pages : [1..Len(d.reports) -> Nat],
   size : Nat, fields : Nat, offset : Nat]

\* The parts of a descriptor
LEMMA Parts ==
  ASSUME NEW d \in Descriptors
  PROVE  /\ Len(d.items) \in Nat /\ DOMAIN d.items = 1..Len(d.items)
         /\ \A i \in 1..Len(d.items) : d.items[i] \in Items
         /\ Len(d.elements) \in Nat /\ DOMAIN d.elements = 1..Len(d.elements)
         /\ \A e \in 1..Len(d.elements) : d.elements[e] \in Places
         /\ Len(d.reports) \in Nat \ {0} /\ DOMAIN d.reports = 1..Len(d.reports)
         /\ \A r \in 1..Len(d.reports) : d.reports[r] \in Shapes
  <1>1. /\ d.items \in Seq(Items) /\ d.elements \in Seq(Places)
        /\ d.reports \in Seq(Shapes) /\ d.reports # <<>>
    BY DescriptorsAssumption, Zenon DEF Items, Places, Shapes
  <1>2. ASSUME NEW s \in Seq(Shapes), s # <<>> PROVE Len(s) # 0
    BY <1>2
  <1>3. Len(d.reports) # 0
    BY <1>1, <1>2, Zenon
  <1>4. /\ Len(d.items) \in Nat /\ DOMAIN d.items = 1..Len(d.items)
        /\ \A i \in 1..Len(d.items) : d.items[i] \in Items
    BY <1>1, Elements, Zenon
  <1>5. /\ Len(d.elements) \in Nat /\ DOMAIN d.elements = 1..Len(d.elements)
        /\ \A i \in 1..Len(d.elements) : d.elements[i] \in Places
    BY <1>1, Elements, Zenon
  <1>6. /\ Len(d.reports) \in Nat /\ DOMAIN d.reports = 1..Len(d.reports)
        /\ \A i \in 1..Len(d.reports) : d.reports[i] \in Shapes
    BY <1>1, Elements, Zenon
  <1> QED
    BY <1>3, <1>4, <1>5, <1>6, Zenon

\* What a Report ID item adds to what has been seen: the report before it is closed ...
IdAdds(d, info, item, new) ==
  new.good =>
    /\ info.count < Len(d.reports)
    /\ IF info.count = 0 THEN info.offset = 0 ELSE LengthRight(d, info)
    /\ new.count = info.count + 1 /\ new.report = info.count + 1
    /\ new.ids = [info.ids EXCEPT ![info.count + 1] = item.data]
    /\ new.size = info.size /\ new.fields = info.fields
    /\ new.offset = 0 /\ new.element = info.element

\* ... and what any other item adds.
NextElement(d, info, item) ==
  item.tag = "usage" /\ info.element < Len(d.elements) /\ item.element = info.element + 1
Here(info) == [id |-> info.ids[info.report], byte |-> info.offset \div 8, bit |-> info.offset % 8]
Adds(d, info, item, new) ==
  /\ new.count = info.count /\ new.report = info.report /\ new.ids = info.ids
  /\ new.size = IF item.tag = "size" THEN item.data ELSE info.size
  /\ new.fields = IF item.tag = "count" THEN item.data ELSE info.fields
  /\ new.offset = IF item.tag = "input" THEN info.offset + info.size * info.fields ELSE info.offset
  /\ new.element = IF NextElement(d, info, item) THEN info.element + 1 ELSE info.element
  /\ new.good /\ NextElement(d, info, item) => d.elements[item.element] = Here(info)

\* The first of these for a Report ID item
LEMMA IdAdded ==
  ASSUME NEW d \in Descriptors, NEW info \in Infos(d), info.good, NEW item \in Items, item.tag = "id"
  PROVE  AddItem(d, info, item) \in Infos(d) /\ IdAdds(d, info, item, AddItem(d, info, item))
  <1> DEFINE n == Len(d.reports)
             new == AddItem(d, info, item)
             apart == IF info.count = 0 THEN info.offset = 0 ELSE LengthRight(d, info)
             ids == [info.ids EXCEPT ![info.count + 1] = item.data]
             pages == IF info.count = 0 THEN [info.pages EXCEPT ![1] = 0] ELSE info.pages
             k == info.count + 1
             next == [info EXCEPT !.ids = ids, !.pages = pages, !.report = k, !.count = k, !.offset = 0]
             Type == [good : BOOLEAN, open : Nat, count : 0..n, report : 1..n, element : Nat,
                      ids : [1..n -> Nat], pages : [1..n -> Nat], size : Nat, fields : Nat, offset : Nat]
  <1>1. n \in Nat \ {0} /\ info \in Type /\ Infos(d) = Type /\ item.data \in Nat
    BY Parts DEF Infos, Items
  <1>2. new = AddReportId(d, info, item)
    BY Zenon DEF AddItem
  <1>3. new = IF apart /\ item.size = 1 /\ info.count < n THEN next ELSE [info EXCEPT !.good = FALSE]
    BY <1>2 DEF AddReportId
  <1> HIDE DEF new, n, ids, pages, k
  <1>4. CASE apart /\ item.size = 1 /\ info.count < n
    <2> HIDE DEF apart
    <2>1. new = next
      BY <1>3, <1>4
    <2>2. ids \in [1..n -> Nat] /\ pages \in [1..n -> Nat]
      BY <1>1 DEF ids, pages
    <2> k \in 0..n /\ k \in 1..n /\ 0 \in Nat
      <3>1. info.count \in 0..n /\ n \in Nat \ {0}
        BY <1>1
      <3> QED
        BY <3>1, <1>4 DEF k
    <2>3. next \in Type
      BY <1>1, <2>2
    <2>4. /\ next.count = k /\ next.report = k /\ next.ids = ids
          /\ next.size = info.size /\ next.fields = info.fields
          /\ next.offset = 0 /\ next.element = info.element
      BY <1>1
    <2> HIDE DEF next, Type
    <2>5. new \in Infos(d)
      BY <1>1, <2>1, <2>3
    <2>6. IdAdds(d, info, item, new)
      BY <1>4, <2>1, <2>4, Zenon DEF IdAdds, apart, ids, n, k
    <2> QED
      BY <2>5, <2>6 DEF new
  <1>5. CASE ~(apart /\ item.size = 1 /\ info.count < n)
    <2> HIDE DEF apart, next
    <2>1. new = [info EXCEPT !.good = FALSE]
      BY <1>3, <1>5
    <2>2. new \in Infos(d) /\ ~new.good
      BY <1>1, <2>1
    <2> QED
      BY <2>2, Zenon DEF IdAdds, new
  <1> QED
    BY <1>4, <1>5

\* The second for every other item
LEMMA ItemAdded ==
  ASSUME NEW d \in Descriptors, NEW info \in Infos(d), NEW item \in Items, item.tag # "id"
  PROVE  AddItem(d, info, item) \in Infos(d) /\ Adds(d, info, item, AddItem(d, info, item))
  <1> DEFINE n == Len(d.reports)
             new == AddItem(d, info, item)
             next == NextElement(d, info, item)
             Type == [good : BOOLEAN, open : Nat, count : 0..n, report : 1..n, element : Nat,
                      ids : [1..n -> Nat], pages : [1..n -> Nat], size : Nat, fields : Nat, offset : Nat]
             Right == new \in Infos(d) /\ Adds(d, info, item, new)
  <1>1. n \in Nat \ {0} /\ info \in Type /\ Infos(d) = Type /\ item.data \in Nat
    BY Parts DEF Infos, Items
  <1>2. item.tag # "usage" => ~next
    BY DEF NextElement
  <1> SUFFICES Right
    OBVIOUS
  <1> HIDE DEF n
  <1>3. CASE item.tag = "input"
    <2> DEFINE more == info.size * info.fields
    <2>1. new = [info EXCEPT !.offset = @ + more]
      BY <1>3 DEF AddItem
    <2>2. more \in Nat
      BY SMTT(30), <1>1
    <2> HIDE DEF more
    <2> DEFINE offset == info.offset + more
    <2>3. new = [info EXCEPT !.offset = offset] /\ offset \in Nat
      BY <1>1, <2>1, <2>2
    <2> HIDE DEF new, next, offset
    <2>4. new \in Type
      BY <1>1, <2>3
    <2>5. /\ new.count = info.count /\ new.report = info.report /\ new.ids = info.ids
          /\ new.size = info.size /\ new.fields = info.fields
          /\ new.offset = offset /\ new.element = info.element
      BY <1>1, <2>3
    <2> QED
      BY <1>1, <1>2, <1>3, <2>4, <2>5 DEF Adds, more, offset, next
  <1>4. CASE item.tag = "collection"
    <2> DEFINE open == info.open + 1
    <2>1. new = [info EXCEPT !.open = open] /\ open \in Nat
      BY <1>1, <1>4 DEF AddItem
    <2> HIDE DEF new, next, open
    <2>2. new \in Type
      BY <1>1, <2>1
    <2>3. /\ new.count = info.count /\ new.report = info.report /\ new.ids = info.ids
          /\ new.size = info.size /\ new.fields = info.fields
          /\ new.offset = info.offset /\ new.element = info.element
      BY <1>1, <2>1
    <2> QED
      BY <1>1, <1>2, <1>4, <2>2, <2>3 DEF Adds, next
  <1>5. CASE item.tag = "end"
    <2>1. new = [info EXCEPT !.good = info.open > 0, !.open = IF @ > 0 THEN @ - 1 ELSE 0]
      BY <1>5 DEF AddItem
    <2> DEFINE open == IF info.open > 0 THEN info.open - 1 ELSE 0
               good == info.open > 0
    <2>2. open \in Nat /\ good \in BOOLEAN
      BY SMTT(30), <1>1
    <2>3. new = [info EXCEPT !.good = good, !.open = open]
      BY <2>1
    <2> HIDE DEF new, next, open, good
    <2>4. new \in Type
      BY <1>1, <2>2, <2>3
    <2>5. /\ new.count = info.count /\ new.report = info.report /\ new.ids = info.ids
          /\ new.size = info.size /\ new.fields = info.fields
          /\ new.offset = info.offset /\ new.element = info.element
      BY <1>1, <2>3
    <2> QED
      BY <1>1, <1>2, <1>5, <2>4, <2>5 DEF Adds, next
  <1>6. CASE item.tag = "size"
    <2>1. new = [info EXCEPT !.size = item.data]
      BY <1>6 DEF AddItem
    <2> HIDE DEF new, next
    <2>2. new \in Type
      BY <1>1, <2>1
    <2>3. /\ new.count = info.count /\ new.report = info.report /\ new.ids = info.ids
          /\ new.size = item.data /\ new.fields = info.fields
          /\ new.offset = info.offset /\ new.element = info.element
      BY <1>1, <2>1
    <2> QED
      BY <1>1, <1>2, <1>6, <2>2, <2>3 DEF Adds, next
  <1>7. CASE item.tag = "count"
    <2>1. new = [info EXCEPT !.fields = item.data]
      BY <1>7 DEF AddItem
    <2> HIDE DEF new, next
    <2>2. new \in Type
      BY <1>1, <2>1
    <2>3. /\ new.count = info.count /\ new.report = info.report /\ new.ids = info.ids
          /\ new.size = info.size /\ new.fields = item.data
          /\ new.offset = info.offset /\ new.element = info.element
      BY <1>1, <2>1
    <2> QED
      BY <1>1, <1>2, <1>7, <2>2, <2>3 DEF Adds, next
  <1>8. CASE item.tag = "page"
    <2> DEFINE pages == [info.pages EXCEPT ![info.report] = item.data]
    <2>1. new = AddUsagePage(info, item)
      BY <1>8 DEF AddItem
    <2>2. new = info \/ new = [info EXCEPT !.good = FALSE] \/ new = [info EXCEPT !.pages = pages]
      BY <2>1 DEF AddUsagePage
    <2>3. pages \in [1..n -> Nat]
      BY <1>1
    <2> HIDE DEF new, next, pages
    <2>4. new \in Type
      BY <1>1, <2>2, <2>3
    <2>5. /\ new.count = info.count /\ new.report = info.report /\ new.ids = info.ids
          /\ new.size = info.size /\ new.fields = info.fields
          /\ new.offset = info.offset /\ new.element = info.element
      BY <1>1, <2>2
    <2> QED
      BY <1>1, <1>2, <1>8, <2>4, <2>5 DEF Adds, next
  <1>9. CASE item.tag = "usage"
    <2> DEFINE same == d.elements[item.element] = Here(info)
    <2>1. new = AddUsage(d, info, item)
      BY <1>9 DEF AddItem
    <2>2. IF next THEN new = [info EXCEPT !.good = same, !.element = info.element + 1] ELSE new = info
      BY <2>1, <1>9 DEF AddUsage, NextElement, Here
    <2>3. same \in BOOLEAN
      OBVIOUS
    <2> DEFINE k == info.element + 1
    <2> k \in Nat
      BY SMTT(30), <1>1
    <2> HIDE DEF new, next, same
    <2>4. /\ new \in Type /\ new.count = info.count /\ new.report = info.report /\ new.ids = info.ids
          /\ new.size = info.size /\ new.fields = info.fields /\ new.offset = info.offset
          /\ new.element = IF next THEN info.element + 1 ELSE info.element
          /\ next => new.good = same
      <3>1. CASE next
        <4>1. new = [info EXCEPT !.good = same, !.element = k]
          BY <2>2, <3>1
        <4> HIDE DEF k
        <4>2. new \in Type
          BY <1>1, <2>3, <4>1
        <4>3. /\ new.count = info.count /\ new.report = info.report /\ new.ids = info.ids
              /\ new.size = info.size /\ new.fields = info.fields /\ new.offset = info.offset
              /\ new.element = k /\ new.good = same
          BY <1>1, <4>1
        <4> QED
          BY <3>1, <4>2, <4>3, Zenon DEF k
      <3>2. CASE ~next
        BY <1>1, <2>2, <3>2, Zenon
      <3> QED
        BY <3>1, <3>2
    <2> HIDE DEF Type
    <2>5. new \in Infos(d)
      BY <1>1, <2>4
    <2>6. Adds(d, info, item, new)
      BY <1>9, <2>4 DEF Adds, next, same
    <2> QED
      BY <2>5, <2>6
  <1>10. CASE item.tag \notin {"collection", "end", "input", "size", "count", "id", "page", "usage"}
    <2>1. new = info
      BY <1>10 DEF AddItem
    <2> HIDE DEF new, next
    <2> QED
      BY <1>1, <1>2, <1>10, <2>1 DEF Adds, next
  <1> QED
    BY <1>3, <1>4, <1>5, <1>6, <1>7, <1>8, <1>9, <1>10

\* What the pass begins with
Start(d) ==
  [good |-> TRUE, open |-> 0, count |-> 0, report |-> 1, element |-> 0,
   ids |-> [i \in DOMAIN d.reports |-> 0], pages |-> [i \in DOMAIN d.reports |-> 0],
   size |-> 0, fields |-> 0, offset |-> 0]
Advance(d, info, item) == IF info.good THEN AddItem(d, info, item) ELSE info
Passes(d, f) ==
  f = [i \in 0..Len(d.items) |-> IF i = 0 THEN Start(d) ELSE Advance(d, f[i - 1], d.items[i])]

\* The pass begins there and goes on item by item.
LEMMA PassTaken ==
  ASSUME NEW d \in Descriptors
  PROVE  /\ Pass(d) \in [0..Len(d.items) -> Infos(d)] /\ Pass(d)[0] = Start(d)
         /\ \A i \in 1..Len(d.items) : Pass(d)[i] = Advance(d, Pass(d)[i - 1], d.items[i])
  <1> DEFINE n == Len(d.items)
             step == [i \in 1..n |-> [info \in Infos(d) |-> Advance(d, info, d.items[i])]]
             g == CHOOSE f : Passes(d, f)
  <1>1. n \in Nat /\ \A i \in 1..n : d.items[i] \in Items
    BY Parts
  <1>2. Start(d) \in Infos(d)
    BY Parts DEF Start, Infos
  <1>3. ASSUME NEW i \in 1..n, NEW info \in Infos(d) PROVE Advance(d, info, d.items[i]) \in Infos(d)
    <2>1. d.items[i] \in Items
      BY <1>1
    <2> QED
      BY <2>1, IdAdded, ItemAdded, Zenon DEF Advance
  <1>4. step \in [1..n -> [Infos(d) -> Infos(d)]]
    BY <1>3
  <1>5. Pass(d) = g
    BY DEF Pass, Passes, Start, Advance
  <1>6. PICK f : StepsFrom(f, Infos(d), n, Start(d), step)
    <2> HIDE DEF step, n, g
    <2> QED
      BY <1>1, <1>2, <1>4, Recursion
  <1> f \in [0..n -> Infos(d)] /\ f[0] = Start(d) /\ \A i \in 1..n : f[i] = step[i][f[i - 1]]
    BY <1>6, Zenon DEF StepsFrom
  <1>7. ASSUME NEW i \in 1..n PROVE f[i] = Advance(d, f[i - 1], d.items[i])
    <2>1. i - 1 \in 0..n
      BY <1>1
    <2>2. f[i - 1] \in Infos(d) /\ f[i] = step[i][f[i - 1]]
      BY <1>6, <2>1
    <2> QED
      BY <2>2
  <1>8. Passes(d, f)
    <2> DEFINE h == [i \in 0..n |-> IF i = 0 THEN Start(d) ELSE Advance(d, f[i - 1], d.items[i])]
    <2>1. \A i \in 0..n : i = 0 \/ i \in 1..n
      BY <1>1
    <2>2. \A i \in 0..n : h[i] = f[i]
      BY <1>6, <1>7, <2>1
    <2>3. h = f
      BY <2>2, <1>6
    <2> QED
      BY <2>3 DEF Passes
  <1>9. Passes(d, g)
    BY <1>8, Zenon
  <1> HIDE DEF g, step
  <1>10. g[0] = Start(d) /\ \A i \in 1..n : g[i] = Advance(d, g[i - 1], d.items[i])
    <2> 0 \in 0..n /\ \A i \in 1..n : i \in 0..n /\ i # 0
      BY <1>1
    <2> HIDE DEF n
    <2> QED
      BY <1>9, Zenon DEF Passes, n
  <1> DEFINE Typed == {i \in 0..n : g[i] \in Infos(d)}
  <1>11. 0 \in Typed
    BY <1>1, <1>2, <1>10
  <1>12. ASSUME NEW i \in 1..n, i - 1 \in Typed PROVE i \in Typed
    BY <1>1, <1>3, <1>10, <1>12
  <1>13. \A i \in 0..n : i \in Typed
    <2> HIDE DEF Typed, n
    <2> QED
      BY <1>1, <1>11, <1>12, Induction
  <1>14. g \in [0..n -> Infos(d)]
    BY <1>9, <1>13 DEF Passes
  <1> QED
    BY <1>5, <1>10, <1>14

Accepted == descriptor \in Descriptors /\ hidReportValidate(descriptor)
LastItem     == Len(descriptor.items)
At(i)    == Pass(descriptor)[i]

\* Nothing the validation sees of an accepted descriptor is wrong.
LEMMA AllGood ==
  ASSUME Accepted
  PROVE  LastItem \in Nat /\ \A i \in 0..LastItem : At(i) \in Infos(descriptor) /\ At(i).good
  <1>1. descriptor \in Descriptors /\ Seen(descriptor).good /\ LastItem \in Nat
    BY Parts DEF Accepted, hidReportValidate, LastItem
  <1>2. At(LastItem).good
    BY <1>1 DEF Seen, At, LastItem
  <1>3. /\ Pass(descriptor) \in [0..LastItem -> Infos(descriptor)]
        /\ \A i \in 1..LastItem : At(i) = Advance(descriptor, At(i - 1), descriptor.items[i])
    BY <1>1, PassTaken DEF At, LastItem
  <1> DEFINE Good == {k \in 0..LastItem : At(LastItem - k).good}
  <1>4. 0 \in Good
    <2>1. LastItem - 0 = LastItem /\ 0 \in 0..LastItem
      BY <1>1
    <2> QED
      BY <1>2, <2>1
  <1>5. ASSUME NEW k \in 1..LastItem, k - 1 \in Good PROVE k \in Good
    <2> DEFINE i == LastItem - k + 1
    <2>1. i \in 1..LastItem /\ i - 1 = LastItem - k /\ i = LastItem - (k - 1) /\ k \in 0..LastItem
      BY <1>1
    <2>2. At(i).good
      BY <1>5, <2>1
    <2> HIDE DEF i
    <2>3. At(i - 1).good
      BY <1>3, <2>1, <2>2 DEF Advance
    <2> QED
      BY <2>1, <2>3
  <1>6. \A k \in 0..LastItem : k \in Good
    <2> HIDE DEF Good
    <2> QED
      BY <1>1, <1>4, <1>5, Induction
  <1>7. ASSUME NEW i \in 0..LastItem PROVE At(i).good
    <2>1. LastItem - i \in 0..LastItem /\ LastItem - (LastItem - i) = i
      BY <1>1
    <2>2. LastItem - i \in Good
      BY <1>6, <2>1
    <2>3. At(LastItem - (LastItem - i)).good
      BY <2>2
    <2> QED
      BY <2>1, <2>3
  <1>8. \A i \in 0..LastItem : At(i) \in Infos(descriptor)
    BY <1>3 DEF At
  <1> QED
    BY <1>1, <1>7, <1>8

\* Each item adds what it should.
LEMMA Steps ==
  ASSUME Accepted, NEW i \in 1..LastItem
  PROVE  /\ i - 1 \in 0..LastItem /\ i \in 0..LastItem
         /\ At(i - 1) \in Infos(descriptor) /\ At(i) \in Infos(descriptor)
         /\ descriptor.items[i] \in Items /\ At(i).good
         /\ descriptor.items[i].tag = "id" => IdAdds(descriptor, At(i - 1), descriptor.items[i], At(i))
         /\ descriptor.items[i].tag # "id" => Adds(descriptor, At(i - 1), descriptor.items[i], At(i))
  <1>1. descriptor \in Descriptors /\ descriptor.items[i] \in Items
    BY Parts DEF Accepted, LastItem
  <1>2. i - 1 \in 0..LastItem /\ i \in 0..LastItem
    BY AllGood
  <1>3. /\ At(i - 1) \in Infos(descriptor) /\ At(i - 1).good
        /\ At(i) \in Infos(descriptor) /\ At(i).good
    BY <1>2, AllGood
  <1>4. At(i) = AddItem(descriptor, At(i - 1), descriptor.items[i])
    BY <1>1, <1>3, PassTaken, Zenon DEF At, LastItem, Advance
  <1> QED
    BY <1>1, <1>2, <1>3, <1>4, IdAdded, ItemAdded, Zenon

\* The value in force changes with the items of its tag only.
LEMMA InForceSteps ==
  ASSUME Accepted, NEW tag
  PROVE  /\ InForce(1, tag) = 0
         /\ \A i \in 1..LastItem : InForce(i + 1, tag) = IF descriptor.items[i].tag = tag
                                   THEN descriptor.items[i].data ELSE InForce(i, tag)
  <1>1. LastItem \in Nat
    BY AllGood
  <1>2. InForce(1, tag) = 0
    <2>1. Before(1, tag) = {}
      BY DEF Before
    <2> QED
      BY <2>1 DEF InForce
  <1>3. ASSUME NEW i \in 1..LastItem
        PROVE  InForce(i + 1, tag) = IF descriptor.items[i].tag = tag
                                     THEN descriptor.items[i].data ELSE InForce(i, tag)
    <2>1. 1..((i + 1) - 1) = 1..(i - 1) \union {i} /\ i \notin 1..(i - 1)
      BY <1>1
    <2>2. CASE descriptor.items[i].tag = tag
      <3> DEFINE B == Before(i + 1, tag)
      <3>1. i \in B /\ \A j \in B : j \in Nat /\ i >= j
        BY <1>1, <2>1, <2>2 DEF Before
      <3>2. Max(B) \in B /\ \A j \in B : Max(B) >= j
        BY <3>1 DEF Max
      <3>3. Max(B) = i
        <4> DEFINE m == Max(B)
        <4>1. m \in B /\ \A j \in B : m >= j
          BY <3>2
        <4> HIDE DEF B, m
        <4>2. m \in Nat /\ i \in Nat /\ m >= i /\ i >= m
          BY <3>1, <4>1
        <4>3. m = i
          BY <4>2
        <4> QED
          BY <4>3 DEF m
      <3> QED
        BY <2>2, <3>1, <3>3, Zenon DEF InForce
    <2>3. CASE descriptor.items[i].tag # tag
      <3>1. Before(i + 1, tag) = Before(i, tag)
        BY <2>1, <2>3 DEF Before
      <3> QED
        BY <2>3, <3>1, Zenon DEF InForce
    <2> QED
      BY <2>2, <2>3
  <1> QED
    BY <1>2, <1>3

\* The state of the pass at its beginning
LEMMA AtStart ==
  ASSUME Accepted
  PROVE  /\ At(0).count = 0 /\ At(0).report = 1 /\ At(0).element = 0
         /\ At(0).size = 0 /\ At(0).fields = 0 /\ At(0).offset = 0 /\ At(0).ids[1] = 0
  <1>1. At(0) = Start(descriptor) /\ 1 \in DOMAIN descriptor.reports
    BY PassTaken, Parts DEF Accepted, At
  <1> QED
    BY <1>1 DEF Start

\* What the validation carries from item to item is what is in force.
LEMMA Carried ==
  ASSUME Accepted, NEW i \in 0..LastItem
  PROVE  /\ At(i).size = InForce(i + 1, "size") /\ At(i).fields = InForce(i + 1, "count")
         /\ At(i).report = IF At(i).count = 0 THEN 1 ELSE At(i).count
         /\ At(i).ids[At(i).report] = ReportOf(i + 1)
         /\ At(i).count = 0 => ReportOf(i + 1) = 0
  <1> DEFINE Carries(k) ==
               /\ At(k).size = InForce(k + 1, "size") /\ At(k).fields = InForce(k + 1, "count")
               /\ At(k).report = IF At(k).count = 0 THEN 1 ELSE At(k).count
               /\ At(k).ids[At(k).report] = InForce(k + 1, "id")
               /\ At(k).count = 0 => InForce(k + 1, "id") = 0
             S == {k \in 0..LastItem : Carries(k)}
  <1>1. LastItem \in Nat
    BY AllGood
  <1>2. 0 \in S
    <2>1. InForce(0 + 1, "size") = 0 /\ InForce(0 + 1, "count") = 0 /\ InForce(0 + 1, "id") = 0
      <3>1. 0 + 1 = 1
        OBVIOUS
      <3> QED
        BY <3>1, InForceSteps, Zenon
    <2> QED
      BY <1>1, <2>1, AtStart
  <1>3. ASSUME NEW k \in 1..LastItem, k - 1 \in S PROVE k \in S
    <2> DEFINE item == descriptor.items[k]  old == At(k - 1)  new == At(k)
               size == InForce(k, "size")  count == InForce(k, "count")  id == InForce(k, "id")
    <2>1. (k - 1) + 1 = k /\ k \in 0..LastItem
      BY <1>1
    <2>2. /\ old.size = size /\ old.fields = count
          /\ old.report = IF old.count = 0 THEN 1 ELSE old.count
          /\ old.ids[old.report] = id
          /\ old.count = 0 => id = 0
      BY <1>3, <2>1
    <2>3. /\ InForce(k + 1, "size") = IF item.tag = "size" THEN item.data ELSE size
          /\ InForce(k + 1, "count") = IF item.tag = "count" THEN item.data ELSE count
          /\ InForce(k + 1, "id") = IF item.tag = "id" THEN item.data ELSE id
      BY InForceSteps, Zenon
    <2>4. old \in Infos(descriptor)
      BY Steps
    <2>5. CASE item.tag = "id"
      <3>1. IdAdds(descriptor, old, item, new) /\ new.good
        BY <2>5, Steps, Zenon
      <3>2. /\ old.count < Len(descriptor.reports) /\ Len(descriptor.reports) \in Nat
            /\ new.count = old.count + 1 /\ new.report = old.count + 1
            /\ new.ids = [old.ids EXCEPT ![old.count + 1] = item.data]
            /\ new.size = old.size /\ new.fields = old.fields
        BY <3>1, Parts, Zenon DEF IdAdds, Accepted
      <3> HIDE DEF item, old, new, size, count, id
      <3>3. old.count \in Nat /\ old.count + 1 \in 1..Len(descriptor.reports)
             /\ DOMAIN old.ids = 1..Len(descriptor.reports)
        BY SMTT(30), <2>4, <3>2 DEF Infos
      <3>4. new.ids[new.report] = item.data
        BY <3>2, <3>3
      <3>5. new.report = (IF new.count = 0 THEN 1 ELSE new.count) /\ new.count # 0
        BY <3>2, <3>3
      <3>6. new.size = InForce(k + 1, "size") /\ new.fields = InForce(k + 1, "count")
            /\ new.ids[new.report] = InForce(k + 1, "id")
        BY <2>2, <2>3, <2>5, <3>2, <3>4, Zenon
      <3> QED
        BY <2>1, <3>5, <3>6 DEF new
    <2>6. CASE item.tag # "id"
      <3>1. Adds(descriptor, old, item, new)
        BY <2>6, Steps, Zenon
      <3>2. /\ new.count = old.count /\ new.report = old.report /\ new.ids = old.ids
            /\ new.size = IF item.tag = "size" THEN item.data ELSE old.size
            /\ new.fields = IF item.tag = "count" THEN item.data ELSE old.fields
        BY <3>1, Zenon DEF Adds
      <3> HIDE DEF item, old, new, size, count, id
      <3>3. Carries(k)
        BY <2>2, <2>3, <2>6, <3>2 DEF new
      <3> QED
        BY <2>1, <3>3
    <2> QED
      BY <2>5, <2>6
  <1>4. \A k \in 0..LastItem : k \in S
    <2> HIDE DEF S
    <2> QED
      BY <1>1, <1>2, <1>3, Induction
  <1>5. Carries(i)
    BY <1>4
  <1> QED
    BY <1>5 DEF ReportOf

\* The ids it has found so far are those of the first reports, in their order.
LEMMA IdsFound ==
  ASSUME Accepted
  PROVE  /\ \A i \in 0..LastItem : \A r \in 1..At(i).count : At(i).ids[r] = IdOf(r)
         /\ \A r, s \in 1..Len(descriptor.reports) : r # s => IdOf(r) # IdOf(s)
         /\ At(LastItem).count = Len(descriptor.reports)
              \/ (At(LastItem).count = 0 /\ Len(descriptor.reports) = 1 /\ IdOf(1) = 0)
         /\ At(LastItem).count # 0 => \A r \in 1..Len(descriptor.reports) : IdOf(r) # 0
  <1> DEFINE n == Len(descriptor.reports)
             Agrees(k) == \A i \in 0..k : /\ At(i).count <= At(k).count
                                        /\ \A r \in 1..At(i).count : At(i).ids[r] = At(k).ids[r]
             S == {k \in 0..LastItem : Agrees(k)}
  <1>1. LastItem \in Nat /\ n \in Nat \ {0} /\ DOMAIN descriptor.reports = 1..n
    BY AllGood, Parts DEF Accepted
  <1>2. \A i \in 0..LastItem : At(i).count \in 0..n /\ DOMAIN At(i).ids = 1..n
    BY AllGood DEF Infos
  <1> HIDE DEF n
  <1>3. 0 \in S
    <2>1. \A i \in 0..0 : i = 0
      OBVIOUS
    <2>2. 0 \in 0..LastItem /\ At(0).count <= At(0).count
      BY <1>1, <1>2
    <2> QED
      BY <2>1, <2>2
  <1>4. ASSUME NEW k \in 1..LastItem, k - 1 \in S PROVE k \in S
    <2> DEFINE item == descriptor.items[k]  old == At(k - 1)  new == At(k)
    <2>1. k - 1 \in 0..LastItem /\ k \in 0..LastItem
      BY Steps
    <2>2. old.count \in 0..n /\ DOMAIN old.ids = 1..n /\ new.count \in 0..n
      BY <1>2, <2>1
    <2>3. \/ /\ old.count < n /\ new.count = old.count + 1
             /\ new.ids = [old.ids EXCEPT ![old.count + 1] = item.data]
          \/ new.count = old.count /\ new.ids = old.ids
      <3>1. CASE item.tag = "id"
        <4>1. IdAdds(descriptor, old, item, new) /\ new.good
          BY <3>1, Steps, Zenon
        <4> QED
          BY <4>1, Zenon DEF IdAdds, n
      <3>2. CASE item.tag # "id"
        <4>1. Adds(descriptor, old, item, new)
          BY <3>2, Steps, Zenon
        <4> QED
          BY <4>1, Zenon DEF Adds
      <3> QED
        BY <3>1, <3>2
    <2> HIDE DEF item, old, new
    <2>4. /\ old.count <= new.count
          /\ \A r \in 1..old.count : new.ids[r] = old.ids[r]
      BY <1>1, <2>2, <2>3
    <2>5. \A i \in 0..(k - 1) : /\ At(i).count <= old.count
                                /\ \A r \in 1..At(i).count : At(i).ids[r] = old.ids[r]
      BY <1>4 DEF old
    <2>6. ASSUME NEW i \in 0..k
          PROVE  /\ At(i).count <= new.count
                 /\ \A r \in 1..At(i).count : At(i).ids[r] = new.ids[r]
      <3>1. CASE i = k
        BY <2>2, <3>1 DEF new
      <3>2. CASE i # k
        <4>1. i \in 0..(k - 1) /\ i \in 0..LastItem
          BY <1>1, <3>2
        <4>2. /\ At(i).count \in Nat /\ At(i).count <= old.count
              /\ \A r \in 1..At(i).count : At(i).ids[r] = old.ids[r]
          BY <1>2, <2>5, <4>1
        <4>3. \A r \in 1..At(i).count : r \in 1..old.count
          BY <2>2, <4>2
        <4> QED
          BY <2>2, <2>4, <4>2, <4>3
      <3> QED
        BY <3>1, <3>2
    <2> QED
      BY <2>1, <2>6 DEF new
  <1>5. \A k \in 0..LastItem : k \in S
    <2> HIDE DEF S
    <2> QED
      BY <1>1, <1>3, <1>4, Induction
  <1>6. Agrees(LastItem)
    BY <1>1, <1>5
  <1>7. ReportIDsRight(descriptor, At(LastItem))
    BY DEF Accepted, hidReportValidate, Seen, At, LastItem
  <1>8. /\ At(LastItem).count = n \/ (At(LastItem).count = 0 /\ n = 1)
        /\ \A r, s \in 1..n : r # s => At(LastItem).ids[r] # At(LastItem).ids[s]
        /\ \A r \in 1..n : At(LastItem).ids[r] = IdOf(r) /\ (At(LastItem).count > 0 => At(LastItem).ids[r] # 0)
    BY <1>1, <1>7, Zenon DEF ReportIDsRight, IdOf, n
  <1>9. ASSUME NEW i \in 0..LastItem, NEW r \in 1..At(i).count PROVE At(i).ids[r] = IdOf(r)
    <2>1. At(i).ids[r] = At(LastItem).ids[r]
      BY <1>6
    <2>2. r \in 1..n
      BY <1>1, <1>2
    <2> QED
      BY <1>8, <2>1, <2>2
  <1>10. \A r, s \in 1..n : r # s => IdOf(r) # IdOf(s)
    BY <1>8, Zenon
  <1>11. At(LastItem).count = 0 /\ n = 1 => IdOf(1) = 0
    <2> SUFFICES ASSUME At(LastItem).count = 0, n = 1 PROVE IdOf(1) = 0
      OBVIOUS
    <2>1. LastItem \in 0..LastItem /\ 1 \in 1..n
      BY <1>1
    <2>2. At(LastItem).ids[At(LastItem).report] = 0 /\ At(LastItem).report = 1
      BY <2>1, Carried
    <2> QED
      BY <1>8, <2>1, <2>2
  <1>12. At(LastItem).count # 0 => \A r \in 1..n : IdOf(r) # 0
    <2>1. At(LastItem).count # 0 => At(LastItem).count > 0
      BY <1>1, <1>2
    <2> QED
      BY <1>8, <2>1
  <1> QED
    BY <1>8, <1>9, <1>10, <1>11, <1>12 DEF n

\* The bits that an item gives a report, and what Bits adds up.
Share(id, i) == IF descriptor.items[i].tag = "input" /\ ReportOf(i) = id
                THEN InForce(i, "size") * InForce(i, "count") ELSE 0
Sums(id, f)  == f = [i \in 0..LastItem |-> IF i = 0 THEN 0 ELSE f[i - 1] + Share(id, i)]

\* The share of an item is what the validation adds where the report is the current one.
LEMMA ShareAdded ==
  ASSUME Accepted, NEW id, NEW i \in 1..LastItem
  PROVE  /\ Share(id, i) \in Nat
         /\ Share(id, i) = IF descriptor.items[i].tag = "input" /\ ReportOf(i) = id
                           THEN At(i - 1).size * At(i - 1).fields ELSE 0
  <1> DEFINE old == At(i - 1)  k == i - 1
  <1>1. k \in 0..LastItem /\ old \in Infos(descriptor) /\ k + 1 = i
    BY Steps
  <1>2. old.size = InForce(i, "size") /\ old.fields = InForce(i, "count")
    <2> HIDE DEF k
    <2>1. At(k).size = InForce(k + 1, "size") /\ At(k).fields = InForce(k + 1, "count")
      BY <1>1, Carried
    <2> QED
      BY <1>1, <2>1 DEF k
  <1>3. old.size \in Nat /\ old.fields \in Nat
    BY <1>1 DEF Infos
  <1> HIDE DEF old
  <1>4. old.size * old.fields \in Nat
    BY <1>3
  <1> QED
    BY <1>2, <1>4, Zenon DEF Share, old

\* Bits adds up the shares of the items.
LEMMA BitsSummed ==
  ASSUME Accepted, NEW id
  PROVE  /\ Bits(id)[0] = 0
         /\ \A i \in 0..LastItem : Bits(id)[i] \in Nat
         /\ \A i \in 1..LastItem : Bits(id)[i] = Bits(id)[i - 1] + Share(id, i)
  <1> DEFINE n == LastItem
             step == [i \in 1..n |-> [b \in Nat |-> b + Share(id, i)]]
             g == CHOOSE f : Sums(id, f)
  <1>1. n \in Nat
    BY AllGood
  <1>2. Bits(id) = g
    BY DEF Bits, Sums, Share, LastItem
  <1>3. \A i \in 1..n : Share(id, i) \in Nat
    BY ShareAdded
  <1>4. step \in [1..n -> [Nat -> Nat]]
    BY <1>3
  <1>5. PICK f : StepsFrom(f, Nat, n, 0, step)
    <2> HIDE DEF step, n, g
    <2> QED
      BY <1>1, <1>4, Recursion
  <1> f \in [0..n -> Nat] /\ f[0] = 0 /\ \A i \in 1..n : f[i] = step[i][f[i - 1]]
    BY <1>5, Zenon DEF StepsFrom
  <1>6. ASSUME NEW i \in 1..n PROVE f[i] = f[i - 1] + Share(id, i)
    <2>1. i - 1 \in 0..n
      BY <1>1
    <2>2. f[i - 1] \in Nat /\ f[i] = step[i][f[i - 1]]
      BY <2>1
    <2> QED
      BY <2>2
  <1>7. Sums(id, f)
    <2> DEFINE h == [i \in 0..n |-> IF i = 0 THEN 0 ELSE f[i - 1] + Share(id, i)]
    <2>1. \A i \in 0..n : i = 0 \/ i \in 1..n
      BY <1>1
    <2>2. \A i \in 0..n : h[i] = f[i]
      BY <1>6, <2>1
    <2>3. h = f
      BY <2>2
    <2> QED
      BY <2>3 DEF Sums
  <1>8. Sums(id, g)
    BY <1>7, Zenon
  <1> HIDE DEF g, step
  <1>9. g[0] = 0 /\ \A i \in 1..n : g[i] = g[i - 1] + Share(id, i)
    <2> 0 \in 0..n /\ \A i \in 1..n : i \in 0..n /\ i # 0
      BY <1>1
    <2> HIDE DEF n
    <2> QED
      BY <1>8, Zenon DEF Sums, n
  <1> DEFINE Typed == {i \in 0..n : g[i] \in Nat}
  <1>10. 0 \in Typed
    BY <1>1, <1>9
  <1>11. ASSUME NEW i \in 1..n, i - 1 \in Typed PROVE i \in Typed
    <2>1. i \in 0..n
      BY <1>1
    <2> QED
      BY <1>3, <1>9, <1>11, <2>1
  <1>12. \A i \in 0..n : i \in Typed
    <2> HIDE DEF Typed, n
    <2> QED
      BY <1>1, <1>10, <1>11, Induction
  <1> QED
    BY <1>2, <1>9, <1>12

LengthOf(r) == descriptor.reports[r].length

\* The bits of each report as the pass has found them after i items: those of the reports it has
\* closed, of the one it is in and of those it has not come to.
Found(i) ==
  /\ \A r \in 1..At(i).count : r < At(i).count => Bits(IdOf(r))[i] = 8 * LengthOf(r)
  /\ Bits(ReportOf(i + 1))[i] = At(i).offset
  /\ \A id : /\ id # ReportOf(i + 1)
             /\ \A r \in 1..At(i).count : IdOf(r) # id
             => Bits(id)[i] = 0

\* A report is closed when its length is right.
LEMMA Closed ==
  ASSUME Accepted, NEW i \in 0..LastItem, LengthRight(descriptor, At(i))
  PROVE  At(i).offset = 8 * LengthOf(At(i).report)
  <1>1. At(i).offset \in Nat
    BY AllGood DEF Infos
  <1>2. At(i).offset % 8 = 0 /\ At(i).offset \div 8 = LengthOf(At(i).report)
    BY DEF LengthRight, LengthOf
  <1> QED
    BY <1>1, <1>2

\* The invariant of the pass over the items
LEMMA BitsFound ==
  ASSUME Accepted
  PROVE  \A i \in 0..LastItem : Found(i)
  <1> DEFINE S == {i \in 0..LastItem : Found(i)}
             n == Len(descriptor.reports)
  <1>1. LastItem \in Nat /\ n \in Nat
    BY AllGood, Parts DEF Accepted
  <1>2. \A i \in 0..LastItem : At(i).count \in 0..n /\ At(i).offset \in Nat
    BY AllGood DEF Infos
  <1>3. \A r, s \in 1..n : r # s => IdOf(r) # IdOf(s)
    BY IdsFound
  <1>4. ASSUME NEW i \in 0..LastItem, At(i).count # 0 PROVE ReportOf(i + 1) = IdOf(At(i).count)
    <2>1. At(i).count \in 1..At(i).count
      BY <1>2, <1>4
    <2>2. At(i).ids[At(i).count] = IdOf(At(i).count)
      BY <2>1, IdsFound
    <2> QED
      BY <1>4, <2>2, Carried
  <1> HIDE DEF n
  <1>5. 0 \in S
    <2>1. 0 \in 0..LastItem /\ 0 + 1 = 1
      BY <1>1
    <2>2. \A id : Bits(id)[0] = 0
      BY BitsSummed
    <2>3. At(0).count = 0 /\ At(0).offset = 0
      BY AtStart
    <2> QED
      BY <2>1, <2>2, <2>3 DEF Found
  <1>6. ASSUME NEW i \in 1..LastItem, i - 1 \in S PROVE i \in S
    <2> DEFINE item == descriptor.items[i]  old == At(i - 1)  new == At(i)  k == i - 1
               here == ReportOf(i)  next == ReportOf(i + 1)
    <2>1. k \in 0..LastItem /\ i \in 0..LastItem /\ k + 1 = i /\ Found(k)
      BY <1>1, <1>6
    <2>2. \A id : Bits(id)[k] \in Nat /\ Bits(id)[i] = Bits(id)[k] + Share(id, i)
      BY <2>1, BitsSummed
    <2>3. \A id : Share(id, i) = IF item.tag = "input" /\ here = id THEN old.size * old.fields ELSE 0
      BY ShareAdded
    <2>4. /\ \A r \in 1..old.count : r < old.count => Bits(IdOf(r))[k] = 8 * LengthOf(r)
          /\ Bits(here)[k] = old.offset
          /\ \A id : /\ id # here
                     /\ \A r \in 1..old.count : IdOf(r) # id
                     => Bits(id)[k] = 0
      BY <2>1, Zenon DEF Found
    <2>5. next = IF item.tag = "id" THEN item.data ELSE here
      BY InForceSteps, Zenon DEF ReportOf
    <2>6. /\ old.count \in 0..n /\ new.count \in 0..n /\ old.offset \in Nat
          /\ old.count # 0 => here = IdOf(old.count)
          /\ new.count # 0 => next = IdOf(new.count)
      <3> HIDE DEF k
      <3>1. At(k).count # 0 => ReportOf(k + 1) = IdOf(At(k).count)
        BY <1>4, <2>1
      <3>2. At(i).count # 0 => ReportOf(i + 1) = IdOf(At(i).count)
        BY <1>4, <2>1
      <3>3. At(k).count \in 0..n /\ At(i).count \in 0..n /\ At(k).offset \in Nat
        BY <1>2, <2>1
      <3> QED
        BY <2>1, <3>1, <3>2, <3>3 DEF k
    <2>7. CASE item.tag = "id"
      <3>1. IdAdds(descriptor, old, item, new) /\ new.good
        BY <2>7, Steps, Zenon
      <3>2. /\ IF old.count = 0 THEN old.offset = 0 ELSE LengthRight(descriptor, old)
            /\ new.count = old.count + 1 /\ new.offset = 0
        BY <3>1, Zenon DEF IdAdds
      <3>3. \A id : Bits(id)[i] = Bits(id)[k]
        <4>1. \A id : Share(id, i) = 0
          BY <2>3, <2>7
        <4> HIDE DEF k
        <4> QED
          BY <2>2, <4>1
      <3>4. old.count # 0 => Bits(here)[k] = 8 * LengthOf(old.count)
        <4> SUFFICES ASSUME old.count # 0 PROVE Bits(here)[k] = 8 * LengthOf(old.count)
          OBVIOUS
        <4>1. LengthRight(descriptor, At(k)) /\ At(k).report = old.count
          BY <2>1, <3>2, Carried
        <4>2. At(k).offset = 8 * LengthOf(old.count)
          <5> HIDE DEF k
          <5> QED
            BY <2>1, <4>1, Closed
        <4> QED
          BY <2>4, <4>2
      <3> HIDE DEF item, old, new, here, next, k
      <3>5. \A r \in 1..new.count : r < new.count => Bits(IdOf(r))[i] = 8 * LengthOf(r)
        <4> SUFFICES ASSUME NEW r \in 1..new.count, r < new.count
                     PROVE  Bits(IdOf(r))[k] = 8 * LengthOf(r)
          BY <3>3
        <4>1. r \in 1..old.count /\ old.count # 0
          BY <2>6, <3>2
        <4>2. CASE r = old.count
          BY <2>6, <3>4, <4>1, <4>2
        <4>3. CASE r # old.count
          <5>1. r < old.count
            BY <2>6, <4>1, <4>3
          <5> QED
            BY <2>4, <4>1, <5>1
        <4> QED
          BY <4>2, <4>3
      <3>6. Bits(next)[i] = new.offset
        <4>1. next = IdOf(new.count) /\ new.count \in 1..n
          BY <2>6, <3>2
        <4>2. \A r \in 1..old.count : IdOf(r) # next
          <5> SUFFICES ASSUME NEW r \in 1..old.count PROVE IdOf(r) # IdOf(new.count)
            BY <4>1
          <5>1. r \in 1..n /\ r # new.count
            BY <1>1, <2>6, <3>2
          <5> QED
            BY <1>3, <4>1, <5>1
        <4>3. CASE next = here
          <5>1. old.count = 0
            <6>1. old.count # 0 => old.count \in 1..old.count /\ here = IdOf(old.count)
              BY <2>6
            <6> QED
              BY <4>2, <4>3, <6>1
          <5> QED
            BY <2>4, <3>2, <3>3, <4>3, <5>1
        <4>4. CASE next # here
          BY <2>4, <3>2, <3>3, <4>2, <4>4
        <4> QED
          BY <4>3, <4>4
      <3>7. ASSUME NEW id, id # next, \A r \in 1..new.count : IdOf(r) # id PROVE Bits(id)[i] = 0
        <4>1. \A r \in 1..old.count : r \in 1..new.count
          BY <2>6, <3>2
        <4>2. \A r \in 1..old.count : IdOf(r) # id
          BY <3>7, <4>1
        <4>3. CASE id = here
          <5>1. old.count = 0
            <6>1. old.count # 0 => old.count \in 1..old.count /\ here = IdOf(old.count)
              BY <2>6
            <6> QED
              BY <4>2, <4>3, <6>1
          <5> QED
            BY <2>4, <3>2, <3>3, <4>3, <5>1
        <4>4. CASE id # here
          BY <2>4, <3>3, <4>2, <4>4
        <4> QED
          BY <4>3, <4>4
      <3>8. Found(i)
        BY <3>5, <3>6, <3>7, Zenon DEF Found, new, next
      <3> QED
        BY <2>1, <3>8
    <2>8. CASE item.tag # "id"
      <3> DEFINE more == IF item.tag = "input" THEN old.size * old.fields ELSE 0
      <3>1. Adds(descriptor, old, item, new)
        BY <2>8, Steps, Zenon
      <3>2. new.count = old.count /\ next = here
        BY <2>5, <2>8, <3>1, Zenon DEF Adds
      <3>3. new.offset = old.offset + more
        <4>1. new.offset = IF item.tag = "input" THEN old.offset + old.size * old.fields ELSE old.offset
          BY <3>1, Zenon DEF Adds
        <4> QED
          BY <2>6, <4>1
      <3>4. \A id : Share(id, i) = IF here = id THEN more ELSE 0
        BY <2>3
      <3> HIDE DEF item, old, new, here, next, k, more
      <3>5. \A id : id # here => Bits(id)[i] = Bits(id)[k]
        BY <2>2, <3>4
      <3>6. Bits(here)[i] = new.offset
        BY <2>2, <2>4, <3>3, <3>4
      <3>7. ASSUME NEW r \in 1..old.count, r < old.count PROVE Bits(IdOf(r))[i] = 8 * LengthOf(r)
        <4>1. old.count \in 1..n /\ r \in 1..n /\ r # old.count /\ here = IdOf(old.count)
          BY <1>1, <2>6, <3>7
        <4>2. IdOf(r) # here
          BY <1>3, <4>1
        <4> QED
          BY <2>4, <3>5, <3>7, <4>2
      <3>8. Found(i)
        <4>1. \A r \in 1..new.count : r < new.count => Bits(IdOf(r))[i] = 8 * LengthOf(r)
          BY <3>2, <3>7
        <4>2. Bits(next)[i] = new.offset
          BY <3>2, <3>6
        <4>3. ASSUME NEW id, id # next, \A r \in 1..new.count : IdOf(r) # id PROVE Bits(id)[i] = 0
          BY <2>4, <3>2, <3>5, <4>3
        <4> QED
          BY <4>1, <4>2, <4>3, Zenon DEF Found, new, next
      <3> QED
        BY <2>1, <3>8
    <2> QED
      BY <2>7, <2>8
  <1>7. \A i \in 0..LastItem : i \in S
    <2> HIDE DEF S
    <2> QED
      BY <1>1, <1>5, <1>6, Induction
  <1> QED
    BY <1>7

\* The reports have the lengths the application sends.
LEMMA LengthsRight ==
  ASSUME Accepted
  PROVE  \A r \in Reports : BitsBefore(LastItem + 1, IdOf(r)) = 8 * LengthOf(r)
  <1> DEFINE n == Len(descriptor.reports)  count == At(LastItem).count
  <1>1. /\ LastItem \in Nat /\ n \in Nat \ {0} /\ Reports = 1..n /\ count \in 0..n
        /\ (LastItem + 1) - 1 = LastItem /\ LastItem \in 0..LastItem
    <2>1. LastItem \in Nat /\ At(LastItem) \in Infos(descriptor)
      BY AllGood
    <2>2. n \in Nat \ {0} /\ Reports = 1..n
      BY Parts, Zenon DEF Accepted, Reports
    <2>3. count \in 0..n
      BY <2>1 DEF Infos
    <2> HIDE DEF n, count
    <2> QED
      BY <2>1, <2>2, <2>3
  <1>2. /\ \A r \in 1..count : r < count => Bits(IdOf(r))[LastItem] = 8 * LengthOf(r)
        /\ Bits(ReportOf(LastItem + 1))[LastItem] = At(LastItem).offset
    BY <1>1, BitsFound, Zenon DEF Found
  <1>3. LengthRight(descriptor, At(LastItem))
    BY DEF Accepted, hidReportValidate, Seen, At, LastItem
  <1>4. /\ At(LastItem).offset = 8 * LengthOf(At(LastItem).report)
        /\ At(LastItem).report = IF count = 0 THEN 1 ELSE count
        /\ count = 0 => ReportOf(LastItem + 1) = 0
        /\ At(LastItem).ids[At(LastItem).report] = ReportOf(LastItem + 1)
    BY <1>1, <1>3, Closed, Carried
  <1>5. /\ \A r \in 1..count : At(LastItem).ids[r] = IdOf(r)
        /\ count = n \/ (count = 0 /\ n = 1 /\ IdOf(1) = 0)
    BY <1>1, IdsFound
  <1> HIDE DEF n, count
  <1>6. ASSUME NEW r \in 1..n PROVE Bits(IdOf(r))[LastItem] = 8 * LengthOf(r)
    <2>1. CASE count = 0
      <3>1. r = 1 /\ IdOf(1) = 0
        BY <1>1, <1>5, <2>1
      <3> QED
        BY <1>2, <1>4, <2>1, <3>1
    <2>2. CASE count # 0
      <3>1. count = n /\ count \in 1..count /\ r \in 1..count
        BY <1>1, <1>5, <2>2
      <3>2. CASE r < count
        BY <1>2, <3>1, <3>2
      <3>3. CASE ~(r < count)
        <4>1. r = count
          BY <1>1, <3>1, <3>3
        <4> QED
          BY <1>2, <1>4, <1>5, <2>2, <3>1, <4>1
      <3> QED
        BY <3>2, <3>3
    <2> QED
      BY <2>1, <2>2
  <1> QED
    BY <1>1, <1>6 DEF BitsBefore

\* The elements the pass has come to are those of the items so far.
LEMMA ElementsFound ==
  ASSUME Accepted
  PROVE  \A i \in 1..LastItem : descriptor.items[i].element # 0
           => NextElement(descriptor, At(i - 1), descriptor.items[i])
  <1> DEFINE Element(j) == descriptor.items[j].element
             Reached(k) == /\ \A j \in 1..k : Element(j) <= At(k).element
                           /\ \A e \in 1..At(k).element : \E j \in 1..k : Element(j) = e
             S == {k \in 0..LastItem : Reached(k)}
             n == Len(descriptor.elements)
             Next1(i) == NextElement(descriptor, At(i - 1), descriptor.items[i])
  <1>1. LastItem \in Nat /\ n \in Nat
    BY AllGood, Parts DEF Accepted
  <1>2. \A i \in 0..LastItem : At(i).element \in Nat
    BY AllGood DEF Infos
  <1>3. ASSUME NEW i \in 1..LastItem
        PROVE  /\ Element(i) \in Nat
               /\ Element(i) # 0 =>
                    /\ descriptor.items[i].tag = "usage" /\ Element(i) \in 1..n
                    /\ \A f \in 1..(Element(i) - 1) : \E j \in 1..(i - 1) : Element(j) = f
                    /\ \A j \in 1..(i - 1) : Element(j) < Element(i)
    <2>1. descriptor \in Descriptors /\ i \in DOMAIN descriptor.items /\ descriptor.items[i] \in Items
          /\ DOMAIN descriptor.elements = 1..n
      BY Parts DEF Accepted, LastItem
    <2> QED
      BY <2>1, ElementsAssumption DEF Items
  <1>4. ASSUME NEW i \in 1..LastItem, i - 1 \in S, Element(i) # 0 PROVE Next1(i)
    <2> DEFINE e == Element(i)  m == At(i - 1).element
    <2>1. m \in Nat /\ e \in 1..n /\ descriptor.items[i].tag = "usage"
      <3>1. i - 1 \in 0..LastItem
        BY <1>1
      <3> QED
        BY <1>2, <1>3, <1>4, <3>1
    <2>2. /\ \A j \in 1..(i - 1) : Element(j) <= m
          /\ \A f \in 1..m : \E j \in 1..(i - 1) : Element(j) = f
      BY <1>4
    <2>3. /\ \A f \in 1..(e - 1) : \E j \in 1..(i - 1) : Element(j) = f
          /\ \A j \in 1..(i - 1) : Element(j) < e
      BY <1>3, <1>4
    <2> HIDE DEF e, m
    <2>4. m < e
      <3> SUFFICES ASSUME m # 0 PROVE m < e
        BY <2>1
      <3>1. m \in 1..m
        BY <2>1
      <3>2. PICK j \in 1..(i - 1) : Element(j) = m
        BY <2>2, <3>1
      <3> QED
        BY <2>3, <3>2
    <2>5. e - 1 <= m
      <3> SUFFICES ASSUME e - 1 # 0 PROVE e - 1 <= m
        BY <2>1
      <3>1. e - 1 \in 1..(e - 1)
        BY <2>1
      <3>2. PICK j \in 1..(i - 1) : Element(j) = e - 1
        BY <2>3, <3>1
      <3> QED
        BY <2>2, <3>2
    <2>6. e = m + 1 /\ m < n
      BY <1>1, <2>1, <2>4, <2>5
    <2> QED
      BY <2>1, <2>6 DEF NextElement, e, m
  <1>5. 0 \in S
    <2>1. At(0).element = 0 /\ 0 \in 0..LastItem
      BY <1>1, AtStart
    <2> QED
      BY <2>1
  <1>6. ASSUME NEW i \in 1..LastItem, i - 1 \in S PROVE i \in S
    <2> DEFINE m == At(i - 1).element  new == At(i).element
    <2>1. i - 1 \in 0..LastItem /\ i \in 0..LastItem /\ m \in Nat
      BY <1>1, <1>2
    <2>2. /\ \A j \in 1..(i - 1) : Element(j) <= m
          /\ \A e \in 1..m : \E j \in 1..(i - 1) : Element(j) = e
      BY <1>6
    <2>3. new = IF Next1(i) THEN m + 1 ELSE m
      <3>1. CASE descriptor.items[i].tag = "id"
        <4>1. IdAdds(descriptor, At(i - 1), descriptor.items[i], At(i)) /\ At(i).good
          BY <3>1, Steps, Zenon
        <4>2. new = m /\ ~Next1(i)
          BY <3>1, <4>1 DEF IdAdds, NextElement
        <4> QED
          BY <4>2
      <3>2. CASE descriptor.items[i].tag # "id"
        <4>1. Adds(descriptor, At(i - 1), descriptor.items[i], At(i))
          BY <3>2, Steps, Zenon
        <4> QED
          BY <4>1, Zenon DEF Adds
      <3> QED
        BY <3>1, <3>2
    <2>4. Next1(i) => Element(i) = m + 1
      BY DEF NextElement
    <2>5. ~Next1(i) => Element(i) = 0
      BY <1>4, <1>6
    <2>6. \A j \in 1..i : j = i \/ j \in 1..(i - 1)
      BY <1>1
    <2>7. \A j \in 1..(i - 1) : j \in 1..i
      BY <1>1
    <2>8. \A j \in 1..i : Element(j) \in Nat
      <3>1. \A j \in 1..i : j \in 1..LastItem
        BY <1>1
      <3> QED
        BY <1>3, <3>1
    <2> HIDE DEF m, new, Next1, Element
    <2>9. \A j \in 1..i : Element(j) <= new
      BY <2>1, <2>2, <2>3, <2>4, <2>5, <2>6, <2>8
    <2>10. ASSUME NEW e \in 1..new PROVE \E j \in 1..i : Element(j) = e
      <3>1. CASE e \in 1..m
        BY <2>2, <2>7, <3>1
      <3>2. CASE e \notin 1..m
        <4>1. Next1(i) /\ e = m + 1
          BY <2>1, <2>3, <2>10, <3>2
        <4>2. i \in 1..i
          BY <1>1
        <4> QED
          BY <2>4, <4>1, <4>2
      <3> QED
        BY <3>1, <3>2
    <2>11. Reached(i)
      BY <2>9, <2>10 DEF new
    <2> QED
      BY <2>1, <2>11
  <1>7. \A i \in 0..LastItem : i \in S
    <2> HIDE DEF S
    <2> QED
      BY <1>1, <1>5, <1>6, Induction
  <1>8. ASSUME NEW i \in 1..LastItem, Element(i) # 0 PROVE Next1(i)
    <2>1. i - 1 \in S
      BY <1>1, <1>7
    <2> QED
      BY <1>4, <1>8, <2>1
  <1> QED
    BY <1>8

\* The control of each element is where the application reports it.
LEMMA PlacesRight ==
  ASSUME Accepted
  PROVE  \A i \in DOMAIN descriptor.items : LET e == descriptor.items[i].element IN
           e # 0 => LET place == descriptor.elements[e] IN
                    place.id = ReportOf(i) /\ 8 * place.byte + place.bit = BitsBefore(i, place.id)
  <1> SUFFICES ASSUME NEW i \in 1..LastItem, descriptor.items[i].element # 0
               PROVE  LET place == descriptor.elements[descriptor.items[i].element] IN
                      place.id = ReportOf(i) /\ 8 * place.byte + place.bit = BitsBefore(i, place.id)
    BY Parts, Zenon DEF Accepted, LastItem
  <1> DEFINE item == descriptor.items[i]  old == At(i - 1)  k == i - 1
             place == descriptor.elements[item.element]
  <1>1. NextElement(descriptor, old, item)
    BY ElementsFound
  <1>2. item.tag # "id"
    BY <1>1 DEF NextElement
  <1>3. Adds(descriptor, old, item, At(i)) /\ At(i).good
    BY <1>2, Steps, Zenon
  <1>4. place = Here(old)
    BY <1>1, <1>3, Zenon DEF Adds
  <1>5. k \in 0..LastItem /\ k + 1 = i
    BY AllGood
  <1>6. old.ids[old.report] = ReportOf(i) /\ Bits(ReportOf(i))[k] = old.offset /\ old.offset \in Nat
    <2> HIDE DEF k
    <2>1. At(k).ids[At(k).report] = ReportOf(k + 1)
      BY <1>5, Carried
    <2>2. Bits(ReportOf(k + 1))[k] = At(k).offset
      BY <1>5, BitsFound, Zenon DEF Found
    <2>3. At(k).offset \in Nat
      BY <1>5, AllGood DEF Infos
    <2> QED
      BY <1>5, <2>1, <2>2, <2>3 DEF k
  <1> HIDE DEF old, place, item
  <1>7. place.id = ReportOf(i) /\ place.byte = old.offset \div 8 /\ place.bit = old.offset % 8
    BY <1>4, <1>6 DEF Here
  <1>8. 8 * place.byte + place.bit = old.offset
    BY <1>6, <1>7
  <1>9. BitsBefore(i, place.id) = old.offset
    BY <1>6, <1>7 DEF BitsBefore
  <1> QED
    BY <1>7, <1>8, <1>9 DEF place, item

\* DescriptorRight: in whatever descriptor hidReportValidate accepts, of any number of items,
\* elements and reports, each configurable element is where the application reports it, the reports
\* have their lengths, and what the host reads while the descriptor is prepared is its items, in
\* the length announced, but for the three exceptions PreparedHolds names.
THEOREM DescriptorIsRight == Spec => DescriptorRight
  <1>1. Init => ElementsPlaced
    <2> SUFFICES ASSUME Init PROVE ElementsPlaced
      OBVIOUS
    <2>1. Accepted
      BY DEF Init, Accepted
    <2>2. \A r \in Reports : BitsBefore(Len(descriptor.items) + 1, descriptor.reports[r].id)
                               = 8 * descriptor.reports[r].length
      BY <2>1, LengthsRight, Zenon DEF LastItem, IdOf, LengthOf
    <2> QED
      BY <2>1, <2>2, PlacesRight, Zenon DEF ElementsPlaced
  <1> QED
    BY <1>1, PreparedHolds, PTL DEF Spec, DescriptorRight
===============================================================================
