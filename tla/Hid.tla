-------------------------------- MODULE Hid --------------------------------
(* The reports a HID build sends: the application (buttons change, it says *)
(* so with hidSetChangePending, it may rewrite the report descriptor),     *)
(* XUA_Buffer_Ep (its default case looks for a report to offer, the        *)
(* endpoint's select case closes one the host has taken), Endpoint0 (which *)
(* prepares the descriptor when it starts, and serves SET_IDLE) and the    *)
(* host.  The three tasks run on cores of their own and share the arrays   *)
(* of hid_report.c.  Each function takes hidStaticVarLock for itself, and  *)
(* hidSetReportItem's check not even that: a step here is what is done     *)
(* under the lock once, with the reads before it that no other task can    *)
(* change, and between two steps of a task come those of the others.       *)
(*                                                                         *)
(* Time is counted in units of 4 ms, the unit of SET_IDLE, modulo W for    *)
(* the 2^32 of the reference clock, and kept as the distance from now.     *)
(* Reports go out at the beginning of a unit and requests arrive inside    *)
(* one, so that two times never coincide.                                  *)
EXTENDS HidDescriptor, Integers

CONSTANTS
    Descriptors,    \* the report descriptors applications are built with
    W,              \* the modulus of the clock, more than twice any period
    Interval,       \* ENDPOINT_INT_INTERVAL_IN_HID in units of 4 ms
    Durations,      \* the durations SET_IDLE is sent with (0: for ever)
    MaxEvents       \* bound: changes of the buttons, SET_IDLE requests and the calls
                    \* that reset the descriptor or replace an item of it, together

ASSUME HidAssumption ==
    /\ Interval \in Nat \ {0} /\ Durations \subseteq Nat
    /\ \A d \in Durations : W > 2 * d
    /\ W \in Nat /\ MaxEvents \in Nat
    /\ \A d \in Descriptors : hidReportValidate(d) => W > 2 * Interval * Len(d.reports)
ASSUME DescriptorsAssumption ==
    \A d \in Descriptors :
        /\ d.items \in Seq([tag : STRING, size : Nat, data : Nat, element : Nat])
        /\ d.elements \in Seq([id : Nat, byte : Nat, bit : 0 .. 7])
        /\ d.reports \in Seq([id : Nat, length : Nat, page : Nat])
        /\ d.reports # <<>>
\* hidReportValidate compares the items with the next configurable element only: an
\* application lists the elements in the order of their items.
ASSUME ElementsAssumption ==
    \A d \in Descriptors : \A i \in DOMAIN d.items : LET e == d.items[i].element IN
        e # 0 => /\ d.items[i].tag = "usage" /\ e \in DOMAIN d.elements
                 /\ \A f \in 1 .. e - 1 : \E j \in 1 .. i - 1 : d.items[j].element = f
                 /\ \A j \in 1 .. i - 1 : d.items[j].element < e

VARIABLES
    descriptor,     \* the one this build has: a constant
    usages,         \* the items of the configurable elements
    prepared,       \* s_hidReportDescriptorPrepared
    made,           \* s_hidReportDescriptor, what the host reads: the items above as
                    \* translated (the others are constants)
    boot,           \* how far XUA_Endpoint0_init is: it prepares, then measures
    announced,      \* wDescriptorLength, as the lengths of the items that add up to it
    editing,        \* the item hidSetReportItem has checked and not yet stored
    spoilt,         \* history: what has come between the tasks' calls, see ItemsCurrent
    period,         \* s_hidCurrentPeriod, one per report as the four below
    idle,           \* s_hidIdleActive
    due,            \* s_hidNextReportTime less the clock
    since,          \* the clock less s_hidReportTime
    pending,        \* s_hidChangePending
    scan,           \* the report id the default case looks at, and how far it is
    looked,         \* it has looked at every id since anything it reads changed
    ready,          \* hid_ready_flag and _id with the data handed to the endpoint
    request,        \* the SET_IDLE Endpoint0 works on
    value,          \* external: the state of the buttons, per report
    unsaid,         \* reports changed but not yet announced by the application
    host,           \* the state the host knows, per report
    age,            \* history: units since each report was last sent, at most Interval;
                    \* not counted from one closed while its SET_IDLE is half done
    wait,           \* units the offered report has waited for the host
    left            \* what remains of MaxEvents

config == <<descriptor, usages, prepared, made, boot, announced, editing, spoilt>>
times  == <<period, idle, due>>
vars   == <<config, times, since, pending, scan, looked, ready, request,
            value, unsaid, host, age, wait, left>>

None    == [id |-> 0, report |-> 0, data |-> FALSE]
NoIdle  == [at |-> "none", id |-> 0, duration |-> 0, start |-> 0, old |-> 0, next |-> 0]
NoEdit  == [element |-> 0, item |-> <<>>]
Usage(size, data) == [tag |-> "usage", size |-> size, data |-> data]
Nothing == [bytes |-> <<>>, count |-> 0]
Translated == [e \in DOMAIN usages |-> hidTranslateItem(usages[e])]
Reports == DOMAIN descriptor.reports
First(id)        == Min(Having(descriptor, id))
FirstId          == IF hidIsReportIdInUse(descriptor) THEN 1 ELSE 0
timeafter(ahead) == ahead \in 1 .. (W - 1) \div 2

\* hidReportInit is over; Endpoint0 has yet to prepare the descriptor, and
\* XUA_Buffer_Ep waits for that.
Init ==
    /\ descriptor \in {d \in Descriptors : hidReportValidate(d)}
    /\ usages = [e \in DOMAIN descriptor.elements |-> Usage(1, 1)]
    /\ prepared = FALSE /\ made = [e \in DOMAIN usages |-> Nothing]
    /\ boot = "prepare" /\ announced = [e \in DOMAIN usages |-> 0]
    /\ editing = NoEdit /\ spoilt = {}
    /\ period = [r \in Reports |-> Interval * Len(descriptor.reports)]
    /\ idle = [r \in Reports |-> FALSE] /\ pending = [r \in Reports |-> FALSE]
    /\ due = [r \in Reports |-> 0] /\ since = [r \in Reports |-> 0]
    /\ scan = [id |-> FirstId, at |-> "wait"] /\ looked = FALSE /\ ready = None
    /\ request = NoIdle
    /\ value = [r \in Reports |-> FALSE] /\ host = value /\ unsaid = {}
    /\ age = [r \in Reports |-> Interval] /\ wait = 0
    /\ left = MaxEvents

\* The loops of XUA_Buffer_Ep and Endpoint0's work on a request take much less
\* than a unit, and the host asks the endpoint for data at its interval.
Tick ==
    /\ request = NoIdle /\ IF ready = None THEN looked ELSE wait < Interval
    /\ due' = [r \in Reports |-> (due[r] - 1) % W]
    /\ since' = [r \in Reports |-> (since[r] + 1) % W] /\ looked' = FALSE
    /\ age' = [r \in Reports |-> Min({age[r] + 1, Interval})]
    /\ wait' = IF ready = None THEN 0 ELSE wait + 1
    /\ UNCHANGED <<config, period, idle, pending, scan, ready, request, value, unsaid, host,
                   left>>

-----------------------------------------------------------------------------
(* The application.                                                        *)

Change(r) ==
    /\ left > 0 /\ left' = left - 1
    /\ value' = [value EXCEPT ![r] = ~@] /\ unsaid' = unsaid \cup {r}
    /\ UNCHANGED <<config, times, since, pending, scan, looked, ready, request, host,
                   age, wait>>

hidSetChangePending(r) ==
    /\ r \in unsaid /\ unsaid' = unsaid \ {r}
    /\ pending' = [pending EXCEPT ![First(descriptor.reports[r].id)] = TRUE]
    /\ looked' = FALSE
    /\ UNCHANGED <<config, times, since, scan, ready, request, value, host,
                   age, wait, left>>

\* The calls that edit the descriptor come from one task, one after the other.
Rest    == <<descriptor, times, since, pending, scan, looked, ready, request, value,
             unsaid, host, age, wait>>

hidResetReportDescriptor ==
    /\ editing = NoEdit /\ prepared /\ prepared' = FALSE
    /\ left > 0 /\ left' = left - 1
    /\ UNCHANGED <<Rest, usages, made, boot, announced, editing, spoilt>>

\* Mutant of hidSetReportItem: the descriptor may be in use.
SetItemInUse(place, page, item) ==
    /\ left > 0 /\ left' = left - 1
    /\ editing = NoEdit /\ ItemStatus(descriptor, place, page, item) = "good"
    /\ editing' = [element |-> ElementAt(descriptor, place), item |-> item]
    /\ UNCHANGED <<Rest, usages, prepared, made, boot, announced, spoilt>>

\* The checks, without the lock ...
hidSetReportItem(place, page, item) ==
    /\ left > 0 /\ left' = left - 1
    /\ editing = NoEdit /\ ~prepared /\ ItemStatus(descriptor, place, page, item) = "good"
    /\ editing' = [element |-> ElementAt(descriptor, place), item |-> item]
    /\ UNCHANGED <<Rest, usages, prepared, made, boot, announced, spoilt>>

\* ... and the store of the item, whatever has happened to the descriptor since.
StoreItem ==
    /\ editing # NoEdit /\ editing' = NoEdit
    /\ usages' = [usages EXCEPT ![editing.element] = editing.item]
    /\ spoilt' = IF boot # "prepare" /\ editing.item.size # usages[editing.element].size
                 THEN spoilt \cup {"resized"} ELSE spoilt
    /\ UNCHANGED <<Rest, prepared, made, boot, announced, left>>

Prepare ==
    /\ prepared' = TRUE /\ made' = IF prepared THEN made ELSE Translated
    /\ UNCHANGED <<Rest, usages, announced, editing, left>>

hidPrepareReportDescriptor ==
    /\ editing = NoEdit /\ ~prepared
    /\ Prepare /\ spoilt' = spoilt \ {"overtaken"} /\ UNCHANGED boot

\* Endpoint0 prepares the descriptor, unless the application has already ...
BootPrepare ==
    /\ boot = "prepare" /\ boot' = "measure"
    /\ Prepare
    /\ spoilt' = IF editing = NoEdit THEN spoilt ELSE spoilt \cup {"overtaken"}

\* ... and announces its length, which is 0 for one that is not prepared.
BootMeasure ==
    /\ boot = "measure" /\ boot' = "run"
    /\ announced' = [e \in DOMAIN usages |-> IF prepared THEN made[e].count ELSE 0]
    /\ spoilt' = IF prepared THEN spoilt ELSE spoilt \cup {"unmeasured"}
    /\ UNCHANGED <<Rest, usages, prepared, made, editing, left>>

-----------------------------------------------------------------------------
(* XUA_Buffer_Ep: the default case of its select, one access of the shared *)
(* state per step, and the completion of a report.                         *)

\* The loop that waits for the descriptor
WaitPrepared ==
    /\ scan.at = "wait" /\ prepared /\ scan' = [scan EXCEPT !.at = "pending"]
    /\ UNCHANGED <<config, times, since, pending, looked, ready, request, value, unsaid,
                   host, age, wait, left>>

\* UserHIDGetData fills g_hidData and XUD_SetReady_In arms the endpoint.
Offer ==
    /\ ready' = [id |-> scan.id, report |-> First(scan.id), data |-> value[First(scan.id)]]
    /\ scan' = [id |-> FirstId, at |-> "pending"]
    /\ UNCHANGED looked

GoOn == LET end == scan.id = hidGetReportIdLimit(descriptor) - 1
        IN  /\ scan' = [id |-> IF end THEN FirstId ELSE scan.id + 1, at |-> "pending"]
            /\ looked' = end
            /\ UNCHANGED ready

Look(at) ==
    /\ ready = None /\ ~looked /\ scan.at = at
    /\ UNCHANGED <<config, times, since, pending, request, value, unsaid, host, age,
                   wait, left>>

LookPending ==
    /\ Look("pending")
    /\ IF Having(descriptor, scan.id) = {} THEN GoOn
       ELSE IF pending[First(scan.id)] THEN Offer
       ELSE scan' = [scan EXCEPT !.at = "idle"] /\ UNCHANGED <<ready, looked>>

\* HidIsSetIdleSilenced reads the idle flag ...
LookIdle ==
    /\ Look("idle")
    /\ IF idle[First(scan.id)] THEN GoOn
       ELSE scan' = [scan EXCEPT !.at = "period"] /\ UNCHANGED <<ready, looked>>

\* ... then the clock and the period ...
LookPeriod ==
    /\ Look("period")
    /\ IF period[First(scan.id)] = 0 THEN GoOn
       ELSE scan' = [scan EXCEPT !.at = "time"] /\ UNCHANGED <<ready, looked>>

\* ... and the time of the next report.
LookTime ==
    /\ Look("time")
    /\ IF timeafter(due[First(scan.id)]) THEN GoOn ELSE Offer

Sending(id, array, new) ==
    [r \in Reports |-> IF r \in Having(descriptor, id) THEN new[r] ELSE array[r]]

\* The host takes the report: hid_ready_flag is cleared, hidCaptureReportTime ...
HidReportTaken ==
    /\ boot = "run" /\ ready # None /\ ready' = None
    /\ scan' = [id |-> ready.id, at |-> "calc"] /\ looked' = FALSE
    /\ since' = Sending(ready.id, since, [r \in Reports |-> 0])
    /\ host' = [host EXCEPT ![ready.report] = ready.data]
    /\ age' = [age EXCEPT ![ready.report] = 0]
    /\ wait' = 0
    /\ UNCHANGED <<config, times, pending, request, value, unsaid, left>>

Active(duration) == duration = 0 \/ Interval < duration

\* Endpoint0 has read the time of a report and not yet stored all it makes of it.
HalfSet(id) == request.at \in {"next", "period"} /\ request.id = id /\ Active(request.duration)

\* Mutant of hidCalcNextReportTime: the time of the next report is left alone.
CalcNothing ==
    /\ scan.at = "calc" /\ scan' = [scan EXCEPT !.at = "clear"]
    /\ UNCHANGED <<config, times, since, pending, looked, ready, request, value, unsaid,
                   host, age, wait, left>>

\* ... hidCalcNextReportTime ...
hidCalcNextReportTime ==
    /\ scan.at = "calc" /\ scan' = [scan EXCEPT !.at = "clear"]
    /\ due' = Sending(scan.id, due, [r \in Reports |-> (period[r] - since[r]) % W])
    /\ age' = IF HalfSet(scan.id) THEN [age EXCEPT ![First(scan.id)] = Interval] ELSE age
    /\ UNCHANGED <<config, period, idle, since, pending, looked, ready, request, value,
                   unsaid, host, wait, left>>

\* ... and hidClearChangePending.
hidClearChangePending ==
    /\ scan.at = "clear" /\ scan' = [id |-> FirstId, at |-> "pending"]
    /\ pending' = [pending EXCEPT ![IF scan.id = 0 THEN 1 ELSE First(scan.id)] = FALSE]
    /\ UNCHANGED <<config, times, since, looked, ready, request, value, unsaid, host,
                   age, wait, left>>

-----------------------------------------------------------------------------
(* Endpoint0: SET_IDLE for one report, or with the id 0 for all of them    *)
(* where ids are in use.                                                   *)

\* A request for a report that does not exist is stalled: nothing changes.
SetIdle(id, duration) ==
    /\ boot = "run" /\ request = NoIdle /\ left > 0
    /\ left' = left - 1
    /\ LET valid == hidIsReportIdValid(descriptor, id)
           first == IF valid THEN id ELSE hidGetNextValidReportId(descriptor, id)
       IN  request' = IF valid \/ id = 0
                      THEN [at |-> "idle", id |-> first, duration |-> duration,
                            start |-> IF valid THEN 0 ELSE first, old |-> 0, next |-> 0]
                      ELSE NoIdle
    /\ UNCHANGED <<config, times, since, pending, scan, looked, ready, value, unsaid,
                   host, age, wait>>

\* HidFindSetIdleActivationPoint: less than 4 ms of the period are left.
NearEnd(executing, within) == within + 1 = executing

HidCalcNewReportTime(executing, within, new) ==
    (IF NearEnd(executing, within) THEN executing - within ELSE new - within) % W

\* HidUpdateReportPeriod reads the period, which only this task writes, and
\* stores the flag ...
HidSetIdle ==
    /\ request.at = "idle"
    /\ LET r == First(request.id) IN
       /\ idle' = [idle EXCEPT ![r] = Active(request.duration)]
       /\ request' = [request EXCEPT !.at  = IF Active(request.duration) THEN "time" ELSE "period",
                                     !.old = period[r]]
    /\ looked' = FALSE
    /\ UNCHANGED <<config, period, due, since, pending, scan, ready, value, unsaid,
                   host, age, wait, left>>

\* ... where it is set, reads the time of the last report and the clock ...
HidReadTime ==
    /\ request.at = "time"
    /\ request' = [request EXCEPT !.at = "next", !.old = request.duration,
                      !.next = HidCalcNewReportTime(request.old, since[First(request.id)],
                                                    request.duration)]
    /\ UNCHANGED <<config, times, since, pending, scan, looked, ready, value, unsaid,
                   host, age, wait, left>>

\* ... stores the time of the next ...
HidSetNextTime ==
    /\ request.at = "next" /\ request' = [request EXCEPT !.at = "period"]
    /\ due' = [due EXCEPT ![First(request.id)] = request.next]
    /\ looked' = FALSE
    /\ UNCHANGED <<config, period, idle, since, pending, scan, ready, value, unsaid,
                   host, age, wait, left>>

\* Mutant: the loop over the reports ends one report early.
NextIdleShort(id) ==
    LET following == hidGetNextValidReportId(descriptor, id)
        after     == hidGetNextValidReportId(descriptor, following)
    IN  IF request.start = 0 \/ after = request.start THEN NoIdle
        ELSE [request EXCEPT !.at = "idle", !.id = following, !.old = 0, !.next = 0]

\* The next report of a request for all of them, until the first comes again.
NextIdle(id) ==
    LET following == hidGetNextValidReportId(descriptor, id)
    IN  IF request.start = 0 \/ following = request.start THEN NoIdle
        ELSE [request EXCEPT !.at = "idle", !.id = following, !.old = 0, !.next = 0]

\* ... and at last the period.
HidSetPeriod ==
    /\ request.at = "period"
    /\ period' = [period EXCEPT ![First(request.id)] = request.old]
    /\ request' = NextIdle(request.id)
    /\ looked' = FALSE
    /\ UNCHANGED <<config, idle, due, since, pending, scan, ready, value,
                   unsaid, host, age, wait, left>>

-----------------------------------------------------------------------------
Edit == \E e \in DOMAIN descriptor.elements, size \in 1 .. 3, other \in 0 .. 1 :
            hidSetReportItem([descriptor.elements[e] EXCEPT !.bit = (@ + other) % 8],
                             descriptor.reports[1].page, Usage(size, 2))

Endpoint0 == BootPrepare \/ BootMeasure \/ HidSetIdle \/ HidReadTime \/ HidSetNextTime
             \/ HidSetPeriod
Buffer == \/ WaitPrepared \/ LookPending \/ LookIdle \/ LookPeriod \/ LookTime
          \/ hidCalcNextReportTime \/ hidClearChangePending
App    == (\E r \in Reports : hidSetChangePending(r)) \/ StoreItem \/ hidPrepareReportDescriptor
Next   == \/ Tick \/ Buffer \/ HidReportTaken \/ App \/ Endpoint0 \/ Edit
          \/ hidResetReportDescriptor \/ \E r \in Reports : Change(r)
          \/ \E id \in 0 .. hidGetReportIdLimit(descriptor), d \in Durations : SetIdle(id, d)

\* The tasks go on running, the clock does, and the host polls the endpoint.  An
\* application announces its changes, and prepares a descriptor it has reset.
Spec == /\ Init /\ [][Next]_vars
        /\ WF_vars(Tick) /\ WF_vars(Buffer) /\ WF_vars(HidReportTaken)
        /\ WF_vars(App) /\ WF_vars(Endpoint0)

-----------------------------------------------------------------------------
(* Properties.                                                             *)

Before(i, tag) == {j \in 1 .. i - 1 : descriptor.items[j].tag = tag}
\* The value that counts at an item: that of the last item with the tag before it
InForce(i, tag) ==
    IF Before(i, tag) = {} THEN 0 ELSE descriptor.items[Max(Before(i, tag))].data
ReportOf(i) == InForce(i, "id")
\* The bits of a report that the first items give it
Bits(id) ==
    LET bits[i \in 0 .. Len(descriptor.items)] ==
            IF i = 0 THEN 0
            ELSE bits[i - 1] + IF descriptor.items[i].tag = "input" /\ ReportOf(i) = id
                               THEN InForce(i, "size") * InForce(i, "count") ELSE 0
    IN  bits
BitsBefore(i, id) == Bits(id)[i - 1]

\* In a descriptor that hidReportValidate accepts, the host finds the control of
\* each configurable element where the application reports it, in a report of
\* the length it sends.
ElementsPlaced ==
    /\ \A i \in DOMAIN descriptor.items : LET e == descriptor.items[i].element IN
          e # 0 => LET place == descriptor.elements[e] IN
                   /\ place.id = ReportOf(i)
                   /\ 8 * place.byte + place.bit = BitsBefore(i, place.id)
    /\ \A r \in Reports : LET id == descriptor.reports[r].id IN
          BitsBefore(Len(descriptor.items) + 1, id) = 8 * descriptor.reports[r].length

\* While the descriptor is in use the host reads the items as they are: no call
\* changes them behind its back.  After Endpoint0's preparation has come between
\* the check of an edit and its store ("overtaken"), only from the next one on.
ItemsCurrent == prepared /\ "overtaken" \notin spoilt => made = Translated

\* The length announced to the host is that of what it reads, unless a reset has come
\* between Endpoint0's preparation and the measuring ("unmeasured"), or an edit
\* after the preparation has changed the size of an item ("resized").
LengthCurrent ==
    prepared /\ boot = "run" /\ spoilt \cap {"unmeasured", "resized"} = {}
       => \A e \in DOMAIN usages : announced[e] = made[e].count

\* The host reads the report descriptor the application validated.
DescriptorRight == ElementsPlaced /\ [](ItemsCurrent /\ LengthCurrent)

\* The period of a report, with the one SET_IDLE is about to store
Pace(r) == IF request.at = "period" /\ request.id = descriptor.reports[r].id
           THEN request.old ELSE period[r]

\* An unchanged report is never offered sooner after the last than the endpoint's
\* interval, however SET_IDLE requests move its time.  Two ways of crossing a
\* request are exempt: XUA_Buffer_Ep computes the time of the next report when
\* Endpoint0 has read that of the last and not stored the new period yet (`age`
\* is not counted then), and it has read the period that a request for ever
\* replaces.
NoFlood ==
    [][ready = None /\ ready' # None
       => \/ pending[ready'.report] \/ age[ready'.report] = Interval
          \/ Pace(ready'.report) = 0]_vars

\* SET_IDLE is always answered: the loop over the reports comes back to its first.
SetIdleAnswered == request # NoIdle ~> request = NoIdle

\* Outside a request for all reports and until another comes, every report is as
\* the last such request left it.
AllTold ==
    [][\A r \in Reports : request.start # 0 /\ request' = NoIdle
       => idle'[r] = Active(request.duration)]_vars

\* A report that SET_IDLE does not hold back catches up with the buttons.
Unheld(r)   == r \in Reports /\ ~idle[r] /\ period[r] # 0
CaughtUp(r) == r \in Reports => host[r] = value[r]
CatchesUp   == \A r \in 1 .. Max({Len(d.reports) : d \in Descriptors}) :
                  <>[]Unheld(r) => <>[]CaughtUp(r)

\* hidSetChangePending says that the data "has changed and has not yet been
\* reported to the USB Host": an announced change stays pending until it is.
ChangeStaysPending ==
    \A r \in Reports : value[r] # host[r] /\ r \notin unsaid => pending[r]
=============================================================================
