--------------------------- MODULE HidDescriptor ---------------------------
(* The HID report descriptor of an application: the items of               *)
(* hid_report_descriptor.h, their translation to what the host reads, and  *)
(* hidReportValidate, the check an application runs while it is developed. *)
(* A descriptor is a record of                                              *)
(*   items     the items in order, each with its tag, the size and the      *)
(*             value of its data and the configurable element it belongs to *)
(*             (0: none)                                                    *)
(*   elements  the places of the configurable elements in the reports       *)
(*   reports   one record per report: its id (0: ids are not in use), its   *)
(*             length in bytes and its usage page                           *)
EXTENDS Naturals, SequencesExt, FiniteSetsExt

HID_REPORT_ITEM_MAX_SIZE == 2

Item(tag, size, data, element) ==
    [tag |-> tag, size |-> size, data |-> data, element |-> element]

(***************************************************************************)
(* The functions that look a report up by its id.                          *)
(***************************************************************************)
Having(d, id)  == {i \in DOMAIN d.reports : d.reports[i].id = id}
hidIsReportIdValid(d, id) == Having(d, id) # {}
hidIsReportIdInUse(d)     == ~hidIsReportIdValid(d, 0)
\* Mutant: the largest id instead of one more.
LargestId(d)              == Max({d.reports[i].id : i \in DOMAIN d.reports})
hidGetReportIdLimit(d)    == Max({d.reports[i].id : i \in DOMAIN d.reports}) + 1

\* Mutant of hidGetNextValidReportId: the last report is not followed by the first.
NextIdAtEnd(d, previous) ==
    LET index == IF Having(d, previous) = {} THEN 0
                 ELSE Min({Min(Having(d, previous)), Len(d.reports) - 1})
    IN  d.reports[index + 1].id

\* The id after that of the first report with id "previous"; the first id
\* when no report has it, which is how a request for all the reports begins.
hidGetNextValidReportId(d, previous) ==
    LET index == IF Having(d, previous) = {} THEN 0
                 ELSE Min(Having(d, previous)) % Len(d.reports)
    IN  d.reports[index + 1].id

(***************************************************************************)
(* Translation: the header of each item and as much data as it announces,  *)
(* and how many bytes that makes.                                          *)
(***************************************************************************)
hidTranslateItem(item) ==
    [bytes |-> <<item.tag, item.size>> \o IF item.size = 0 THEN <<>> ELSE <<item.data>>,
     count |-> 1 + item.size]

(***************************************************************************)
(* hidSetReportItem: the usage of the configurable element at a place of a *)
(* report is replaced, the size of its data with it.                       *)
(***************************************************************************)
ItemStatus(d, place, page, item) ==
    LET ofReport == {e \in DOMAIN d.elements : d.elements[e].id = place.id}
    IN  IF item.size > HID_REPORT_ITEM_MAX_SIZE \/ item.tag # "usage" THEN "bad header"
        ELSE IF ofReport = {}                              THEN "bad id"
        ELSE IF page # d.reports[Min(Having(d, place.id))].page THEN "bad page"
        ELSE IF \A e \in ofReport : d.elements[e] # place  THEN "bad location"
        ELSE "good"

ElementAt(d, place) == Min({e \in DOMAIN d.elements : d.elements[e] = place})

(***************************************************************************)
(* hidReportValidate: one pass over the items with what it has seen so far *)
(* in "info", and three checks of the whole.  A failed check ends the pass. *)
(***************************************************************************)
LengthRight(d, info) ==
    /\ info.offset % 8 = 0
    /\ info.offset \div 8 = d.reports[info.report].length

AddReportId(d, info, item) ==
    LET apart == IF info.count = 0 THEN info.offset = 0 ELSE LengthRight(d, info)
    IN  IF apart /\ item.size = 1 /\ info.count < Len(d.reports)
        THEN [info EXCEPT !.ids[info.count + 1] = item.data,
                          !.pages = IF info.count = 0 THEN [@ EXCEPT ![1] = 0] ELSE @,
                          !.report = info.count + 1, !.count = @ + 1, !.offset = 0]
        ELSE [info EXCEPT !.good = FALSE]

AddUsagePage(info, item) ==
    IF info.open = 0 THEN info
    ELSE IF info.pages[info.report] = 0 /\ item.size \in {1, 2}
         THEN [info EXCEPT !.pages[info.report] = item.data]
         ELSE [info EXCEPT !.good = FALSE]

\* Mutant of AddUsage: the byte of the place is not compared.
AddUsageBitOnly(d, info, item) ==
    IF info.element < Len(d.elements) /\ item.element = info.element + 1
    THEN [info EXCEPT !.good = d.elements[item.element].bit = info.offset % 8,
                      !.element = @ + 1]
    ELSE info

AddUsage(d, info, item) ==
    IF info.element < Len(d.elements) /\ item.element = info.element + 1
    THEN LET here == [id   |-> info.ids[info.report],
                      byte |-> info.offset \div 8, bit |-> info.offset % 8]
         IN  [info EXCEPT !.good = d.elements[item.element] = here, !.element = @ + 1]
    ELSE info

AddItem(d, info, item) ==
    CASE item.tag = "collection" -> [info EXCEPT !.open = @ + 1]
      [] item.tag = "end"        -> [info EXCEPT !.good = info.open > 0,
                                       !.open = IF @ > 0 THEN @ - 1 ELSE 0]
      [] item.tag = "input"      -> [info EXCEPT !.offset = @ + info.size * info.fields]
      [] item.tag = "size"       -> [info EXCEPT !.size = item.data]
      [] item.tag = "count"      -> [info EXCEPT !.fields = item.data]
      [] item.tag = "id"         -> AddReportId(d, info, item)
      [] item.tag = "page"       -> AddUsagePage(info, item)
      [] item.tag = "usage"      -> AddUsage(d, info, item)
      [] OTHER                   -> info

\* Mutant of ReportIDsRight: the same id may be given to two reports.
ReportIDsRepeated(d, info) ==
    /\ info.count = Len(d.reports) \/ (info.count = 0 /\ Len(d.reports) = 1)
    /\ \A i \in DOMAIN d.reports : /\ info.ids[i] = d.reports[i].id
                                   /\ info.count > 0 => info.ids[i] # 0

ReportIDsRight(d, info) ==
    /\ info.count = Len(d.reports) \/ (info.count = 0 /\ Len(d.reports) = 1)
    /\ \A i, j \in DOMAIN d.reports : i # j => info.ids[i] # info.ids[j]
    /\ \A i \in DOMAIN d.reports : /\ info.ids[i] = d.reports[i].id
                                   /\ info.count > 0 => info.ids[i] # 0

\* What the pass over the items has seen after each of them
Pass(d) ==
    LET none  == [i \in DOMAIN d.reports |-> 0]
        start == [good |-> TRUE, open |-> 0, count |-> 0, report |-> 1, element |-> 0,
                  ids |-> none, pages |-> none, size |-> 0, fields |-> 0, offset |-> 0]
        seen[i \in 0 .. Len(d.items)] ==
            IF i = 0 THEN start
            ELSE LET info == seen[i - 1]
                 IN  IF info.good THEN AddItem(d, info, d.items[i]) ELSE info
    IN  seen
Seen(d) == Pass(d)[Len(d.items)]

hidReportValidate(d) ==
    Seen(d).good /\ Seen(d).open = 0 /\ ReportIDsRight(d, Seen(d)) /\ LengthRight(d, Seen(d))
=============================================================================
