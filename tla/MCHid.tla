------------------------------- MODULE MCHid -------------------------------
(* One report without an id, and two reports with ids; next to them       *)
(* descriptors with the mistakes hidReportValidate is there for.           *)
EXTENDS Hid

Open  == Item("collection", 1, 1, 0)
Close == Item("end", 0, 0, 0)
Input == Item("input", 1, 2, 0)
Size(n)  == Item("size", 1, n, 0)
Count(n) == Item("count", 1, n, 0)
Id(n)    == Item("id", 1, n, 0)
Page(n)  == Item("page", 1, n, 0)
Control(e) == Item("usage", 1, 9, e)
Place(id, byte, bit) == [id |-> id, byte |-> byte, bit |-> bit]
Report(id, length, page) == [id |-> id, length |-> length, page |-> page]

\* A control in the first bit and one in the last byte.
Body(first, fill) == <<Control(first), Size(1), Count(1), Input, Count(fill), Input>>

Single(place, length) ==
    [items |-> <<Page(12), Open>> \o Body(1, 15) \o <<Close>>,
     elements |-> <<place>>, reports |-> <<Report(0, length, 12)>>]
Two(a, b, place) ==
    [items |-> <<Open, Id(a), Page(12)>> \o Body(1, 7) \o
               <<Count(1), Control(2), Input, Count(7), Input, Close>> \o
               <<Open, Id(b), Page(12), Count(8), Input, Close>>,
     elements |-> <<Place(a, 0, 0), place>>,
     reports |-> <<Report(a, 2, 12), Report(b, 1, 12)>>]

MCDescriptors ==
    {Single(Place(0, 0, 0), 2), Two(1, 2, Place(1, 1, 0)),
      Single(Place(0, 0, 1), 2), Single(Place(0, 0, 0), 1),
      Two(1, 2, Place(1, 0, 0)), Two(1, 2, Place(2, 1, 0)), Two(1, 1, Place(1, 1, 0))}
=============================================================================
