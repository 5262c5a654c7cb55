------------------------------- MODULE MCDisks -------------------------------
EXTENDS Disks, TLC

Row(type, first, num) == [type |-> type, first |-> first, num |-> num]
Span(first, last) == [first |-> first, last |-> last]
Gpt(at, parts) == 1 :> [at |-> at, parts |-> parts]
Drive(sectors, mbr, gpt, fat, init) ==
    [present |-> TRUE, has28 |-> TRUE, lba28 |-> sectors, has48 |-> FALSE, lba48 |-> 0,
     mbr |-> mbr, gpt |-> gpt, fat |-> fat, init |-> init]
Big(L) == [L EXCEPT !.lba28 = 15, !.has48 = TRUE, !.lba48 = L.lba28]
Old(L) == [L EXCEPT !.has28 = FALSE]
Absent(L) == [L EXCEPT !.present = FALSE]
NoTable == [s \in {} |-> <<>>]
Protective == 0 :> <<Row("gpt", 1, 31)>>

Plain == Drive(12, 0 :> <<Row("data", 2, 3), Row("empty", 0, 0), Row("data", 5, 4)>>,
               NoTable, {5}, {5})
Whole == Drive(6, NoTable, NoTable, {0}, {0})
TwoLogical == Drive(16, 0 :> <<Row("data", 1, 2), Row("ext", 4, 10)>>
                        @@ 4 :> <<Row("data", 1, 3), Row("ext", 5, 5)>>
                        @@ 9 :> <<Row("data", 1, 3)>>,
                    NoTable, {1, 10}, {10})
ThreeLogical == Drive(20, 0 :> <<Row("ext", 2, 16)>>
                          @@ 2 :> <<Row("data", 1, 3), Row("ext", 5, 5)>>
                          @@ 7 :> <<Row("data", 1, 3), Row("ext", 10, 5)>>
                          @@ 12 :> <<Row("data", 1, 3)>>,
                      NoTable, {13}, {13})
OverItself == Drive(12, 0 :> <<Row("ext", 0, 10), Row("data", 2, 3)>>, NoTable, {2}, {})
Guid == Drive(14, Protective, Gpt(2, <<Span(4, 6), Span(0, 0), Span(7, 9), Span(10, 10)>>), {7}, {7})
GuidBackward == Drive(14, Protective, Gpt(2, <<Span(9, 4), Span(5, 7)>>), {5}, {5})
GuidEmpty == Drive(14, Protective, Gpt(2, <<Span(5, 4), Span(6, 8)>>), {}, {})
GuidBehind == Drive(14, Protective, Gpt(13, <<Span(3, 4), Span(5, 6), Span(7, 8)>>), {}, {})
GuidTwice == Drive(14, 0 :> <<Row("gpt", 1, 6), Row("gpt", 7, 6)>>,
                   Gpt(2, <<Span(4, 6)>>), {4}, {4})
ZeroSized == Drive(12, 0 :> <<Row("data", 3, 0), Row("data", 4, 2)>>, NoTable, {}, {})
ZeroExtended == Drive(12, 0 :> <<Row("ext", 7, 0), Row("data", 4, 2)>>, NoTable, {4}, {})
GuidInside == Drive(16, 0 :> <<Row("ext", 2, 4)>> @@ 2 :> <<Row("gpt", 1, 1)>>,
                    3 :> [at |-> 7, parts |-> <<Span(2, 3)>>], {}, {})
GuidWraps == Drive(16, 0 :> <<Row("ext", 2, 6)>> @@ 2 :> <<Row("gpt", 1, 1)>>,
                   3 :> [at |-> 2, parts |-> <<Span(63, 1)>>], {}, {})
GuidOverItself == Drive(16, 0 :> <<Row("ext", 0, 10), Row("gpt", 1, 15)>>,
                        Gpt(12, <<Span(4, 6)>>), {}, {})
GuidStale == Drive(16, 0 :> <<Row("ext", 4, 1), Row("gpt", 1, 15)>> @@ 4 :> <<Row("gpt", 1, 1)>>,
                   Gpt(2, <<Span(5, 6)>>), {}, {})
TooLong == Drive(12, 0 :> <<Row("data", 3, 10), Row("data", 4, 2)>>, NoTable, {4}, {4})
LastSector == Drive(10, 0 :> <<Row("data", 9, 1), Row("data", 3, 2)>>, NoTable, {3}, {3})

MCMachines ==
    {<<>>, <<Whole>>, <<TwoLogical>>, <<ThreeLogical>>, <<OverItself>>, <<GuidBackward>>,
     <<GuidEmpty>>, <<GuidBehind>>, <<GuidTwice>>, <<ZeroSized>>, <<ZeroExtended>>,
     <<GuidInside>>, <<GuidWraps>>, <<GuidOverItself>>, <<GuidStale>>, <<TooLong>>, <<LastSector>>,
     <<Plain, Absent(Plain), Old(Plain), Guid>>,
     <<Guid, Absent(Plain), Big(TwoLogical)>>}
=============================================================================
