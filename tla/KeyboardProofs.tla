--------------------------- MODULE KeyboardProofs ---------------------------
(***************************************************************************)
(* The console for any number of processes that print, whatever keys are   *)
(* echoed in between, on a screen of any size; and the flags of the        *)
(* keyboard for any set of keys.                                           *)
(*                                                                         *)
(* Settled is not inductive: it says nothing while somebody is inside      *)
(* console_putchar.  The strengthening Repaired says who repairs a         *)
(* position outside the screen: a process that has still to compare xpos   *)
(* with columns, or ypos with lines.  CursorInv says how much of the       *)
(* cursor a process alone in there has sent, and FlagsInv what the scan    *)
(* codes still to come will do to the flags.                               *)
(***************************************************************************)
EXTENDS Keyboard, SequenceTheorems, TLAPS

(* The places from which every way leads through the test of xpos ...        *)
ToTestX == {"pushy", "pushx", "write", "clamp", "xtest", "wrap"}
(* ... and those from which it leads through the test of ypos.               *)
ToTestY == {"xtest", "wrap", "wrapdown", "ytest", "scroll"}

Places == ToTestX \cup ToTestY \cup {"out", "load", "store", "tabload", "tabstore",
              "home", "down", "cursory", "cursorx", "index1", "high", "index2", "low"}

Jobs == [at : Places, c : Chars, x : Nat, y : Nat]

PositionTypes == /\ xpos \in Nat /\ ypos \in Nat
                 /\ job \in [Procs -> Jobs]
                 /\ \A p \in Procs : job[p].at = "store" => job[p].x # 0

Repaired ==
    /\ xpos >= Columns => \E p \in Procs : job[p].at \in ToTestX
    /\ ypos >= Lines => \E p \in Procs : job[p].at \in ToTestY

PositionInv == PositionTypes /\ Repaired
-----------------------------------------------------------------------------
(* A tab stop is a number. *)
LEMMA NextTabType == ASSUME NEW x \in Nat PROVE NextTab(x) \in Nat
<1>1. (x + TabSize) \div TabSize \in Nat
  BY ConsoleAssumption
<1>2. QED
  BY <1>1, ConsoleAssumption DEF NextTab

LEMMA PositionInit == Init => PositionInv
BY ConsoleAssumption
DEF Init, ConsoleInit, Out, PositionInv, PositionTypes, Repaired, Jobs, Places, ToTestX,
    ToTestY, Chars

(* A character printed in an interrupt handler leaves the position on the    *)
(* screen.                                                                   *)
LEMMA PutCharSettles ==
    ASSUME PositionTypes, NEW c \in Chars, PutChar(c)
    PROVE  /\ xpos' \in Nat /\ ypos' \in Nat /\ job' = job
           /\ xpos' < Columns /\ ypos' < Lines
<1>1. Moved(c) \in Nat
  BY NextTabType, ConsoleAssumption DEF Moved, PositionTypes
<1>2. QED
  BY <1>1, ConsoleAssumption DEF PutChar, PositionTypes

LEMMA PositionKeys ==
    ASSUME PositionInv,
           \/ \E k \in Keys : Press(k) \/ Release(k)
           \/ Pause \/ ScanPrefix \/ ScanBreak \/ ScanMake
           \/ UNCHANGED vars
    PROVE  PositionInv'
<1>1. CASE UNCHANGED <<xpos, ypos, job>>
  BY <1>1 DEF PositionInv, PositionTypes, Repaired
<1>2. ASSUME NEW c \in Chars, PutChar(c) PROVE PositionInv'
  BY <1>2, PutCharSettles, ConsoleAssumption DEF PositionInv, PositionTypes, Repaired
<1>3. CASE ScanMake
  <2>1. Typed(Scan.code) \in {"none", "char", "tab", "newline", "back"}
    BY DEF Typed
  <2>2. CASE Typed(Scan.code) = "none"
    BY <1>1, <1>3, <2>2 DEF ScanMake, consoleVars, position
  <2>3. CASE Typed(Scan.code) # "none"
    BY <1>2, <1>3, <2>1, <2>3 DEF ScanMake, Chars
  <2>4. QED
    BY <2>2, <2>3
<1>4. QED
  BY <1>1, <1>3 DEF Press, Release, Pause, ScanPrefix, ScanBreak, vars, consoleVars, position

-----------------------------------------------------------------------------

LEMMA PrintMoves ==
    ASSUME PositionTypes, NEW p \in Procs, Printing(p)
    PROVE  /\ PositionTypes'
           /\ \A q \in Procs \ {p} : job'[q] = job[q]
<1> USE DEF PositionTypes, Jobs, Places, ToTestX, ToTestY, Chars
<1>1. CASE Enter(p)
  <2>1. PICK c \in Chars :
          job' = [job EXCEPT ![p] = [at |-> First[c], c |-> c, x |-> 0, y |-> 0]]
    BY <1>1 DEF Enter
  <2>2. First[c] \in {"load", "tabload", "home", "pushy", "xtest"}
    BY DEF First
  <2>3. QED
    BY <1>1, <2>1, <2>2 DEF Enter, position
<1>2. CASE BackLoad(p) \/ BackStore(p) \/ PushY(p) \/ PushX(p) \/ Write(p)
  BY <1>2 DEF BackLoad, BackStore, PushY, PushX, Write, Step, Jump, Out, position
<1>3. CASE TabLoad(p) \/ TabStore(p) \/ TabClamp(p)
  BY <1>3, NextTabType, ConsoleAssumption DEF TabLoad, TabStore, TabClamp, Step, Jump, Out, position
<1>4. CASE Home(p) \/ Down(p) \/ TestX(p) \/ Wrap(p) \/ WrapDown(p) \/ TestY(p) \/ Scroll(p)
  BY <1>4, ConsoleAssumption
  DEF Home, Down, TestX, Wrap, WrapDown, TestY, Scroll, Step, Jump, Out, position
<1>5. CASE CursorY(p) \/ CursorX(p)
  BY <1>5 DEF CursorY, CursorX, Step, position
<1>6. CASE SelectHigh(p) \/ SendHigh(p) \/ SelectLow(p) \/ SendLow(p)
  BY <1>6 DEF SelectHigh, SendHigh, SelectLow, SendLow, Step, Out, position
<1>7. QED
  BY <1>1, <1>2, <1>3, <1>4, <1>5, <1>6 DEF Printing
(* Who was on the way to a test and is not p still is.                       *)
LEMMA PrintRepairs ==
    ASSUME PositionInv, NEW p \in Procs, Printing(p)
    PROVE  Repaired'
<1> USE DEF PositionInv, PositionTypes
<1>1. \A q \in Procs \ {p} : job'[q] = job[q]
  BY PrintMoves
<1>2. xpos' >= Columns => \E q \in Procs : job'[q].at \in ToTestX
  <2>1. CASE xpos' = xpos /\ (job[p].at \in ToTestX => job'[p].at \in ToTestX)
    BY <1>1, <2>1 DEF Repaired
  <2>2. CASE xpos' < Columns
    BY <2>2, PrintMoves, ConsoleAssumption
  <2>3. CASE job'[p].at \in ToTestX
    BY <2>3
  <2>4. \/ xpos' = xpos /\ (job[p].at \in ToTestX => job'[p].at \in ToTestX)
        \/ xpos' < Columns
        \/ job'[p].at \in ToTestX
    <3> USE ConsoleAssumption DEF Jobs, ToTestX, Step, Jump, Out, position
    <3>1. CASE Enter(p) \/ BackLoad(p) \/ BackStore(p) \/ PushY(p) \/ PushX(p) \/ Write(p)
      BY <3>1 DEF Enter, BackLoad, BackStore, PushY, PushX, Write, Inside
    <3>2. CASE TabLoad(p) \/ TabStore(p) \/ TabClamp(p)
      BY <3>2 DEF TabLoad, TabStore, TabClamp
    <3>3. CASE Home(p) \/ Down(p) \/ TestX(p) \/ Wrap(p) \/ WrapDown(p) \/ TestY(p) \/ Scroll(p)
      BY <3>3 DEF Home, Down, TestX, Wrap, WrapDown, TestY, Scroll
    <3>4. CASE CursorY(p) \/ CursorX(p) \/ SelectHigh(p) \/ SendHigh(p) \/ SelectLow(p) \/ SendLow(p)
      BY <3>4 DEF CursorY, CursorX, SelectHigh, SendHigh, SelectLow, SendLow
    <3>5. QED
      BY <3>1, <3>2, <3>3, <3>4 DEF Printing
  <2>5. QED
    BY <2>1, <2>2, <2>3, <2>4
<1>3. ypos' >= Lines => \E q \in Procs : job'[q].at \in ToTestY
  <2>1. CASE ypos' = ypos /\ (job[p].at \in ToTestY => job'[p].at \in ToTestY)
    BY <1>1, <2>1 DEF Repaired
  <2>2. CASE ypos' < Lines
    BY <2>2, PrintMoves, ConsoleAssumption
  <2>3. CASE job'[p].at \in ToTestY
    BY <2>3
  <2>4. \/ ypos' = ypos /\ (job[p].at \in ToTestY => job'[p].at \in ToTestY)
        \/ ypos' < Lines
        \/ job'[p].at \in ToTestY
    <3> USE ConsoleAssumption DEF Jobs, ToTestY, Step, Jump, Out, position
    <3>1. CASE Enter(p) \/ BackLoad(p) \/ BackStore(p) \/ PushY(p) \/ PushX(p) \/ Write(p)
      BY <3>1 DEF Enter, BackLoad, BackStore, PushY, PushX, Write, Inside
    <3>2. CASE TabLoad(p) \/ TabStore(p) \/ TabClamp(p)
      BY <3>2 DEF TabLoad, TabStore, TabClamp
    <3>3. CASE Home(p) \/ Down(p) \/ TestX(p) \/ Wrap(p) \/ WrapDown(p) \/ TestY(p) \/ Scroll(p)
      BY <3>3 DEF Home, Down, TestX, Wrap, WrapDown, TestY, Scroll
    <3>4. CASE CursorY(p) \/ CursorX(p) \/ SelectHigh(p) \/ SendHigh(p) \/ SelectLow(p) \/ SendLow(p)
      BY <3>4 DEF CursorY, CursorX, SelectHigh, SendHigh, SelectLow, SendLow
    <3>5. QED
      BY <3>1, <3>2, <3>3, <3>4 DEF Printing
  <2>5. QED
    BY <2>1, <2>2, <2>3, <2>4
<1>4. QED
  BY <1>2, <1>3 DEF Repaired

-----------------------------------------------------------------------------
(* console.c, keyboard.c: a position outside the screen is always about to   *)
(* be tested by somebody.                                                    *)
THEOREM PositionInvariant == Spec => []PositionInv
<1>1. PositionInv /\ [Next]_vars => PositionInv'
  <2> SUFFICES ASSUME PositionInv, [Next]_vars PROVE PositionInv'
    OBVIOUS
  <2>1. ASSUME NEW p \in Procs, Printing(p) PROVE PositionInv'
    BY <2>1, PrintMoves, PrintRepairs DEF PositionInv, PositionTypes
  <2>2. QED
    BY <2>1, PositionKeys DEF Next
<1>2. QED
  BY <1>1, PositionInit, PTL DEF Spec

(* Once nobody is inside console_putchar, the next character lands on the    *)
(* screen, however many processes print and whatever is echoed.              *)
THEOREM CursorSettles == Spec => []Settled
<1>1. PositionInv => Settled
  BY ConsoleAssumption
  DEF PositionInv, PositionTypes, Repaired, Settled, Quiet, Inside, ToTestX, ToTestY
<1>2. QED
  BY <1>1, PositionInvariant, PTL

-----------------------------------------------------------------------------
(* The two bytes of a location.                                              *)
High(x, y) == (Location(x, y) \div Byte) % Byte
Low(x, y) == Location(x, y) % Byte

(* What one process alone in console_putchar has sent of the cursor by now.  *)
Sent(p) ==
    /\ job[p].at = "cursorx" => job[p].y = ypos
    /\ job[p].at \in {"index1", "high", "index2", "low"} => job[p].x = xpos /\ job[p].y = ypos
    /\ job[p].at = "high" => crtcIndex = "high"
    /\ job[p].at \in {"index2", "low"} => crtc["high"] = High(xpos, ypos)
    /\ job[p].at = "low" => crtcIndex = "low"

Registers == crtcIndex \in {"high", "low"} /\ DOMAIN crtc = {"high", "low"}

CursorInv ==
    /\ Registers
    /\ ~mixed =>
        /\ \A p, q \in Procs : Inside(p) /\ Inside(q) => p = q
        /\ \A p \in Procs : Sent(p)
        /\ Quiet => crtc["high"] = High(xpos, ypos) /\ crtc["low"] = Low(xpos, ypos)

(* A location on the screen is what its two bytes say.                       *)
LEMMA TwoBytes ==
    ASSUME NEW l \in Nat, l < Byte * Byte
    PROVE  ((l \div Byte) % Byte) * Byte + (l % Byte) = l
<1>1. Byte \in Nat \ {0}
  BY ConsoleAssumption
<1>2. l = Byte * (l \div Byte) + (l % Byte) /\ l \div Byte \in Nat /\ l % Byte \in 0 .. Byte - 1
  BY <1>1
<1>3. l \div Byte < Byte
  BY <1>1, <1>2
<1>4. (l \div Byte) % Byte = l \div Byte
  BY <1>1, <1>2, <1>3
<1>5. QED
  BY <1>1, <1>2, <1>4

LEMMA OnScreen ==
    ASSUME NEW x \in Nat, NEW y \in Nat, x < Columns, y < Lines
    PROVE  Location(x, y) \in Nat /\ Location(x, y) < Byte * Byte
<1>1. Columns \in Nat /\ Lines \in Nat /\ Byte \in Nat /\ Columns * Lines <= Byte * Byte
  BY ConsoleAssumption
<1>2. y * Columns + x < (y + 1) * Columns
  BY <1>1
<1>3. (y + 1) * Columns <= Lines * Columns
  BY <1>1
<1>4. y * Columns \in Nat
  BY <1>1
<1>5. QED
  BY <1>1, <1>2, <1>3, <1>4 DEF Location

LEMMA CursorInit == Init => CursorInv
<1> SUFFICES ASSUME Init PROVE CursorInv
  OBVIOUS
<1>1. Byte \in Nat \ {0} /\ Columns \in Nat
  BY ConsoleAssumption
<1>2. High(0, 0) = 0 /\ Low(0, 0) = 0
  <2>1. 0 \div Byte = 0 /\ 0 % Byte = 0
    BY <1>1
  <2>2. Location(0, 0) = 0
    BY <1>1 DEF Location
  <2>3. QED
    BY <2>1, <2>2 DEF High, Low
<1>3. QED
  BY <1>2 DEF Init, ConsoleInit, Out, CursorInv, Registers, Sent, Inside, Quiet

LEMMA PrintCursor ==
    ASSUME PositionTypes, CursorInv, NEW p \in Procs, Printing(p)
    PROVE  CursorInv'
<1>0. /\ job \in [Procs -> Jobs]
      /\ \A q \in Procs \ {p} : job'[q] = job[q]
  BY PrintMoves DEF PositionTypes
<1>1. CASE Enter(p)
  <2>1. PICK c \in Chars :
          job' = [job EXCEPT ![p] = [at |-> First[c], c |-> c, x |-> 0, y |-> 0]]
    BY <1>1 DEF Enter
  <2>2. First[c] \in {"load", "tabload", "home", "pushy", "xtest"}
    BY DEF First, Chars
  <2>3. Registers' /\ (mixed' <=> ~Quiet)
    BY <1>1 DEF Enter, display, CursorInv, Registers
  <2>4. ASSUME Quiet
        PROVE  /\ \A q \in Procs : Inside(q)' => q = p
               /\ \A q \in Procs : Sent(q)'
               /\ ~Quiet'
    BY <1>0, <2>1, <2>2, <2>4 DEF Quiet, Inside, Sent, Jobs
  <2>5. QED
    BY <2>3, <2>4 DEF CursorInv
<1>2. CASE ~Enter(p)
  <2>1. mixed' = mixed /\ Inside(p)
    BY <1>2
    DEF Printing, BackLoad, BackStore, PushY, PushX, Write, TabLoad, TabStore, TabClamp, Home,
        Down, TestX, Wrap, WrapDown, TestY, Scroll, CursorY, CursorX, SelectHigh, SendHigh,
        SelectLow, SendLow, Step, Jump, Inside
  <2>2. Registers'
    BY <1>2
    DEF Printing, BackLoad, BackStore, PushY, PushX, Write, TabLoad, TabStore, TabClamp, Home,
        Down, TestX, Wrap, WrapDown, TestY, Scroll, CursorY, CursorX, SelectHigh, SendHigh,
        SelectLow, SendLow, Registers, CursorInv, display
  <2>3. ASSUME ~mixed
        PROVE  /\ \A q, r \in Procs : (Inside(q) /\ Inside(r))' => q = r
               /\ \A q \in Procs : Sent(q)'
               /\ Quiet' => crtc'["high"] = High(xpos, ypos)' /\ crtc'["low"] = Low(xpos, ypos)'
    <3>1. \A q \in Procs \ {p} : job[q].at = "out" /\ job'[q].at = "out"
      BY <1>0, <2>1, <2>3 DEF CursorInv, Inside
    <3>2. \A q, r \in Procs : (Inside(q) /\ Inside(r))' => q = r
      BY <3>1 DEF Inside
    <3>3. Sent(p) /\ DOMAIN crtc = {"high", "low"}
      BY <2>3 DEF CursorInv, Registers
    <3>4. Sent(p)' /\ (job'[p].at = "out" =>
                        crtc'["high"] = High(xpos, ypos)' /\ crtc'["low"] = Low(xpos, ypos)')
      <4> USE <1>0, <3>3 DEF Jobs, Sent, Step, Jump, Out, position, display
      <4>1. CASE BackLoad(p) \/ BackStore(p) \/ PushY(p) \/ PushX(p) \/ Write(p)
        BY <4>1 DEF BackLoad, BackStore, PushY, PushX, Write
      <4>2. CASE TabLoad(p) \/ TabStore(p) \/ TabClamp(p)
        BY <4>2 DEF TabLoad, TabStore, TabClamp
      <4>3. CASE Home(p) \/ Down(p) \/ TestX(p) \/ Wrap(p) \/ WrapDown(p) \/ TestY(p) \/ Scroll(p)
        BY <4>3 DEF Home, Down, TestX, Wrap, WrapDown, TestY, Scroll
      <4>4. CASE CursorY(p) \/ CursorX(p)
        BY <4>4 DEF CursorY, CursorX
      <4>5. CASE SelectHigh(p) \/ SelectLow(p)
        BY <4>5 DEF SelectHigh, SelectLow
      <4>6. CASE SendHigh(p)
        BY <4>6 DEF SendHigh, High
      <4>7. CASE SendLow(p)
        BY <4>7 DEF SendLow, High, Low
      <4>8. QED
        BY <1>2, <4>1, <4>2, <4>3, <4>4, <4>5, <4>6, <4>7 DEF Printing
    <3>5. \A q \in Procs \ {p} : Sent(q)'
      BY <3>1 DEF Sent
    <3>6. QED
      BY <3>2, <3>4, <3>5 DEF Quiet, Inside
  <2>4. QED
    BY <2>1, <2>2, <2>3 DEF CursorInv
<1>3. QED
  BY <1>1, <1>2

LEMMA KeysCursor ==
    ASSUME CursorInv,
           \/ \E k \in Keys : Press(k) \/ Release(k)
           \/ Pause \/ ScanPrefix \/ ScanBreak \/ ScanMake
           \/ UNCHANGED vars
    PROVE  CursorInv'
<1>1. CASE UNCHANGED consoleVars
  BY <1>1 DEF consoleVars, position, display, CursorInv, Registers, Sent, Quiet, Inside, High, Low
<1>2. ASSUME NEW c \in Chars, PutChar(c) PROVE CursorInv'
  <2>1. /\ crtcIndex' = "low" /\ mixed' = ~Quiet /\ job' = job
        /\ crtc' = [high |-> High(xpos, ypos)', low |-> Low(xpos, ypos)']
    BY <1>2 DEF PutChar, High, Low
  <2>2. QED
    BY <2>1 DEF CursorInv, Registers, Sent, Quiet, Inside
<1>3. CASE ScanMake
  <2>1. Typed(Scan.code) \in {"none", "char", "tab", "newline", "back"}
    BY DEF Typed
  <2>2. CASE Typed(Scan.code) = "none"
    BY <1>1, <1>3, <2>2 DEF ScanMake
  <2>3. CASE Typed(Scan.code) # "none"
    BY <1>2, <1>3, <2>1, <2>3 DEF ScanMake, Chars
  <2>4. QED
    BY <2>2, <2>3
<1>4. QED
  BY <1>1, <1>3 DEF Press, Release, Pause, ScanPrefix, ScanBreak, vars

(* console.c, cga.c: when nobody prints and the latest calls did not overlap *)
(* the display shows the cursor where the next character goes.               *)
THEOREM CursorFollows == Spec => []CursorShown
<1>1. PositionInv /\ CursorInv /\ [Next]_vars => CursorInv'
  <2> SUFFICES ASSUME PositionInv, CursorInv, [Next]_vars PROVE CursorInv'
    OBVIOUS
  <2>1. ASSUME NEW p \in Procs, Printing(p) PROVE CursorInv'
    BY <2>1, PrintCursor DEF PositionInv
  <2>2. QED
    BY <2>1, KeysCursor DEF Next
<1>2. PositionInv /\ CursorInv => CursorShown
  <2> SUFFICES ASSUME PositionInv, CursorInv, Quiet, ~mixed
               PROVE  crtc.high * Byte + crtc.low = Location(xpos, ypos)
    BY DEF CursorShown
  <2>1. xpos \in Nat /\ ypos \in Nat /\ Columns \in Nat /\ Lines \in Nat
    BY ConsoleAssumption DEF PositionInv, PositionTypes
  <2>2. xpos < Columns /\ ypos < Lines
    BY <2>1 DEF PositionInv, Repaired, Quiet, Inside, ToTestX, ToTestY
  <2>3. crtc.high = High(xpos, ypos) /\ crtc.low = Low(xpos, ypos)
    BY DEF CursorInv
  <2>4. Location(xpos, ypos) \in Nat /\ Location(xpos, ypos) < Byte * Byte
    BY <2>1, <2>2, OnScreen
  <2>5. High(xpos, ypos) * Byte + Low(xpos, ypos) = Location(xpos, ypos)
    BY <2>4, TwoBytes DEF High, Low
  <2>6. QED
    BY <2>3, <2>5
<1>3. QED
  BY <1>1, <1>2, CursorInit, PositionInvariant, PTL DEF Spec

-----------------------------------------------------------------------------
(* The flag of a key, and the flags of the keys held down.                   *)
KeyOf(k) == KeyMap[k.code][IF k.ext THEN 3 ELSE 1]
Due == {KeyOf(k) : k \in held} \cap Modifiers

(* Codes behind the prefix that stand for no flag: those of navigation keys  *)
(* and the false ones of shift keys, in pairs or with the prefix gone.       *)
NoFlag == {"shiftl", "shiftr", "pad"}
CodeType == [code : DOMAIN KeyMap \cup {"e0", "e1"}, up : BOOLEAN]
Pairs(w) ==
    /\ w \in Seq(CodeType) /\ Len(w) % 2 = 0
    /\ \A i \in 1 .. Len(w) : IF i % 2 = 1 THEN w[i].code = "e0" ELSE w[i].code \in NoFlag
Half(w) ==
    /\ w \in Seq(CodeType) /\ Len(w) % 2 = 1
    /\ \A i \in 1 .. Len(w) : IF i % 2 = 0 THEN w[i].code = "e0" ELSE w[i].code \in NoFlag

(* A key that was pressed or released and whose flag is still to change.     *)
OneDue(k, up) ==
    /\ \/ wire = <<Code(k.code, up)>> /\ emul0 = k.ext
       \/ wire = <<Prefix("e0"), Code(k.code, up)>> /\ ~emul0 /\ k.ext
    /\ Due = IF up THEN flags \ {KeyOf(k)} ELSE flags \cup ({KeyOf(k)} \cap Modifiers)

(* Pause: the flag of the left control key comes and goes.                   *)
PauseCodes == <<Prefix("e1"), Code("ctrl", FALSE), Code("numlk", FALSE),
                Prefix("e1"), Code("ctrl", TRUE), Code("numlk", TRUE)>>
Pausing(m) ==
    /\ ~emul0 /\ "CtrlL" \notin Due
    /\ flags = IF m \in {2, 3, 4} THEN Due \cup {"CtrlL"} ELSE Due
    /\ wire \in Seq(CodeType) /\ Len(wire) = 6 - m
    /\ \A i \in 1 .. 6 - m : wire[i] = PauseCodes[m + i]

FlagsInv ==
    /\ held \subseteq Keys /\ emul0 \in BOOLEAN
    /\ \/ flags = Due /\ ((Pairs(wire) /\ ~emul0) \/ (Half(wire) /\ emul0))
       \/ \E k \in Keys, up \in BOOLEAN : OneDue(k, up)
       \/ \E m \in 0 .. 5 : Pausing(m)

-----------------------------------------------------------------------------
LEMMA KeyMapKeys ==
    DOMAIN KeyMap = {"letter", "pad", "back", "tab", "enter", "numlk", "shiftl", "shiftr", "ctrl", "alt"}
BY DEF KeyMap

LEMMA KeyTyped == ASSUME NEW k \in Keys PROVE /\ k.code \in DOMAIN KeyMap /\ k.ext \in BOOLEAN
                                              /\ k = [code |-> k.code, ext |-> k.ext]
BY KeyboardAssumption

(* No two keys share a flag.                                                 *)
LEMMA OneKey ==
    ASSUME NEW k \in Keys
    PROVE  /\ KeyOf(k) = "ShiftL" => k.code = "shiftl" /\ ~k.ext
           /\ KeyOf(k) = "ShiftR" => k.code = "shiftr" /\ ~k.ext
           /\ KeyOf(k) = "CtrlL" => k.code = "ctrl" /\ ~k.ext
           /\ KeyOf(k) = "CtrlR" => k.code = "ctrl" /\ k.ext
           /\ KeyOf(k) = "AltL" => k.code = "alt" /\ ~k.ext
           /\ KeyOf(k) = "AltR" => k.code = "alt" /\ k.ext
<1>1. k.ext \in BOOLEAN /\ k.code \in DOMAIN KeyMap
  BY KeyTyped
<1>2. CASE k.ext
  BY <1>1, <1>2, KeyMapKeys DEF KeyOf, KeyMap
<1>3. CASE ~k.ext
  BY <1>1, <1>3, KeyMapKeys DEF KeyOf, KeyMap
<1>4. QED
  BY <1>1, <1>2, <1>3

LEMMA FlagOwner ==
    ASSUME NEW k \in Keys, NEW l \in Keys, KeyOf(k) = KeyOf(l), KeyOf(k) \in Modifiers
    PROVE  k = l
<1>1. k.code = l.code /\ k.ext = l.ext
  BY OneKey, KeyTyped DEF Modifiers, Shift, Control
<1>2. QED
  BY <1>1, KeyTyped

(* What the keyboard sends.                                                  *)
LEMMA EvenOff ==
    ASSUME NEW i \in Nat, NEW m \in Nat, m % 2 = 0, m < i
    PROVE  i - m \in Nat /\ (i - m) % 2 = i % 2
OBVIOUS

LEMMA PairsJoin == ASSUME NEW v, NEW w, Pairs(v), Pairs(w) PROVE Pairs(v \o w)
<1>1. /\ v \o w \in Seq(CodeType) /\ Len(v \o w) = Len(v) + Len(w)
      /\ \A i \in 1 .. Len(v) + Len(w) : (v \o w)[i] = IF i <= Len(v) THEN v[i] ELSE w[i - Len(v)]
      /\ Len(v) \in Nat /\ Len(w) \in Nat /\ Len(v) % 2 = 0 /\ Len(w) % 2 = 0
  <2>1. v \in Seq(CodeType) /\ w \in Seq(CodeType) /\ Len(v) % 2 = 0 /\ Len(w) % 2 = 0
    BY DEF Pairs
  <2>2. QED
    BY <2>1, ConcatProperties
<1>2. ASSUME NEW i \in 1 .. Len(v) + Len(w)
      PROVE  IF i % 2 = 1 THEN (v \o w)[i].code = "e0" ELSE (v \o w)[i].code \in NoFlag
  <2>1. CASE i <= Len(v)
    BY <1>1, <2>1 DEF Pairs
  <2>2. CASE ~(i <= Len(v))
    <3>1. i - Len(v) \in 1 .. Len(w) /\ (i - Len(v)) % 2 = i % 2
      <4>1. Len(v) \in Nat /\ Len(v) % 2 = 0 /\ Len(w) \in Nat /\ i \in Nat /\ Len(v) < i
        BY <1>1, <2>2
      <4>2. (i - Len(v)) % 2 = i % 2
        BY <4>1, EvenOff
      <4>3. QED
        BY <4>1, <4>2
    <3>2. QED
      BY <1>1, <2>2, <3>1 DEF Pairs
  <2>3. QED
    BY <2>1, <2>2
<1>3. (Len(v) + Len(w)) % 2 = 0
  BY <1>1
<1>4. QED
  BY <1>1, <1>2, <1>3 DEF Pairs

LEMMA PairOne ==
    ASSUME NEW code \in NoFlag, NEW up \in BOOLEAN
    PROVE  Pairs(<<Prefix("e0"), Code(code, up)>>) /\ Pairs(<< >>)
<1>1. Prefix("e0") \in CodeType /\ Code(code, up) \in CodeType
  <2>1. code \in DOMAIN KeyMap
    BY KeyMapKeys DEF NoFlag
  <2>2. [code |-> code, up |-> up] \in CodeType
    BY <2>1 DEF CodeType
  <2>3. [code |-> "e0", up |-> FALSE] \in CodeType
    BY DEF CodeType
  <2>4. QED
    BY <2>2, <2>3 DEF Prefix, Code
<1>2. QED
  <2> DEFINE w == <<Prefix("e0"), Code(code, up)>>
  <2>1. w \in Seq(CodeType) /\ Len(w) = 2 /\ w[1].code = "e0" /\ w[2].code \in NoFlag
    BY <1>1 DEF Prefix, Code
  <2> HIDE DEF w
  <2>2. \A i \in 1 .. 2 : i = 1 \/ i = 2
    OBVIOUS
  <2>3. Pairs(w)
    BY <2>1, <2>2 DEF Pairs
  <2>4. Pairs(<< >>)
    BY DEF Pairs
  <2>5. QED
    BY <2>3, <2>4 DEF w

LEMMA PairsTail ==
    ASSUME NEW w, Pairs(w), w # << >>
    PROVE  Head(w).code = "e0" /\ Half(Tail(w))
<1>1. /\ w \in Seq(CodeType) /\ Len(w) \in Nat /\ Len(w) > 0 /\ Head(w) = w[1]
      /\ Tail(w) \in Seq(CodeType) /\ Len(Tail(w)) = Len(w) - 1
      /\ \A i \in 1 .. Len(w) - 1 : Tail(w)[i] = w[i + 1]
  BY HeadTailProperties DEF Pairs
<1>2. QED
  BY <1>1 DEF Pairs, Half

LEMMA HalfTail ==
    ASSUME NEW w, Half(w)
    PROVE  Head(w).code \in NoFlag /\ Pairs(Tail(w))
<1>1. /\ w \in Seq(CodeType) /\ Len(w) \in Nat /\ Len(w) > 0 /\ Head(w) = w[1]
      /\ Tail(w) \in Seq(CodeType) /\ Len(Tail(w)) = Len(w) - 1
      /\ \A i \in 1 .. Len(w) - 1 : Tail(w)[i] = w[i + 1]
  BY HeadTailProperties DEF Half
<1>2. QED
  BY <1>1 DEF Pairs, Half

LEMMA NavCodes ==
    ASSUME NEW up \in BOOLEAN, NEW k, k = [code |-> "pad", ext |-> TRUE]
    PROVE  Pairs(Codes(k, up))
<1>1. Pairs(Bare(k, up))
  BY PairOne, "pad" \in NoFlag DEF Bare, NoFlag
<1>2. ASSUME NEW code \in NoFlag, NEW u \in BOOLEAN PROVE Pairs(Fake(code, u))
  BY PairOne DEF Fake
<1>3. "shiftl" \in NoFlag /\ "shiftr" \in NoFlag
  BY DEF NoFlag
<1>4. QED
  BY <1>1, <1>2, <1>3, PairsJoin DEF Codes

-----------------------------------------------------------------------------
LEMMA FlagsInit == Init => FlagsInv
<1> SUFFICES ASSUME Init PROVE FlagsInv
  OBVIOUS
<1>1. Due = {} /\ Pairs(wire)
  BY PairOne, "pad" \in NoFlag DEF Init, Due, NoFlag
<1>2. QED
  BY <1>1 DEF Init, FlagsInv

(* A key event starts when the codes of the one before are dealt with.       *)
LEMMA NoWire ==
    ASSUME FlagsInv, wire = << >>
    PROVE  flags = Due /\ ~emul0
<1>1. ~Half(wire)
  BY DEF Half
<1>2. ASSUME NEW k \in Keys, NEW up \in BOOLEAN PROVE ~OneDue(k, up)
  BY DEF OneDue
<1>3. \A m \in 0 .. 5 : ~Pausing(m)
  BY DEF Pausing
<1>4. QED
  BY <1>1, <1>2, <1>3 DEF FlagsInv

(* What is due once key k is down, or up.                                    *)
LEMMA DueNext ==
    ASSUME held \subseteq Keys, NEW k \in Keys, NEW up \in BOOLEAN,
           held' = IF up THEN held \ {k} ELSE held \cup {k}
    PROVE  Due' = IF up THEN Due \ {KeyOf(k)} ELSE Due \cup ({KeyOf(k)} \cap Modifiers)
<1>1. CASE up
  <2>1. \A l \in held : KeyOf(l) \in Modifiers /\ KeyOf(l) = KeyOf(k) => l = k
    BY FlagOwner
  <2>2. QED
    BY <1>1, <2>1 DEF Due
<1>2. CASE ~up
  BY <1>2 DEF Due
<1>3. QED
  BY <1>1, <1>2

LEMMA KeyEvents ==
    ASSUME FlagsInv, NEW k \in Keys, Press(k) \/ Release(k)
    PROVE  FlagsInv'
<1>1. PICK up \in BOOLEAN :
        /\ wire = << >> /\ wire' = Codes(k, up) /\ UNCHANGED <<emul0, flags>>
        /\ held' = IF up THEN held \ {k} ELSE held \cup {k}
  BY DEF Press, Release
<1>2. flags = Due /\ ~emul0 /\ held \subseteq Keys /\ held' \subseteq Keys
  BY <1>1, NoWire DEF FlagsInv
<1>3. Due' = IF up THEN Due \ {KeyOf(k)} ELSE Due \cup ({KeyOf(k)} \cap Modifiers)
  BY <1>1, <1>2, DueNext
<1>4. k.ext \in BOOLEAN /\ k = [code |-> k.code, ext |-> k.ext]
  BY KeyTyped
<1>5. CASE k = [code |-> "pad", ext |-> TRUE]
  <2>1. KeyOf(k) = "Nav"
    BY <1>5 DEF KeyOf, KeyMap
  <2>2. Due' = Due
    BY <1>3, <2>1 DEF Due, Modifiers, Shift, Control
  <2>3. Pairs(wire')
    BY <1>1, <1>5, NavCodes
  <2>4. QED
    BY <1>1, <1>2, <2>2, <2>3 DEF FlagsInv
<1>6. CASE k # [code |-> "pad", ext |-> TRUE]
  <2>1. wire' = Bare(k, up)
    BY <1>1, <1>6 DEF Codes
  <2>2. OneDue(k, up)'
    <3>1. Due' = IF up THEN flags' \ {KeyOf(k)} ELSE flags' \cup ({KeyOf(k)} \cap Modifiers)
      BY <1>1, <1>2, <1>3
    <3>2. CASE k.ext
      BY <1>1, <1>2, <2>1, <3>1, <3>2 DEF OneDue, Bare
    <3>3. CASE ~k.ext
      BY <1>1, <1>2, <1>4, <2>1, <3>1, <3>3 DEF OneDue, Bare, FlagsInv
    <3>4. QED
      BY <1>4, <3>2, <3>3
  <2>3. QED
    BY <1>1, <1>2, <2>2 DEF FlagsInv
<1>7. QED
  BY <1>5, <1>6

LEMMA PauseEvent ==
    ASSUME FlagsInv, Pause
    PROVE  FlagsInv'
<1>1. /\ wire = << >> /\ \A k \in held : k.code # "ctrl"
      /\ wire' = PauseCodes /\ UNCHANGED <<held, emul0, flags>>
  BY DEF Pause, PauseCodes
<1>2. flags = Due /\ ~emul0 /\ held \subseteq Keys /\ Due' = Due
  BY <1>1, NoWire DEF FlagsInv, Due
<1>3. "CtrlL" \notin Due
  BY <1>1, <1>2, OneKey DEF Due
<1>4. PauseCodes \in Seq(CodeType) /\ Len(PauseCodes) = 6
  <2>1. \A code \in {"e1", "ctrl", "numlk"}, up \in BOOLEAN : Code(code, up) \in CodeType
    BY KeyMapKeys DEF CodeType, Code
  <2>2. /\ Code("e1", FALSE) \in CodeType /\ Code("ctrl", FALSE) \in CodeType
        /\ Code("numlk", FALSE) \in CodeType /\ Code("ctrl", TRUE) \in CodeType
        /\ Code("numlk", TRUE) \in CodeType
    BY <2>1
  <2>3. \A a, b, c, d, e \in CodeType :
          <<a, b, c, a, d, e>> \in Seq(CodeType) /\ Len(<<a, b, c, a, d, e>>) = 6
    OBVIOUS
  <2>4. QED
    BY <2>2, <2>3 DEF PauseCodes, Prefix
<1>5. Pausing(0)'
  BY <1>1, <1>2, <1>3, <1>4 DEF Pausing
<1>6. QED
  BY <1>1, <1>2, <1>5 DEF FlagsInv

-----------------------------------------------------------------------------
(* One scan code.                                                            *)
Scanned ==
    /\ wire # << >> /\ wire' = Tail(wire) /\ held' = held
    /\ Scan.code \in {"e0", "e1"} =>
        /\ emul0' = (emul0 \/ Scan.code = "e0") /\ flags' = flags
    /\ Scan.code \notin {"e0", "e1"} =>
        /\ emul0' = FALSE
        /\ Scan.up => flags' = flags \ {Key(Scan.code)}
        /\ ~Scan.up => flags' = flags \cup ({Key(Scan.code)} \cap Modifiers)

LEMMA ScanSteps == ScanPrefix \/ ScanBreak \/ ScanMake => Scanned
BY DEF ScanPrefix, ScanBreak, ScanMake, Scanned, Arrives

LEMMA ScanKeeps ==
    ASSUME FlagsInv, Scanned
    PROVE  FlagsInv'
<1>1. Due' = Due /\ held' \subseteq Keys /\ emul0 \in BOOLEAN
  BY DEF Scanned, Due, FlagsInv
<1>2. emul0' \in BOOLEAN
  BY <1>1 DEF Scanned
<1>3. ASSUME flags = Due, Pairs(wire), ~emul0
      PROVE  flags' = Due' /\ Half(wire') /\ emul0'
  <2>1. Scan.code = "e0" /\ Half(Tail(wire))
    BY <1>3, PairsTail DEF Scanned, Scan
  <2>2. QED
    BY <1>1, <1>3, <2>1 DEF Scanned
<1>4. ASSUME flags = Due, Half(wire), emul0
      PROVE  flags' = Due' /\ Pairs(wire') /\ ~emul0'
  <2>1. Scan.code \in NoFlag /\ Pairs(Tail(wire))
    BY <1>4, HalfTail DEF Scanned, Scan
  <2>2. Key(Scan.code) \notin Modifiers
    BY <1>4, <2>1 DEF NoFlag, Key, KeyMap, Modifiers, Shift, Control
  <2>3. flags' = flags
    BY <1>4, <2>1, <2>2 DEF Scanned, NoFlag, Due
  <2>4. QED
    BY <1>1, <1>4, <2>1, <2>3 DEF Scanned, NoFlag
<1>5. ASSUME NEW k \in Keys, NEW up \in BOOLEAN, OneDue(k, up)
      PROVE  FlagsInv'
  <2>1. CASE wire = <<Code(k.code, up)>> /\ emul0 = k.ext
    <3>1. Scan.code = k.code /\ Scan.up = up /\ wire' = << >>
      BY <2>1 DEF Scanned, Scan, Code
    <3>2. k.code \notin {"e0", "e1"} /\ Key(k.code) = KeyOf(k)
      BY <2>1, KeyTyped, KeyMapKeys DEF Key, KeyOf
    <3>3. flags' = Due' /\ ~emul0'
      BY <1>1, <1>5, <3>1, <3>2 DEF Scanned, OneDue
    <3>4. Pairs(wire')
      BY <3>1, PairOne, "pad" \in NoFlag DEF NoFlag
    <3>5. QED
      BY <1>1, <1>2, <3>3, <3>4 DEF FlagsInv
  <2>2. CASE wire = <<Prefix("e0"), Code(k.code, up)>> /\ ~emul0 /\ k.ext
    <3>1. Scan.code = "e0" /\ wire' = <<Code(k.code, up)>>
      BY <2>2 DEF Scanned, Scan, Code, Prefix
    <3>2. OneDue(k, up)'
      BY <1>1, <1>5, <2>2, <3>1 DEF Scanned, OneDue
    <3>3. QED
      BY <1>1, <1>2, <3>2 DEF FlagsInv
  <2>3. QED
    BY <1>5, <2>1, <2>2 DEF OneDue
<1>6. ASSUME NEW m \in 0 .. 5, Pausing(m)
      PROVE  FlagsInv'
  <2>1. ~emul0 /\ "CtrlL" \notin Due /\ wire' = Tail(wire) /\ Scan = PauseCodes[m + 1]
    BY <1>6 DEF Pausing, Scanned, Scan
  <2>2. Key("ctrl") = "CtrlL" /\ Key("numlk") = "NumLock"
    BY <2>1 DEF Key, KeyMap
  <2>3. "CtrlL" \in Modifiers /\ "NumLock" \notin Modifiers /\ "NumLock" \notin Due
    BY DEF Modifiers, Shift, Control, Due
  <2>4. ~emul0' /\ flags' = IF m + 1 \in {2, 3, 4} THEN Due \cup {"CtrlL"} ELSE Due
    <3>1. flags = IF m \in {2, 3, 4} THEN Due \cup {"CtrlL"} ELSE Due
      BY <1>6 DEF Pausing
    <3>2. ASSUME m = 0 \/ m = 3 PROVE flags' = flags /\ ~emul0'
      <4>1. Scan.code = "e1"
        BY <2>1, <3>2 DEF PauseCodes, Prefix, Code
      <4>2. QED
        BY <2>1, <4>1 DEF Scanned
    <3>3. ASSUME m = 1 PROVE flags' = flags \cup {"CtrlL"} /\ ~emul0'
      <4>1. Scan = Code("ctrl", FALSE)
        BY <2>1, <3>3 DEF PauseCodes
      <4>2. QED
        BY <2>2, <2>3, <4>1 DEF Scanned, Code
    <3>4. ASSUME m = 4 PROVE flags' = flags \ {"CtrlL"} /\ ~emul0'
      <4>1. Scan = Code("ctrl", TRUE)
        BY <2>1, <3>4 DEF PauseCodes
      <4>2. QED
        BY <2>2, <4>1 DEF Scanned, Code
    <3>5. ASSUME m = 2 PROVE flags' = flags /\ ~emul0'
      <4>1. Scan = Code("numlk", FALSE)
        BY <2>1, <3>5 DEF PauseCodes
      <4>2. QED
        BY <2>2, <2>3, <4>1 DEF Scanned, Code
    <3>6. ASSUME m = 5 PROVE flags' = flags \ {"NumLock"} /\ ~emul0'
      <4>1. Scan = Code("numlk", TRUE)
        BY <2>1, <3>6 DEF PauseCodes
      <4>2. QED
        BY <2>2, <4>1 DEF Scanned, Code
    <3>7. m = 0 \/ m = 1 \/ m = 2 \/ m = 3 \/ m = 4 \/ m = 5
      OBVIOUS
    <3>8. CASE m = 0 \/ m = 1 \/ m = 2
      BY <3>1, <3>2, <3>3, <3>5, <3>8
    <3>9. CASE m = 3
      BY <3>1, <3>2, <3>9
    <3>10. CASE m = 4
      <4>1. flags = Due \cup {"CtrlL"} /\ flags' = Due
        BY <2>1, <3>1, <3>4, <3>10
      <4>2. QED
        BY <3>4, <3>10, <4>1
    <3>11. CASE m = 5
      <4>1. flags = Due /\ flags' = Due
        BY <2>3, <3>1, <3>6, <3>11
      <4>2. QED
        BY <3>6, <3>11, <4>1
    <3>12. QED
      BY <3>7, <3>8, <3>9, <3>10, <3>11
  <2>5. /\ wire' \in Seq(CodeType) /\ Len(wire') = 6 - (m + 1)
        /\ \A i \in 1 .. 6 - (m + 1) : wire'[i] = PauseCodes[(m + 1) + i]
    <3>1. /\ wire' \in Seq(CodeType) /\ Len(wire') = Len(wire) - 1
          /\ \A i \in 1 .. Len(wire') : wire'[i] = wire[i + 1]
      BY <1>6, <2>1, HeadTailProperties DEF Pausing
    <3>2. QED
      BY <1>6, <3>1 DEF Pausing
  <2>6. CASE m = 5
    <3>1. Pairs(wire')
      BY <2>5, <2>6 DEF Pairs
    <3>2. QED
      BY <1>1, <1>2, <2>4, <2>6, <3>1 DEF FlagsInv
  <2>7. CASE m # 5
    <3>1. m + 1 \in 0 .. 5 /\ Pausing(m + 1)'
      BY <1>1, <2>1, <2>4, <2>5, <2>7 DEF Pausing
    <3>2. QED
      BY <1>1, <1>2, <3>1 DEF FlagsInv
  <2>8. QED
    BY <2>6, <2>7
<1>7. QED
  BY <1>1, <1>2, <1>3, <1>4, <1>5, <1>6 DEF FlagsInv

(* atkbd.c, keyboard.c: between key events the flags are those of the keys   *)
(* held down, whatever keys are pressed, repeated and released.              *)
THEOREM FlagsFollowKeys == Spec => []FlagsAgree
<1>1. FlagsInv /\ [Next]_vars => FlagsInv'
  <2> SUFFICES ASSUME FlagsInv, [Next]_vars PROVE FlagsInv'
    OBVIOUS
  <2>1. CASE UNCHANGED keyVars
    BY <2>1 DEF keyVars, FlagsInv, Due, OneDue, Pausing
  <2>2. UNCHANGED vars => UNCHANGED keyVars
    BY DEF vars, keyVars
  <2>3. QED
    BY <2>1, <2>2, KeyEvents, PauseEvent, ScanSteps, ScanKeeps DEF Next
<1>2. FlagsInv => FlagsAgree
  BY NoWire DEF FlagsAgree, Due, KeyOf
<1>3. QED
  BY <1>1, <1>2, FlagsInit, PTL DEF Spec
=============================================================================
