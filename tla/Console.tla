------------------------------- MODULE Console -------------------------------
(***************************************************************************)
(* The text console: console_putchar of kernel/dev/console.c on the screen  *)
(* of driver/cga.c, called by processes (sys_put, printk) with interrupts   *)
(* enabled.  xpos and ypos are global and nothing protects them.           *)
(*                                                                         *)
(* A call is split as the compiled code (gcc -O) splits it: one action per *)
(* load or store of xpos and ypos, and one per byte sent to the display    *)
(* controller.  What the screen shows is left out; where characters go is  *)
(* what xpos and ypos say.                                                 *)
(***************************************************************************)
EXTENDS Integers, FiniteSets

CONSTANTS Columns, Lines,
          TabSize,
          Byte,         \* the values of a byte of a display register
          Procs         \* processes that print

ASSUME ConsoleAssumption ==
    /\ Columns \in Nat \ {0} /\ Lines \in Nat \ {0}
    /\ TabSize \in Nat \ {0} /\ Byte \in Nat \ {0}
    /\ Columns * Lines <= Byte * Byte   \* a cursor location fits its two registers

VARIABLES xpos, ypos,
          crtcIndex,    \* the register the controller's address port selects
          crtc,         \* the two cursor registers, high and low byte
          job,          \* job[p]: where p is in console_putchar, its character, its copies
          mixed         \* ghost: the latest calls overlapped

position == <<xpos, ypos>>
display == <<crtcIndex, crtc>>
consoleVars == <<position, display, job, mixed>>

(* What console_putchar tells apart; a character below 0x20, or above 0x7f   *)
(* (char is signed), that it does not know moves nothing.                    *)
Chars == {"back", "tab", "return", "newline", "char", "other"}
Out == [at |-> "out", c |-> "other", x |-> 0, y |-> 0]

(* console_init. *)
ConsoleInit ==
    /\ xpos = 0 /\ ypos = 0
    /\ crtcIndex = "low" /\ crtc = [high |-> 0, low |-> 0]
    /\ job = [p \in Procs |-> Out]
    /\ mixed = FALSE

Inside(p) == job[p].at # "out"
Quiet == \A p \in Procs : ~Inside(p)

Step(p, here, there) == job[p].at = here /\ job' = [job EXCEPT ![p].at = there]

(* The same where p needs its character and its copies no more.              *)
Jump(p, here, there) ==
    job[p].at = here /\ job' = [job EXCEPT ![p] = [Out EXCEPT !.at = there]]

NextTab(x) == ((x + TabSize) \div TabSize) * TabSize
Location(x, y) == y * Columns + x
-----------------------------------------------------------------------------
(* The branch on the character.                                              *)
First == [back |-> "load", tab |-> "tabload", return |-> "home", newline |-> "home",
          char |-> "pushy", other |-> "xtest"]

Enter(p) ==
    /\ ~Inside(p)
    /\ \E c \in Chars :
        job' = [job EXCEPT ![p] = [at |-> First[c], c |-> c, x |-> 0, y |-> 0]]
    /\ mixed' = ~Quiet
    /\ UNCHANGED <<position, display>>

(* '\b': xpos-- unless it is 0.                                              *)
BackLoad(p) ==
    /\ job[p].at = "load"
    /\ job' = [job EXCEPT ![p].x = xpos, ![p].at = IF xpos = 0 THEN "pushy" ELSE "store"]
    /\ UNCHANGED <<position, display, mixed>>

BackStore(p) ==
    /\ Step(p, "store", "pushy")
    /\ xpos' = job[p].x - 1
    /\ UNCHANGED <<ypos, display, mixed>>

(* screen_wirte is passed ypos, then xpos, read one after the other; the     *)
(* character written, xpos++ unless it was the blank of '\b'.                *)
PushY(p) ==
    /\ job[p].at = "pushy"
    /\ job' = [job EXCEPT ![p].y = ypos, ![p].at = "pushx"]
    /\ UNCHANGED <<position, display, mixed>>

PushX(p) ==
    /\ job[p].at = "pushx"
    /\ job' = [job EXCEPT ![p].x = xpos, ![p].at = "write"]
    /\ UNCHANGED <<position, display, mixed>>

WriteStays(p) ==                                \* mutation: xpos++ behind the test
    /\ Jump(p, "write", "ytest")
    /\ xpos' = IF job[p].c = "char" THEN xpos + 1 ELSE xpos
    /\ UNCHANGED <<ypos, display, mixed>>

Write(p) ==
    /\ Jump(p, "write", "xtest")
    /\ xpos' = IF job[p].c = "char" THEN xpos + 1 ELSE xpos
    /\ UNCHANGED <<ypos, display, mixed>>

(* '\t': the next tab stop is stored before it is compared with columns.     *)
TabLoad(p) ==
    /\ job[p].at = "tabload"
    /\ job' = [job EXCEPT ![p].x = NextTab(xpos), ![p].at = "tabstore"]
    /\ UNCHANGED <<position, display, mixed>>

TabStore(p) ==
    /\ Jump(p, "tabstore", IF job[p].x < Columns THEN "ytest" ELSE "clamp")
    /\ xpos' = job[p].x
    /\ UNCHANGED <<ypos, display, mixed>>

TabClamp(p) ==
    /\ Jump(p, "clamp", "xtest")
    /\ xpos' = Columns - 1
    /\ UNCHANGED <<ypos, display, mixed>>

(* '\r' and '\n'.                                                            *)
Home(p) ==
    /\ Jump(p, "home", IF job[p].c = "newline" THEN "down" ELSE "xtest")
    /\ xpos' = 0
    /\ UNCHANGED <<ypos, display, mixed>>

Down(p) ==
    /\ Jump(p, "down", "xtest")
    /\ ypos' = ypos + 1
    /\ UNCHANGED <<xpos, display, mixed>>

-----------------------------------------------------------------------------
(* The end of a line ...                                                     *)
TestX(p) ==
    /\ Step(p, "xtest", IF xpos >= Columns THEN "wrap" ELSE "ytest")
    /\ UNCHANGED <<position, display, mixed>>

Wrap(p) ==
    /\ Step(p, "wrap", "wrapdown")
    /\ xpos' = 0
    /\ UNCHANGED <<ypos, display, mixed>>

WrapDown(p) ==
    /\ Step(p, "wrapdown", "ytest")
    /\ ypos' = ypos + 1
    /\ UNCHANGED <<xpos, display, mixed>>

(* ... and of the screen: screen_scroll, ypos = lines - 1.                   *)
TestY(p) ==
    /\ Step(p, "ytest", IF ypos >= Lines THEN "scroll" ELSE "cursory")
    /\ UNCHANGED <<position, display, mixed>>

Scroll(p) ==
    /\ Step(p, "scroll", "cursory")
    /\ ypos' = Lines - 1
    /\ UNCHANGED <<xpos, display, mixed>>

(* set_cursor is passed ypos, then xpos, and sends the location in two bytes, *)
(* each behind the number of its register.                                   *)
CursorY(p) ==
    /\ job[p].at = "cursory"
    /\ job' = [job EXCEPT ![p].y = ypos, ![p].at = "cursorx"]
    /\ UNCHANGED <<position, display, mixed>>

CursorX(p) ==
    /\ job[p].at = "cursorx"
    /\ job' = [job EXCEPT ![p].x = xpos, ![p].at = "index1"]
    /\ UNCHANGED <<position, display, mixed>>

SelectHigh(p) ==
    /\ Step(p, "index1", "high")
    /\ crtcIndex' = "high"
    /\ UNCHANGED <<position, crtc, mixed>>

SendHigh(p) ==
    /\ Step(p, "high", "index2")
    /\ crtc' = [crtc EXCEPT ![crtcIndex] = (Location(job[p].x, job[p].y) \div Byte) % Byte]
    /\ UNCHANGED <<position, crtcIndex, mixed>>

SelectLowNot(p) ==                              \* mutation: the low register is not selected
    /\ Step(p, "index2", "low")
    /\ UNCHANGED <<position, display, mixed>>

SelectLow(p) ==
    /\ Step(p, "index2", "low")
    /\ crtcIndex' = "low"
    /\ UNCHANGED <<position, crtc, mixed>>

SendLow(p) ==
    /\ job[p].at = "low"
    /\ job' = [job EXCEPT ![p] = Out]
    /\ crtc' = [crtc EXCEPT ![crtcIndex] = Location(job[p].x, job[p].y) % Byte]
    /\ UNCHANGED <<position, crtcIndex, mixed>>

Printing(p) ==
    \/ Enter(p) \/ BackLoad(p) \/ BackStore(p) \/ PushY(p) \/ PushX(p) \/ Write(p)
    \/ TabLoad(p) \/ TabStore(p) \/ TabClamp(p) \/ Home(p) \/ Down(p)
    \/ TestX(p) \/ Wrap(p) \/ WrapDown(p) \/ TestY(p) \/ Scroll(p)
    \/ CursorY(p) \/ CursorX(p)
    \/ SelectHigh(p) \/ SendHigh(p) \/ SelectLow(p) \/ SendLow(p)

-----------------------------------------------------------------------------
(* A whole call in an interrupt handler, where nothing comes between.        *)
Moved(c) == CASE c = "back"   -> IF xpos = 0 THEN 0 ELSE xpos - 1
              [] c = "tab"    -> IF NextTab(xpos) < Columns THEN NextTab(xpos) ELSE Columns - 1
              [] c = "char"   -> xpos + 1
              [] c = "other"  -> xpos
              [] OTHER        -> 0

PutChar(c) ==
    LET x == Moved(c)
        wraps == x >= Columns
        y == ypos + (IF c = "newline" THEN 1 ELSE 0) + (IF wraps THEN 1 ELSE 0)
    IN  /\ xpos' = IF wraps THEN 0 ELSE x
        /\ ypos' = IF y >= Lines THEN Lines - 1 ELSE y
        /\ crtcIndex' = "low"
        /\ crtc' = [high |-> (Location(xpos', ypos') \div Byte) % Byte,
                    low  |-> Location(xpos', ypos') % Byte]
        /\ mixed' = ~Quiet
        /\ UNCHANGED job

-----------------------------------------------------------------------------
(* However calls of processes and the echo of keys cut each other, a         *)
(* position outside the screen is always about to be repaired: once nobody   *)
(* is inside console_putchar, the next character lands on the screen.        *)
Settled == Quiet => xpos < Columns /\ ypos < Lines

(* The cursor is shown at the position, unless the latest calls overlapped:  *)
(* then the registers may hold bytes of two positions until the next call.   *)
CursorShown ==
    Quiet /\ ~mixed => crtc.high * Byte + crtc.low = Location(xpos, ypos)
=============================================================================
