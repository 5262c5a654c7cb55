------------------------------ MODULE Keyboard ------------------------------
(***************************************************************************)
(* The keyboard: irq1_handler of driver/atkbd.c and keyboard_handler of    *)
(* kernel/dev/keyboard.c, one scan code at a time, with the echo on the    *)
(* console in the middle of what processes print.  The keyboard itself is  *)
(* what sends the scan codes of set 1.  input_mode is 2, as dev_init and   *)
(* sys_get set it.                                                         *)
(***************************************************************************)
EXTENDS Console, Sequences

CONSTANTS Keys          \* the keys pressed: [code, ext], ext behind the prefix 0xe0

VARIABLES wire,         \* scan codes of the latest key event still to come
          held,         \* keys held down
          emul0,        \* FLAG_EMUL0: the prefix 0xe0 came
          flags         \* key_flags: the shift, control and alternate keys

keyVars == <<wire, held, emul0, flags>>
vars == <<consoleVars, keyVars>>

(* keyboard_map, one row per kind of key: plain, shifted, behind 0xe0.       *)
KeyMap == [
    letter |-> <<"char", "char", "none">>,
    pad    |-> <<"Pad", "char", "Nav">>,
    back   |-> <<"Backspace", "Backspace", "none">>,
    tab    |-> <<"Tab", "Tab", "none">>,
    enter  |-> <<"Enter", "Enter", "PadEnter">>,
    numlk  |-> <<"NumLock", "NumLock", "none">>,
    shiftl |-> <<"ShiftL", "ShiftL", "none">>,
    shiftr |-> <<"ShiftR", "ShiftR", "none">>,
    ctrl   |-> <<"CtrlL", "CtrlL", "CtrlR">>,
    alt    |-> <<"AltL", "AltL", "AltR">>]

Shift == {"ShiftL", "ShiftR"}
Control == {"CtrlL", "CtrlR", "AltL", "AltR"}
Modifiers == Shift \cup Control

ASSUME KeyboardAssumption ==
    Keys \subseteq [code : DOMAIN KeyMap, ext : BOOLEAN]

Code(code, up) == [code |-> code, up |-> up]
Prefix(code) == Code(code, FALSE)

Init ==
    /\ ConsoleInit
    /\ wire = <<>> /\ held = {}
    /\ emul0 = FALSE /\ flags = {}

-----------------------------------------------------------------------------
(* The keyboard.  A navigation key pressed under a shift key is wrapped into *)
(* codes that look like the release of that key, behind a prefix.            *)
Bare(k, up) == IF k.ext THEN <<Prefix("e0"), Code(k.code, up)>> ELSE <<Code(k.code, up)>>

Fake(code, up) == IF [code |-> code, ext |-> FALSE] \in held
                  THEN <<Prefix("e0"), Code(code, up)>> ELSE <<>>

Codes(k, up) ==
    IF k = [code |-> "pad", ext |-> TRUE]
    THEN IF up THEN Bare(k, up) \o Fake("shiftl", FALSE) \o Fake("shiftr", FALSE)
         ELSE Fake("shiftl", TRUE) \o Fake("shiftr", TRUE) \o Bare(k, up)
    ELSE Bare(k, up)

(* A key goes down, or repeats while it is down; it goes up.                 *)
Press(k) ==
    /\ wire = <<>>
    /\ held' = held \cup {k}
    /\ wire' = Codes(k, FALSE)
    /\ UNCHANGED <<consoleVars, emul0, flags>>

Release(k) ==
    /\ wire = <<>> /\ k \in held
    /\ held' = held \ {k}
    /\ wire' = Codes(k, TRUE)
    /\ UNCHANGED <<consoleVars, emul0, flags>>

(* Pause sends codes of the control and the NumLock key behind 0xe1; with    *)
(* control held it is another key.                                           *)
Pause ==
    /\ wire = <<>> /\ \A k \in held : k.code # "ctrl"
    /\ wire' = <<Prefix("e1"), Code("ctrl", FALSE), Code("numlk", FALSE),
                 Prefix("e1"), Code("ctrl", TRUE), Code("numlk", TRUE)>>
    /\ UNCHANGED <<consoleVars, held, emul0, flags>>

-----------------------------------------------------------------------------
Scan == Head(wire)
Arrives == wire # <<>> /\ wire' = Tail(wire) /\ UNCHANGED held

(* 0xe0 is noted; nothing reads the flag that notes 0xe1.                    *)
ScanPrefix ==
    /\ Arrives /\ Scan.code \in {"e0", "e1"}
    /\ emul0' = (emul0 \/ Scan.code = "e0")
    /\ UNCHANGED <<consoleVars, flags>>

KeyPlain(code) == KeyMap[code][1]               \* mutation: 0xe0 is ignored
Key(code) == KeyMap[code][IF emul0 THEN 3 ELSE 1]

ScanBreak ==
    /\ Arrives /\ Scan.code \notin {"e0", "e1"} /\ Scan.up
    /\ emul0' = FALSE
    /\ flags' = flags \ {Key(Scan.code)}
    /\ UNCHANGED consoleVars

(* The character a key stands for, "none" if it is not one.  Under a shift   *)
(* key the second column counts, prefix or not.                              *)
Typed(code) ==
    LET key == IF flags' \cap Shift # {} THEN KeyMap[code][2] ELSE Key(code)
    IN  CASE flags' \cap Control # {} -> "none"
          [] key = "char"             -> "char"
          [] key = "Tab"              -> "tab"
          [] key = "Enter"            -> "newline"
          [] key = "Backspace"        -> "back"
          [] OTHER                    -> "none"

ScanMake ==
    /\ Arrives /\ Scan.code \notin {"e0", "e1"} /\ ~Scan.up
    /\ emul0' = FALSE
    /\ flags' = flags \cup ({Key(Scan.code)} \cap Modifiers)
    /\ IF Typed(Scan.code) = "none" THEN UNCHANGED consoleVars ELSE PutChar(Typed(Scan.code))

-----------------------------------------------------------------------------
Next ==
    \/ (\E p \in Procs : Printing(p)) /\ UNCHANGED keyVars
    \/ \E k \in Keys : Press(k) \/ Release(k)
    \/ Pause
    \/ ScanPrefix \/ ScanBreak \/ ScanMake

Spec == Init /\ [][Next]_vars

-----------------------------------------------------------------------------
(* Between key events the flags are those of the keys held down: prefixes,   *)
(* repeats, the false shift codes of navigation keys and Pause change none.  *)
FlagsAgree ==
    wire = <<>> =>
        /\ ~emul0
        /\ flags = {KeyMap[k.code][IF k.ext THEN 3 ELSE 1] : k \in held} \cap Modifiers
=============================================================================
