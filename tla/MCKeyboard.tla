----------------------------- MODULE MCKeyboard -----------------------------
(* Keyboard for TLC: keys of every kind the decoder tells apart.             *)
EXTENDS Keyboard

MCKeys == {[code |-> "shiftl", ext |-> FALSE], [code |-> "ctrl", ext |-> TRUE],
           [code |-> "pad", ext |-> TRUE], [code |-> "letter", ext |-> FALSE],
           [code |-> "enter", ext |-> FALSE]}
=============================================================================
