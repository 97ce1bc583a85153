------------------------------ MODULE KeyChannel ------------------------------
(***************************************************************************)
(* What the keyboard radio link of microchip/samd/keyboard/sim promises    *)
(* the person who types, whatever the radio loses, repeats or reorders and *)
(* whichever side restarts: a key is printed at most once, in the order    *)
(* typed, and while the host is in a session with the device the next key  *)
(* is not read before the last one is printed.  KeyboardLink implements    *)
(* this module.                                                            *)
(***************************************************************************)
EXTENDS Naturals

VARIABLES
  typed,     \* keys read so far; a key is its number
  printed,   \* the last key printed, 0 if none
  session    \* the host has synchronised with the device

vars == <<typed, printed, session>>

TypeOK == typed \in Nat /\ printed \in Nat /\ session \in BOOLEAN

Init == typed = 0 /\ printed = 0 /\ session = FALSE

\* Read a key.  Outside a session the keys before it may be lost.
Type ==
  /\ session => printed = typed
  /\ typed' = typed + 1
  /\ UNCHANGED <<printed, session>>

\* Print the key read last, which was not printed before.
PrintKey ==
  /\ printed < typed
  /\ printed' = typed
  /\ session' = TRUE
  /\ UNCHANGED typed

\* The host restarts, and has to synchronise again.
Restart ==
  /\ session' = FALSE
  /\ UNCHANGED <<typed, printed>>

Next == Type \/ PrintKey \/ Restart

Spec == Init /\ [][Next]_vars
=============================================================================
