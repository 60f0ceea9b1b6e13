------------------------------ MODULE KeyTaps ------------------------------
(***************************************************************************)
(* What sending keys promises to whoever reads the keyboard, without the   *)
(* lists, iterators and nested loops of the code:                          *)
(*                                                                         *)
(*  - an order for keys is taken only when the one before it is done;      *)
(*  - its keys are tapped in the order given, each once and released       *)
(*    before the next is pressed, whatever fails on the way;               *)
(*  - unless something fails, the readers see exactly these taps.          *)
(***************************************************************************)
EXTENDS Integers, Sequences

CONSTANTS
  Orders,        \* the words of keys that may be ordered
  WriteErrors    \* may a press or a release fail?

VARIABLES
  order,  \* the keys of the order that has been taken, if any
  due,    \* the keys that are still to be tapped
  held,   \* the key that has been pressed and not yet released, if any
  down,   \* the keys that are down, some since a release failed
  seen    \* the keys that the readers believe to be down

vars == <<order, due, held, down, seen>>

Init == order = <<>> /\ due = <<>> /\ held = {} /\ down = {} /\ seen = {}

Order(keys) ==
  /\ order = <<>>
  /\ order' = keys /\ due' = keys
  /\ UNCHANGED <<held, down, seen>>

Done ==
  /\ due = <<>> /\ held = {}
  /\ order' = <<>>
  /\ UNCHANGED <<due, held, down, seen>>

(* The keys that are down become keys, unless this fails, or is not told.  *)
Become(keys) ==
  \/ down' = keys /\ seen' = keys
  \/ WriteErrors /\ down' = keys /\ UNCHANGED seen
  \/ WriteErrors /\ UNCHANGED <<down, seen>>

Press ==
  /\ held = {} /\ due # <<>>
  /\ held' = {Head(due)} /\ due' = Tail(due) /\ UNCHANGED order
  /\ Become(down \cup held')

Release ==
  /\ held # {}
  /\ held' = {} /\ UNCHANGED <<order, due>>
  /\ Become(down \ held)

Next == Press \/ Release \/ Done \/ \E keys \in Orders : Order(keys)

Spec == Init /\ [][Next]_vars
=============================================================================
