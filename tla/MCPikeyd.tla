------------------------------ MODULE MCPikeyd ------------------------------
(***************************************************************************)
(* An instance of Pikeyd.  Pin 4 has a button and a contact in matrix      *)
(* group 1.  Pin 17 is the interrupt pin of an expander with a key on its  *)
(* one port, and has a key of its own, without which it would not be read. *)
(* Nothing repeats.                                                        *)
(***************************************************************************)
EXTENDS Pikeyd, TLC

Key(k) == [key |-> k, xio |-> -1]
Xio(x) == [key |-> 0, xio |-> x]

PinKeys ==
  0 :> (4 :> <<Key(30)>> @@ 17 :> <<Xio(0), Key(48)>>) @@
  1 :> (4 :> <<Key(48)>> @@ 17 :> <<>>)

PortKey == 0 :> (0 :> <<30>>)

NoRepeat == 0 :> {} @@ 1 :> {}
CodeTimes == 0 :> 80 @@ 1 :> 200 @@ 2 :> 40 @@ 3 :> 40

RegnoBits == 0 :> {0, 3}

Switches == {<<0, 4>>, <<1, 4>>}
AllEnabled == 0 :> {0}
=============================================================================
