----------------------------- MODULE MCSendKeys -----------------------------
(***************************************************************************)
(* Instances of SendKeys.                                                  *)
(*                                                                         *)
(* Pin 4 has two keys in each of two groups, pin 31 one of the same keys   *)
(* in group 0.  Pin 17 is the interrupt pin of an expander with two keys   *)
(* on one port and one on the other; it also has a key, given after the    *)
(* expander, without which gpio_poll() would never look at it.             *)
(***************************************************************************)
EXTENDS SendKeysTaps, TLC

Key(k) == [key |-> k, xio |-> -1]
Xio(x) == [key |-> 0, xio |-> x]

PinKeys ==
  0 :> (4 :> <<Key(30), Key(48)>> @@ 17 :> <<Xio(0), Key(48)>>
          @@ 31 :> <<Key(30)>>) @@
  1 :> (4 :> <<Key(48), Key(30)>> @@ 17 :> <<>> @@ 31 :> <<>>)

PortsKeys == 0 :> (0 :> <<48, 30>> @@ 1 :> <<30>>)

(* The bits of 0x09. *)
RegnoBits == 0 :> {0, 3}
=============================================================================
