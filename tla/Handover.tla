------------------------------ MODULE Handover ------------------------------
(***************************************************************************)
(* What init_config() hands over to gpio_poll() and send_gpio_keys(): the  *)
(* two assume it of their constants, Config ends with it.                  *)
(***************************************************************************)
EXTENDS Integers, Sequences

(* The masks of the groups; xioPins are those for which is_xio() holds.    *)
PollMasks(groups, pins, gpioMask, rptFlg, xioMask, xioPins) ==
  /\ gpioMask \in [groups -> SUBSET pins]
  /\ rptFlg \in [groups -> SUBSET pins]
  /\ xioMask \subseteq xioPins /\ xioPins \subseteq pins

(* The lists of the pins, whose events name a key or an expander that is   *)
(* there, and those of the expanders' ports, which name keys only.         *)
KeyLists(groups, pins, expanders, ports, keys, gpioKey, xioKey) ==
  /\ gpioKey \in [groups -> [pins -> Seq([key : keys \cup {0},
                                          xio : expanders \cup {-1}])]]
  /\ xioKey \in [expanders -> [ports -> Seq(keys)]]
=============================================================================
