---------------------------- MODULE SendKeysTaps ----------------------------
(***************************************************************************)
(* SendKeys as an implementation of KeyTaps: what has been ordered is told *)
(* by the parameters of the call, what is still due by the iterators.      *)
(***************************************************************************)
EXTENDS SendKeys

(* The events of its list that an iterator has passed or stands on. *)
Sent(at) == IF at = NULL THEN 0 ELSE at[2]

(* The key whose release is due. *)
Held == IF pc \in {"release", "xrelease"} THEN {key} ELSE {}

(* An iterator stands on its key already before the key is pressed. *)
Tapped(at) == IF pc \in {"press", "xpress"} THEN Sent(at) - 1 ELSE Sent(at)

Beyond(word, n) == SubSeq(word, n + 1, Len(word))

AtPin  == pc \in {"loop", "press", "release"} /\ ~is_xio(gpio)
AtPort == pc \in {"xloop", "xpress", "xrelease"}

(* The keys of the pin, or of the ports that changed. *)
Ordered ==
  CASE AtPin  -> EventKeys(grp, gpio)
    [] AtPort -> PortKeys(xio, xval)
    [] OTHER  -> <<>>

(* Those that the iterators have still to come to. *)
Due ==
  CASE AtPin ->
         Beyond(Ordered, Tapped(last_gpio_key[grp]))
    [] AtPort ->
         Beyond(Ordered,
                Len(KeysBelow(xio, xval, port))
                  + IF port \in xval THEN Tapped(last_key[xio]) ELSE 0)
    [] OTHER -> <<>>

(* What may be ordered: the keys of a pin, or of some ports of an expander. *)
Orders ==
  {EventKeys(g, p) : g \in Groups, p \in Pins}
    \cup {PortKeys(x, changed) : x \in Expanders, changed \in SUBSET Ports}

Taps == INSTANCE KeyTaps WITH order <- Ordered, due <- Due, held <- Held

(***************************************************************************)
(* Whatever the shared iterators were left at and whatever fails, a call   *)
(* of send_gpio_keys() taps the keys of its pin, or of the ports that      *)
(* changed, one after another and each once, and does not return before    *)
(* their end (pikeyd.conf:89).                                             *)
(***************************************************************************)
KeepsPromise == Taps!Spec
=============================================================================
