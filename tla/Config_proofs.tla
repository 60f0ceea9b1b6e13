---------------------------- MODULE Config_proofs ----------------------------
(***************************************************************************)
(* Theorems about Config, for configuration files of any length with any   *)
(* names and pins: what init_config() hands over is what GpioPoll and      *)
(* SendKeys assume of their constants.                                     *)
(***************************************************************************)
EXTENDS Config, DataLemmas

USE TagAssumption, SizeAssumption

(* The configured use of a pin separates inputs from drivers.  (A refused  *)
(* MATRIX command leaves a group without a driver behind.)                 *)
FlagsTellUse ==
  status # "refused" =>
    /\ \A g \in 0 .. mat_cnt : \A p \in Inputs(g) : GpioFlags[p] = "in"
    /\ \A g \in 1 .. mat_cnt : mat_grp[g].gpio \in Pins
    /\ \A p \in Drivers : GpioFlags[p] = "out"
    /\ \A p \in Pins : pulled[p] # 0 => GpioFlags[p] = "in"
    /\ \A g, h \in 1 .. mat_cnt : mat_grp[g].gpio = mat_grp[h].gpio => g = h

ConfigInv == TypeOK /\ FlagsTellUse /\ ReadyForPolling /\ InterruptsMarked

-----------------------------------------------------------------------------
(* Facts about sets and sequences. *)

(* Find() returns the index of the name it looks for, or -1. *)
LEMMA Found ==
  ASSUME NEW tag, NEW names, DOMAIN names \subseteq Nat
  PROVE  \/ Find(tag, names) = -1 /\ \A i \in DOMAIN names : names[i] # tag
         \/ Find(tag, names) \in DOMAIN names /\ names[Find(tag, names)] = tag
<1> DEFINE found == {i \in DOMAIN names : names[i] = tag}
<1>1. CASE found = {}
  BY <1>1 DEF Find
<1>2. CASE found # {}
  <2>1. Min(found) \in found
    BY <1>2, MinOfNats
  <2> QED
    BY <1>2, <2>1 DEF Find
<1> QED
  BY <1>1, <1>2

LEMMA FoundMat ==
  ASSUME TypeOK, NEW tag
  PROVE  find_mat(tag) \in 1 .. mat_cnt \cup {-1}
<1> DEFINE names == [g \in 1 .. mat_cnt |-> mat_grp[g].name]
<1>1. DOMAIN names \subseteq Nat
  BY DEF TypeOK
<1>2. find_mat(tag) = Find(tag, names)
  BY DEF find_mat
<1> HIDE DEF names
<1>3. Find(tag, names) \in DOMAIN names \cup {-1}
  BY <1>1, Found
<1> QED
  BY <1>2, <1>3 DEF names

LEMMA FoundXio ==
  ASSUME TypeOK, NEW tag
  PROVE  find_xio(tag) \in 0 .. xio_count - 1 \cup {-1}
<1> DEFINE names == [x \in 0 .. xio_count - 1 |-> xio_dev[x].name]
<1>1. DOMAIN names \subseteq Nat
  BY DEF TypeOK, Slots
<1>2. find_xio(tag) = Find(tag, names)
  BY DEF find_xio
<1> HIDE DEF names
<1>3. Find(tag, names) \in DOMAIN names \cup {-1}
  BY <1>1, Found
<1> QED
  BY <1>2, <1>3 DEF names

(* What add_event() does to a list. *)
LEMMA Adding ==
  ASSUME NEW list \in Seq(Event), NEW e \in Event
  PROVE  /\ Added(list, e) \in Seq(Event)
         /\ Added(list, e) # <<>>
         /\ Len(Added(list, e)) = Len(list) + 1
         /\ Range(Added(list, e)) = Range(list) \cup {e}
         /\ Head(Added(list, e)) = IF list = <<>> THEN e ELSE Head(list)
         /\ IsPrefix(list, Added(list, e))
<1> DEFINE new == Added(list, e)
<1>1. /\ new \in Seq(Event) /\ new # <<>> /\ Len(new) = Len(list) + 1
      /\ \A i \in 1 .. Len(list) : new[i] = list[i]
      /\ new[Len(list) + 1] = e
  BY AppendProperties DEF Added
<1> HIDE DEF new
<1>2. Len(list) \in Nat /\ DOMAIN list = 1 .. Len(list)
      /\ DOMAIN new = 1 .. Len(list) + 1
  BY <1>1, LenProperties
<1>3. Range(new) = Range(list) \cup {e}
  BY <1>1, <1>2 DEF Range
<1>4. Head(new) = IF list = <<>> THEN e ELSE Head(list)
  <2>1. Head(new) = new[1]
    BY <1>1
  <2>2. CASE list = <<>>
    BY <1>1, <2>1, <2>2
  <2>3. CASE list # <<>>
    BY <1>1, <1>2, <2>1, <2>3, EmptySeq
  <2> QED
    BY <2>2, <2>3
<1>5. IsPrefix(list, new)
  <2>1. SubSeq(list, 1, Len(list)) = SubSeq(new, 1, Len(list))
    BY <1>1, <1>2
  <2> QED
    BY <1>1, <1>2, <2>1 DEF IsPrefix
<1> QED
  BY <1>1, <1>3, <1>4, <1>5 DEF new

-----------------------------------------------------------------------------
LEMMA ConfigInit == Init => ConfigInv
<1> SUFFICES ASSUME Init PROVE ConfigInv
  OBVIOUS
<1>1. TypeOK
  BY DEF Init, TypeOK, GroupType, NewGroup, NewXio, Slots
<1>2. Inputs(0) = {} /\ mat_grp[0].last_gpio = {} /\ mat_cnt = 0
      /\ \A p \in Pins : mat_grp[0].gpio_key[p] = <<>>
  BY DEF Init, NewGroup, Inputs
<1>3. FlagsTellUse
  BY <1>2 DEF FlagsTellUse, Init, Drivers
<1>4. ReadyForPolling
  <2>1. Range(<<>>) = {}
    BY DEF Range
  <2>2. \A g \in 0 .. mat_cnt : g = 0
    BY <1>2
  <2>3. {p \in Pins : \E e \in Range(mat_grp[0].gpio_key[p]) : e.xio = -1} = {}
    BY <1>2, <2>1
  <2>4. mat_grp[0].last_gpio = Inputs(0)
        /\ Inputs(0) =
             {p \in Pins : \E e \in Range(mat_grp[0].gpio_key[p]) : e.xio = -1}
    BY <1>2, <2>3
  <2> QED
    BY <2>2, <2>4, Zenon DEF ReadyForPolling
<1>5. InterruptsMarked
  BY <1>2 DEF InterruptsMarked, Init
<1> QED
  BY <1>1, <1>3, <1>4, <1>5 DEF ConfigInv

(* gpio_pincfg() of a pin that is free or has the same use. *)
LEMMA Configured ==
  ASSUME TypeOK, NEW pin \in Pins, NEW flg \in {"in", "out"},
         Usable(pin, flg), Pincfg(pin, flg)
  PROVE  /\ GpioFlags' \in [Pins -> {None, "in", "out"}]
         /\ GpioFlags'[pin] = flg
         /\ \A p \in Pins \ {pin} : GpioFlags'[p] = GpioFlags[p]
         /\ xio_mask' = IF is_xio(pin) THEN xio_mask \cup {pin} ELSE xio_mask
BY DEF TypeOK, Pincfg, MarkXio

(* A key is added to a group, for a pin that becomes one of its inputs. *)
LEMMA KeyAdded ==
  ASSUME NEW grp \in GroupType, NEW pin \in Pins, NEW key \in Keys
  PROVE  LET new == WithKey(grp, pin, key)
         IN  /\ new \in GroupType
             /\ new.name = grp.name /\ new.gpio = grp.gpio
             /\ new.rpt_flg = grp.rpt_flg
             /\ new.gpio_mask = grp.gpio_mask \cup {pin}
             /\ new.last_gpio = new.gpio_mask
             /\ new.gpio_key[pin] = Added(grp.gpio_key[pin],
                                          [key |-> key, xio |-> -1])
             /\ \A p \in Pins \ {pin} : new.gpio_key[p] = grp.gpio_key[p]
<1> DEFINE e == [key |-> key, xio |-> -1]
           list == Added(grp.gpio_key[pin], e)
<1>1. e \in Event
  BY DEF Event
<1>2. grp.gpio_key \in [Pins -> Seq(Event)]
  BY DEF GroupType
<1>3. list \in Seq(Event)
  BY <1>1, <1>2, Adding
<1> HIDE DEF list
<1>4. WithKey(grp, pin, key) =
        [grp EXCEPT !.gpio_mask = grp.gpio_mask \cup {pin},
                    !.last_gpio = grp.gpio_mask \cup {pin},
                    !.gpio_key = [grp.gpio_key EXCEPT ![pin] = list]]
  BY DEF WithKey, list, GroupType
<1>5. [grp.gpio_key EXCEPT ![pin] = list] \in [Pins -> Seq(Event)]
  BY <1>2, <1>3
<1>6. WithKey(grp, pin, key).gpio_key = [grp.gpio_key EXCEPT ![pin] = list]
  BY <1>4 DEF GroupType
<1>7. /\ WithKey(grp, pin, key).gpio_key[pin] = list
      /\ \A p \in Pins \ {pin} :
           WithKey(grp, pin, key).gpio_key[p] = grp.gpio_key[p]
  BY <1>2, <1>6
<1>8. WithKey(grp, pin, key) \in GroupType
  <2>1. grp.gpio_mask \cup {pin} \in SUBSET Pins
    BY DEF GroupType
  <2> DEFINE keys == [grp.gpio_key EXCEPT ![pin] = list]
             mask == grp.gpio_mask \cup {pin}
  <2> HIDE DEF keys, mask
  <2>2. ASSUME keys \in [Pins -> Seq(Event)], mask \in SUBSET Pins
        PROVE  [grp EXCEPT !.gpio_mask = mask, !.last_gpio = mask,
                           !.gpio_key = keys] \in GroupType
    BY <2>2 DEF GroupType
  <2> QED
    BY <1>4, <1>5, <2>1, <2>2 DEF keys, mask
<1>9. LET new == WithKey(grp, pin, key)
      IN  /\ new.name = grp.name /\ new.gpio = grp.gpio
          /\ new.rpt_flg = grp.rpt_flg
          /\ new.gpio_mask = grp.gpio_mask \cup {pin}
          /\ new.last_gpio = new.gpio_mask
  BY <1>4 DEF GroupType
<1> QED
  BY <1>7, <1>8, <1>9 DEF list

(* The lists that a command leaves alone keep their place in the masks. *)
LEMMA KeyOnPinKeeps ==
  ASSUME ConfigInv, status = "reading", NEW g \in 0 .. mat_cnt,
         NEW pin \in Pins, NEW key \in Keys,
         Usable(pin, "in"), KeyOnPin(g, pin, key)
  PROVE  ConfigInv'
<1> DEFINE e == [key |-> key, xio |-> -1]
<1> USE DEF ConfigInv
<1>1. /\ Pincfg(pin, "in")
      /\ mat_grp' = [mat_grp EXCEPT ![g] = WithKey(mat_grp[g], pin, key)]
      /\ UNCHANGED <<status, pulled, mat_cnt, expanders>>
  BY DEF KeyOnPin
<1>2. /\ GpioFlags' \in [Pins -> {None, "in", "out"}]
      /\ GpioFlags'[pin] = "in"
      /\ \A p \in Pins \ {pin} : GpioFlags'[p] = GpioFlags[p]
      /\ xio_mask' = IF is_xio(pin) THEN xio_mask \cup {pin} ELSE xio_mask
  BY <1>1, Configured
<1>3. mat_grp \in [0 .. mat_cnt -> GroupType] /\ mat_grp[g] \in GroupType
      /\ mat_cnt \in Nat /\ 0 \in 0 .. mat_cnt
  BY DEF TypeOK
<1>4. e \in Event /\ e.xio = -1
  BY DEF Event
<1>5. /\ mat_grp'[g] \in GroupType
      /\ mat_grp'[g].gpio = mat_grp[g].gpio
      /\ mat_grp'[g].gpio_mask = mat_grp[g].gpio_mask \cup {pin}
      /\ mat_grp'[g].last_gpio = mat_grp'[g].gpio_mask
      /\ mat_grp'[g].gpio_key[pin] = Added(mat_grp[g].gpio_key[pin], e)
      /\ \A p \in Pins \ {pin} :
           mat_grp'[g].gpio_key[p] = mat_grp[g].gpio_key[p]
  BY <1>1, <1>3, KeyAdded
<1>6. \A h \in 0 .. mat_cnt : h # g => mat_grp'[h] = mat_grp[h]
  BY <1>1, <1>3
<1>7. mat_grp' \in [0 .. mat_cnt -> GroupType]
  BY <1>1, <1>3, <1>5
<1>8. mat_grp[g].gpio_key[pin] \in Seq(Event)
  BY <1>3 DEF GroupType
<1>9. /\ Range(mat_grp'[g].gpio_key[pin]) = Range(mat_grp[g].gpio_key[pin]) \cup {e}
      /\ mat_grp'[g].gpio_key[pin] # <<>>
      /\ Head(mat_grp'[g].gpio_key[pin]) =
           IF mat_grp[g].gpio_key[pin] = <<>> THEN e
           ELSE Head(mat_grp[g].gpio_key[pin])
  <2> DEFINE list == mat_grp[g].gpio_key[pin]
  <2> HIDE DEF list
  <2>1. list \in Seq(Event)
    BY <1>8 DEF list
  <2>2. /\ Range(Added(list, e)) = Range(list) \cup {e}
        /\ Added(list, e) # <<>>
        /\ Head(Added(list, e)) = IF list = <<>> THEN e ELSE Head(list)
    BY <1>4, <2>1, Adding
  <2> QED
    BY <1>5, <2>2 DEF list
<1>10. TypeOK'
  BY <1>1, <1>2, <1>7 DEF TypeOK, expanders
<1>11. ReadyForPolling'
  <2>1. ASSUME NEW h \in 0 .. mat_cnt
        PROVE  /\ mat_grp'[h].last_gpio = mat_grp'[h].gpio_mask
               /\ mat_grp'[h].gpio_mask =
                    {p \in Pins : \E ev \in Range(mat_grp'[h].gpio_key[p]) :
                                    ev.xio = -1}
    <3>1. CASE h # g
      BY <1>6, <3>1 DEF ReadyForPolling, Inputs
    <3>2. CASE h = g
      <4>1. mat_grp[g].gpio_mask =
              {p \in Pins : \E ev \in Range(mat_grp[g].gpio_key[p]) : ev.xio = -1}
        BY DEF ReadyForPolling, Inputs
      <4>2. \A p \in Pins :
              (\E ev \in Range(mat_grp'[g].gpio_key[p]) : ev.xio = -1) <=>
              p \in mat_grp[g].gpio_mask \cup {pin}
        BY <1>4, <1>5, <1>9, <4>1
      <4>3. mat_grp'[g].gpio_mask \subseteq Pins
        BY <1>5 DEF GroupType
      <4> QED
        BY <1>5, <3>2, <4>2, <4>3
    <3> QED
      BY <3>1, <3>2
  <2> QED
    BY <1>1, <2>1 DEF ReadyForPolling, Inputs
<1>12. \A p \in Pins : is_xio(p)' <=> is_xio(p)
  <2>1. CASE g # 0
    BY <1>3, <1>6, <2>1 DEF is_xio
  <2>2. CASE g = 0
    <3>1. \A p \in Pins \ {pin} : is_xio(p)' <=> is_xio(p)
      BY <1>5, <2>2 DEF is_xio
    <3>2. is_xio(pin)' <=> is_xio(pin)
      BY <1>4, <1>9, <2>2 DEF is_xio
    <3> QED
      BY <3>1, <3>2
  <2> QED
    BY <2>1, <2>2
<1>13. InterruptsMarked'
  <2>1. Inputs(0)' \subseteq Inputs(0) \cup {pin} /\ Inputs(0) \subseteq Pins
    BY <1>3, <1>5, <1>6 DEF Inputs, GroupType
  <2>2. xio_mask \subseteq Pins
    BY DEF TypeOK
  <2> QED
    BY <1>2, <1>12, <2>1, <2>2 DEF InterruptsMarked
<1>14. FlagsTellUse'
  <2>1. \A h \in 0 .. mat_cnt : mat_grp'[h].gpio = mat_grp[h].gpio
    BY <1>5, <1>6
  <2>2. Drivers' = Drivers
    BY <1>1, <1>3, <2>1 DEF Drivers
  <2>3. /\ pin \notin Drivers
        /\ \A p \in Drivers : p \in Pins
    BY <1>3 DEF FlagsTellUse, Usable, Drivers
  <2>4. \A h \in 0 .. mat_cnt : Inputs(h)' \subseteq Inputs(h) \cup {pin}
                                /\ Inputs(h) \subseteq Pins
    BY <1>3, <1>5, <1>6 DEF Inputs, GroupType
  <2>5. \A h \in 0 .. mat_cnt : \A p \in Inputs(h)' : GpioFlags'[p] = "in"
    BY <1>2, <2>4 DEF FlagsTellUse
  <2>6. \A p \in Drivers' : GpioFlags'[p] = "out"
    BY <1>2, <2>2, <2>3 DEF FlagsTellUse
  <2>7. \A p \in Pins : pulled'[p] # 0 => GpioFlags'[p] = "in"
    BY <1>1, <1>2 DEF FlagsTellUse
  <2>8. \A h, k \in 1 .. mat_cnt :
          mat_grp'[h].gpio \in Pins /\
          (mat_grp'[h].gpio = mat_grp'[k].gpio => h = k)
    BY <1>3, <2>1 DEF FlagsTellUse
  <2> QED
    BY <1>1, <2>5, <2>6, <2>7, <2>8 DEF FlagsTellUse
<1> QED
  BY <1>10, <1>11, <1>13, <1>14

(* Commands that change neither the groups nor the GPIO. *)
LEMMA PinsUntouched ==
  ASSUME ConfigInv, TypeOK', UNCHANGED <<pincfg, pulled, groups>>,
         status' # "refused" => status # "refused"
  PROVE  ConfigInv'
<1>1. FlagsTellUse /\ ReadyForPolling /\ InterruptsMarked
  BY DEF ConfigInv
<1>2. /\ mat_grp' = mat_grp /\ mat_cnt' = mat_cnt
      /\ GpioFlags' = GpioFlags /\ xio_mask' = xio_mask /\ pulled' = pulled
  BY DEF pincfg, groups
<1>3. Drivers' = Drivers /\ \A g : Inputs(g)' = Inputs(g)
  BY <1>2 DEF Drivers, Inputs
<1>4. FlagsTellUse'
  BY <1>1, <1>2, <1>3 DEF FlagsTellUse
<1>5. ReadyForPolling'
  BY <1>1, <1>2, <1>3 DEF ReadyForPolling
<1>6. InterruptsMarked'
  BY <1>1, <1>2, <1>3 DEF InterruptsMarked, is_xio
<1> QED
  BY <1>4, <1>5, <1>6 DEF ConfigInv

(* The command ends init_config(), or what can be said about it. *)
Stopped ==
  /\ status = "reading" /\ status' \in {"refused", "pin", "port", "group"}
  /\ UNCHANGED <<pincfg, pulled, groups, expanders>>

LEMMA StoppedKeeps ==
  ASSUME ConfigInv, Stopped
  PROVE  ConfigInv'
<1>1. TypeOK'
  BY DEF Stopped, ConfigInv, TypeOK, pincfg, groups, expanders
<1> QED
  BY <1>1, PinsUntouched DEF Stopped

LEMMA KeyOnPortKeeps ==
  ASSUME ConfigInv, NEW x \in Slots, NEW port \in Ports, NEW key \in Keys,
         KeyOnPort(x, port, key)
  PROVE  ConfigInv'
<1> DEFINE e == [key |-> key, xio |-> -1]
           list == Added(xio_dev[x].key[port], e)
<1>1. xio_dev[x] \in [name : XioTags \cup {None}, key : [Ports -> Seq(Event)]]
  BY DEF ConfigInv, TypeOK
<1>2. list \in Seq(Event)
  BY <1>1, Adding DEF Event
<1> HIDE DEF list
<1>3. /\ xio_dev' = [xio_dev EXCEPT ![x].key[port] = list]
      /\ UNCHANGED <<status, pincfg, pulled, groups, xio_count, inmask>>
  BY DEF KeyOnPort, list
<1>4. xio_dev' \in [Slots -> [name : XioTags \cup {None},
                              key : [Ports -> Seq(Event)]]]
  BY <1>2, <1>3 DEF ConfigInv, TypeOK
<1>5. TypeOK'
  BY <1>3, <1>4 DEF ConfigInv, TypeOK, pincfg, groups
<1> QED
  BY <1>3, <1>5, PinsUntouched

LEMMA PullKeeps ==
  ASSUME ConfigInv, NEW mode \in Modes, NEW text \in PinTexts, Pull(mode, text),
         ~Stopped
  PROVE  ConfigInv'
<1> DEFINE pin == get_gpio_pin(text)
<1> HIDE DEF pin
<1>1. /\ pin \in Pins /\ GpioFlags[pin] = "in"
      /\ pulled' = [pulled EXCEPT ![pin] = mode]
      /\ UNCHANGED <<status, pincfg, groups, expanders>>
  BY DEF Pull, Refuse, OutOfArray, Stopped, pin
<1>2. TypeOK'
  BY <1>1 DEF ConfigInv, TypeOK, pincfg, groups, expanders
<1>3. /\ FlagsTellUse /\ ReadyForPolling /\ InterruptsMarked
      /\ pulled \in [Pins -> Modes]
  BY DEF ConfigInv, TypeOK
<1>4. /\ mat_grp' = mat_grp /\ mat_cnt' = mat_cnt /\ status' = status
      /\ GpioFlags' = GpioFlags /\ xio_mask' = xio_mask
  BY <1>1 DEF pincfg, groups
<1>5. Drivers' = Drivers /\ \A g : Inputs(g)' = Inputs(g)
  BY <1>4 DEF Drivers, Inputs
<1>6. FlagsTellUse'
  <2>1. status # "refused" =>
          \A p \in Pins : pulled'[p] # 0 => GpioFlags[p] = "in"
    BY <1>1, <1>3 DEF FlagsTellUse
  <2> QED
    BY <2>1, <1>3, <1>4, <1>5 DEF FlagsTellUse
<1>7. ReadyForPolling'
  BY <1>3, <1>4, <1>5 DEF ReadyForPolling
<1>8. InterruptsMarked'
  BY <1>3, <1>4, <1>5 DEF InterruptsMarked, is_xio
<1> QED
  BY <1>2, <1>6, <1>7, <1>8 DEF ConfigInv

LEMMA RepeatKeeps ==
  ASSUME ConfigInv, NEW ref \in PinRefs, Repeat(ref), ~Stopped
  PROVE  ConfigInv'
<1> DEFINE g == get_pin_ref(ref).grp
           pin == get_pin_ref(ref).gpio
<1>0. g \in 1 .. mat_cnt \cup {-1}
  <2>1. \A tag : find_mat(tag) \in 1 .. mat_cnt \cup {-1}
    BY FoundMat DEF ConfigInv
  <2> QED
    BY <2>1 DEF get_pin_ref, Refers
<1> HIDE DEF g, pin
<1> USE DEF ConfigInv
<1>1. /\ g > 0 /\ pin \in Pins
      /\ mat_grp' = [mat_grp EXCEPT ![g].rpt_flg = @ \cup {pin}]
      /\ UNCHANGED <<status, pincfg, pulled, mat_cnt, expanders>>
  BY DEF Repeat, Refuse, OutOfArray, Stopped, g, pin
<1>2. g \in 0 .. mat_cnt /\ mat_grp \in [0 .. mat_cnt -> GroupType]
  BY <1>0, <1>1 DEF TypeOK
<1>3. mat_grp' \in [0 .. mat_cnt -> GroupType]
  <2>1. [mat_grp[g] EXCEPT !.rpt_flg = @ \cup {pin}] \in GroupType
    <3>1. mat_grp[g] \in GroupType
      BY <1>2
    <3> QED
      BY <1>1, <3>1 DEF GroupType
  <2>2. mat_grp' = [mat_grp EXCEPT
                      ![g] = [mat_grp[g] EXCEPT !.rpt_flg = @ \cup {pin}]]
    BY <1>1, <1>2
  <2> QED
    BY <1>2, <2>1, <2>2
<1>4. TypeOK'
  BY <1>1, <1>3 DEF TypeOK, pincfg, expanders
<1>5. \A h \in 0 .. mat_cnt :
        /\ mat_grp'[h].gpio_mask = mat_grp[h].gpio_mask
        /\ mat_grp'[h].last_gpio = mat_grp[h].last_gpio
        /\ mat_grp'[h].gpio_key = mat_grp[h].gpio_key
        /\ mat_grp'[h].gpio = mat_grp[h].gpio
  BY <1>1, <1>2 DEF GroupType
<1>6. 0 \in 0 .. mat_cnt /\ \A h \in 1 .. mat_cnt : h \in 0 .. mat_cnt
  BY DEF TypeOK
<1>7. Drivers' = Drivers
  BY <1>1, <1>5, <1>6 DEF Drivers
<1>8. FlagsTellUse'
  BY <1>1, <1>5, <1>6, <1>7 DEF FlagsTellUse, Inputs, pincfg
<1>9. ReadyForPolling'
  BY <1>1, <1>5 DEF ReadyForPolling, Inputs
<1>10. InterruptsMarked'
  BY <1>1, <1>5, <1>6 DEF InterruptsMarked, Inputs, is_xio, pincfg
<1> QED
  BY <1>4, <1>8, <1>9, <1>10

LEMMA NextSlotIsSlot ==
  ASSUME NEW n \in Nat, NEW m \in Nat \ {0}
  PROVE  (n + 1) % m \in 0 .. m - 1
OBVIOUS

(* An interrupt pin that becomes the first event of its list has no key,   *)
(* so that group 0 does not read it.                                       *)
LEMMA XioKeeps ==
  ASSUME ConfigInv, NEW tag \in XioTags, NEW pin, Xio(tag, pin), ~Stopped
  PROVE  ConfigInv'
<1> DEFINE e == [key |-> 0, xio |-> xio_count]
           old == mat_grp[0].gpio_key[pin]
           list == Added(old, e)
<1> USE DEF ConfigInv
<1>1. /\ pin \in Pins
      /\ xio_dev' = [xio_dev EXCEPT ![xio_count] = NewXio(tag)]
      /\ mat_grp' = [mat_grp EXCEPT ![0].gpio_key[pin] = list]
      /\ xio_count' = NextSlot
      /\ UNCHANGED <<status, pincfg, pulled, mat_cnt, inmask>>
  BY DEF Xio, Refuse, OutOfArray, Stopped
<1>2. e \in Event /\ e.xio >= 0 /\ e.xio # -1
  BY DEF TypeOK, Event, Slots
<1>3. /\ mat_grp \in [0 .. mat_cnt -> GroupType] /\ mat_cnt \in Nat
      /\ 0 \in 0 .. mat_cnt
      /\ mat_grp[0] \in GroupType
  BY DEF TypeOK
<1>4. mat_grp[0].gpio_key \in [Pins -> Seq(Event)] /\ old \in Seq(Event)
  BY <1>1, <1>3 DEF GroupType
<1> HIDE DEF e, old
<1>5. /\ list \in Seq(Event) /\ list # <<>>
      /\ Range(list) = Range(old) \cup {e}
      /\ Head(list) = IF old = <<>> THEN e ELSE Head(old)
  BY <1>2, <1>4, Adding
<1> HIDE DEF list
<1>6. \A g \in 0 .. mat_cnt :
        /\ mat_grp'[g] \in GroupType
        /\ mat_grp'[g].gpio = mat_grp[g].gpio
        /\ mat_grp'[g].gpio_mask = mat_grp[g].gpio_mask
        /\ mat_grp'[g].last_gpio = mat_grp[g].last_gpio
        /\ g # 0 => mat_grp'[g].gpio_key = mat_grp[g].gpio_key
  BY <1>1, <1>3, <1>5 DEF GroupType
<1>7. /\ mat_grp'[0].gpio_key[pin] = list
      /\ \A p \in Pins \ {pin} :
           mat_grp'[0].gpio_key[p] = mat_grp[0].gpio_key[p]
  BY <1>1, <1>3, <1>4 DEF GroupType
<1>8. TypeOK'
  <2>1. mat_grp' \in [0 .. mat_cnt -> GroupType]
    BY <1>1, <1>3, <1>6
  <2>2. NewXio(tag) \in [name : XioTags \cup {None}, key : [Ports -> Seq(Event)]]
    BY EmptySeq DEF NewXio
  <2>3. xio_dev' \in [Slots -> [name : XioTags \cup {None},
                                key : [Ports -> Seq(Event)]]]
    BY <1>1, <2>2 DEF TypeOK
  <2>4. xio_count' \in Slots
    BY <1>1, NextSlotIsSlot DEF TypeOK, NextSlot, Slots
  <2> QED
    BY <1>1, <2>1, <2>3, <2>4 DEF TypeOK, pincfg
<1>9. FlagsTellUse'
  <2>1. \A h \in 1 .. mat_cnt : h \in 0 .. mat_cnt
    BY <1>3
  <2>2. Drivers' = Drivers
    BY <1>1, <1>6, <2>1 DEF Drivers
  <2> QED
    BY <1>1, <1>6, <2>1, <2>2 DEF FlagsTellUse, Inputs, pincfg
<1>10. ReadyForPolling'
  <2>1. \A p \in Pins :
          (\E ev \in Range(mat_grp'[0].gpio_key[p]) : ev.xio = -1) <=>
          (\E ev \in Range(mat_grp[0].gpio_key[p]) : ev.xio = -1)
    BY <1>2, <1>5, <1>7 DEF old
  <2>2. ASSUME NEW g \in 0 .. mat_cnt
        PROVE  /\ mat_grp'[g].last_gpio = mat_grp'[g].gpio_mask
               /\ mat_grp'[g].gpio_mask =
                    {p \in Pins : \E ev \in Range(mat_grp'[g].gpio_key[p]) :
                                    ev.xio = -1}
    <3>1. /\ mat_grp[g].last_gpio = mat_grp[g].gpio_mask
          /\ mat_grp[g].gpio_mask =
               {p \in Pins : \E ev \in Range(mat_grp[g].gpio_key[p]) :
                               ev.xio = -1}
      BY DEF ReadyForPolling, Inputs
    <3>2. CASE g = 0
      <4>1. {p \in Pins : \E ev \in Range(mat_grp'[0].gpio_key[p]) : ev.xio = -1}
              = {p \in Pins : \E ev \in Range(mat_grp[0].gpio_key[p]) : ev.xio = -1}
        BY <2>1
      <4> QED
        BY <1>6, <3>1, <3>2, <4>1
    <3>3. CASE g # 0
      <4>1. /\ mat_grp'[g].gpio_mask = mat_grp[g].gpio_mask
            /\ mat_grp'[g].last_gpio = mat_grp[g].last_gpio
            /\ mat_grp'[g].gpio_key = mat_grp[g].gpio_key
        BY <1>6, <3>3
      <4> QED
        BY <3>1, <4>1
    <3> QED
      BY <3>2, <3>3
  <2> QED
    BY <1>1, <2>2 DEF ReadyForPolling, Inputs
<1>11. InterruptsMarked'
  <2>1. \A p \in Pins \ {pin} : is_xio(p)' <=> is_xio(p)
    BY <1>7 DEF is_xio
  <2>2. is_xio(pin) => is_xio(pin)'
    BY <1>5, <1>7 DEF is_xio, old
  <2>3. Inputs(0)' = Inputs(0) /\ xio_mask' = xio_mask /\ xio_mask \subseteq Pins
    BY <1>1, <1>3, <1>6 DEF Inputs, pincfg, TypeOK
  <2>4. pin \in Inputs(0) /\ is_xio(pin)' => is_xio(pin)
    <3>1. SUFFICES ASSUME pin \in Inputs(0), is_xio(pin)' PROVE is_xio(pin)
      OBVIOUS
    <3>2. \E ev \in Range(old) : TRUE
      BY <1>3, <3>1 DEF ReadyForPolling, old
    <3>3. old # <<>>
      BY <3>2 DEF Range
    <3> QED
      BY <1>5, <1>7, <3>1, <3>3 DEF is_xio, old
  <2>5. Inputs(0) \subseteq Pins
    BY <1>3 DEF Inputs, GroupType
  <2>6. \A p \in xio_mask' : is_xio(p)'
    BY <2>1, <2>2, <2>3 DEF InterruptsMarked
  <2>7. \A p \in Inputs(0)' : is_xio(p)' => p \in xio_mask'
    BY <2>1, <2>3, <2>4, <2>5 DEF InterruptsMarked
  <2> QED
    BY <2>6, <2>7 DEF InterruptsMarked
<1> QED
  BY <1>8, <1>9, <1>10, <1>11

(* The new group has no inputs yet; its driver was free. *)
LEMMA MatrixKeeps ==
  ASSUME ConfigInv, NEW tag \in MatTags, NEW text \in PinTexts, Matrix(tag, text),
         ~Stopped
  PROVE  ConfigInv'
<1> DEFINE pin == get_gpio_pin(text)
           new == NewGroup(tag, pin)
<1> SUFFICES ASSUME NEW last, last = mat_cnt + 1
             PROVE  ConfigInv'
  OBVIOUS
<1> USE DEF ConfigInv
<1>1. /\ pin \in Pins /\ status = "reading"
      /\ mat_cnt' = last
      /\ mat_grp' = Grown(tag, pin)
      /\ Pincfg(pin, "out")
      /\ status' = IF Accepted(pin) THEN "reading" ELSE "refused"
      /\ UNCHANGED <<pulled, expanders>>
  BY DEF Matrix, Refuse, OutOfArray, Stopped
<1> HIDE DEF pin
<1>2. /\ new \in GroupType
      /\ new.name = tag /\ new.gpio = pin
      /\ new.gpio_mask = {} /\ new.last_gpio = {}
      /\ \A p \in Pins : new.gpio_key[p] = <<>>
  BY <1>1, EmptySeq DEF NewGroup, GroupType
<1>3. /\ mat_cnt \in Nat /\ last \in Nat /\ last \notin 0 .. mat_cnt
      /\ mat_grp \in [0 .. mat_cnt -> GroupType]
      /\ 0 \in 0 .. mat_cnt
      /\ 0 .. last = 0 .. mat_cnt \cup {last}
      /\ 1 .. last = 1 .. mat_cnt \cup {last}
      /\ \A g \in 1 .. mat_cnt : g \in 0 .. mat_cnt
  BY DEF TypeOK
<1> HIDE DEF new
<1>4. /\ \A g \in 0 .. mat_cnt : mat_grp'[g] = mat_grp[g]
      /\ mat_grp'[last] = new
      /\ mat_grp' \in [0 .. last -> GroupType]
  <2>1. mat_grp' = [g \in 0 .. last |-> IF g <= mat_cnt THEN mat_grp[g] ELSE new]
    BY <1>1 DEF Grown, new
  <2>2. ~(last <= mat_cnt) /\ \A g \in 0 .. mat_cnt : g <= mat_cnt
    BY <1>3
  <2>3. \A g \in 0 .. last : g \notin 0 .. mat_cnt => g = last
    BY <1>3
  <2> QED
    BY <1>2, <1>3, <2>1, <2>2, <2>3
<1>5. \A p \in Pins : is_xio(p)' <=> is_xio(p)
  BY <1>3, <1>4 DEF is_xio
<1>6. /\ GpioFlags' \in [Pins -> {None, "in", "out"}]
      /\ xio_mask' \in {xio_mask, MarkXio(pin)}
      /\ Accepted(pin) => GpioFlags'[pin] = "out"
      /\ \A p \in Pins : GpioFlags[p] # None => GpioFlags'[p] = GpioFlags[p]
  <2>1. CASE Usable(pin, "out")
    BY <1>1, <2>1, Configured DEF Usable, Accepted, MarkXio
  <2>2. CASE ~Usable(pin, "out")
    BY <1>1, <2>2 DEF Pincfg, pincfg, Usable, Accepted, TypeOK
  <2> QED
    BY <2>1, <2>2
<1>7. TypeOK'
  <2>1. xio_mask' \subseteq Pins
    BY <1>1, <1>6 DEF MarkXio, TypeOK
  <2> QED
    BY <1>1, <1>3, <1>4, <1>6, <2>1 DEF TypeOK, expanders
<1>8. ReadyForPolling'
  <2>1. \A g \in 0 .. mat_cnt :
          /\ mat_grp'[g].last_gpio = mat_grp'[g].gpio_mask
          /\ mat_grp'[g].gpio_mask =
               {p \in Pins : \E ev \in Range(mat_grp'[g].gpio_key[p]) :
                               ev.xio = -1}
    BY <1>4 DEF ReadyForPolling, Inputs
  <2>2. {p \in Pins : \E ev \in Range(new.gpio_key[p]) : ev.xio = -1} = {}
    <3>1. Range(<<>>) = {}
      BY DEF Range
    <3> QED
      BY <1>2, <3>1
  <2>3. \A g \in 0 .. last : g \in 0 .. mat_cnt \/ g = last
    BY <1>3
  <2>4. \A g \in 0 .. last :
          /\ mat_grp'[g].last_gpio = mat_grp'[g].gpio_mask
          /\ mat_grp'[g].gpio_mask =
               {p \in Pins : \E ev \in Range(mat_grp'[g].gpio_key[p]) :
                               ev.xio = -1}
    <3>1. ASSUME NEW g \in 0 .. last, g = last
          PROVE  /\ mat_grp'[g].last_gpio = mat_grp'[g].gpio_mask
                 /\ mat_grp'[g].gpio_mask =
                      {p \in Pins : \E ev \in Range(mat_grp'[g].gpio_key[p]) :
                                      ev.xio = -1}
      BY <1>2, <1>4, <2>2, <3>1
    <3> QED
      BY <2>1, <2>3, <3>1
  <2> QED
    BY <1>1, <2>4 DEF ReadyForPolling, Inputs
<1>9. InterruptsMarked'
  <2>1. Inputs(0)' = Inputs(0) /\ Inputs(0) \subseteq Pins
    BY <1>3, <1>4 DEF Inputs, GroupType
  <2>2. xio_mask' \subseteq Pins /\ xio_mask \subseteq xio_mask'
    BY <1>6, <1>7 DEF MarkXio, TypeOK
  <2>3. \A p \in xio_mask' : is_xio(p)
    BY <1>6 DEF MarkXio, InterruptsMarked
  <2> QED
    BY <1>5, <2>1, <2>2, <2>3 DEF InterruptsMarked
<1>10. FlagsTellUse'
  <2>1. CASE ~Accepted(pin)
    BY <1>1, <2>1 DEF FlagsTellUse
  <2>2. CASE Accepted(pin)
    <3>1. GpioFlags[pin] = None /\ GpioFlags'[pin] = "out"
      BY <1>6, <2>2 DEF Accepted
    <3>2. /\ \A g \in 0 .. mat_cnt : \A p \in Inputs(g) : GpioFlags[p] = "in"
          /\ \A g \in 1 .. mat_cnt : mat_grp[g].gpio \in Pins
          /\ \A p \in Drivers : GpioFlags[p] = "out"
          /\ \A p \in Pins : pulled[p] # 0 => GpioFlags[p] = "in"
          /\ \A g, h \in 1 .. mat_cnt :
               mat_grp[g].gpio = mat_grp[h].gpio => g = h
      BY <1>1 DEF FlagsTellUse
    <3>3. \A g \in 0 .. mat_cnt : Inputs(g)' = Inputs(g) /\ Inputs(g) \subseteq Pins
      BY <1>3, <1>4 DEF Inputs, GroupType
    <3>4. Inputs(last)' = {}
      BY <1>2, <1>4 DEF Inputs
    <3>5. \A g \in 0 .. last : \A p \in Inputs(g)' : GpioFlags'[p] = "in"
      <4>1. \A g \in 0 .. mat_cnt : \A p \in Inputs(g)' : GpioFlags'[p] = "in"
        <5>1. \A p \in Pins : GpioFlags[p] = "in" => GpioFlags'[p] = "in"
          BY <1>6
        <5> QED
          BY <3>2, <3>3, <5>1
      <4>2. \A g \in 0 .. last : g \in 0 .. mat_cnt \/ g = last
        BY <1>3
      <4> QED
        BY <3>4, <4>1, <4>2
    <3>6. Drivers' = Drivers \cup {pin} /\ Drivers \subseteq Pins
      BY <1>1, <1>2, <1>3, <1>4, <3>2 DEF Drivers
    <3>7. \A p \in Drivers' : GpioFlags'[p] = "out"
      BY <1>6, <3>1, <3>2, <3>6
    <3>8. \A p \in Pins : pulled'[p] # 0 => GpioFlags'[p] = "in"
      BY <1>1, <1>6, <3>2
    <3>9. /\ \A g \in 1 .. mat_cnt : mat_grp'[g].gpio \in Drivers
          /\ mat_grp'[last].gpio = pin
          /\ pin \notin Drivers
      BY <1>2, <1>3, <1>4, <3>1, <3>2 DEF Drivers
    <3>10. \A g, h \in 1 .. last : mat_grp'[g].gpio = mat_grp'[h].gpio => g = h
      BY <1>3, <1>4, <3>2, <3>9
    <3>11. \A g \in 1 .. last : mat_grp'[g].gpio \in Pins
      <4>1. \A g \in 1 .. last : g \in 1 .. mat_cnt \/ g = last
        BY <1>3
      <4>2. Drivers \subseteq Pins
        BY <3>6
      <4> QED
        BY <1>1, <3>9, <4>1, <4>2
    <3> QED
      BY <1>1, <3>5, <3>7, <3>8, <3>10, <3>11 DEF FlagsTellUse
  <2> QED
    BY <2>1, <2>2
<1> QED
  BY <1>7, <1>8, <1>9, <1>10

LEMMA KeyKeeps ==
  ASSUME ConfigInv, NEW key \in Keys, NEW ref \in PinRefs, Key(key, ref), ~Stopped
  PROVE  ConfigInv'
<1> DEFINE at == get_pin_ref(ref)
<1> HIDE DEF at
<1>1. /\ at.grp \in 0 .. mat_cnt \cup {-1} /\ 0 \in 0 .. mat_cnt
      /\ at.xio \in Slots \cup {-1}
  <2>1. /\ \A tag : find_mat(tag) \in 1 .. mat_cnt \cup {-1}
        /\ \A tag : find_xio(tag) \in 0 .. xio_count - 1 \cup {-1}
        /\ mat_cnt \in Nat /\ xio_count \in Slots
    BY FoundMat, FoundXio DEF ConfigInv, TypeOK
  <2>2. \A i \in 0 .. xio_count - 1 : i \in Slots
    BY <2>1 DEF Slots
  <2> QED
    BY <2>1, <2>2 DEF at, get_pin_ref, Refers
<1>2. /\ status = "reading" /\ at.ok
      /\ \/ at.grp >= 0 /\ KeyOnPin(at.grp, at.gpio, key)
         \/ at.grp < 0 /\ at.xio >= 0 /\ KeyOnPort(at.xio, at.gpio, key)
         \/ at.grp < 0 /\ KeyOnPin(0, at.gpio, key)
  BY DEF Key, Refuse, Stopped, at
<1>3. ASSUME NEW g \in 0 .. mat_cnt, KeyOnPin(g, at.gpio, key)
      PROVE  ConfigInv'
  <2>1. at.gpio \in Pins /\ Usable(at.gpio, "in")
    BY <1>2, <1>3 DEF KeyOnPin, Refuse, OutOfArray, Stopped
  <2> QED
    BY <1>2, <1>3, <2>1, KeyOnPinKeeps
<1>4. ASSUME at.xio >= 0, KeyOnPort(at.xio, at.gpio, key)
      PROVE  ConfigInv'
  <2>1. at.gpio \in Ports /\ at.xio \in Slots
    BY <1>1, <1>2, <1>4 DEF KeyOnPort, OutOfArray, Stopped
  <2> QED
    BY <1>4, <2>1, KeyOnPortKeeps
<1>5. at.grp >= 0 => at.grp \in 0 .. mat_cnt
  BY <1>1
<1> QED
  BY <1>1, <1>2, <1>3, <1>4, <1>5

LEMMA ConfigStep == ConfigInv /\ [Next]_vars => ConfigInv'
<1> SUFFICES ASSUME ConfigInv, [Next]_vars, ~Stopped
             PROVE  ConfigInv'
  BY StoppedKeeps
<1>1. CASE \E key \in Keys, ref \in PinRefs : Key(key, ref)
  BY <1>1, KeyKeeps
<1>2. CASE \E tag \in XioTags, pin \in {get_gpio_pin(t) : t \in PinTexts} :
             Xio(tag, pin)
  BY <1>2, XioKeeps
<1>3. CASE \E tag \in MatTags, text \in PinTexts : Matrix(tag, text)
  BY <1>3, MatrixKeeps
<1>4. CASE \E mode \in Modes, text \in PinTexts : Pull(mode, text)
  BY <1>4, PullKeeps
<1>5. CASE \E ref \in PinRefs : Repeat(ref)
  BY <1>5, RepeatKeeps
<1>6. CASE Unknown
  BY <1>6 DEF Unknown, Refuse, Stopped
<1>7. CASE End
  <2>1. \A x \in Slots : Inmask(x) \subseteq Ports
    BY DEF ConfigInv, TypeOK, Inmask
  <2>2. TypeOK'
    BY <1>7, <2>1 DEF End, ConfigInv, TypeOK, pincfg, groups
  <2> QED
    BY <1>7, <2>2, PinsUntouched DEF End
<1>8. CASE UNCHANGED vars
  <2>1. TypeOK'
    BY <1>8 DEF vars, ConfigInv, TypeOK, pincfg, groups, expanders
  <2> QED
    BY <1>8, <2>1, PinsUntouched DEF vars
<1> QED
  BY <1>1, <1>2, <1>3, <1>4, <1>5, <1>6, <1>7, <1>8 DEF Next, Returned

(***************************************************************************)
(* The state of init_config() is consistent after every command.           *)
(***************************************************************************)
THEOREM InductiveInvariant == Spec => []ConfigInv
<1> QED
  BY ConfigInit, ConfigStep, PTL DEF Spec

(***************************************************************************)
(* All variables keep their types: in particular the number of expanders   *)
(* is always an index of xio_dev[], and every list holds events only.      *)
(***************************************************************************)
THEOREM TypeCorrect == Spec => []TypeOK
<1>1. ConfigInv => TypeOK
  BY DEF ConfigInv
<1> QED
  BY <1>1, InductiveInvariant, PTL

(***************************************************************************)
(* For any file: inputs, drivers and pull resistors never collide.         *)
(***************************************************************************)
THEOREM OneUse == Spec => []PinsHaveOneUse
<1>1. ConfigInv => PinsHaveOneUse
  <2> SUFFICES ASSUME ConfigInv, status # "refused" PROVE PinsHaveOneUse
    BY DEF PinsHaveOneUse
  <2> USE DEF ConfigInv
  <2>1. \A g \in 0 .. mat_cnt : Inputs(g) \cap Drivers = {}
    BY DEF FlagsTellUse
  <2>2. \A p \in Drivers : p \in Pins
    BY DEF FlagsTellUse, Drivers
  <2>3. \A p \in Drivers : pulled[p] = 0
    BY <2>2 DEF FlagsTellUse
  <2> QED
    BY <2>1, <2>3 DEF FlagsTellUse, PinsHaveOneUse
<1> QED
  BY <1>1, InductiveInvariant, PTL

(***************************************************************************)
(* For any file: each group starts with its pins taken as released.        *)
(***************************************************************************)
THEOREM StartsReleased == Spec => []ReadyForPolling
<1>1. ConfigInv => ReadyForPolling
  BY DEF ConfigInv
<1> QED
  BY <1>1, InductiveInvariant, PTL

(***************************************************************************)
(* For any file: the level-triggered pins are the interrupt pins that are  *)
(* read.                                                                   *)
(***************************************************************************)
THEOREM InterruptPins == Spec => []InterruptsMarked
<1>1. ConfigInv => InterruptsMarked
  BY DEF ConfigInv
<1> QED
  BY <1>1, InductiveInvariant, PTL

-----------------------------------------------------------------------------
(* No command takes anything back. *)

LEMMA SameGroup ==
  ASSUME NEW grp \in GroupType
  PROVE  KeepsGroup(grp, grp)
<1>1. \A list \in Seq(Event) : IsPrefix(list, list)
  BY DEF IsPrefix
<1> QED
  BY <1>1 DEF KeepsGroup, GroupType

LEMMA SameGroups ==
  ASSUME TypeOK, NEW G \in SUBSET (0 .. mat_cnt),
         \A g \in G : mat_grp'[g] = mat_grp[g]
  PROVE  \A g \in G : KeepsGroup(mat_grp[g], mat_grp'[g])
BY SameGroup DEF TypeOK

(* A list of the group is appended to, its inputs grow. *)
LEMMA GrowingGroup ==
  ASSUME NEW old \in GroupType, NEW new \in GroupType,
         NEW pin \in Pins, NEW e \in Event,
         new.name = old.name, new.gpio = old.gpio,
         new.rpt_flg = old.rpt_flg, old.gpio_mask \subseteq new.gpio_mask,
         new.gpio_key[pin] = Added(old.gpio_key[pin], e),
         \A p \in Pins \ {pin} : new.gpio_key[p] = old.gpio_key[p]
  PROVE  KeepsGroup(old, new)
<1>1. \A p \in Pins : old.gpio_key[p] \in Seq(Event)
  BY DEF GroupType
<1>2. IsPrefix(old.gpio_key[pin], new.gpio_key[pin])
  BY <1>1, Adding
<1>3. \A p \in Pins \ {pin} : IsPrefix(old.gpio_key[p], new.gpio_key[p])
  BY <1>1 DEF IsPrefix
<1> QED
  BY <1>2, <1>3 DEF KeepsGroup

LEMMA PincfgGrows ==
  ASSUME TypeOK, NEW pin \in Pins, NEW flg \in {"in", "out"}, Pincfg(pin, flg)
  PROVE  \A p \in Pins : GpioFlags[p] # None => GpioFlags'[p] = GpioFlags[p]
BY DEF Pincfg, Usable, TypeOK, pincfg

LEMMA Grows ==
  ASSUME TypeOK, [Next]_vars
  PROVE  /\ \A g \in 0 .. mat_cnt : KeepsGroup(mat_grp[g], mat_grp'[g])
         /\ \A p \in Pins : GpioFlags[p] # None => GpioFlags'[p] = GpioFlags[p]
<1> DEFINE Goal ==
  /\ \A g \in 0 .. mat_cnt : KeepsGroup(mat_grp[g], mat_grp'[g])
  /\ \A p \in Pins : GpioFlags[p] # None => GpioFlags'[p] = GpioFlags[p]
<1> SUFFICES Goal
  OBVIOUS
<1>1. ASSUME UNCHANGED <<mat_grp, GpioFlags>> PROVE Goal
  BY <1>1, SameGroups
<1> USE DEF Stopped, Refuse, OutOfArray, pincfg, groups
<1>2. /\ mat_cnt \in Nat /\ 0 \in 0 .. mat_cnt
      /\ mat_grp \in [0 .. mat_cnt -> GroupType]
  BY DEF TypeOK
<1>3. ASSUME NEW g \in 0 .. mat_cnt, NEW pin, NEW key \in Keys,
             KeyOnPin(g, pin, key)
      PROVE  Goal
  <2>1. CASE UNCHANGED <<mat_grp, GpioFlags>>
    BY <1>1, <2>1
  <2>2. CASE ~UNCHANGED <<mat_grp, GpioFlags>>
    <3>1. /\ pin \in Pins /\ Pincfg(pin, "in")
          /\ mat_grp' = [mat_grp EXCEPT ![g] = WithKey(mat_grp[g], pin, key)]
      BY <1>3, <2>2 DEF KeyOnPin
    <3>2. mat_grp[g] \in GroupType /\ [key |-> key, xio |-> -1] \in Event
      BY <1>2 DEF Event
    <3>3. KeepsGroup(mat_grp[g], WithKey(mat_grp[g], pin, key))
      BY <3>1, <3>2, KeyAdded, GrowingGroup
    <3>4. \A h \in 0 .. mat_cnt : h # g => KeepsGroup(mat_grp[h], mat_grp'[h])
      BY <1>2, <3>1, SameGroup
    <3> QED
      BY <1>2, <3>1, <3>3, <3>4, PincfgGrows
  <2> QED
    BY <2>1, <2>2
<1>4. ASSUME NEW key \in Keys, NEW ref \in PinRefs, Key(key, ref) PROVE Goal
  <2> DEFINE at == get_pin_ref(ref)
  <2> HIDE DEF at
  <2>1. at.grp \in 0 .. mat_cnt \cup {-1}
    <3>1. \A tag : find_mat(tag) \in 1 .. mat_cnt \cup {-1}
      BY FoundMat
    <3> QED
      BY <1>2, <3>1 DEF at, get_pin_ref, Refers
  <2>2. \/ UNCHANGED <<mat_grp, GpioFlags>>
        \/ at.grp >= 0 /\ KeyOnPin(at.grp, at.gpio, key)
        \/ KeyOnPin(0, at.gpio, key)
    BY <1>4 DEF Key, KeyOnPort, at
  <2>3. at.grp >= 0 => at.grp \in 0 .. mat_cnt
    BY <2>1
  <2> QED
    BY <1>1, <1>2, <1>3, <2>2, <2>3
<1>5. ASSUME NEW tag \in XioTags, NEW pin, Xio(tag, pin) PROVE Goal
  <2>1. CASE UNCHANGED <<mat_grp, GpioFlags>>
    BY <1>1, <2>1
  <2>2. CASE ~UNCHANGED <<mat_grp, GpioFlags>>
    <3> DEFINE e == [key |-> 0, xio |-> xio_count]
               list == Added(mat_grp[0].gpio_key[pin], e)
    <3>1. /\ pin \in Pins /\ UNCHANGED GpioFlags
          /\ mat_grp' = [mat_grp EXCEPT ![0].gpio_key[pin] = list]
      BY <1>5, <2>2 DEF Xio
    <3>2. mat_grp[0] \in GroupType /\ e \in Event
          /\ mat_grp[0].gpio_key \in [Pins -> Seq(Event)]
      BY <1>2 DEF TypeOK, Event, GroupType
    <3>3. list \in Seq(Event)
      BY <3>1, <3>2, Adding
    <3> HIDE DEF e
    <3>4. /\ mat_grp'[0] \in GroupType
          /\ mat_grp'[0].name = mat_grp[0].name
          /\ mat_grp'[0].gpio = mat_grp[0].gpio
          /\ mat_grp'[0].rpt_flg = mat_grp[0].rpt_flg
          /\ mat_grp'[0].gpio_mask = mat_grp[0].gpio_mask
          /\ mat_grp'[0].gpio_key[pin] = list
          /\ \A p \in Pins \ {pin} :
               mat_grp'[0].gpio_key[p] = mat_grp[0].gpio_key[p]
      <4> HIDE DEF list
      <4> QED
        BY <1>2, <3>1, <3>2, <3>3 DEF GroupType
    <3>5. KeepsGroup(mat_grp[0], mat_grp'[0])
      <4>1. ASSUME NEW old, NEW new, old = mat_grp[0], new = mat_grp'[0]
            PROVE  KeepsGroup(old, new)
        <5>1. old \in GroupType /\ new \in GroupType /\ e \in Event
          BY <3>2, <3>4, <4>1
        <5>2. /\ new.name = old.name /\ new.gpio = old.gpio
              /\ new.rpt_flg = old.rpt_flg /\ old.gpio_mask \subseteq new.gpio_mask
              /\ new.gpio_key[pin] = Added(old.gpio_key[pin], e)
              /\ \A p \in Pins \ {pin} : new.gpio_key[p] = old.gpio_key[p]
          BY <3>4, <4>1
        <5> QED
          BY <3>1, <5>1, <5>2, GrowingGroup
      <4> QED
        BY <4>1
    <3>6. \A h \in 0 .. mat_cnt : h # 0 => KeepsGroup(mat_grp[h], mat_grp'[h])
      BY <1>2, <3>1, SameGroup
    <3> QED
      BY <3>1, <3>5, <3>6
  <2> QED
    BY <2>1, <2>2
<1>6. ASSUME NEW tag \in MatTags, NEW text \in PinTexts, Matrix(tag, text)
      PROVE  Goal
  <2> DEFINE pin == get_gpio_pin(text)
  <2> HIDE DEF pin
  <2>1. \/ UNCHANGED <<mat_grp, GpioFlags>>
        \/ /\ pin \in Pins /\ Pincfg(pin, "out")
           /\ mat_grp' = Grown(tag, pin)
    BY <1>6 DEF Matrix, pin
  <2>2. ASSUME mat_grp' = Grown(tag, pin)
        PROVE  \A g \in 0 .. mat_cnt : mat_grp'[g] = mat_grp[g]
    BY <1>2, <2>2 DEF Grown
  <2> QED
    BY <1>1, <2>1, <2>2, SameGroups, PincfgGrows
<1>7. ASSUME NEW ref \in PinRefs, Repeat(ref) PROVE Goal
  <2> DEFINE g == get_pin_ref(ref).grp
             pin == get_pin_ref(ref).gpio
  <2> HIDE DEF g, pin
  <2>1. UNCHANGED GpioFlags
        /\ \/ UNCHANGED mat_grp
           \/ mat_grp' = [mat_grp EXCEPT ![g].rpt_flg = @ \cup {pin}]
    BY <1>7 DEF Repeat, g, pin
  <2>2. ASSUME NEW h \in 0 .. mat_cnt PROVE KeepsGroup(mat_grp[h], mat_grp'[h])
    <3>1. /\ mat_grp'[h].name = mat_grp[h].name
          /\ mat_grp'[h].gpio = mat_grp[h].gpio
          /\ mat_grp'[h].gpio_mask = mat_grp[h].gpio_mask
          /\ mat_grp[h].rpt_flg \subseteq mat_grp'[h].rpt_flg
          /\ mat_grp'[h].gpio_key = mat_grp[h].gpio_key
      BY <1>2, <2>1 DEF GroupType
    <3>2. KeepsGroup(mat_grp[h], mat_grp[h])
      BY <1>2, SameGroup
    <3> QED
      BY <3>1, <3>2 DEF KeepsGroup
  <2> QED
    BY <2>1, <2>2
<1>8. ASSUME NEW mode \in Modes, NEW text \in PinTexts, Pull(mode, text)
      PROVE  Goal
  BY <1>1, <1>8 DEF Pull
<1>9. CASE Unknown \/ End \/ Returned \/ UNCHANGED vars
  BY <1>1, <1>9 DEF Unknown, End, Returned, vars
<1> QED
  BY <1>4, <1>5, <1>6, <1>7, <1>8, <1>9 DEF Next

(***************************************************************************)
(* For any file: a command only adds to what earlier ones have set up.     *)
(***************************************************************************)
THEOREM OnlyGrows == Spec => ConfigOnlyGrows
<1>1. TypeOK /\ [Next]_vars =>
        [/\ \A g \in 0 .. mat_cnt : KeepsGroup(mat_grp[g], mat_grp'[g])
         /\ \A p \in Pins : GpioFlags[p] # None => GpioFlags'[p] = GpioFlags[p]]_vars
  BY Grows
<1> QED
  BY <1>1, TypeCorrect, PTL DEF Spec, ConfigOnlyGrows

-----------------------------------------------------------------------------
(* While the array of expanders has a free slot, the slots in use are      *)
(* counted and named apart.                                                *)

SlotOf(e) == mat_grp[0].gpio_key[e[1]][e[2]].xio

NamesApart ==
  \A s, t \in 0 .. xio_count - 1 : xio_dev[s].name = xio_dev[t].name => s = t

SlotsInv ==
  /\ IsFiniteSet(XioEvents)
  /\ Cardinality(XioEvents) < MaxXioDevs =>
       /\ xio_count = Cardinality(XioEvents)
       /\ \A e \in XioEvents : SlotOf(e) \in 0 .. xio_count - 1
       /\ \A e, f \in XioEvents : SlotOf(e) = SlotOf(f) => e = f
       /\ NamesApart

XioEvent(e) ==
  \E p \in Pins, n \in Nat :
    /\ e = <<p, n>>
    /\ n \in DOMAIN mat_grp[0].gpio_key[p]
    /\ mat_grp[0].gpio_key[p][n].xio >= 0

LEMMA XioEventsAre ==
  ASSUME TypeOK
  PROVE  \A e : e \in XioEvents <=> XioEvent(e)
<1>1. \A p \in Pins : DOMAIN mat_grp[0].gpio_key[p] \subseteq Nat
  <2>1. \A p \in Pins : mat_grp[0].gpio_key[p] \in Seq(Event)
    BY DEF TypeOK, GroupType
  <2>2. \A list \in Seq(Event) : DOMAIN list = 1 .. Len(list)
    OBVIOUS
  <2> QED
    BY <2>1, <2>2
<1>2. ASSUME NEW e, e \in XioEvents PROVE XioEvent(e)
  <2>1. PICK p \in Pins :
          \E n \in DOMAIN mat_grp[0].gpio_key[p] :
            mat_grp[0].gpio_key[p][n].xio >= 0 /\ e = <<p, n>>
    BY <1>2 DEF XioEvents
  <2>2. PICK n \in DOMAIN mat_grp[0].gpio_key[p] :
          mat_grp[0].gpio_key[p][n].xio >= 0 /\ e = <<p, n>>
    BY <2>1
  <2>3. n \in Nat
    BY <1>1
  <2> QED
    BY <2>2, <2>3 DEF XioEvent
<1>3. ASSUME NEW e, XioEvent(e) PROVE e \in XioEvents
  <2>1. PICK p \in Pins, n \in Nat :
          /\ e = <<p, n>>
          /\ n \in DOMAIN mat_grp[0].gpio_key[p]
          /\ mat_grp[0].gpio_key[p][n].xio >= 0
    BY <1>3 DEF XioEvent
  <2> QED
    BY <2>1 DEF XioEvents
<1> QED
  BY <1>2, <1>3

(* Nothing that concerns the expanders' events has changed. *)
LEMMA SlotsRest ==
  ASSUME TypeOK, TypeOK', SlotsInv, XioEvents' = XioEvents,
         \A e \in XioEvents : SlotOf(e)' = SlotOf(e),
         xio_count' = xio_count,
         \A x \in Slots : xio_dev'[x].name = xio_dev[x].name
  PROVE  SlotsInv'
<1>1. \A s \in 0 .. xio_count - 1 : s \in Slots
  BY DEF TypeOK, Slots
<1>2. NamesApart => NamesApart'
  BY <1>1 DEF NamesApart
<1> QED
  BY <1>2 DEF SlotsInv

(* An event is added to a list of group 0: a new place, at which no event  *)
(* was, and the old ones stay.                                             *)
LEMMA EventPlaced ==
  ASSUME TypeOK, TypeOK', NEW pin \in Pins, NEW e \in Event,
         mat_grp'[0].gpio_key[pin] = Added(mat_grp[0].gpio_key[pin], e),
         \A p \in Pins \ {pin} :
           mat_grp'[0].gpio_key[p] = mat_grp[0].gpio_key[p]
  PROVE  LET at == <<pin, Len(mat_grp[0].gpio_key[pin]) + 1>>
         IN  /\ at \notin XioEvents
             /\ XioEvents' = IF e.xio >= 0 THEN XioEvents \cup {at} ELSE XioEvents
             /\ \A f \in XioEvents : SlotOf(f)' = SlotOf(f)
             /\ mat_grp'[0].gpio_key[pin][at[2]].xio = e.xio
<1> SUFFICES ASSUME NEW list, NEW new, NEW last,
                    list = mat_grp[0].gpio_key[pin], new = Added(list, e),
                    last = Len(list) + 1
             PROVE  /\ <<pin, last>> \notin XioEvents
                    /\ XioEvents' = IF e.xio >= 0 THEN XioEvents \cup {<<pin, last>>}
                                    ELSE XioEvents
                    /\ \A f \in XioEvents : SlotOf(f)' = SlotOf(f)
                    /\ mat_grp'[0].gpio_key[pin][last].xio = e.xio
  OBVIOUS
<1>1. list \in Seq(Event)
  <2>1. mat_grp[0] \in GroupType
    BY DEF TypeOK
  <2> QED
    BY <2>1 DEF GroupType
<1>2. /\ DOMAIN list = 1 .. Len(list) /\ Len(list) \in Nat
      /\ DOMAIN new = DOMAIN list \cup {last} /\ last \notin DOMAIN list
      /\ \A n \in DOMAIN list : new[n] = list[n]
      /\ new[last] = e
      /\ last \in Nat
  <2>1. /\ new \in Seq(Event) /\ Len(new) = Len(list) + 1
        /\ \A n \in 1 .. Len(list) : new[n] = list[n]
        /\ new[Len(list) + 1] = e
    BY <1>1, AppendProperties DEF Added
  <2>2. /\ Len(list) \in Nat /\ DOMAIN list = 1 .. Len(list)
        /\ DOMAIN new = 1 .. Len(list) + 1
    BY <1>1, <2>1, LenProperties
  <2>3. last \in Nat /\ last \notin 1 .. Len(list)
        /\ 1 .. Len(list) + 1 = 1 .. Len(list) \cup {last}
    BY <2>2
  <2> QED
    BY <2>1, <2>2, <2>3
<1>3. mat_grp'[0].gpio_key[pin] = new /\ mat_grp[0].gpio_key[pin] = list
  OBVIOUS
<1>4. \A f : f \in XioEvents <=> XioEvent(f)
  BY XioEventsAre
<1>5. \A f : f \in XioEvents' <=> XioEvent(f)'
  <2>1. \A p \in Pins : mat_grp'[0].gpio_key[p] \in Seq(Event)
    BY DEF TypeOK, GroupType
  <2>2. \A l \in Seq(Event) : DOMAIN l \subseteq Nat
    OBVIOUS
  <2>3. \A p \in Pins : DOMAIN mat_grp'[0].gpio_key[p] \subseteq Nat
    BY <2>1, <2>2
  <2>4. ASSUME NEW f, f \in XioEvents' PROVE XioEvent(f)'
    <3>1. PICK p \in Pins :
            \E n \in DOMAIN mat_grp'[0].gpio_key[p] :
              mat_grp'[0].gpio_key[p][n].xio >= 0 /\ f = <<p, n>>
      BY <2>4 DEF XioEvents
    <3>2. PICK n \in DOMAIN mat_grp'[0].gpio_key[p] :
            mat_grp'[0].gpio_key[p][n].xio >= 0 /\ f = <<p, n>>
      BY <3>1
    <3>3. n \in Nat
      BY <2>3
    <3> QED
      BY <3>2, <3>3 DEF XioEvent
  <2>5. ASSUME NEW f, XioEvent(f)' PROVE f \in XioEvents'
    <3>1. PICK p \in Pins, n \in Nat :
            /\ f = <<p, n>>
            /\ n \in DOMAIN mat_grp'[0].gpio_key[p]
            /\ mat_grp'[0].gpio_key[p][n].xio >= 0
      BY <2>5 DEF XioEvent
    <3> QED
      BY <3>1 DEF XioEvents
  <2> QED
    BY <2>4, <2>5
<1>6. <<pin, last>> \notin XioEvents
  BY <1>2, <1>3, <1>4 DEF XioEvent
<1>7. \A f \in XioEvents : SlotOf(f)' = SlotOf(f) /\ XioEvent(f)'
  <2>1. ASSUME NEW p \in Pins, NEW n \in Nat,
               n \in DOMAIN mat_grp[0].gpio_key[p]
        PROVE  /\ n \in DOMAIN mat_grp'[0].gpio_key[p]
               /\ mat_grp'[0].gpio_key[p][n] = mat_grp[0].gpio_key[p][n]
    BY <1>2, <1>3, <2>1
  <2> QED
    BY <1>4, <2>1 DEF XioEvent, SlotOf
<1>8. \A f : XioEvent(f)' => XioEvent(f) \/ (f = <<pin, last>> /\ e.xio >= 0)
  <2>1. ASSUME NEW p \in Pins, NEW n \in Nat,
               n \in DOMAIN mat_grp'[0].gpio_key[p],
               mat_grp'[0].gpio_key[p][n].xio >= 0
        PROVE  \/ /\ n \in DOMAIN mat_grp[0].gpio_key[p]
                  /\ mat_grp[0].gpio_key[p][n].xio >= 0
               \/ p = pin /\ n = last /\ e.xio >= 0
    BY <1>2, <1>3, <2>1
  <2> QED
    BY <2>1 DEF XioEvent
<1>9. e.xio >= 0 => XioEvent(<<pin, last>>)'
  BY <1>2, <1>3 DEF XioEvent
<1>10. XioEvents' = IF e.xio >= 0 THEN XioEvents \cup {<<pin, last>>} ELSE XioEvents
  <2>1. \A f : f \in XioEvents' <=>
                 f \in XioEvents \/ (f = <<pin, last>> /\ e.xio >= 0)
    BY <1>4, <1>5, <1>7, <1>8, <1>9
  <2> QED
    BY <2>1
<1> QED
  BY <1>2, <1>3, <1>6, <1>7, <1>10

LEMMA NextSlotIsNext ==
  ASSUME NEW n \in Nat, NEW m \in Nat, n + 1 < m
  PROVE  (n + 1) % m = n + 1 /\ n \in 0 .. n + 1 - 1
         /\ 0 .. n + 1 - 1 = 0 .. n - 1 \cup {n} /\ n \notin 0 .. n - 1
OBVIOUS

(* The name of a new expander is none that find_xio() finds.               *)
LEMMA XioApart ==
  ASSUME ConfigInv, ConfigInv', SlotsInv, NEW tag \in XioTags, NEW pin,
         Xio(tag, pin), ~Stopped
  PROVE  SlotsInv'
<1> USE DEF ConfigInv
<1> SUFFICES ASSUME NEW e, NEW at, NEW n,
                    e = [key |-> 0, xio |-> xio_count],
                    at = <<pin, Len(mat_grp[0].gpio_key[pin]) + 1>>,
                    n = Cardinality(XioEvents)
             PROVE  SlotsInv'
  OBVIOUS
<1>1. /\ pin \in Pins
      /\ find_xio(tag) = -1
      /\ xio_dev' = [xio_dev EXCEPT ![xio_count] = NewXio(tag)]
      /\ mat_grp' = [mat_grp EXCEPT ![0].gpio_key[pin] = Added(@, e)]
      /\ xio_count' = NextSlot
  BY DEF Xio, Refuse, OutOfArray, Stopped
<1>2. e \in Event /\ e.xio = xio_count /\ xio_count >= 0 /\ xio_count \in Slots
  BY DEF TypeOK, Event, Slots
<1>3. /\ mat_grp \in [0 .. mat_cnt -> GroupType] /\ 0 \in 0 .. mat_cnt
      /\ mat_grp[0] \in GroupType
      /\ mat_grp[0].gpio_key \in [Pins -> Seq(Event)]
  BY DEF TypeOK, GroupType
<1>4. /\ mat_grp'[0].gpio_key[pin] = Added(mat_grp[0].gpio_key[pin], e)
      /\ \A p \in Pins \ {pin} :
           mat_grp'[0].gpio_key[p] = mat_grp[0].gpio_key[p]
  BY <1>1, <1>3 DEF GroupType
<1>5. /\ at \notin XioEvents
      /\ XioEvents' = XioEvents \cup {at}
      /\ \A f \in XioEvents : SlotOf(f)' = SlotOf(f)
      /\ mat_grp'[0].gpio_key[at[1]][at[2]].xio = xio_count
  <2>1. TypeOK /\ TypeOK' /\ pin \in Pins /\ e \in Event
    BY <1>1, <1>2
  <2>2. /\ at \notin XioEvents
        /\ XioEvents' = IF e.xio >= 0 THEN XioEvents \cup {at} ELSE XioEvents
        /\ \A f \in XioEvents : SlotOf(f)' = SlotOf(f)
        /\ mat_grp'[0].gpio_key[pin][at[2]].xio = e.xio
    BY <1>4, <2>1, EventPlaced
  <2> QED
    BY <1>2, <2>2
<1>6. IsFiniteSet(XioEvents') /\ Cardinality(XioEvents') = n + 1 /\ n \in Nat
  BY <1>5, FS_AddElement, FS_CardinalityType DEF SlotsInv
<1>7. ASSUME n + 1 < MaxXioDevs
      PROVE  /\ xio_count' = n + 1
             /\ \A f \in XioEvents' : SlotOf(f)' \in 0 .. xio_count' - 1
             /\ \A f, g \in XioEvents' : SlotOf(f)' = SlotOf(g)' => f = g
             /\ NamesApart'
  <2>1. /\ xio_count = n
        /\ \A f \in XioEvents : SlotOf(f) \in 0 .. n - 1
        /\ \A f, g \in XioEvents : SlotOf(f) = SlotOf(g) => f = g
        /\ NamesApart
    BY <1>6, <1>7 DEF SlotsInv
  <2>2. /\ xio_count' = n + 1 /\ n \in 0 .. n + 1 - 1 /\ n \notin 0 .. n - 1
        /\ 0 .. n + 1 - 1 = 0 .. n - 1 \cup {n}
    BY <1>1, <1>6, <1>7, <2>1, NextSlotIsNext DEF NextSlot
  <2>3. SlotOf(at)' = n
    <3>1. \A f : f = at => SlotOf(f)' = n
      BY <1>5, <2>1 DEF SlotOf
    <3> QED
      BY <3>1
  <2>4. \A f \in XioEvents' : f \in XioEvents \/ f = at
    BY <1>5
  <2>5. \A f \in XioEvents' : SlotOf(f)' \in 0 .. xio_count' - 1
    <3>1. ASSUME NEW f \in XioEvents PROVE SlotOf(f)' \in 0 .. xio_count' - 1
      <4>1. SlotOf(f)' = SlotOf(f) /\ SlotOf(f) \in 0 .. n - 1
        BY <1>5, <2>1
      <4> QED
        BY <2>2, <4>1
    <3>2. SlotOf(at)' \in 0 .. xio_count' - 1
      BY <2>2, <2>3
    <3> QED
      BY <2>4, <3>1, <3>2
  <2>6. \A f, g \in XioEvents' : SlotOf(f)' = SlotOf(g)' => f = g
    <3>1. \A f \in XioEvents : SlotOf(f)' = SlotOf(f) /\ SlotOf(f)' # n
      <4>1. ASSUME NEW f \in XioEvents
            PROVE  SlotOf(f)' = SlotOf(f) /\ SlotOf(f) \in 0 .. n - 1
        BY <1>5, <2>1
      <4> QED
        BY <2>2, <4>1
    <3>2. ASSUME NEW f \in XioEvents', NEW g \in XioEvents', SlotOf(f)' = SlotOf(g)'
          PROVE  f = g
      <4>1. CASE f \in XioEvents /\ g \in XioEvents
        BY <2>1, <3>1, <3>2, <4>1
      <4>2. CASE f = at \/ g = at
        BY <2>3, <2>4, <3>1, <3>2, <4>2
      <4> QED
        BY <2>4, <4>1, <4>2
    <3> QED
      BY <3>2
  <2>7. \A s \in 0 .. n - 1 : xio_dev[s].name # tag
    <3> DEFINE names == [x \in 0 .. xio_count - 1 |-> xio_dev[x].name]
    <3>1. DOMAIN names \subseteq Nat /\ find_xio(tag) = Find(tag, names)
      BY <1>2 DEF find_xio
    <3>2. -1 \notin DOMAIN names
      BY <1>2
    <3> HIDE DEF names
    <3>3. \A i \in DOMAIN names : names[i] # tag
      BY <1>1, <3>1, <3>2, Found
    <3> QED
      BY <2>1, <3>3 DEF names
  <2>8. /\ xio_dev'[n].name = tag
        /\ \A s \in 0 .. n - 1 : xio_dev'[s].name = xio_dev[s].name
    <3>1. n \in Slots /\ \A s \in 0 .. n - 1 : s \in Slots
      BY <1>2, <1>6, <2>1 DEF Slots
    <3> QED
      BY <1>1, <2>1, <2>2, <3>1 DEF TypeOK, NewXio
  <2>9. \A s, t \in 0 .. n + 1 - 1 : xio_dev'[s].name = xio_dev'[t].name => s = t
    BY <2>1, <2>2, <2>7, <2>8 DEF NamesApart
  <2> QED
    BY <2>2, <2>5, <2>6, <2>9 DEF NamesApart
<1> QED
  BY <1>6, <1>7 DEF SlotsInv

LEMMA KeyApart ==
  ASSUME ConfigInv, ConfigInv', SlotsInv, NEW key \in Keys, NEW ref \in PinRefs,
         Key(key, ref), ~Stopped
  PROVE  SlotsInv'
<1> USE DEF ConfigInv
<1> DEFINE at == get_pin_ref(ref)
<1> HIDE DEF at
<1>1. /\ mat_grp \in [0 .. mat_cnt -> GroupType] /\ 0 \in 0 .. mat_cnt
      /\ mat_grp[0] \in GroupType
      /\ mat_grp[0].gpio_key \in [Pins -> Seq(Event)]
  BY DEF TypeOK, GroupType
<1>2. /\ \A tag : find_mat(tag) \in 1 .. mat_cnt \cup {-1}
      /\ \A tag : find_xio(tag) \in 0 .. xio_count - 1 \cup {-1}
  BY FoundMat, FoundXio
<1>3. at.grp \in 0 .. mat_cnt \cup {-1}
  BY <1>2 DEF at, get_pin_ref, Refers, TypeOK
<1>4. /\ at.ok
      /\ \/ at.grp >= 0 /\ KeyOnPin(at.grp, at.gpio, key)
         \/ at.grp < 0 /\ at.xio >= 0 /\ KeyOnPort(at.xio, at.gpio, key)
         \/ at.grp < 0 /\ KeyOnPin(0, at.gpio, key)
  BY DEF Key, Refuse, Stopped, at
<1>5. ASSUME NEW g \in 0 .. mat_cnt, KeyOnPin(g, at.gpio, key)
      PROVE  SlotsInv'
  <2> SUFFICES ASSUME NEW pin, pin = at.gpio, NEW e,
                      e = [key |-> key, xio |-> -1]
               PROVE  SlotsInv'
    OBVIOUS
  <2>1. /\ pin \in Pins
        /\ mat_grp' = [mat_grp EXCEPT ![g] = WithKey(mat_grp[g], pin, key)]
        /\ UNCHANGED <<xio_count, xio_dev>>
    BY <1>4, <1>5 DEF KeyOnPin, Refuse, OutOfArray, Stopped, Key, expanders
  <2>2. CASE g # 0
    <3>1. mat_grp'[0] = mat_grp[0]
      BY <1>1, <2>1, <2>2
    <3>2. XioEvents' = XioEvents /\ \A f \in XioEvents : SlotOf(f)' = SlotOf(f)
      BY <3>1 DEF XioEvents, SlotOf
    <3> QED
      BY <2>1, <3>2, SlotsRest
  <2>3. CASE g = 0
    <3>1. e \in Event /\ ~(e.xio >= 0)
      BY DEF Event
    <3>2. mat_grp'[0] = WithKey(mat_grp[0], pin, key)
      BY <1>1, <2>1, <2>3
    <3>3. /\ mat_grp'[0].gpio_key[pin] = Added(mat_grp[0].gpio_key[pin], e)
          /\ \A p \in Pins \ {pin} :
               mat_grp'[0].gpio_key[p] = mat_grp[0].gpio_key[p]
      <4>1. mat_grp[0] \in GroupType /\ pin \in Pins /\ key \in Keys
        BY <1>1, <2>1
      <4>2. WithKey(mat_grp[0], pin, key).gpio_key =
              [mat_grp[0].gpio_key EXCEPT ![pin] =
                 Added(mat_grp[0].gpio_key[pin], [key |-> key, xio |-> -1])]
        BY <4>1 DEF WithKey, GroupType
      <4>3. mat_grp'[0].gpio_key =
              [mat_grp[0].gpio_key EXCEPT ![pin] = Added(mat_grp[0].gpio_key[pin], e)]
        BY <3>2, <4>2
      <4> QED
        BY <1>1, <4>1, <4>3
    <3>4. XioEvents' = XioEvents /\ \A f \in XioEvents : SlotOf(f)' = SlotOf(f)
      BY <2>1, <3>1, <3>3, EventPlaced
    <3> QED
      BY <2>1, <3>4, SlotsRest
  <2> QED
    BY <2>2, <2>3
<1>6. ASSUME KeyOnPort(at.xio, at.gpio, key)
      PROVE  SlotsInv'
  <2>1. UNCHANGED <<groups, xio_count>>
        /\ xio_dev' = [xio_dev EXCEPT ![at.xio].key[at.gpio] =
                         Added(@, [key |-> key, xio |-> -1])]
    BY <1>4, <1>6 DEF KeyOnPort, OutOfArray, Stopped, Key
  <2>2. \A x \in Slots : xio_dev'[x].name = xio_dev[x].name
    BY <2>1 DEF TypeOK
  <2>3. XioEvents' = XioEvents /\ \A f \in XioEvents : SlotOf(f)' = SlotOf(f)
    BY <2>1 DEF XioEvents, SlotOf, groups
  <2> QED
    BY <2>1, <2>2, <2>3, SlotsRest
<1>7. at.grp >= 0 => at.grp \in 0 .. mat_cnt
  BY <1>3
<1> QED
  BY <1>1, <1>4, <1>5, <1>6, <1>7

LEMMA SlotsInit == Init => SlotsInv
<1> SUFFICES ASSUME Init PROVE SlotsInv
  OBVIOUS
<1>1. \A p \in Pins : mat_grp[0].gpio_key[p] = <<>>
  BY DEF Init, NewGroup
<1>2. DOMAIN <<>> = {}
  OBVIOUS
<1>3. XioEvents = {}
  BY <1>1, <1>2 DEF XioEvents
<1>4. IsFiniteSet(XioEvents) /\ Cardinality(XioEvents) = 0
  BY <1>3, FS_EmptySet
<1>5. xio_count = 0 /\ 0 .. xio_count - 1 = {}
  BY DEF Init
<1> QED
  BY <1>3, <1>4, <1>5 DEF SlotsInv, NamesApart

LEMMA SlotsStep ==
  ASSUME ConfigInv, ConfigInv', SlotsInv, [Next]_vars
  PROVE  SlotsInv'
<1> USE DEF ConfigInv
<1>1. ASSUME mat_grp'[0].gpio_key = mat_grp[0].gpio_key,
             UNCHANGED <<xio_count, xio_dev>>
      PROVE  SlotsInv'
  <2>1. XioEvents' = XioEvents /\ \A f \in XioEvents : SlotOf(f)' = SlotOf(f)
    BY <1>1 DEF XioEvents, SlotOf
  <2> QED
    BY <1>1, <2>1, SlotsRest
<1>2. CASE Stopped
  BY <1>1, <1>2 DEF Stopped, groups, expanders
<1> SUFFICES ASSUME ~Stopped PROVE SlotsInv'
  BY <1>2
<1>3. /\ mat_grp \in [0 .. mat_cnt -> GroupType] /\ mat_cnt \in Nat
      /\ 0 \in 0 .. mat_cnt
  BY DEF TypeOK
<1>4. CASE \E key \in Keys, ref \in PinRefs : Key(key, ref)
  BY <1>4, KeyApart
<1>5. CASE \E tag \in XioTags, pin \in {get_gpio_pin(t) : t \in PinTexts} :
             Xio(tag, pin)
  BY <1>5, XioApart
<1>6. CASE \E tag \in MatTags, text \in PinTexts : Matrix(tag, text)
  <2>1. PICK tag \in MatTags, text \in PinTexts :
               mat_grp' = Grown(tag, get_gpio_pin(text)) /\ UNCHANGED expanders
    BY <1>6 DEF Matrix, Refuse, OutOfArray, Stopped
  <2>2. mat_grp'[0] = mat_grp[0]
    BY <1>3, <2>1 DEF Grown
  <2> QED
    BY <1>1, <2>1, <2>2 DEF expanders
<1>7. CASE \E mode \in Modes, text \in PinTexts : Pull(mode, text)
  BY <1>1, <1>7 DEF Pull, Refuse, OutOfArray, groups, expanders
<1>8. CASE \E ref \in PinRefs : Repeat(ref)
  <2>1. PICK ref \in PinRefs : Repeat(ref)
    BY <1>8
  <2> DEFINE g == get_pin_ref(ref).grp
             pin == get_pin_ref(ref).gpio
  <2> HIDE DEF g, pin
  <2>2. /\ mat_grp' = [mat_grp EXCEPT ![g].rpt_flg = @ \cup {pin}]
        /\ UNCHANGED expanders
    BY <2>1 DEF Repeat, Refuse, OutOfArray, Stopped, g, pin
  <2>3. mat_grp'[0].gpio_key = mat_grp[0].gpio_key
    BY <1>3, <2>2 DEF GroupType
  <2> QED
    BY <1>1, <2>2, <2>3 DEF expanders
<1>9. CASE Unknown \/ End \/ Returned \/ UNCHANGED vars
  BY <1>1, <1>9 DEF Unknown, Refuse, End, Returned, vars, groups, expanders
<1> QED
  BY <1>4, <1>5, <1>6, <1>7, <1>8, <1>9 DEF Next

(***************************************************************************)
(* For any file: while a slot is free, each interrupt event stands for an  *)
(* expander of its own that is found by its name.                          *)
(***************************************************************************)
THEOREM SlotsApart == Spec => []ExpandersApart
<1>1. ConfigInv /\ SlotsInv => ExpandersApart
  <2> SUFFICES ASSUME ConfigInv, SlotsInv, Cardinality(XioEvents) < MaxXioDevs
               PROVE  /\ \A e, f \in XioEvents : SlotOf(e) = SlotOf(f) => e = f
                      /\ \A e \in XioEvents :
                           /\ SlotOf(e) < xio_count
                           /\ find_xio(xio_dev[SlotOf(e)].name) = SlotOf(e)
    BY DEF ExpandersApart, SlotOf
  <2>1. /\ \A e \in XioEvents : SlotOf(e) \in 0 .. xio_count - 1
        /\ \A e, f \in XioEvents : SlotOf(e) = SlotOf(f) => e = f
        /\ NamesApart
        /\ xio_count \in Slots
    BY DEF SlotsInv, ConfigInv, TypeOK
  <2>2. \A s \in 0 .. xio_count - 1 : s < xio_count
    BY <2>1 DEF Slots
  <2>3. ASSUME NEW s \in 0 .. xio_count - 1
        PROVE  find_xio(xio_dev[s].name) = s
    <3> DEFINE names == [x \in 0 .. xio_count - 1 |-> xio_dev[x].name]
               tag == xio_dev[s].name
    <3>1. DOMAIN names \subseteq Nat /\ find_xio(tag) = Find(tag, names)
      BY <2>1 DEF find_xio, Slots
    <3>2. s \in DOMAIN names /\ names[s] = tag
      OBVIOUS
    <3>3. \A t \in DOMAIN names : names[t] = tag => t = s
      BY <2>1 DEF NamesApart
    <3> HIDE DEF names, tag
    <3> QED
      BY <3>1, <3>2, <3>3, Found DEF tag
  <2> QED
    BY <2>1, <2>2, <2>3
<1>2. ConfigInv /\ ConfigInv' /\ SlotsInv /\ [Next]_vars => SlotsInv'
  BY SlotsStep
<1> QED
  BY <1>1, <1>2, SlotsInit, InductiveInvariant, PTL DEF Spec

-----------------------------------------------------------------------------
(* What is handed over. *)

KeyEvent == [key : Keys, xio : {-1}]

(* Only group 0 has events of expanders, and the masks of the expanders in *)
(* use are those of their lists once the whole file has been read.         *)
ListsInv ==
  /\ \A g \in 1 .. mat_cnt, p \in Pins : mat_grp[g].gpio_key[p] \in Seq(KeyEvent)
  /\ \A x \in Slots, i \in Ports : xio_dev[x].key[i] \in Seq(KeyEvent)
  /\ status = "ready" =>
       \A x \in 0 .. xio_count - 1 :
         inmask[x] = {i \in Ports : xio_dev[x].key[i] # <<>>}

LEMMA KeyEventAdded ==
  ASSUME NEW list \in Seq(KeyEvent), NEW key \in Keys
  PROVE  Added(list, [key |-> key, xio |-> -1]) \in Seq(KeyEvent)
<1>1. [key |-> key, xio |-> -1] \in KeyEvent
  BY DEF KeyEvent
<1> QED
  BY <1>1, AppendProperties DEF Added

LEMMA ListsInit == Init => ListsInv
<1>1. <<>> \in Seq(KeyEvent)
  BY EmptySeq
<1> SUFFICES ASSUME Init PROVE ListsInv
  OBVIOUS
<1>2. 1 .. mat_cnt = {} /\ status # "ready"
  BY DEF Init
<1>3. \A x \in Slots, i \in Ports : xio_dev[x].key[i] = <<>>
  BY DEF Init, NewXio
<1> QED
  BY <1>1, <1>2, <1>3 DEF ListsInv

(* Steps that leave the lists and do not end the file. *)
LEMMA ListsRest ==
  ASSUME ListsInv, UNCHANGED expanders,
         mat_cnt' = mat_cnt, mat_cnt \in Nat,
         \A g \in 1 .. mat_cnt : mat_grp'[g].gpio_key = mat_grp[g].gpio_key,
         status' = "ready" => status = "ready"
  PROVE  ListsInv'
BY DEF ListsInv, expanders

LEMMA KeyOnPinLists ==
  ASSUME TypeOK, ListsInv, status = "reading",
         NEW g \in 0 .. mat_cnt, NEW pin \in Pins, NEW key \in Keys,
         mat_grp' = [mat_grp EXCEPT ![g] = WithKey(mat_grp[g], pin, key)],
         UNCHANGED <<status, mat_cnt, expanders>>
  PROVE  ListsInv'
<1> DEFINE list == Added(mat_grp[g].gpio_key[pin], [key |-> key, xio |-> -1])
<1>1. /\ mat_grp \in [0 .. mat_cnt -> GroupType] /\ mat_grp[g] \in GroupType
      /\ mat_cnt \in Nat
  BY DEF TypeOK
<1>2. g # 0 => list \in Seq(KeyEvent)
  <2>1. g # 0 => mat_grp[g].gpio_key[pin] \in Seq(KeyEvent)
    <3>1. g # 0 => g \in 1 .. mat_cnt
      BY <1>1
    <3> QED
      BY <3>1 DEF ListsInv
  <2> QED
    BY <2>1, KeyEventAdded
<1>3. /\ WithKey(mat_grp[g], pin, key).gpio_key[pin] = list
      /\ \A p \in Pins \ {pin} :
           WithKey(mat_grp[g], pin, key).gpio_key[p] = mat_grp[g].gpio_key[p]
  BY <1>1 DEF WithKey, GroupType
<1> HIDE DEF list
<1>4. /\ mat_grp'[g] = WithKey(mat_grp[g], pin, key)
      /\ \A h \in 0 .. mat_cnt : h # g => mat_grp'[h] = mat_grp[h]
  BY <1>1
<1>5. ASSUME NEW h \in 1 .. mat_cnt, NEW p \in Pins
      PROVE  mat_grp'[h].gpio_key[p] \in Seq(KeyEvent)
  <2>1. CASE h = g /\ p = pin
    BY <1>1, <1>2, <1>3, <1>4, <2>1
  <2>2. CASE ~(h = g /\ p = pin)
    <3>1. mat_grp'[h].gpio_key[p] = mat_grp[h].gpio_key[p]
      BY <1>1, <1>3, <1>4, <2>2
    <3> QED
      BY <3>1 DEF ListsInv
  <2> QED
    BY <2>1, <2>2
<1> QED
  BY <1>5 DEF ListsInv, expanders

LEMMA KeyOnPortLists ==
  ASSUME TypeOK, ListsInv, status = "reading",
         NEW x \in Slots, NEW port \in Ports, NEW key \in Keys,
         xio_dev' = [xio_dev EXCEPT ![x].key[port] =
                       Added(@, [key |-> key, xio |-> -1])],
         UNCHANGED <<status, groups>>
  PROVE  ListsInv'
<1> DEFINE list == Added(xio_dev[x].key[port], [key |-> key, xio |-> -1])
<1>1. list \in Seq(KeyEvent)
  BY KeyEventAdded DEF ListsInv
<1>2. xio_dev' = [xio_dev EXCEPT ![x].key[port] = list]
  OBVIOUS
<1> HIDE DEF list
<1>3. \A y \in Slots, i \in Ports :
        xio_dev'[y].key[i] = IF y = x /\ i = port THEN list ELSE xio_dev[y].key[i]
  BY <1>2 DEF TypeOK
<1>4. \A y \in Slots, i \in Ports : xio_dev'[y].key[i] \in Seq(KeyEvent)
  BY <1>1, <1>3 DEF ListsInv
<1> QED
  BY <1>4 DEF ListsInv, groups

LEMMA KeyCommandLists ==
  ASSUME ConfigInv, ListsInv, NEW key \in Keys, NEW ref \in PinRefs,
         Key(key, ref), ~Stopped
  PROVE  ListsInv'
<1> USE DEF ConfigInv
<1> DEFINE at == get_pin_ref(ref)
<1> HIDE DEF at
<1>1. /\ \A tag : find_mat(tag) \in 1 .. mat_cnt \cup {-1}
      /\ \A tag : find_xio(tag) \in 0 .. xio_count - 1 \cup {-1}
      /\ mat_cnt \in Nat /\ xio_count \in Slots
  BY FoundMat, FoundXio DEF TypeOK
<1>2. at.grp \in 0 .. mat_cnt \cup {-1} /\ at.xio \in 0 .. xio_count - 1 \cup {-1}
  BY <1>1 DEF at, get_pin_ref, Refers
<1>3. /\ at.ok /\ status = "reading"
      /\ \/ at.grp >= 0 /\ KeyOnPin(at.grp, at.gpio, key)
         \/ at.grp < 0 /\ at.xio >= 0 /\ KeyOnPort(at.xio, at.gpio, key)
         \/ at.grp < 0 /\ KeyOnPin(0, at.gpio, key)
  BY DEF Key, Refuse, Stopped, at
<1>4. ASSUME NEW g \in 0 .. mat_cnt, KeyOnPin(g, at.gpio, key)
      PROVE  ListsInv'
  <2>1. /\ at.gpio \in Pins
        /\ mat_grp' = [mat_grp EXCEPT ![g] = WithKey(mat_grp[g], at.gpio, key)]
        /\ UNCHANGED <<status, mat_cnt, expanders>>
    BY <1>3, <1>4 DEF KeyOnPin, Refuse, OutOfArray, Stopped
  <2> QED
    BY <1>3, <2>1, KeyOnPinLists
<1>5. ASSUME at.xio >= 0, KeyOnPort(at.xio, at.gpio, key)
      PROVE  ListsInv'
  <2>1. /\ at.gpio \in Ports
        /\ xio_dev' = [xio_dev EXCEPT ![at.xio].key[at.gpio] =
                         Added(@, [key |-> key, xio |-> -1])]
        /\ UNCHANGED <<status, groups>>
    BY <1>3, <1>5 DEF KeyOnPort, OutOfArray, Stopped
  <2>2. at.xio \in Slots
    BY <1>1, <1>2, <1>5 DEF Slots
  <2> QED
    BY <1>3, <2>1, <2>2, KeyOnPortLists
<1>6. (at.grp >= 0 => at.grp \in 0 .. mat_cnt) /\ 0 \in 0 .. mat_cnt
  BY <1>1, <1>2
<1> QED
  BY <1>3, <1>4, <1>5, <1>6

LEMMA XioCommandLists ==
  ASSUME ConfigInv, ListsInv, NEW tag \in XioTags, NEW pin,
         Xio(tag, pin), ~Stopped
  PROVE  ListsInv'
<1>1. /\ status = "reading" /\ pin \in Pins
      /\ xio_dev' = [xio_dev EXCEPT ![xio_count] = NewXio(tag)]
      /\ mat_grp' = [mat_grp EXCEPT ![0].gpio_key[pin] =
                       Added(@, [key |-> 0, xio |-> xio_count])]
      /\ UNCHANGED <<status, mat_cnt>>
  BY DEF Xio, Refuse, OutOfArray, Stopped
<1>2. /\ mat_grp \in [0 .. mat_cnt -> GroupType] /\ mat_cnt \in Nat
      /\ DOMAIN xio_dev = Slots
  BY DEF ConfigInv, TypeOK
<1>3. \A g \in 1 .. mat_cnt : mat_grp'[g] = mat_grp[g]
  BY <1>1, <1>2
<1>4. \A x \in Slots, i \in Ports :
        xio_dev'[x].key[i] = IF x = xio_count THEN <<>> ELSE xio_dev[x].key[i]
  BY <1>1, <1>2 DEF NewXio
<1>5. <<>> \in Seq(KeyEvent)
  BY EmptySeq
<1>6. \A x \in Slots, i \in Ports : xio_dev'[x].key[i] \in Seq(KeyEvent)
  BY <1>4, <1>5 DEF ListsInv
<1> QED
  BY <1>1, <1>3, <1>6 DEF ListsInv

LEMMA ListsStep ==
  ASSUME ConfigInv, ListsInv, [Next]_vars
  PROVE  ListsInv'
<1> USE DEF ConfigInv
<1>1. /\ mat_grp \in [0 .. mat_cnt -> GroupType] /\ mat_cnt \in Nat
      /\ xio_count \in Slots
  BY DEF TypeOK
<1>2. ASSUME UNCHANGED <<groups, expanders>>, status' = "ready" => status = "ready"
      PROVE  ListsInv'
  BY <1>1, <1>2, ListsRest DEF groups
<1>3. CASE Stopped
  BY <1>2, <1>3 DEF Stopped
<1> SUFFICES ASSUME ~Stopped PROVE ListsInv'
  BY <1>3
<1>4. CASE \E key \in Keys, ref \in PinRefs : Key(key, ref)
  BY <1>4, KeyCommandLists
<1>5. CASE \E tag \in XioTags, pin \in {get_gpio_pin(t) : t \in PinTexts} :
             Xio(tag, pin)
  BY <1>5, XioCommandLists
<1>6. CASE \E tag \in MatTags, text \in PinTexts : Matrix(tag, text)
  <2>1. PICK tag \in MatTags, text \in PinTexts :
          /\ mat_grp' = Grown(tag, get_gpio_pin(text))
          /\ mat_cnt' = mat_cnt + 1 /\ status' # "ready" /\ UNCHANGED expanders
    BY <1>6 DEF Matrix, Refuse, OutOfArray, Stopped
  <2> DEFINE new == NewGroup(tag, get_gpio_pin(text))
  <2>2. \A g \in 1 .. mat_cnt + 1 :
          mat_grp'[g] = IF g <= mat_cnt THEN mat_grp[g] ELSE new
    BY <1>1, <2>1 DEF Grown
  <2>3. \A p \in Pins : new.gpio_key[p] \in Seq(KeyEvent)
    BY EmptySeq DEF NewGroup
  <2> HIDE DEF new
  <2>4. ASSUME NEW g \in 1 .. mat_cnt + 1, NEW p \in Pins
        PROVE  mat_grp'[g].gpio_key[p] \in Seq(KeyEvent)
    <3>1. CASE g <= mat_cnt
      BY <1>1, <2>2, <3>1 DEF ListsInv
    <3>2. CASE ~(g <= mat_cnt)
      BY <2>2, <2>3, <3>2
    <3> QED
      BY <3>1, <3>2
  <2> QED
    BY <2>1, <2>4 DEF ListsInv, expanders
<1>7. CASE \E mode \in Modes, text \in PinTexts : Pull(mode, text)
  BY <1>2, <1>7 DEF Pull, Refuse, OutOfArray
<1>8. CASE \E ref \in PinRefs : Repeat(ref)
  <2>1. PICK ref \in PinRefs : Repeat(ref)
    BY <1>8
  <2> DEFINE g == get_pin_ref(ref).grp
             pin == get_pin_ref(ref).gpio
  <2> HIDE DEF g, pin
  <2>2. /\ mat_grp' = [mat_grp EXCEPT ![g].rpt_flg = @ \cup {pin}]
        /\ UNCHANGED <<status, mat_cnt, expanders>>
    BY <2>1 DEF Repeat, Refuse, OutOfArray, Stopped, g, pin
  <2>3. \A h \in 1 .. mat_cnt : mat_grp'[h].gpio_key = mat_grp[h].gpio_key
    BY <1>1, <2>2 DEF GroupType
  <2> QED
    BY <1>1, <2>2, <2>3, ListsRest
<1>9. CASE End
  <2>1. \A x \in 0 .. xio_count - 1 : x \in Slots /\ x < xio_count
    BY <1>1 DEF Slots
  <2>2. /\ inmask' = [x \in Slots |-> Inmask(x)]
        /\ UNCHANGED <<groups, xio_count, xio_dev>>
    BY <1>9 DEF End
  <2>3. \A x \in 0 .. xio_count - 1 :
          inmask'[x] = {i \in Ports : xio_dev[x].key[i] # <<>>}
    BY <2>1, <2>2 DEF Inmask
  <2> QED
    BY <2>2, <2>3 DEF ListsInv, groups
<1>10. CASE Unknown \/ Returned \/ UNCHANGED vars
  BY <1>2, <1>10 DEF Unknown, Refuse, Returned, vars, groups, expanders
<1> QED
  BY <1>4, <1>5, <1>6, <1>7, <1>8, <1>9, <1>10 DEF Next

(* The events of group 0 name an expander below the count, or none. *)
LEMMA ListsTyped ==
  ASSUME ConfigInv, SlotsInv, ListsInv, Cardinality(XioEvents) < MaxXioDevs,
         NEW g \in 0 .. mat_cnt, NEW p \in Pins
  PROVE  mat_grp[g].gpio_key[p]
           \in Seq([key : Keys \cup {0}, xio : 0 .. xio_count - 1 \cup {-1}])
<1> DEFINE list == mat_grp[g].gpio_key[p]
           T == [key : Keys \cup {0}, xio : 0 .. xio_count - 1 \cup {-1}]
<1>1. list \in Seq(Event)
  <2>1. mat_grp[g] \in GroupType
    BY DEF ConfigInv, TypeOK
  <2> QED
    BY <2>1 DEF GroupType
<1>2. ASSUME NEW n \in DOMAIN list PROVE list[n] \in T
  <2>1. DOMAIN list = 1 .. Len(list) /\ list[n] \in Event /\ n \in Nat
    BY <1>1, LenProperties, ElementOfSeq
  <2>2. CASE g = 0
    <3>1. CASE list[n].xio >= 0
      <4>1. XioEvent(<<p, n>>)
        BY <2>1, <2>2, <3>1 DEF XioEvent
      <4>2. <<p, n>> \in XioEvents
        BY <4>1, XioEventsAre DEF ConfigInv
      <4>3. SlotOf(<<p, n>>) \in 0 .. xio_count - 1
        BY <4>2 DEF SlotsInv
      <4>4. list[n].xio \in 0 .. xio_count - 1
        BY <2>2, <4>3 DEF SlotOf
      <4> QED
        BY <2>1, <4>4 DEF Event
    <3>2. CASE ~(list[n].xio >= 0)
      <4>1. list[n].xio = -1
        BY <2>1, <3>2 DEF Event, Slots
      <4> QED
        BY <2>1, <4>1 DEF Event
    <3> QED
      BY <3>1, <3>2
  <2>3. CASE g # 0
    <3>1. list \in Seq(KeyEvent)
      <4>1. g \in 1 .. mat_cnt
        BY <2>3 DEF ConfigInv, TypeOK
      <4> QED
        BY <4>1 DEF ListsInv
    <3>2. list[n] \in KeyEvent
      BY <2>1, <3>1, ElementOfSeq
    <3> QED
      BY <3>2 DEF KeyEvent
  <2> QED
    BY <2>2, <2>3
<1>3. Len(list) \in Nat /\ DOMAIN list = 1 .. Len(list)
      /\ list = [n \in 1 .. Len(list) |-> list[n]]
  BY <1>1, LenProperties
<1> HIDE DEF list, T
<1>4. list \in Seq(T)
  BY <1>2, <1>3, SeqDef
<1> QED
  BY <1>4 DEF list, T

LEMMA PortListsTyped ==
  ASSUME ListsInv, NEW x \in Slots, NEW i \in Ports
  PROVE  KeysOf(xio_dev[x].key[i]) \in Seq(Keys)
<1> DEFINE list == xio_dev[x].key[i]
<1>1. list \in Seq(KeyEvent)
  BY DEF ListsInv
<1> HIDE DEF list
<1>2. /\ Len(list) \in Nat /\ DOMAIN list = 1 .. Len(list)
      /\ \A n \in 1 .. Len(list) : list[n] \in KeyEvent
  BY <1>1, LenProperties, ElementOfSeq
<1>3. \A n \in 1 .. Len(list) : list[n].key \in Keys
  BY <1>2 DEF KeyEvent
<1>4. KeysOf(list) = [n \in 1 .. Len(list) |-> list[n].key]
  BY <1>2 DEF KeysOf
<1>5. KeysOf(list) \in Seq(Keys)
  BY <1>2, <1>3, <1>4
<1> QED
  BY <1>5 DEF list

(***************************************************************************)
(* For any file that leaves a slot free: what init_config() hands over is  *)
(* what GpioPoll and SendKeys, and so their theorems, assume.              *)
(***************************************************************************)
THEOREM HandedOver == Spec => []HandsOver
<1>1. ConfigInv /\ SlotsInv /\ ListsInv => HandsOver
  <2> SUFFICES ASSUME ConfigInv, SlotsInv, ListsInv, status = "ready",
                      Cardinality(XioEvents) < MaxXioDevs,
                      NEW numbers, numbers = 0 .. mat_cnt,
                      NEW devices, devices = 0 .. xio_count - 1
               PROVE
        /\ PollMasks(numbers, Pins,
                     [g \in numbers |-> mat_grp[g].gpio_mask],
                     [g \in numbers |-> mat_grp[g].rpt_flg],
                     xio_mask, {p \in Pins : is_xio(p)})
        /\ KeyLists(numbers, Pins, devices, Ports, Keys,
                    [g \in numbers |-> mat_grp[g].gpio_key],
                    [x \in devices |-> [i \in Ports |-> KeysOf(xio_dev[x].key[i])]])
        /\ \A x \in devices : inmask[x] = {i \in Ports : xio_dev[x].key[i] # <<>>}
    BY DEF HandsOver
  <2>1. /\ \A g \in numbers : mat_grp[g] \in GroupType
        /\ xio_mask \subseteq Pins /\ xio_count \in Slots
        /\ \A p \in xio_mask : is_xio(p)
    BY DEF ConfigInv, TypeOK, InterruptsMarked
  <2>2. PollMasks(numbers, Pins,
                  [g \in numbers |-> mat_grp[g].gpio_mask],
                  [g \in numbers |-> mat_grp[g].rpt_flg],
                  xio_mask, {p \in Pins : is_xio(p)})
    BY <2>1 DEF PollMasks, GroupType
  <2>3. [g \in numbers |-> mat_grp[g].gpio_key]
          \in [numbers -> [Pins -> Seq([key : Keys \cup {0}, xio : devices \cup {-1}])]]
    <3> DEFINE S == Seq([key : Keys \cup {0}, xio : devices \cup {-1}])
    <3>1. \A g \in numbers : \A p \in Pins : mat_grp[g].gpio_key[p] \in S
      BY ListsTyped
    <3>2. \A g \in numbers : mat_grp[g].gpio_key \in [Pins -> Seq(Event)]
      BY <2>1 DEF GroupType
    <3> HIDE DEF S
    <3>3. \A g \in numbers : mat_grp[g].gpio_key \in [Pins -> S]
      BY <3>1, <3>2
    <3> QED
      BY <3>3 DEF S
  <2>4. [x \in devices |-> [i \in Ports |-> KeysOf(xio_dev[x].key[i])]]
          \in [devices -> [Ports -> Seq(Keys)]]
    <3>1. devices \subseteq Slots
      BY <2>1 DEF Slots
    <3>2. \A x \in devices, i \in Ports : KeysOf(xio_dev[x].key[i]) \in Seq(Keys)
      BY <3>1, PortListsTyped
    <3> QED
      BY <3>2
  <2>5. KeyLists(numbers, Pins, devices, Ports, Keys,
                 [g \in numbers |-> mat_grp[g].gpio_key],
                 [x \in devices |-> [i \in Ports |-> KeysOf(xio_dev[x].key[i])]])
    BY <2>3, <2>4 DEF KeyLists
  <2>6. \A x \in devices : inmask[x] = {i \in Ports : xio_dev[x].key[i] # <<>>}
    BY DEF ListsInv
  <2> QED
    BY <2>2, <2>5, <2>6
<1>2. ConfigInv /\ ListsInv /\ [Next]_vars => ListsInv'
  BY ListsStep
<1>3. ConfigInv /\ ConfigInv' /\ SlotsInv /\ [Next]_vars => SlotsInv'
  BY SlotsStep
<1> QED
  BY <1>1, <1>2, <1>3, ListsInit, SlotsInit, InductiveInvariant, PTL DEF Spec
=============================================================================
