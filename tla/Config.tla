------------------------------- MODULE Config -------------------------------
(***************************************************************************)
(* init_config(): the configuration file is read one command at a time,    *)
(* each changes the matrix groups, the expanders and, through              *)
(* gpio_pincfg() and gpio_pull(), the GPIO; the first bad command ends it. *)
(* What it leaves behind is what GpioPoll and SendKeys take as constants.  *)
(*                                                                         *)
(* A bit mask is the set of its 1 bits, a list of gpio_key_s a sequence.   *)
(* An index that leaves its array is the end of what can be said about the *)
(* program: the status then names the index.  idx, which only              *)
(* get_event_key() looks at and nothing calls, is left out, as is gpios[]. *)
(***************************************************************************)
EXTENDS Integers, Sequences, SequencesExt, FiniteSetsExt, Handover

CONSTANTS
  Keys,              \* the names that find_key() knows; all have codes < 0x300
  MatTags, XioTags,  \* the names MATRIX<tag> and XIO<tag> in the file
  PinTexts,          \* the pin references in it, see get_gpio_pin
  PortTexts,         \* the numbers that follow "XIO<tag>:"
  Pins,              \* the GPIO numbers below NUM_GPIO these can name
  Ports,             \* 0 .. MAX_XIO_PINS - 1
  Modes,             \* PUD_OFF, PUD_DOWN, PUD_UP
  MaxXioDevs,        \* MAX_XIO_DEVS
  MaxEvents,         \* bound on the events in all lists of all groups
  None

ASSUME TagAssumption ==
  /\ MatTags \cap XioTags = {}
  /\ None \notin MatTags \cup XioTags \cup {"in", "out"}

ASSUME TextAssumption ==
  /\ PinTexts \subseteq [place : {"GPIO", "P1", "P5", ""}, no : Int]
  /\ PortTexts \subseteq Int

ASSUME SizeAssumption ==
  /\ Pins \subseteq 0 .. 31
  /\ MaxXioDevs \in Nat \ {0} /\ MaxEvents \in Nat
  /\ 0 \in Modes

VARIABLES
  status,       \* how init_config() fares
  GpioFlags,    \* None, or what the pin is configured for
  pulled,       \* the mode of each pin's pull resistor
  mat_cnt, mat_grp,
  xio_count, xio_dev,
  inmask,       \* xio_dev[x].inmask
  xio_mask      \* joy_data[0].xio_mask

pincfg    == <<GpioFlags, xio_mask>>
groups    == <<mat_cnt, mat_grp>>
expanders == <<xio_count, xio_dev, inmask>>
vars      == <<status, pincfg, pulled, groups, expanders>>

Slots == 0 .. MaxXioDevs - 1

Event == [key : Keys \cup {0}, xio : Slots \cup {-1}]

GroupType ==
  [name : MatTags \cup {None}, gpio : Pins \cup {-1},
   gpio_mask : SUBSET Pins, last_gpio : SUBSET Pins, rpt_flg : SUBSET Pins,
   gpio_key : [Pins -> Seq(Event)]]

TypeOK ==
  /\ status \in {"reading", "ready", "refused", "pin", "port", "group"}
  /\ GpioFlags \in [Pins -> {None, "in", "out"}]
  /\ pulled \in [Pins -> Modes]
  /\ mat_cnt \in Nat
  /\ mat_grp \in [0 .. mat_cnt -> GroupType]
  /\ xio_count \in Slots
  /\ xio_dev \in [Slots -> [name : XioTags \cup {None},
                            key : [Ports -> Seq(Event)]]]
  /\ inmask \in [Slots -> SUBSET Ports]
  /\ xio_mask \subseteq Pins

NewGroup(name, gpio) ==
  [name |-> name, gpio |-> gpio,
   gpio_mask |-> {}, last_gpio |-> {}, rpt_flg |-> {},
   gpio_key |-> [p \in Pins |-> <<>>]]

NewXio(name) == [name |-> name, key |-> [i \in Ports |-> <<>>]]

Init ==
  /\ status = "reading"
  /\ GpioFlags = [p \in Pins |-> None]
  /\ pulled = [p \in Pins |-> 0]
  /\ mat_cnt = 0
  /\ mat_grp = [g \in {0} |-> NewGroup(None, -1)]
  /\ xio_count = 0
  /\ xio_dev = [x \in Slots |-> NewXio(None)]
  /\ inmask = [x \in Slots |-> {}]
  /\ xio_mask = {}

-----------------------------------------------------------------------------
(* Names. *)

p1_ref == <<-1, -1, 2, -1, 3, -1, 4, 14, -1, 15, 17, 18, 27,
            -1, 22, 23, -1, 24, 10, -1, 9, 25, 11, 8, -1, 7>>
p5_ref == <<-1, -1, 28, 29, 30, 31, -1, -1>>

(* "GPIOn" and "n" are GPIO n, "P1-n", "PINn" and "P5-n" a connector's pin. *)
get_gpio_pin(t) ==
  LET connector(ref) == IF t.no \in DOMAIN ref THEN ref[t.no] ELSE -1
  IN  CASE t.place = "P1" -> connector(p1_ref)
        [] t.place = "P5" -> connector(p5_ref)
        [] OTHER          -> t.no

ASSUME PinAssumption ==
  \A t \in PinTexts : get_gpio_pin(t) \in 0 .. 31 => get_gpio_pin(t) \in Pins

(* The first index whose name is tag. *)
Find(tag, names) ==
  LET found == {i \in DOMAIN names : names[i] = tag}
  IN  IF found = {} THEN -1 ELSE Min(found)

find_mat(tag) == Find(tag, [g \in 1 .. mat_cnt |-> mat_grp[g].name])
find_xio(tag) == Find(tag, [x \in 0 .. xio_count - 1 |-> xio_dev[x].name])

(* A pin reference: a text alone, or one behind the tag of a group or of an *)
(* expander.                                                               *)
PinRefs ==
  [dev : MatTags \cup {None}, at : PinTexts] \cup
  [dev : XioTags, at : [place : {""}, no : PortTexts]]

Refers(ok, gpio, grp, xio) == [ok |-> ok, gpio |-> gpio, grp |-> grp, xio |-> xio]

(* get_pin_ref(): the test for a bad direct pin looks at the pointer, which *)
(* is never below 0.                                                       *)
get_pin_ref(ref) ==
  CASE ref.dev \in XioTags ->
         Refers(find_xio(ref.dev) # -1, ref.at.no, -1, find_xio(ref.dev))
    [] ref.dev \in MatTags ->
         Refers(find_mat(ref.dev) # -1 /\ get_gpio_pin(ref.at) >= 0,
                get_gpio_pin(ref.at), find_mat(ref.dev), -1)
    [] OTHER -> Refers(TRUE, get_gpio_pin(ref.at), -1, -1)

-----------------------------------------------------------------------------
(* Ends of init_config(). *)

Refuse == status' = "refused" /\ UNCHANGED <<pincfg, pulled, groups, expanders>>

OutOfArray(index) ==
  status' = index /\ UNCHANGED <<pincfg, pulled, groups, expanders>>

-----------------------------------------------------------------------------
(* gpio_pincfg() *)
is_xio(p) == mat_grp[0].gpio_key[p] # <<>> /\ Head(mat_grp[0].gpio_key[p]).xio >= 0

UsableAlways(pin, flg) == TRUE
Usable(pin, flg) == GpioFlags[pin] \in {None, flg}

MarkXioLast(pin) ==
  IF mat_grp[0].gpio_key[pin] # <<>> /\ Last(mat_grp[0].gpio_key[pin]).xio >= 0
  THEN xio_mask \cup {pin} ELSE xio_mask
MarkXio(pin) == IF is_xio(pin) THEN xio_mask \cup {pin} ELSE xio_mask

Pincfg(pin, flg) ==
  IF Usable(pin, flg)
  THEN /\ GpioFlags' = [GpioFlags EXCEPT ![pin] = flg]
       /\ xio_mask' = MarkXio(pin)
  ELSE UNCHANGED pincfg

(* add_event() *)
Added(list, event) == Append(list, event)

-----------------------------------------------------------------------------
(* KEY_... <pin reference> *)

WithKeyStaleLast(grp, pin, key) ==
  [grp EXCEPT !.gpio_mask = @ \cup {pin},
              !.last_gpio = grp.gpio_mask,
              !.gpio_key[pin] = Added(@, [key |-> key, xio |-> -1])]
WithKey(grp, pin, key) ==
  [grp EXCEPT !.gpio_mask = @ \cup {pin},
              !.last_gpio = grp.gpio_mask \cup {pin},
              !.gpio_key[pin] = Added(@, [key |-> key, xio |-> -1])]

KeyOnPin(g, pin, key) ==
  \/ pin \notin Pins /\ OutOfArray("pin")
  \/ pin \in Pins /\ ~Usable(pin, "in") /\ Refuse
  \/ /\ pin \in Pins /\ Usable(pin, "in")
     /\ Pincfg(pin, "in")
     /\ mat_grp' = [mat_grp EXCEPT ![g] = WithKey(@, pin, key)]
     /\ UNCHANGED <<status, pulled, mat_cnt, expanders>>

KeyOnPort(x, port, key) ==
  \/ port \notin Ports /\ OutOfArray("port")
  \/ /\ port \in Ports
     /\ xio_dev' = [xio_dev EXCEPT ![x].key[port] =
                      Added(@, [key |-> key, xio |-> -1])]
     /\ UNCHANGED <<status, pincfg, pulled, groups, xio_count, inmask>>

Events ==
  MapThenSumSet(LAMBDA g : MapThenSumSet(LAMBDA p : Len(mat_grp[g].gpio_key[p]), Pins),
                0 .. mat_cnt) +
  MapThenSumSet(LAMBDA x : MapThenSumSet(LAMBDA i : Len(xio_dev[x].key[i]), Ports),
                Slots)

Key(key, ref) ==
  LET at == get_pin_ref(ref)
  IN  /\ status = "reading" /\ Events < MaxEvents
      /\ \/ ~at.ok /\ Refuse
         \/ at.ok /\ at.grp >= 0 /\ KeyOnPin(at.grp, at.gpio, key)
         \/ at.ok /\ at.grp < 0 /\ at.xio >= 0 /\ KeyOnPort(at.xio, at.gpio, key)
         \/ at.ok /\ at.grp < 0 /\ at.xio < 0 /\ KeyOnPin(0, at.gpio, key)

NextSlotUnwrapped == xio_count + 1
NextSlotEarly == (xio_count + 1) % (MaxXioDevs - 1)
NextSlot == (xio_count + 1) % MaxXioDevs

(* XIO<tag> <interrupt pin>/<address>/<type>: the pin is not configured.   *)
Xio(tag, pin) ==
  /\ status = "reading" /\ Events < MaxEvents
  /\ \/ find_xio(tag) # -1 /\ Refuse
     \/ find_xio(tag) = -1 /\ pin \notin Pins /\ OutOfArray("pin")
     \/ /\ find_xio(tag) = -1 /\ pin \in Pins
        /\ xio_dev' = [xio_dev EXCEPT ![xio_count] = NewXio(tag)]
        /\ mat_grp' = [mat_grp EXCEPT ![0].gpio_key[pin] =
                         Added(@, [key |-> 0, xio |-> xio_count])]
        /\ xio_count' = NextSlot
        /\ UNCHANGED <<status, pincfg, pulled, mat_cnt, inmask>>

(* MATRIX<tag> <pin>: the new group is there even if its driver is refused. *)
GrownOver(tag, pin) ==
  [g \in 0 .. mat_cnt + 1 |->
     IF g < mat_cnt THEN mat_grp[g] ELSE NewGroup(tag, pin)]
Grown(tag, pin) ==
  [g \in 0 .. mat_cnt + 1 |->
     IF g <= mat_cnt THEN mat_grp[g] ELSE NewGroup(tag, pin)]

Accepted(pin) == GpioFlags[pin] = None

Matrix(tag, text) ==
  LET pin == get_gpio_pin(text)
  IN  /\ status = "reading"
      /\ \/ (find_mat(tag) # -1 \/ pin < 0) /\ Refuse
         \/ find_mat(tag) = -1 /\ pin >= 0 /\ pin \notin Pins /\ OutOfArray("pin")
         \/ /\ find_mat(tag) = -1 /\ pin \in Pins
            /\ mat_cnt' = mat_cnt + 1
            /\ mat_grp' = Grown(tag, pin)
            /\ Pincfg(pin, "out")
            /\ status' = IF Accepted(pin) THEN "reading" ELSE "refused"
            /\ UNCHANGED <<pulled, expanders>>

(* PULL_... <pin> *)
Pull(mode, text) ==
  LET pin == get_gpio_pin(text)
  IN  /\ status = "reading"
      /\ \/ pin < 0 /\ Refuse
         \/ pin >= 0 /\ pin \notin Pins /\ OutOfArray("pin")
         \/ pin \in Pins /\ GpioFlags[pin] # "in" /\ Refuse
         \/ /\ pin \in Pins /\ GpioFlags[pin] = "in"
            /\ pulled' = [pulled EXCEPT ![pin] = mode]
            /\ UNCHANGED <<status, pincfg, groups, expanders>>

(* REPEAT <pin reference>; a list of references is one command each.  The  *)
(* group of a pin or port that is in no matrix group is -1, not 0.         *)
Repeat(ref) ==
  LET at == get_pin_ref(ref)
  IN  /\ status = "reading"
      /\ \/ ~at.ok /\ Refuse
         \/ at.ok /\ at.grp < 0 /\ OutOfArray("group")
         \/ at.ok /\ at.grp > 0 /\ at.gpio \notin Pins /\ OutOfArray("pin")
         \/ /\ at.ok /\ at.grp > 0 /\ at.gpio \in Pins
            /\ mat_grp' = [mat_grp EXCEPT ![at.grp].rpt_flg = @ \cup {at.gpio}]
            /\ UNCHANGED <<status, pincfg, pulled, mat_cnt, expanders>>

(* An unknown name, or a command without exactly one argument.             *)
Unknown == status = "reading" /\ Refuse

(* The end of the file. *)
InmaskButLast(x) ==
  IF x < xio_count - 1 THEN {i \in Ports : xio_dev[x].key[i] # <<>>}
  ELSE inmask[x]
Inmask(x) ==
  IF x < xio_count THEN {i \in Ports : xio_dev[x].key[i] # <<>>} ELSE inmask[x]

End ==
  /\ status = "reading"
  /\ status' = "ready"
  /\ inmask' = [x \in Slots |-> Inmask(x)]
  /\ UNCHANGED <<pincfg, pulled, groups, xio_count, xio_dev>>

Returned == status # "reading" /\ UNCHANGED vars

Next ==
  \/ \E key \in Keys, ref \in PinRefs : Key(key, ref)
  \/ \E tag \in XioTags, pin \in {get_gpio_pin(t) : t \in PinTexts} : Xio(tag, pin)
  \/ \E tag \in MatTags, text \in PinTexts : Matrix(tag, text)
  \/ \E mode \in Modes, text \in PinTexts : Pull(mode, text)
  \/ \E ref \in PinRefs : Repeat(ref)
  \/ Unknown \/ End \/ Returned

Spec == Init /\ [][Next]_vars

-----------------------------------------------------------------------------
Inputs(g) == mat_grp[g].gpio_mask
Drivers == {mat_grp[g].gpio : g \in 1 .. mat_cnt}

(***************************************************************************)
(* No group reads a pin that drives a group, no driver line has a pull     *)
(* resistor switched on, and no two groups share a driver: whatever the    *)
(* order of the commands, gpio_poll() never pulls down a line that it, or  *)
(* another group, reads.                                                   *)
(***************************************************************************)
PinsHaveOneUse ==
  status # "refused" =>
    /\ \A g \in 0 .. mat_cnt : Inputs(g) \cap Drivers = {}
    /\ \A p \in Drivers : pulled[p] = 0
    /\ \A g, h \in 1 .. mat_cnt : mat_grp[g].gpio = mat_grp[h].gpio => g = h

(***************************************************************************)
(* A group reads exactly the pins it has keys for, and takes each of them  *)
(* as released, which is where GpioPoll starts: no key is sent at the      *)
(* first poll for a contact that is open.                                  *)
(***************************************************************************)
ReadyForPolling ==
  \A g \in 0 .. mat_cnt :
    /\ mat_grp[g].last_gpio = Inputs(g)
    /\ Inputs(g) = {p \in Pins :
                     \E e \in Range(mat_grp[g].gpio_key[p]) : e.xio = -1}

(***************************************************************************)
(* The pins gpio_poll() takes as level-triggered, joy_data[0].xio_mask,    *)
(* are interrupt pins to send_gpio_keys(), which looks at the first event  *)
(* only; and each interrupt pin that group 0 reads is among them.          *)
(***************************************************************************)
InterruptsMarked ==
  /\ \A p \in xio_mask : is_xio(p)
  /\ \A p \in Inputs(0) : is_xio(p) => p \in xio_mask

(* The events of interrupt pins: a pin and a position in its list. *)
XioEvents ==
  UNION {{<<p, n>> : n \in {n \in DOMAIN mat_grp[0].gpio_key[p] :
                              mat_grp[0].gpio_key[p][n].xio >= 0}} : p \in Pins}

(***************************************************************************)
(* As long as the array has a free slot, each interrupt pin event stands   *)
(* for an expander of its own, which find_xio() finds and the end of the   *)
(* file sets up: the keys of two expanders are never mixed.  (When the     *)
(* last slot is taken the count is 0 again and none is found.)             *)
(***************************************************************************)
ExpandersApart ==
  Cardinality(XioEvents) < MaxXioDevs =>
    LET slot(e) == mat_grp[0].gpio_key[e[1]][e[2]].xio
    IN  /\ \A e, f \in XioEvents : slot(e) = slot(f) => e = f
        /\ \A e \in XioEvents :
             slot(e) < xio_count /\ find_xio(xio_dev[slot(e)].name) = slot(e)

(***************************************************************************)
(* With that, what polling and sending take as constants is what they      *)
(* assume of them: each event names a key or an expander that is set up,   *)
(* and of each of those the ports that have keys are unmasked.             *)
(***************************************************************************)
KeysOf(list) == [n \in DOMAIN list |-> list[n].key]

HandsOver ==
  LET numbers == 0 .. mat_cnt
      devices == 0 .. xio_count - 1
  IN  status = "ready" /\ Cardinality(XioEvents) < MaxXioDevs =>
        /\ PollMasks(numbers, Pins,
                     [g \in numbers |-> mat_grp[g].gpio_mask],
                     [g \in numbers |-> mat_grp[g].rpt_flg],
                     xio_mask, {p \in Pins : is_xio(p)})
        /\ KeyLists(numbers, Pins, devices, Ports, Keys,
                    [g \in numbers |-> mat_grp[g].gpio_key],
                    [x \in devices |-> [i \in Ports |-> KeysOf(xio_dev[x].key[i])]])
        /\ \A x \in devices : inmask[x] = {i \in Ports : xio_dev[x].key[i] # <<>>}

(***************************************************************************)
(* A command never takes back what an earlier one did: the groups keep     *)
(* their names, drivers, inputs and repeating pins while the array grows,  *)
(* their lists are only appended to, and a configured pin stays as it is.  *)
(***************************************************************************)
KeepsGroup(old, new) ==
  /\ old.name = new.name /\ old.gpio = new.gpio
  /\ old.gpio_mask \subseteq new.gpio_mask /\ old.rpt_flg \subseteq new.rpt_flg
  /\ \A p \in Pins : IsPrefix(old.gpio_key[p], new.gpio_key[p])

ConfigOnlyGrows ==
  [][/\ \A g \in 0 .. mat_cnt : KeepsGroup(mat_grp[g], mat_grp'[g])
     /\ \A p \in Pins : GpioFlags[p] # None => GpioFlags'[p] = GpioFlags[p]]_vars

(***************************************************************************)
(* pikeyd.conf:64, "define an MCP23008 expander at address 0x20 with       *)
(* interrupt wired to GPIO-17": the interrupt pin of an expander is read,  *)
(* so that its keys can be sent.                                           *)
(***************************************************************************)
InterruptsAreRead ==
  status = "ready" => \A p \in Pins : is_xio(p) => p \in Inputs(0)
=============================================================================
