------------------------------ MODULE SendKeys ------------------------------
(***************************************************************************)
(* What one report of GpioPoll does: send_gpio_keys() walks the list of    *)
(* key events of a pin and writes each key to uinput, pressed and released *)
(* at once; for the interrupt pin of an I/O expander it polls the expander *)
(* instead, and handle_iic_event() sends the keys of the ports that        *)
(* changed.                                                                *)
(*                                                                         *)
(* A list of gpio_key_s is a sequence, a pointer into it a pin and a       *)
(* position.  Every write to uinput may fail; its result is ignored, as is *)
(* that of the transfers over the I2C bus.                                 *)
(***************************************************************************)
EXTENDS Integers, SequencesExt, FiniteSetsExt, Handover

CONSTANTS
  Groups, Pins,   \* 0 is the direct group
  Expanders,      \* 0 .. xio_count - 1
  Ports,          \* 0 .. MAX_XIO_PINS - 1, the bits of a port register
  Keys,           \* the key codes, all below 0x300
  GpioKey,        \* mat_grp[g].gpio_key[p], a sequence of [key, xio]
  XioKey,         \* xio_dev[x].key[i], a sequence of keys
  LastPin,        \* NUM_GPIO - 1
  Regno,          \* the bits of xio_dev[x].regno
  BusErrors,      \* may transfers over the I2C bus fail?
  WriteErrors,    \* may writes to uinput fail?
  NULL

ASSUME PortAssumption ==
  IsFiniteSet(Ports) /\ Ports # {} /\ Ports = 0 .. Cardinality(Ports) - 1

ASSUME PinAssumption ==
  /\ \A S \in {Groups, Pins} : IsFiniteSet(S) /\ S \subseteq Nat
  /\ 0 \in Groups /\ LastPin \in Pins
  /\ NULL \notin (Pins \X Nat) \cup (Ports \X Nat)

ASSUME ListAssumption ==
  /\ KeyLists(Groups, Pins, Expanders, Ports, Keys, GpioKey, XioKey)
  /\ Regno \in [Expanders -> SUBSET (0 .. 7)]
  /\ BusErrors \in BOOLEAN /\ WriteErrors \in BOOLEAN

VARIABLES
  pc,                            \* where send_gpio_keys() is
  grp, gpio,                     \* its parameters
  last_gpio_key, lastgpio,       \* of get_next_key()
  xio, port, xval,               \* of handle_iic_event()
  last_key, xlastgpio,           \* of get_next_xio_key()
  lastvalue,                     \* xio_dev[x].lastvalue: the ports read high
  key,                           \* the key that is being sent
  low,                           \* the ports of each expander that are low
  down,                          \* the keys the kernel holds pressed
  seen,                          \* the keys its readers hold pressed
  emitted, expected, clean, lost \* history, see Call, Poll and Release

args     == <<grp, gpio>>
walk     == <<last_gpio_key, lastgpio>>
xwalk    == <<xio, port, xval, last_key, xlastgpio>>
keyboard == <<down, seen>>
history  == <<emitted, expected, clean, lost>>
vars     == <<pc, args, walk, xwalk, lastvalue, key, low, keyboard, history>>

TypeOK ==
  /\ pc \in {"idle", "loop", "xloop", "press", "xpress", "release", "xrelease",
             "undefined"}
  /\ grp \in Groups /\ gpio \in Pins
  /\ last_gpio_key \in [Groups -> (Pins \X Nat) \cup {NULL}]
  /\ lastgpio \in Pins \cup {-1}
  /\ xio \in Expanders \cup {-1}
  /\ port \in 0 .. Cardinality(Ports)
  /\ xval \subseteq Ports
  /\ last_key \in [Expanders -> (Ports \X Nat) \cup {NULL}]
  /\ xlastgpio \in Ports \cup {-1}
  /\ lastvalue \in [Expanders -> SUBSET Ports]
  /\ key \in Keys \cup {0}
  /\ low \in [Expanders -> SUBSET Ports]
  /\ down \subseteq Keys \cup {0} /\ seen \subseteq Keys \cup {0}
  /\ emitted \in Seq(Keys \cup {0}) /\ expected \in Seq(Keys \cup {0})
  /\ lost \subseteq Keys \cup {0}
  /\ clean \in BOOLEAN

-----------------------------------------------------------------------------
(* The iterators over the key events. *)

FollowingUnmoved(list, at) == at
Following(list, at) == IF at[2] < Len(list) THEN <<at[1], at[2] + 1>> ELSE NULL

First(list, pin) == IF list = <<>> THEN NULL ELSE <<pin, 1>>

got_more_keys(g, p) ==
  IF last_gpio_key[g] = NULL THEN GpioKey[g][p] # <<>>
  ELSE last_gpio_key[g][2] < Len(GpioKey[g][last_gpio_key[g][1]])

(* The event get_next_key() moves to: restart, or go on with the same pin. *)
NextKey(g, p) ==
  IF last_gpio_key[g] = NULL \/ p # lastgpio
  THEN First(GpioKey[g][p], p)
  ELSE Following(GpioKey[g][last_gpio_key[g][1]], last_gpio_key[g])

Event(g, at) == GpioKey[g][at[1]][at[2]]

is_xio(p) == GpioKey[0][p] # <<>> /\ GpioKey[0][p][1].xio >= 0

(* get_curr_xio_no() always looks at group 0. *)
get_curr_xio_no(current) ==
  IF current[0] = NULL THEN -1 ELSE Event(0, current[0]).xio

got_more_xio_keys(x, i) ==
  IF last_key[x] = NULL THEN XioKey[x][i] # <<>>
  ELSE last_key[x][2] < Len(XioKey[x][last_key[x][1]])

NextXioKey(x, i) ==
  IF last_key[x] = NULL \/ i # xlastgpio
  THEN First(XioKey[x][i], i)
  ELSE Following(XioKey[x][last_key[x][1]], last_key[x])

inmask(x) == {i \in Ports : XioKey[x][i] # <<>>}

(* restart_keys() and restart_xio_keys() *)
Unrestarted(last, which) == last
Restarted(last, which) == [last EXCEPT ![which] = NULL]
-----------------------------------------------------------------------------
(* With debugging on, test_config() has walked all lists, up to LastPin:   *)
(* those of group 0 only if it has an input pin.                           *)
Listed(g) == {p \in Pins : GpioKey[g][p] # <<>>}

Dumped ==
  LET walked == {g \in Groups : g = 0 => \E p \in Pins :
                   \E n \in DOMAIN GpioKey[0][p] : GpioKey[0][p][n].xio = -1}
      listed == {g \in walked : Listed(g) # {}}
  IN  /\ last_gpio_key = [g \in Groups |->
           IF g \in walked /\ LastPin \in Listed(g)
           THEN <<LastPin, Len(GpioKey[g][LastPin])>> ELSE NULL]
      /\ lastgpio = IF listed = {} THEN -1 ELSE Max(Listed(Max(listed)))

Init ==
  /\ pc = "idle" /\ grp = 0 /\ gpio = LastPin
  /\ \/ Dumped
     \/ last_gpio_key = [g \in Groups |-> NULL] /\ lastgpio = -1
  /\ xio = -1 /\ port = 0 /\ xval = {}
  /\ last_key = [x \in Expanders |-> NULL] /\ xlastgpio = -1
  /\ lastvalue = [x \in Expanders |-> Ports]
  /\ key = 0
  /\ low = [x \in Expanders |-> {}]
  /\ down = {} /\ seen = {}
  /\ emitted = <<>> /\ expected = <<>> /\ clean = TRUE /\ lost = {}

(* A switch of an expander opens or closes. *)
Move(x, i) ==
  /\ low' = [low EXCEPT ![x] = SymDiff(@, {i})]
  /\ UNCHANGED <<pc, args, walk, xwalk, lastvalue, key, keyboard, history>>

EventKeys(g, p) == [n \in DOMAIN GpioKey[g][p] |-> GpioKey[g][p][n].key]

(* send_gpio_keys(g, p) is called. *)
Call(g, p) ==
  /\ pc = "idle"
  /\ pc' = "loop"
  /\ grp' = g /\ gpio' = p
  /\ last_gpio_key' = Restarted(last_gpio_key, g)
  /\ emitted' = <<>>
  /\ expected' = IF is_xio(p) THEN <<>> ELSE EventKeys(g, p)
  /\ clean' = (down = {})
  /\ UNCHANGED <<lastgpio, xwalk, lastvalue, key, low, keyboard, lost>>

AtReturn == pc = "loop" /\ ~got_more_keys(grp, gpio)

(* The locals and the history of the call end with it. *)
Return ==
  /\ AtReturn
  /\ pc' = "idle"
  /\ grp' = 0 /\ gpio' = LastPin
  /\ key' = 0 /\ xio' = -1 /\ port' = 0 /\ xval' = {}
  /\ emitted' = <<>> /\ expected' = <<>> /\ clean' = TRUE
  /\ UNCHANGED <<walk, last_key, xlastgpio, lastvalue, low, keyboard, lost>>

(* get_next_key() *)
Advance ==
  /\ pc = "loop"
  /\ got_more_keys(grp, gpio)
  /\ last_gpio_key' = [last_gpio_key EXCEPT ![grp] = NextKey(grp, gpio)]
  /\ lastgpio' = gpio

SendNext ==
  /\ Advance
  /\ ~is_xio(gpio)
  /\ key' = Event(grp, last_gpio_key'[grp]).key
  /\ pc' = "press"
  /\ UNCHANGED <<args, xwalk, lastvalue, low, keyboard, history>>

(* handle_iic_event() sends the keys of each changed port, whatever its    *)
(* new level.                                                              *)
KeysBelow(x, changed, i) ==
  FlattenSeq([n \in 1 .. i |->
                IF n - 1 \in changed THEN XioKey[x][n - 1] ELSE <<>>])

PortKeys(x, changed) == KeysBelow(x, changed, Cardinality(Ports))

Unmasked(x, value) == value
Masked(x, value) == value \cap inmask(x)

(* poll_iic(), up to the loop of handle_iic_event(). *)
RememberedLows(x, ival) == [lastvalue EXCEPT ![x] = @ \cap ival]
Remembered(x, ival) == [lastvalue EXCEPT ![x] = ival]

Poll(x, value) ==
  LET ival    == Masked(x, value)
      changed == SymDiff(ival, lastvalue[x])
  IN  /\ lastvalue' = Remembered(x, ival)
      /\ xval' = changed
      /\ xio' = x /\ port' = 0
      /\ last_key' = Restarted(last_key, x)
      /\ expected' = expected \o PortKeys(x, changed)
      /\ pc' = "xloop"
      /\ UNCHANGED <<args, xlastgpio, key, low, keyboard, emitted, clean, lost>>

PollNext == Advance /\ is_xio(gpio)

(* The register of expander x is read. *)
ReadExpander(x) ==
  PollNext /\ get_curr_xio_no(last_gpio_key') = x /\ Poll(x, Ports \ low[x])

(* A transfer fails: if nothing is read the register's number is taken for *)
(* its value; if the register or the expander could not be selected, a     *)
(* register selected before is read, of this expander or of another.       *)
MisreadExpander(x) ==
  /\ PollNext /\ get_curr_xio_no(last_gpio_key') = x
  /\ BusErrors
  /\ \E value \in (SUBSET Ports) \cup {Regno[x]} : Poll(x, value)

(* The event is no expander's: poll_iic(-1) uses xio_dev[-1], the zeros of *)
(* an unused array, or anything.                                           *)
PollNoExpander ==
  /\ PollNext /\ get_curr_xio_no(last_gpio_key') = -1
  /\ pc' \in {"loop", "undefined"}
  /\ UNCHANGED <<args, xwalk, lastvalue, key, low, keyboard, history>>

(* handle_iic_event() restarts the iterator before it turns to a port.     *)
NextPort ==
  /\ pc = "xloop"
  /\ port \in Ports
  /\ ~got_more_xio_keys(xio, port)
  /\ port' = port + 1
  /\ last_key' = IF port' \in Ports THEN Restarted(last_key, xio) ELSE last_key
  /\ UNCHANGED <<pc, args, walk, xio, xval, xlastgpio, lastvalue, key, low,
                 keyboard, history>>

SendsChanges == port \in xval

NextPortKey ==
  /\ pc = "xloop"
  /\ port \in Ports
  /\ got_more_xio_keys(xio, port)
  /\ last_key' = [last_key EXCEPT ![xio] = NextXioKey(xio, port)]
  /\ xlastgpio' = port
  /\ key' = XioKey[xio][port][last_key'[xio][2]]
  /\ pc' = IF SendsChanges THEN "xpress" ELSE "xloop"
  /\ UNCHANGED <<args, walk, xio, port, xval, lastvalue, low, keyboard, history>>

PortsDone ==
  /\ pc = "xloop"
  /\ port \notin Ports
  /\ pc' = "loop"
  /\ UNCHANGED <<args, walk, xwalk, lastvalue, key, low, keyboard, history>>

(* sendKey(key, value) and sendSync(): the key event may not be written,   *)
(* or be written without the report that shows it to the readers.          *)
Written(value) ==
  /\ down' = IF value = 1 THEN down \cup {key} ELSE down \ {key}
  /\ \/ seen' = down' /\ UNCHANGED clean
     \/ WriteErrors /\ clean' = FALSE /\ UNCHANGED seen

NotWritten == WriteErrors /\ clean' = FALSE /\ UNCHANGED keyboard

(* The kernel drops the press of a key that is down.                       *)
Press ==
  /\ \/ pc = "press" /\ pc' = "release"
     \/ pc = "xpress" /\ pc' = "xrelease"
  /\ \/ NotWritten /\ UNCHANGED emitted
     \/ Written(1) /\ emitted' = IF key \in down THEN emitted
                                 ELSE Append(emitted, key)
  /\ UNCHANGED <<args, walk, xwalk, lastvalue, key, low, expected, lost>>

ReleaseOmitted == UNCHANGED <<keyboard, clean, lost>>
ReleaseSent ==
  \/ NotWritten /\ lost' = lost \cup {key}
  \/ Written(0) /\ lost' = lost \ {key}

Release ==
  /\ \/ pc = "release" /\ pc' = "loop"
     \/ pc = "xrelease" /\ pc' = "xloop"
  /\ ReleaseSent
  /\ UNCHANGED <<args, walk, xwalk, lastvalue, key, low, emitted, expected>>

(* The reports of GpioPoll: a pin of the group, or an interrupt pin.       *)
Reported(g, p) == GpioKey[g][p] # <<>> \/ is_xio(p)

(* The steps of send_gpio_keys() between those that read an expander.      *)
Proceed ==
  \/ SendNext \/ PollNoExpander
  \/ NextPort \/ NextPortKey \/ PortsDone
  \/ Press \/ Release

Continue ==
  \/ Proceed \/ Return
  \/ \E x \in Expanders : ReadExpander(x) \/ MisreadExpander(x)

Next ==
  \/ \E x \in Expanders, i \in Ports : Move(x, i)
  \/ \E g \in Groups, p \in Pins : Reported(g, p) /\ Call(g, p)
  \/ Continue

Spec == Init /\ [][Next]_vars

FairSpec == Spec /\ WF_vars(Continue)

-----------------------------------------------------------------------------
(***************************************************************************)
(* pikeyd.conf:89, "A GPIO press will emit all defined keys in order of    *)
(* configuration": if nothing fails, the keys that a call sends are those  *)
(* of the pin, or those of the changed ports of the expander, each once    *)
(* and in order, whatever the iterators were left at by earlier calls.     *)
(***************************************************************************)
AllKeysInOrder == AtReturn /\ clean => emitted = expected

(***************************************************************************)
(* When a call ends a key is down only if its last release could not be    *)
(* written, and a call in which nothing failed leaves its readers with no  *)
(* key pressed.                                                            *)
(***************************************************************************)
StuckOnlyByFailure ==
  AtReturn =>
    /\ down \subseteq lost
    /\ clean /\ emitted # <<>> => seen = {}

(***************************************************************************)
(* The two nested walks, which share nothing but their caller, come to an  *)
(* end whatever fails: send_gpio_keys() returns and the poll loop goes on, *)
(* unless an expander -1 is polled.                                        *)
(***************************************************************************)
CallReturns == pc = "loop" ~> pc \in {"idle", "undefined"}
=============================================================================
