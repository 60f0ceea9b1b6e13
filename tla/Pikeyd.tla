------------------------------- MODULE Pikeyd -------------------------------
(***************************************************************************)
(* The daemon at work: main()'s loop, GpioPoll, makes the calls of         *)
(* send_gpio_keys(), SendKeys, that its polls report; an I/O expander      *)
(* pulls its interrupt pin low when a port changes, and the poll that sees *)
(* this has SendKeys read the expander.  The daemon may be killed at any   *)
(* step and started again.                                                 *)
(*                                                                         *)
(* Whether an expander's interrupts are enabled is up to whoever set up    *)
(* its chip: pikeyd's own writes come too early (see Startup).             *)
(***************************************************************************)
EXTENDS Integers, SequencesExt, FiniteSetsExt, Sorting

CONSTANTS
  Pins, MatCnt, RptFlg, KeyRepeat, BounceTime, Tick, RptTime,  \* of GpioPoll
  Expanders, Ports, Keys, GpioKey, XioKey, LastPin, Regno,     \* of SendKeys
  BusErrors, WriteErrors, NULL,
  XioMask,     \* the interrupt pins that gpio_pincfg() marked
  Wired,       \* the switches that are there, <<group, pin>>
  Enabled      \* the ports of each expander whose interrupt is enabled

VARIABLES
  closed, scan, reading, driven, cur_gpio, last_gpio, bounce_cnt,
  prev_gpio, key_rpt, irq, press, repeat,                      \* of GpioPoll
  pc, grp, gpio, last_gpio_key, lastgpio, xio, port, xval, last_key,
  xlastgpio, lastvalue, key, low, down, seen, emitted, expected, clean, lost,
                                                               \* of SendKeys
  running,     \* is there a process?
  todo,        \* the calls of send_gpio_keys() that the last poll still makes
  int,         \* the expanders whose interrupt is pending
  known,       \* history: the expanders that no failed transfer has touched
               \* since they were last read
  served       \* history: the contacts whose press has been sent

Groups == 0 .. MatCnt

(* KEY makes a pin an input of its group, XIO does not (see Config). *)
GpioMask ==
  [g \in Groups |-> {p \in Pins : \E n \in DOMAIN GpioKey[g][p] :
                                    GpioKey[g][p][n].xio = -1}]

Send == INSTANCE SendKeys

IntPins == {p \in Pins : Send!is_xio(p)}

Poll == INSTANCE GpioPoll WITH XioPins <- IntPins

(* Those that are read are among them (see Config).                        *)
ASSUME MarkAssumption ==
  IntPins \cap GpioMask[0] \subseteq XioMask /\ XioMask \subseteq IntPins

ASSUME PollAssumption ==
  Poll!CountAssumption /\ Poll!ConfigAssumption /\ Poll!TimeAssumption

ASSUME SendAssumption ==
  Send!PortAssumption /\ Send!PinAssumption /\ Send!ListAssumption

ASSUME WiringAssumption ==
  /\ Wired \subseteq {c \in Groups \X Pins : c[2] \in GpioMask[c[1]]}
  /\ \A p \in IntPins : <<0, p>> \notin Wired
  /\ Enabled \in [Expanders -> SUBSET Ports]

polling  == <<scan, reading, driven, cur_gpio, last_gpio, bounce_cnt,
              prev_gpio, key_rpt, irq, press, repeat>>
sending  == <<pc, grp, gpio, last_gpio_key, lastgpio, xio, port, xval,
              last_key, xlastgpio, lastvalue, key, down, seen, emitted,
              expected, clean, lost>>
chips    == <<low, int>>
progress == <<todo, known, served>>
vars     == <<closed, polling, sending, chips, running, progress>>

TypeOK ==
  /\ Poll!TypeOK /\ Send!TypeOK
  /\ running \in BOOLEAN
  /\ todo \in Seq(Groups \X Pins)
  /\ int \subseteq Expanders /\ known \subseteq Expanders
  /\ served \subseteq Groups \X Pins
  /\ todo # <<>> => running /\ ~reading

Init ==
  /\ Poll!Init /\ closed = {}
  /\ Send!Init
  /\ running = TRUE /\ todo = <<>>
  /\ int = {} /\ known = {} /\ served = {}

-----------------------------------------------------------------------------
(* A contact is a switch, or an interrupt line of a pin that is read: it   *)
(* is low while an expander of the pin interrupts.                         *)
Lines(pending) ==
  {<<0, p>> : p \in {q \in IntPins \cap GpioMask[0] :
                      \E n \in DOMAIN GpioKey[0][q] :
                        GpioKey[0][q][n].xio \in pending}}

Interrupted(pending) ==
  /\ int' = pending
  /\ closed' = (closed \cap Wired) \cup Lines(pending)

Switch(c) ==
  /\ Poll!Move(c)
  /\ UNCHANGED <<sending, chips, running, progress>>

(* The chip latches the change of a port until its register is read.       *)
Port(x, i) ==
  /\ Send!Move(x, i)
  /\ Interrupted(IF i \in Enabled[x] THEN int \cup {x} ELSE int)
  /\ UNCHANGED <<polling, running, progress>>

-----------------------------------------------------------------------------
Idle == pc = "idle" /\ todo = <<>>

Drive ==
  /\ running /\ Idle
  /\ Poll!Drive
  /\ UNCHANGED <<sending, chips, running, progress>>

(* The calls of one poll of g, pin by pin: a pin that interrupts and was   *)
(* pressed, too, is sent twice.  Repeats come last.                        *)
CallsOnceEach(g) == [n \in 1 .. Cardinality(irq'[g]) |-> <<g, Ascending(irq'[g])[n]>>]
Calls(g) ==
  LET of(p, S) == IF p \in S THEN <<<<g, p>>>> ELSE <<>>
      polled   == Ascending(irq'[g] \cup press'[g])
      repeats  == Ascending(repeat'[g])
  IN  FlattenSeq([n \in DOMAIN polled |->
                    of(polled[n], irq'[g]) \o of(polled[n], press'[g])])
        \o [n \in DOMAIN repeats |-> <<g, repeats[n]>>]

(* A contact that reads high is a press to come. *)
Read ==
  /\ running
  /\ Poll!Read
  /\ todo' = Calls(scan)
  /\ served' = {c \in served : c[1] = scan => c[2] \notin last_gpio'[scan]}
  /\ UNCHANGED <<sending, chips, running, known>>

Call ==
  /\ todo # <<>>
  /\ Send!Call(Head(todo)[1], Head(todo)[2])
  /\ todo' = Tail(todo)
  /\ UNCHANGED <<closed, polling, int, running, known, served>>

(* A call returns; its contact has been served if it was pressed. *)
Return ==
  /\ Send!Return
  /\ served' = IF gpio \in press[grp] THEN served \cup {<<grp, gpio>>} ELSE served
  /\ UNCHANGED <<closed, polling, int, running, todo, known>>

(* Reading the register takes the interrupt back. *)
ReadExpander(x) ==
  /\ Send!ReadExpander(x)
  /\ Interrupted(int \ {x})
  /\ known' = known \cup {x}
  /\ UNCHANGED <<polling, running, todo, served>>

(* After a failed transfer for x no expander has been read, or y has: x in *)
(* a wrong register, or one that was addressed before.                     *)
MisreadExpander(x) ==
  /\ Send!MisreadExpander(x)
  /\ \E y \in Expanders \cup {-1} :
       Interrupted(int \ {y}) /\ known' = known \ {x, y}
  /\ UNCHANGED <<polling, running, todo, served>>

Proceed ==
  /\ Send!Proceed
  /\ UNCHANGED <<closed, polling, int, running, progress>>

-----------------------------------------------------------------------------
(* The process ends.  Its memory is lost, the uinput device goes and with  *)
(* it every key that was down; the levels of the driver lines stay.        *)
Kill ==
  /\ running
  /\ running' = FALSE
  /\ scan' = 0 /\ reading' = FALSE
  /\ cur_gpio' = Poll!Nothing /\ last_gpio' = GpioMask
  /\ bounce_cnt' = [g \in Groups |-> 0]
  /\ prev_gpio' = Poll!Nothing
  /\ key_rpt' = [g \in Groups |->
                   [p \in Pins |-> [idx |-> 0, t_now |-> 0, t_next |-> 0]]]
  /\ irq' = Poll!Nothing /\ press' = Poll!Nothing /\ repeat' = Poll!Nothing
  /\ pc' = "idle" /\ grp' = 0 /\ gpio' = LastPin
  /\ last_gpio_key' = [g \in Groups |-> NULL] /\ lastgpio' = -1
  /\ xio' = -1 /\ port' = 0 /\ xval' = {}
  /\ last_key' = [x \in Expanders |-> NULL] /\ xlastgpio' = -1
  /\ lastvalue' = [x \in Expanders |-> Ports]
  /\ key' = 0 /\ down' = {} /\ seen' = {}
  /\ emitted' = <<>> /\ expected' = <<>> /\ clean' = TRUE /\ lost' = {}
  /\ todo' = <<>> /\ known' = {} /\ served' = {}
  /\ UNCHANGED <<closed, driven, chips>>

(* gpio_pincfg() sets every driver line high. *)
Start ==
  /\ ~running
  /\ running' = TRUE
  /\ driven' = {}
  /\ UNCHANGED <<closed, scan, reading, cur_gpio, last_gpio, bounce_cnt,
                 prev_gpio, key_rpt, irq, press, repeat, sending, chips,
                 progress>>

Daemon ==
  \/ Drive \/ Read \/ Call \/ Return \/ Proceed
  \/ \E x \in Expanders : ReadExpander(x) \/ MisreadExpander(x)

Next ==
  \/ Daemon
  \/ \E c \in Wired : Switch(c)
  \/ \E x \in Expanders, i \in Ports : Port(x, i)
  \/ Kill \/ Start

Spec == Init /\ [][Next]_vars

(* While it runs, the daemon goes on; the rest of the world need not.      *)
FairSpec == Spec /\ WF_vars(Daemon)

-----------------------------------------------------------------------------
(* Nothing ends the process, or its memory's meaning, any more. *)
Alive == running /\ pc # "undefined"

(***************************************************************************)
(* Every press that is sent comes from a contact of the polled group that  *)
(* is closed at that moment, also after the daemon was killed between      *)
(* driving a line and releasing it and was started again (daemon.c:60).    *)
(***************************************************************************)
NoGhostPress ==
  [][\A g \in Groups : \A p \in press'[g] :
       p \in press[g] \/ <<g, p>> \in closed \/ <<0, p>> \in closed]_vars

(***************************************************************************)
(* No change of a port is overlooked: unless a transfer failed since it    *)
(* was read, an expander without a pending interrupt has the ports that    *)
(* the daemon believes it has, whenever they changed during a poll or a    *)
(* walk over their keys (config.c:1271).                                   *)
(***************************************************************************)
NoPortChangeMissed ==
  \A x \in known \ int :
    (Ports \ low[x]) \cap Enabled[x] \cap Send!inmask(x)
      = lastvalue[x] \cap Enabled[x]

(* The closed contacts that a poll of g can see. *)
Visible(g) == {c \in closed : c[1] \in {0, g}}

(***************************************************************************)
(* A press is not only reported but sent: while the daemon lives and the   *)
(* contacts of a group rest, the call of send_gpio_keys() for every closed *)
(* one has returned, whatever other groups and expanders make it do.       *)
(***************************************************************************)
PressIsSent ==
  \A c \in Wired :
    (<>[]Alive /\ <>[][UNCHANGED Visible(c[1])]_closed)
      => <>[](c \in closed => c \in served)

(***************************************************************************)
(* An interrupt is answered: while the daemon lives, the direct contacts   *)
(* rest and transfers succeed, no expander waits for ever, although it     *)
(* shares the debouncing of group 0 and may interrupt at any time.         *)
(***************************************************************************)
InterruptIsAnswered ==
  \A x \in Expanders :
    (/\ <>[]Alive
     /\ <>[][UNCHANGED (Visible(0) \cap Wired)]_closed
     /\ <>[][~MisreadExpander(x)]_vars)
      => []<>(x \notin int)
=============================================================================
