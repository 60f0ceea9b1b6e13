------------------------------ MODULE GpioPoll ------------------------------
(***************************************************************************)
(* The main loop of pikeyd and the polling half of gpio.c: main() calls    *)
(* gpio_poll() for the direct group 0 and then for every matrix group, for *)
(* ever.  One call drives the group's matrix line low, waits, reads the    *)
(* input register, releases the line, debounces what it read, sends the    *)
(* keys of the contacts that closed, and runs the key-repeat timers.       *)
(*                                                                         *)
(* A bit mask over the GPIO numbers is modelled as the set of its 1 bits.  *)
(* A contact is a switch of a group: <<0, p>> connects pin p to ground,    *)
(* <<g, p>> connects pin p to the driver line of matrix group g.           *)
(* Contacts move at any time.                                              *)
(***************************************************************************)
EXTENDS Integers, FiniteSetsExt, Handover

CONSTANTS
  Pins,        \* the GPIO numbers in use
  MatCnt,      \* mat_cnt: the number of matrix groups
  GpioMask,    \* mat_grp[g].gpio_mask: the input pins of each group
  RptFlg,      \* mat_grp[g].rpt_flg: the pins of each group that repeat
  KeyRepeat,   \* KeyRepeat: set by force_repeat(), every pin repeats
  XioPins,     \* the pins for which is_xio() holds
  XioMask,     \* joy_data[0].xio_mask
  BounceTime,  \* BOUNCE_TIME
  Tick,        \* milliseconds added to a repeat timer by each poll
  RptTime      \* mxkey.time

Groups == 0 .. MatCnt

ASSUME CountAssumption == MatCnt \in Nat

ASSUME ConfigAssumption ==
  /\ PollMasks(Groups, Pins, GpioMask, RptFlg, XioMask, XioPins)
  /\ KeyRepeat \in BOOLEAN

ASSUME TimeAssumption ==
  /\ BounceTime \in Nat
  /\ Tick \in Nat \ {0}
  /\ RptTime \in [0 .. 3 -> Nat]

VARIABLES
  closed,      \* the contacts that are closed now
  scan,        \* i, the group main() polls next or is polling
  reading,     \* is gpio_poll() between driving the line and reading?
  driven,      \* the groups whose driver line is low
  cur_gpio, last_gpio, bounce_cnt,   \* mat_grp[g], for debouncing
  prev_gpio, key_rpt,                \* mat_grp[g], for repeating
  irq, press, repeat   \* the pins of g that the last poll sent, by cause

hardware == <<closed, driven>>
debounce == <<cur_gpio, last_gpio, bounce_cnt>>
timers   == <<prev_gpio, key_rpt>>
sent     == <<irq, press, repeat>>
vars     == <<hardware, scan, reading, debounce, timers, sent>>

Contacts == {c \in Groups \X Pins : c[2] \in GpioMask[c[1]]}

Stage == [idx : -1 .. 3, t_now : Nat, t_next : Nat]

Nothing == [g \in Groups |-> {}]

TypeOK ==
  /\ closed \subseteq Contacts
  /\ driven \subseteq Groups
  /\ scan \in Groups
  /\ reading \in BOOLEAN
  /\ cur_gpio \in [Groups -> SUBSET Pins]
  /\ last_gpio \in [Groups -> SUBSET Pins]
  /\ bounce_cnt \in [Groups -> 0 .. BounceTime]
  /\ prev_gpio \in [Groups -> SUBSET Pins]
  /\ key_rpt \in [Groups -> [Pins -> Stage]]
  /\ irq \in [Groups -> SUBSET Pins]
  /\ press \in [Groups -> SUBSET Pins]
  /\ repeat \in [Groups -> SUBSET Pins]

(***************************************************************************)
(* What init_config() leaves behind: zeroed groups, except that last_gpio  *)
(* is the group's mask, every pin taken as released.                       *)
(***************************************************************************)
Init ==
  /\ closed \in SUBSET Contacts
  /\ driven = {}
  /\ scan = 0
  /\ reading = FALSE
  /\ cur_gpio = Nothing
  /\ last_gpio = GpioMask
  /\ bounce_cnt = [g \in Groups |-> 0]
  /\ prev_gpio = Nothing
  /\ key_rpt = [g \in Groups |->
                  [p \in Pins |-> [idx |-> 0, t_now |-> 0, t_next |-> 0]]]
  /\ irq = Nothing /\ press = Nothing /\ repeat = Nothing

-----------------------------------------------------------------------------
(* gpio_poll(): the pins of g that read high while the lines in driven     *)
(* are low.  All input pins are pulled up.                                 *)
PulledLow(p) == \E g \in driven \cup {0} : <<g, p>> \in closed

HighPins(g) == {p \in GpioMask[g] : ~PulledLow(p)}

(* gpio_poll(): the pins whose level differs from the group's last sample. *)
Changed(g, new_gpio) == SymDiff(new_gpio, last_gpio[g])

(* The debounce counter restarts when any pin of the group changed ...     *)
Bounce(g, new_gpio) ==
  IF Changed(g, new_gpio) = {} THEN bounce_cnt[g] ELSE 0

Settled(g, new_gpio) == Bounce(g, new_gpio) >= BounceTime

BounceCountUncapped(g, new_gpio) == Bounce(g, new_gpio) + 1
BounceCount(g, new_gpio) ==
  IF Settled(g, new_gpio) THEN Bounce(g, new_gpio)
                          ELSE Bounce(g, new_gpio) + 1

(* ... and the changed pins stay pending until the group has settled.      *)
PendingOverwritten(g, new_gpio) == Changed(g, new_gpio)
Pending(g, new_gpio) == cur_gpio[g] \cup Changed(g, new_gpio)

PendingAfterCleared(g, new_gpio) == {}
PendingAfter(g, new_gpio) ==
  IF Settled(g, new_gpio) THEN {} ELSE Pending(g, new_gpio)

(* The keys of a pending pin are sent if it settled low.                   *)
PressedAtAnyLevel(g, new_gpio) ==
  IF Settled(g, new_gpio) THEN Pending(g, new_gpio) ELSE {}
Pressed(g, new_gpio) ==
  IF Settled(g, new_gpio) THEN Pending(g, new_gpio) \ new_gpio ELSE {}

(* Expanders are polled at every settled poll while an interrupt is low.   *)
InterruptingAtEdge(g, new_gpio) ==
  IF Settled(g, new_gpio) THEN (XioPins \cap Pending(g, new_gpio)) \ new_gpio
                          ELSE {}
Interrupting(g, new_gpio) ==
  IF Settled(g, new_gpio) /\ XioMask \ new_gpio # {}
  THEN XioPins \ new_gpio ELSE {}

Debounce(g, new_gpio) ==
  /\ last_gpio' = [last_gpio EXCEPT ![g] = new_gpio]
  /\ bounce_cnt' = [bounce_cnt EXCEPT ![g] = BounceCount(g, new_gpio)]
  /\ cur_gpio' = [cur_gpio EXCEPT ![g] = PendingAfter(g, new_gpio)]
  /\ press' = [Nothing EXCEPT ![g] = Pressed(g, new_gpio)]
  /\ irq' = [Nothing EXCEPT ![g] = Interrupting(g, new_gpio)]

-----------------------------------------------------------------------------
(* mxkey.value, which nothing reads: 1 for a press, 0 for a release.       *)
RptValue == [i \in 0 .. 3 |-> i % 2]

(* mxkey.next *)
NextStage == [i \in 0 .. 3 |-> IF i = 3 THEN 2 ELSE i + 1]

Repeats(g) == IF KeyRepeat THEN Pins ELSE RptFlg[g]

IdleTimer == [idx |-> -1, t_now |-> 0, t_next |-> 0]

ExpiredLate(r) == r.idx # -1 /\ r.t_now + Tick > r.t_next
Expired(r) == r.idx # -1 /\ r.t_now + Tick >= r.t_next

(* handle_repeat(): the timer of a pin that was low at both of the last    *)
(* two samples starts, sends and moves to its next stage, or runs on.      *)
Advance(r) ==
  IF r.idx = -1
  THEN [idx |-> 0, t_now |-> 0, t_next |-> Tick + RptTime[0]]
  ELSE IF Expired(r)
  THEN [idx |-> NextStage[r.idx], t_now |-> 0,
        t_next |-> RptTime[NextStage[r.idx]]]
  ELSE [r EXCEPT !.t_now = @ + Tick]

(* The pins of g that are low now, gpio_state, and were low one poll ago.  *)
StillLowNow(g, gpio_state) == gpio_state
StillLow(g, gpio_state) == gpio_state \cap prev_gpio[g]

HandleRepeat(g, gpio_state) ==
  LET still == StillLow(g, gpio_state)
  IN  /\ prev_gpio' = [prev_gpio EXCEPT ![g] = gpio_state]
      /\ key_rpt' = [key_rpt EXCEPT ![g] =
           [p \in Pins |-> IF p \notin Repeats(g) THEN @[p]
                           ELSE IF p \in still THEN Advance(@[p])
                           ELSE IdleTimer]]
      /\ repeat' = [Nothing EXCEPT ![g] =
           {p \in still \cap Repeats(g) : Expired(key_rpt[g][p])}]

-----------------------------------------------------------------------------
(* A contact opens or closes. *)
Move(c) ==
  /\ closed' = SymDiff(closed, {c})
  /\ UNCHANGED <<scan, reading, driven, debounce, timers, sent>>

(* gpio_poll(scan), up to the 5 us wait: the driver line goes low. *)
LineNotDriven == driven
LineDriven == driven \cup ({scan} \ {0})

Drive ==
  /\ ~reading
  /\ reading' = TRUE
  /\ driven' = LineDriven
  /\ irq' = Nothing /\ press' = Nothing /\ repeat' = Nothing
  /\ UNCHANGED <<closed, scan, debounce, timers>>

(* gpio_poll(scan) drives its line high again once it has read the pins.   *)
LineLeftLow == driven
LineReleased == driven \ {scan}

(* gpio_poll(scan), from the register read on; main() then turns to the    *)
(* next group, or sleeps and starts again.                                 *)
Read ==
  LET new_gpio == HighPins(scan)
  IN  /\ reading
      /\ reading' = FALSE
      /\ driven' = LineReleased
      /\ Debounce(scan, new_gpio)
      /\ HandleRepeat(scan, GpioMask[scan] \ new_gpio)
      /\ scan' = IF scan = MatCnt THEN 0 ELSE scan + 1
      /\ UNCHANGED closed

Next == Drive \/ Read \/ \E c \in Contacts : Move(c)

Spec == Init /\ [][Next]_vars

(***************************************************************************)
(* The daemon's only thread never blocks for long: its loop goes on.       *)
(***************************************************************************)
FairSpec == Spec /\ WF_vars(Drive) /\ WF_vars(Read)
=============================================================================
