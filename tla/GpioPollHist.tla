---------------------------- MODULE GpioPollHist ----------------------------
(***************************************************************************)
(* GpioPoll with history variables: what each contact has read, and what   *)
(* has been reported of it.  They are the variables of ContactKeys, which  *)
(* GpioPoll implements, and no step of GpioPoll depends on them.           *)
(***************************************************************************)
EXTENDS GpioPoll

VARIABLES quiet, lows, told, held, stage   \* see ContactKeys

Promise == INSTANCE ContactKeys
             WITH RepeatPins <- [g \in Groups |-> Repeats(g)]

history == <<quiet, lows, told, held, stage>>
hvars   == <<vars, history>>

HInit == Init /\ Promise!ReadsInit

HRead ==
  /\ Read
  /\ Promise!CountReads(scan, GpioMask[scan] \ last_gpio'[scan])

HDrive == Drive /\ UNCHANGED history

HMove(c) == Move(c) /\ UNCHANGED history

HNext == HDrive \/ HRead \/ \E c \in Contacts : HMove(c)

HSpec == HInit /\ [][HNext]_hvars

HFairSpec == HSpec /\ WF_hvars(HDrive) /\ WF_hvars(HRead)

(* Types, the history variables' included. *)
HTypeOK ==
  /\ TypeOK
  /\ quiet \in [Groups -> 0 .. BounceTime + 1]
  /\ lows \in [Groups -> [Pins -> 0 .. BounceTime + 1]]
  /\ told \in [Groups -> [Pins -> BOOLEAN]]
  /\ held \in [Groups -> [Pins -> Nat]]
  /\ stage \in [Groups -> [Pins -> 0 .. 3]]

-----------------------------------------------------------------------------
(* The code's debounce state against the contact's history: a pin that     *)
(* reads low is pending exactly until its press is reported, and the       *)
(* counter never claims more stable reads than there were.                 *)
DebounceInv ==
  \A g \in Groups :
    /\ last_gpio[g] \subseteq GpioMask[g]
    /\ cur_gpio[g] \subseteq GpioMask[g]
    /\ \A p \in Pins :
         LET low == p \in GpioMask[g] \ last_gpio[g]
         IN  /\ Promise!IsLow(g, p) <=> low
             /\ told[g][p] => low
             /\ low => /\ told[g][p] <=> p \notin cur_gpio[g]
                       /\ bounce_cnt[g] <= lows[g][p]
                       /\ quiet[g] < bounce_cnt[g] \/ bounce_cnt[g] = BounceTime

(* The state r of a repeat timer after h low reads in stage s: not started *)
(* at the first one, in its first stage since the second, or repeating.    *)
TimerMatches(r, h, s) ==
  \/ s = 0 /\ h = 1 /\ r.idx = -1
  \/ /\ s = 0 /\ h >= 2 /\ r.idx = 0
     /\ r.t_now = Tick * (h - 2)
     /\ r.t_next = Tick + RptTime[0]
  \/ /\ s > 0 /\ r.idx = s
     /\ r.t_now = Tick * h
     /\ r.t_next = RptTime[s]

(* The repeat timers against the contact's history: t_now and t_next       *)
(* measure the time since the first low read or since the last repeat.     *)
RepeatInv ==
  \A g \in Groups :
    /\ prev_gpio[g] = GpioMask[g] \ last_gpio[g]
    /\ \A p \in Repeats(g) :
         /\ p \notin prev_gpio[g] => held[g][p] = 0 /\ stage[g][p] = 0
         /\ p \in prev_gpio[g] =>
              TimerMatches(key_rpt[g][p], held[g][p], stage[g][p])

(* At most the line of the group being read is low. *)
LineInv == driven = IF reading THEN {scan} \ {0} ELSE {}

(* The inductive invariant of HSpec. *)
HInv == HTypeOK /\ DebounceInv /\ RepeatInv /\ LineInv

(* GpioPoll keeps the promise of ContactKeys. *)
Refines == Promise!Spec

-----------------------------------------------------------------------------
(***************************************************************************)
(* A press is sent for a contact only if that contact, or a contact that   *)
(* grounds the same pin, is closed when it is sent: no key comes from the  *)
(* contacts of another matrix group, although the groups share their pins. *)
(***************************************************************************)
KeyFromOwnContact ==
  [][\A g \in Groups : \A p \in press'[g] :
       p \in press[g] \/ <<g, p>> \in closed \/ <<0, p>> \in closed]_vars

(* The closed contacts that a poll of g can see. *)
Visible(g) == {c \in closed : c[1] \in {0, g}}

(***************************************************************************)
(* Once the contacts of a group stop moving, the presses of those that are *)
(* closed have been reported, whatever the contacts of other groups do.    *)
(***************************************************************************)
PressIsReported ==
  \A g \in Groups :
    (<>[][UNCHANGED Visible(g)]_closed)
      => <>[](\A p \in GpioMask[g] : <<g, p>> \in closed => told[g][p])

(***************************************************************************)
(* gpio.c:304, "release after 80ms, press after 200ms, release after 40ms, *)
(* press after 40ms": only the stages that the table calls presses send    *)
(* the keys of a contact that is held.                                     *)
(***************************************************************************)
RepeatsArePresses ==
  [][\A g \in Groups : \A p \in repeat'[g] :
       p \in repeat[g] \/ RptValue[key_rpt[g][p].idx] = 1]_vars

(* A repeating contact that stays closed is reported again and again. *)
HeldKeyRepeats ==
  \A g \in Groups : \A p \in GpioMask[g] \cap Repeats(g) :
    (<>[](<<g, p>> \in closed)) => []<>(p \in repeat[g])

(***************************************************************************)
(* Interrupts are level triggered: while an expander holds its interrupt   *)
(* line low and no contact of group 0 moves, it is polled again and again, *)
(* so an interrupt that fell while nobody looked is not lost.              *)
(***************************************************************************)
InterruptIsServed ==
  \A p \in XioMask \cap GpioMask[0] :
    ((<>[][UNCHANGED Visible(0)]_closed) /\ <>[](<<0, p>> \in closed))
      => []<>(p \in irq[0])
=============================================================================
