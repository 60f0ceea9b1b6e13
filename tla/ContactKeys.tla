---------------------------- MODULE ContactKeys ----------------------------
(***************************************************************************)
(* What polling the groups promises about each contact, without the masks, *)
(* counters and timers of the code:                                        *)
(*                                                                         *)
(*  - a contact is reported pressed only when it has read low BounceTime+1 *)
(*    times in a row, and at most once until it reads high again;          *)
(*  - it is reported as soon as its group has read the same BounceTime+1   *)
(*    times in a row;                                                      *)
(*  - while it stays low its repeats go through stages of fixed lengths,   *)
(*    counted from its first low read: a stage whose value is 1 ends with  *)
(*    a report, one whose value is 0 may, and there is no other repeat.    *)
(*                                                                         *)
(* The values are those of a table that the code keeps and never reads; it *)
(* reports in all stages (see RepeatsArePresses in GpioPollHist).          *)
(***************************************************************************)
EXTENDS Integers

CONSTANTS
  Pins, Groups, GpioMask,
  RepeatPins,   \* the pins of each group that repeat
  BounceTime, Tick,
  RptTime, RptValue   \* the length and the value of each stage

VARIABLES
  quiet,     \* consecutive reads of a group that changed nothing
  lows,      \* consecutive low reads of a contact
  told,      \* has the contact been reported pressed since it last read high?
  held,      \* low reads since the first one or since the last stage ended
  stage,     \* which delay runs: 0 the first, 1 the second, then 2, 3, 2, ...
  press, repeat   \* the contacts reported by the last poll

reads   == <<quiet, lows, told, held, stage>>
reports == <<press, repeat>>
vars    == <<reads, reports>>

OfContacts(v) == [g \in Groups |-> [p \in Pins |-> v]]

NoContacts == [g \in Groups |-> {}]

ReadsInit ==
  /\ quiet = [g \in Groups |-> 0]
  /\ lows = OfContacts(0)
  /\ told = OfContacts(FALSE)
  /\ held = OfContacts(0)
  /\ stage = OfContacts(0)

Init == ReadsInit /\ press = NoContacts /\ repeat = NoContacts

-----------------------------------------------------------------------------
(* Counting up to BounceTime + 1; beyond that nothing depends on a count.  *)
Count(n) == IF n > BounceTime THEN n ELSE n + 1

IsLow(g, p) == lows[g][p] > 0

(* The delay of a stage, in milliseconds.  A timer starts on the second    *)
(* low read and one poll late, hence the three ticks of the first delay.   *)
Delay(s) == IF s = 0 THEN 3 * Tick + RptTime[0] ELSE RptTime[s]

Due(g, p) == Tick * (held[g][p] + 1) >= Delay(stage[g][p])

(* The pins of g whose stage ends with a poll that reads those in low low. *)
Ending(g, low) == {p \in low \cap RepeatPins[g] : Due(g, p)}

StageAfter(s) == IF s = 3 THEN 2 ELSE s + 1

(* The counts after a poll of g that read the pins in low as low. *)
CountReads(g, low) ==
  /\ quiet' = [quiet EXCEPT ![g] =
       IF \A p \in GpioMask[g] : IsLow(g, p) <=> p \in low
       THEN Count(@) ELSE 0]
  /\ lows' = [lows EXCEPT ![g] =
       [p \in Pins |-> IF p \in low THEN Count(@[p]) ELSE 0]]
  /\ told' = [told EXCEPT ![g] =
       [p \in Pins |-> p \in low /\ (@[p] \/ p \in press'[g])]]
  /\ held' = [held EXCEPT ![g] =
       [p \in Pins |-> IF p \in (low \cap RepeatPins[g]) \ Ending(g, low)
                       THEN @[p] + 1 ELSE 0]]
  /\ stage' = [stage EXCEPT ![g] =
       [p \in Pins |-> IF p \notin low THEN 0
                       ELSE IF p \in Ending(g, low) THEN StageAfter(@[p])
                       ELSE @[p]]]

(* Group g is polled; its pins in low read low. *)
Poll(g, low) ==
  LET new     == {p \in low : ~told[g][p]}
      settled == quiet'[g] >= BounceTime
  IN  /\ press' \in [Groups -> SUBSET Pins]
      /\ press'[g] \subseteq {p \in new : lows'[g][p] > BounceTime}
      /\ settled => new \subseteq press'[g]
      /\ \A h \in Groups \ {g} : press'[h] = {}
      /\ \E reported \in SUBSET Ending(g, low) :
           /\ {p \in Ending(g, low) : RptValue[stage[g][p]] = 1} \subseteq reported
           /\ repeat' = [NoContacts EXCEPT ![g] = reported]
      /\ CountReads(g, low)

(* A new call begins: what the previous one reported is done with. *)
Begin ==
  /\ press' = NoContacts
  /\ repeat' = NoContacts
  /\ UNCHANGED reads

Next ==
  \/ \E g \in Groups : \E low \in SUBSET GpioMask[g] : Poll(g, low)
  \/ Begin

Spec == Init /\ [][Next]_vars
=============================================================================
