---------------------------- MODULE Pikeyd_proofs ----------------------------
(***************************************************************************)
(* Theorems about Pikeyd, for any number of groups and expanders: no press *)
(* without a closed contact, and no change of a port overlooked, also      *)
(* after the daemon was killed at any step and started again.  What        *)
(* GpioPoll_proofs and SendKeys_proofs show of one step of their           *)
(* components is cited for the steps that Pikeyd makes of them.            *)
(***************************************************************************)
EXTENDS Pikeyd, DataLemmas

(* Only the line of the group that is being read may be low, except while  *)
(* there is no daemon.                                                     *)
LineInv ==
  /\ running => driven \subseteq {scan}
  /\ running /\ ~reading => driven = {}

(* Debouncing looks at the inputs of the group only.                       *)
MaskInv ==
  /\ DOMAIN cur_gpio = Groups /\ DOMAIN last_gpio = Groups
  /\ \A g \in Groups : /\ cur_gpio[g] \subseteq GpioMask[g]
                       /\ last_gpio[g] \subseteq GpioMask[g]

PortsInv ==
  /\ DOMAIN lastvalue = Expanders /\ DOMAIN low = Expanders
  /\ known \subseteq Expanders
  /\ NoPortChangeMissed

PikeydInv == LineInv /\ MaskInv /\ PortsInv

-----------------------------------------------------------------------------
LEMMA PikeydInit == Init => PikeydInv
<1> SUFFICES ASSUME Init PROVE PikeydInv
  OBVIOUS
<1>1. LineInv
  BY DEF Init, Poll!Init, LineInv
<1>2. MaskInv
  BY DEF Init, Poll!Init, Poll!Nothing, Poll!Groups, Groups, GpioMask, MaskInv
<1>3. PortsInv
  BY DEF Init, Send!Init, PortsInv, NoPortChangeMissed
<1> QED
  BY <1>1, <1>2, <1>3 DEF PikeydInv

(* What Read sends for a press is low, and is an input of the group.       *)
LEMMA PressIsLow ==
  ASSUME MaskInv, Poll!Read, NEW g \in Groups, NEW p \in press'[g]
  PROVE  g = scan /\ Poll!PulledLow(p)
<1> DEFINE new_gpio == Poll!HighPins(scan)
<1>1. press' = [Poll!Nothing EXCEPT ![scan] = Poll!Pressed(scan, new_gpio)]
  BY DEF Poll!Read, Poll!Debounce
<1>2. DOMAIN Poll!Nothing = Groups /\ Poll!Nothing[g] = {}
  BY DEF Poll!Nothing, Poll!Groups, Groups
<1>3. g = scan /\ p \in Poll!Pressed(scan, new_gpio)
  BY <1>1, <1>2
<1>4. p \in Poll!Pending(scan, new_gpio) /\ p \notin new_gpio
  BY <1>3 DEF Poll!Pressed
<1>5. p \in cur_gpio[scan] \/ p \in new_gpio \/ p \in last_gpio[scan]
  BY <1>4 DEF Poll!Pending, Poll!Changed, Poll!SymDiff
<1>6. p \in GpioMask[scan]
  BY <1>3, <1>4, <1>5 DEF MaskInv
<1> QED
  BY <1>3, <1>4, <1>6 DEF Poll!HighPins

LEMMA ReadKeepsMasks ==
  ASSUME MaskInv, Poll!Read
  PROVE  MaskInv'
<1> DEFINE new_gpio == Poll!HighPins(scan)
<1> HIDE DEF new_gpio
<1>1. /\ last_gpio' = [last_gpio EXCEPT ![scan] = new_gpio]
      /\ cur_gpio' = [cur_gpio EXCEPT ![scan] = Poll!PendingAfter(scan, new_gpio)]
  BY DEF Poll!Read, Poll!Debounce, new_gpio
<1>2. new_gpio \subseteq GpioMask[scan]
  BY DEF Poll!HighPins, new_gpio
<1>3. scan \in Groups => Poll!PendingAfter(scan, new_gpio) \subseteq GpioMask[scan]
  BY <1>2 DEF Poll!PendingAfter, Poll!Pending, Poll!Changed, Poll!SymDiff, MaskInv
<1> QED
  BY <1>1, <1>2, <1>3 DEF MaskInv

(* A step that leaves the expanders, or what the daemon knows of them, as  *)
(* they are.                                                               *)
LEMMA PortsRest ==
  ASSUME PortsInv, UNCHANGED <<low, int, lastvalue>>, known' \in {known, {}}
  PROVE  PortsInv'
BY DEF PortsInv, NoPortChangeMissed, Send!inmask

LEMMA PollingRests ==
  ASSUME LineInv, MaskInv, UNCHANGED <<polling, running>>
  PROVE  LineInv' /\ MaskInv'
BY DEF LineInv, MaskInv, polling

LEMMA DriveKeeps ==
  ASSUME PikeydInv, Drive
  PROVE  PikeydInv'
<1> USE DEF PikeydInv
<1>1. LineInv'
  BY DEF LineInv, Drive, Poll!Drive, Poll!LineDriven
<1>2. MaskInv'
  BY DEF MaskInv, Drive, Poll!Drive, Poll!debounce
<1>3. PortsInv'
  BY PortsRest DEF Drive, sending, chips, progress
<1> QED
  BY <1>1, <1>2, <1>3

LEMMA ReadKeeps ==
  ASSUME PikeydInv, Read
  PROVE  PikeydInv'
<1> USE DEF PikeydInv
<1>1. LineInv'
  BY DEF LineInv, Read, Poll!Read, Poll!LineReleased
<1>2. MaskInv'
  BY ReadKeepsMasks DEF Read
<1>3. PortsInv'
  BY PortsRest DEF Read, sending, chips
<1> QED
  BY <1>1, <1>2, <1>3

(* The chip latches a change of an enabled port; another one does not      *)
(* matter.                                                                 *)
LEMMA PortKeeps ==
  ASSUME PikeydInv, NEW x \in Expanders, NEW i \in Ports, Port(x, i)
  PROVE  PikeydInv'
<1> USE DEF PikeydInv
<1>1. LineInv' /\ MaskInv'
  BY PollingRests DEF Port
<1>2. /\ low' = [low EXCEPT ![x] = Send!SymDiff(low[x], {i})]
      /\ int' = IF i \in Enabled[x] THEN int \cup {x} ELSE int
      /\ UNCHANGED <<lastvalue, known>>
  BY DEF Port, Send!Move, Interrupted, progress
<1>3. ASSUME NEW y \in known' \ int'
      PROVE  (Ports \ low'[y]) \cap Enabled[y] \cap Send!inmask(y)
               = lastvalue'[y] \cap Enabled[y]
  <2>1. y \in known \ int
    BY <1>2, <1>3
  <2>2. (Ports \ low[y]) \cap Enabled[y] \cap Send!inmask(y)
          = lastvalue[y] \cap Enabled[y]
    BY <2>1 DEF PortsInv, NoPortChangeMissed
  <2>3. (Ports \ low'[y]) \cap Enabled[y] = (Ports \ low[y]) \cap Enabled[y]
    <3>1. CASE y # x
      BY <1>2, <2>1, <3>1 DEF PortsInv
    <3>2. CASE y = x
      <4>1. i \notin Enabled[x]
        BY <1>2, <1>3, <3>2
      <4>2. low'[x] = Send!SymDiff(low[x], {i})
        BY <1>2 DEF PortsInv
      <4> QED
        BY <3>2, <4>1, <4>2 DEF Send!SymDiff
    <3> QED
      BY <3>1, <3>2
  <2> QED
    BY <1>2, <2>2, <2>3
<1>4. PortsInv'
  BY <1>2, <1>3 DEF PortsInv, NoPortChangeMissed, Send!inmask
<1> QED
  BY <1>1, <1>4

LEMMA ReadExpanderKeeps ==
  ASSUME PikeydInv, NEW x \in Expanders, ReadExpander(x)
  PROVE  PikeydInv'
<1> USE DEF PikeydInv
<1>1. LineInv' /\ MaskInv'
  BY PollingRests DEF ReadExpander
<1>2. /\ UNCHANGED low
      /\ lastvalue' = [lastvalue EXCEPT ![x] = (Ports \ low[x]) \cap Send!inmask(x)]
      /\ int' = int \ {x}
      /\ known' = known \cup {x}
  BY DEF ReadExpander, Send!ReadExpander, Send!Poll, Send!Remembered,
         Send!Masked, Interrupted
<1>3. ASSUME NEW y \in known' \ int'
      PROVE  (Ports \ low'[y]) \cap Enabled[y] \cap Send!inmask(y)
               = lastvalue'[y] \cap Enabled[y]
  <2>1. CASE y = x
    BY <1>2, <2>1 DEF PortsInv
  <2>2. CASE y # x
    BY <1>2, <1>3, <2>2 DEF PortsInv, NoPortChangeMissed
  <2> QED
    BY <2>1, <2>2
<1>4. PortsInv'
  BY <1>2, <1>3 DEF PortsInv, NoPortChangeMissed, Send!inmask
<1> QED
  BY <1>1, <1>4

LEMMA MisreadExpanderKeeps ==
  ASSUME PikeydInv, NEW x \in Expanders, MisreadExpander(x)
  PROVE  PikeydInv'
<1> USE DEF PikeydInv
<1>1. LineInv' /\ MaskInv'
  BY PollingRests DEF MisreadExpander
<1>2. /\ UNCHANGED low
      /\ DOMAIN lastvalue' = DOMAIN lastvalue
      /\ \A y \in Expanders \ {x} : lastvalue'[y] = lastvalue[y]
  <2>1. PICK value : Send!Poll(x, value)
    BY DEF MisreadExpander, Send!MisreadExpander
  <2>2. lastvalue' = [lastvalue EXCEPT ![x] = Send!Masked(x, value)]
    BY <2>1 DEF Send!Poll, Send!Remembered
  <2> QED
    BY <2>1, <2>2 DEF Send!Poll, PortsInv
(* Whichever expander lost its interrupt is no longer known. *)
<1>3. PICK y : int' = int \ {y} /\ known' = known \ {x, y}
  BY DEF MisreadExpander, Interrupted
<1>4. known' \ int' \subseteq (known \ int) \ {x}
  BY <1>3
<1>5. PortsInv'
  BY <1>2, <1>3, <1>4 DEF PortsInv, NoPortChangeMissed, Send!inmask
<1> QED
  BY <1>1, <1>5

LEMMA PikeydStep == PikeydInv /\ [Next]_vars => PikeydInv'
<1> SUFFICES ASSUME PikeydInv, [Next]_vars PROVE PikeydInv'
  OBVIOUS
<1> USE DEF PikeydInv
<1>1. ASSUME UNCHANGED <<polling, running, low, int, lastvalue, known>>
      PROVE  PikeydInv'
  BY <1>1, PollingRests, PortsRest
<1>2. CASE Call
  BY <1>1, <1>2 DEF Call, Send!Call
<1>3. CASE Return
  BY <1>1, <1>3 DEF Return, Send!Return
<1>4. CASE Proceed
  <2>1. UNCHANGED <<low, lastvalue>>
    BY <1>4 DEF Proceed, Send!Proceed, Send!SendNext, Send!PollNoExpander,
                Send!NextPort, Send!NextPortKey, Send!PortsDone, Send!Press,
                Send!Release
  <2> QED
    BY <1>1, <1>4, <2>1 DEF Proceed, progress
<1>5. CASE \E c \in Wired : Switch(c)
  BY <1>1, <1>5 DEF Switch, Poll!Move, polling, sending, chips, progress,
                    Poll!debounce, Poll!timers, Poll!sent
<1>6. CASE Kill
  <2>1. LineInv'
    BY <1>6 DEF Kill, LineInv
  <2>2. MaskInv'
    BY <1>6 DEF Kill, MaskInv, Poll!Nothing, Poll!Groups, Groups, GpioMask
  <2>3. PortsInv'
    BY <1>6 DEF Kill, PortsInv, NoPortChangeMissed, chips
  <2> QED
    BY <2>1, <2>2, <2>3
<1>7. CASE Start
  <2>1. LineInv'
    BY <1>7 DEF Start, LineInv
  <2>2. MaskInv'
    BY <1>7 DEF Start, MaskInv
  <2>3. PortsInv'
    BY <1>7, PortsRest DEF Start, sending, chips, progress
  <2> QED
    BY <2>1, <2>2, <2>3
<1>8. CASE UNCHANGED vars
  BY <1>1, <1>8 DEF vars, sending, chips, progress
<1>9. CASE \E x \in Expanders, i \in Ports : Port(x, i)
  BY <1>9, PortKeeps
<1>10. CASE \E x \in Expanders : ReadExpander(x) \/ MisreadExpander(x)
  BY <1>10, ReadExpanderKeeps, MisreadExpanderKeeps
<1> QED
  BY <1>2, <1>3, <1>4, <1>5, <1>6, <1>7, <1>8, <1>9, <1>10, DriveKeeps, ReadKeeps
     DEF Next, Daemon

(***************************************************************************)
(* The driver lines, the debouncing and what the daemon knows of the ports *)
(* stay consistent through every step, end and start of the daemon.        *)
(***************************************************************************)
THEOREM InductiveInvariant == Spec => []PikeydInv
<1> QED
  BY PikeydInit, PikeydStep, PTL DEF Spec

(***************************************************************************)
(* For any number of expanders: what the daemon believes of an expander    *)
(* that does not interrupt is so.                                          *)
(***************************************************************************)
THEOREM NoChangeMissed == Spec => []NoPortChangeMissed
<1>1. PikeydInv => NoPortChangeMissed
  BY DEF PikeydInv, PortsInv
<1> QED
  BY <1>1, InductiveInvariant, PTL

LEMMA PressFromContact ==
  ASSUME PikeydInv, [Next]_vars, NEW g \in Groups, NEW p \in press'[g]
  PROVE  p \in press[g] \/ <<g, p>> \in closed \/ <<0, p>> \in closed
<1>1. CASE Read
  <2>1. g = scan /\ Poll!PulledLow(p) /\ driven \subseteq {scan}
    BY <1>1, PressIsLow DEF PikeydInv, LineInv, Read
  <2> QED
    BY <2>1 DEF Poll!PulledLow
<1>2. CASE Drive \/ Kill
  <2>1. press'[g] = {}
    BY <1>2 DEF Drive, Poll!Drive, Kill, Poll!Nothing, Poll!Groups, Groups
  <2> QED
    BY <2>1
<1>3. CASE UNCHANGED press
  BY <1>3
<1>4. Read \/ Drive \/ Kill \/ UNCHANGED press
  BY DEF Next, Daemon, Switch, Poll!Move, Poll!sent, Port, Call, Return,
         ReadExpander, MisreadExpander, Proceed, Start, vars, polling
<1> QED
  BY <1>1, <1>2, <1>3, <1>4

(***************************************************************************)
(* For any matrix: a press is sent only of a contact that is closed.       *)
(***************************************************************************)
THEOREM NoGhosts == Spec => NoGhostPress
<1>1. PikeydInv /\ [Next]_vars =>
        [\A g \in Groups : \A p \in press'[g] :
           p \in press[g] \/ <<g, p>> \in closed \/ <<0, p>> \in closed]_vars
  BY PressFromContact
<1> QED
  BY <1>1, InductiveInvariant, PTL DEF Spec, NoGhostPress

-----------------------------------------------------------------------------
(* What the proofs of the components show of their steps.  The history     *)
(* variables of GpioPoll_proofs play no part in the lemmas that are cited. *)

Poller == INSTANCE GpioPoll_proofs
            WITH XioPins <- IntPins,
                 quiet <- <<>>, lows <- <<>>, told <- <<>>, held <- <<>>,
                 stage <- <<>>

Sender == INSTANCE SendKeys_proofs

LEMMA PollConstants ==
  /\ Poller!CountAssumption
  /\ Poller!ConfigAssumption
  /\ Poller!TimeAssumption
BY PollAssumption
   DEF Poll!CountAssumption, Poll!ConfigAssumption, Poll!TimeAssumption,
       Poll!Groups, Poller!Groups, Poll!PollMasks, Poller!PollMasks

LEMMA SendConstants ==
  /\ Sender!PortAssumption
  /\ Sender!PinAssumption
  /\ Sender!ListAssumption
BY SendAssumption
   DEF Send!PortAssumption, Send!PinAssumption, Send!ListAssumption,
       Send!IsFiniteSet, Sender!IsFiniteSet, Send!Cardinality, Sender!Cardinality,
       Send!KeyLists, Sender!KeyLists

LEMMA PollTypes ==
  (Poll!TypeOK <=> Poller!TypeOK) /\ (Poll!TypeOK' <=> Poller!TypeOK')
BY DEF Poll!TypeOK, Poller!TypeOK, Poll!Contacts, Poller!Contacts, Poll!Groups,
       Poller!Groups, Poll!Stage, Poller!Stage

LEMMA PollInit == Poll!Init => Poll!TypeOK
BY PollConstants, PollTypes, Poller!TypesInit
   DEF Poll!Init, Poller!Init, Poll!Contacts, Poller!Contacts, Poll!Groups,
       Poller!Groups, Poll!Nothing, Poller!Nothing

LEMMA PollMoves ==
  ASSUME Poll!TypeOK, NEW c \in Poll!Contacts, Poll!Move(c)
  PROVE  Poll!TypeOK'
<1>1. Poller!TypeOK /\ c \in Poller!Contacts
  BY PollTypes DEF Poll!Contacts, Poller!Contacts, Poll!Groups, Poller!Groups
<1>2. Poller!Move(c)
  BY DEF Poll!Move, Poller!Move, Poll!SymDiff, Poller!SymDiff, Poll!debounce,
         Poller!debounce, Poll!timers, Poller!timers, Poll!sent, Poller!sent
<1>3. Poller!TypeOK'
  BY <1>1, <1>2, PollConstants, Poller!MoveTypes
<1> QED
  BY <1>3, PollTypes

LEMMA PollDrives ==
  ASSUME Poll!TypeOK, Poll!Drive
  PROVE  Poll!TypeOK'
<1>1. Poller!TypeOK
  BY PollTypes
<1>2. Poller!Drive
  BY DEF Poll!Drive, Poller!Drive, Poll!LineDriven, Poller!LineDriven,
         Poll!Nothing, Poller!Nothing, Poll!Groups, Poller!Groups,
         Poll!debounce, Poller!debounce, Poll!timers, Poller!timers
<1>3. Poller!TypeOK'
  BY <1>1, <1>2, PollConstants, Poller!DriveTypes
<1> QED
  BY <1>3, PollTypes

LEMMA PollReads ==
  ASSUME Poll!TypeOK, Poll!Read
  PROVE  Poll!TypeOK'
<1>1. Poller!TypeOK
  BY PollTypes
<1>2. Poller!Read
  <2>1. Poll!HighPins(scan) = Poller!HighPins(scan)
    BY DEF Poll!HighPins, Poller!HighPins, Poll!PulledLow, Poller!PulledLow
  <2> DEFINE new_gpio == Poll!HighPins(scan)
  <2> HIDE DEF new_gpio
  <2>2. Poll!Debounce(scan, new_gpio) => Poller!Debounce(scan, new_gpio)
    BY DEF Poll!Debounce, Poller!Debounce,
           Poll!Nothing, Poller!Nothing, Poll!Groups, Poller!Groups,
           Poll!BounceCount, Poller!BounceCount, Poll!Bounce, Poller!Bounce,
           Poll!Settled, Poller!Settled, Poll!Changed, Poller!Changed,
           Poll!SymDiff, Poller!SymDiff, Poll!PendingAfter,
           Poller!PendingAfter, Poll!Pending, Poller!Pending, Poll!Pressed,
           Poller!Pressed, Poll!Interrupting, Poller!Interrupting
  <2>3. Poll!HandleRepeat(scan, GpioMask[scan] \ new_gpio)
          => Poller!HandleRepeat(scan, GpioMask[scan] \ new_gpio)
    BY DEF Poll!HandleRepeat, Poller!HandleRepeat,
           Poll!Nothing, Poller!Nothing, Poll!Groups, Poller!Groups,
           Poll!StillLow, Poller!StillLow, Poll!Repeats, Poller!Repeats,
           Poll!Advance, Poller!Advance, Poll!Expired, Poller!Expired,
           Poll!NextStage, Poller!NextStage, Poll!IdleTimer, Poller!IdleTimer
  <2> QED
    BY <2>1, <2>2, <2>3
       DEF Poll!Read, Poller!Read, Poll!LineReleased, Poller!LineReleased, new_gpio
<1>3. Poller!TypeOK'
  BY <1>1, <1>2, PollConstants, Poller!PollTypes
<1> QED
  BY <1>3, PollTypes

(* The invariant of SendKeys, its type invariant included. *)
SendingInv == Sender!KeysInv

LEMMA SendTypes ==
  (SendingInv => Send!TypeOK) /\ (SendingInv' => Send!TypeOK')
BY DEF SendingInv, Sender!KeysInv, Send!TypeOK, Sender!TypeOK,
       Send!Cardinality, Sender!Cardinality

LEMMA SendInit == Send!Init => SendingInv
<1>1. Send!Init => Sender!Init
  BY Zenon DEF Send!Init, Sender!Init, Send!Dumped, Sender!Dumped, Send!Listed,
       Sender!Listed, Send!Max, Sender!Max
<1> QED
  BY <1>1, SendConstants, Sender!KeysInit DEF SendingInv

LEMMA SendSteps ==
  ASSUME SendingInv,
         \/ Send!Return \/ Send!Proceed
         \/ \E x \in Expanders, i \in Ports : Send!Move(x, i)
         \/ \E x \in Expanders : Send!ReadExpander(x) \/ Send!MisreadExpander(x)
  PROVE  SendingInv'
<1>1. Send!Return => Sender!Return
  BY Zenon DEF Send!Return, Sender!Return, Send!AtReturn, Sender!AtReturn,
       Send!got_more_keys, Sender!got_more_keys, Send!walk, Sender!walk,
       Send!keyboard, Sender!keyboard
<1>2. Send!Proceed => Sender!Proceed
  BY Zenon DEF Send!Proceed, Sender!Proceed,
       Send!args, Send!walk, Send!xwalk, Send!keyboard, Send!history,
       Sender!args, Sender!walk, Sender!xwalk, Sender!keyboard, Sender!history,
       Send!is_xio, Send!got_more_keys, Send!NextKey, Send!First,
       Send!Following, Send!Event, Send!get_curr_xio_no,
       Send!got_more_xio_keys, Send!NextXioKey,
       Sender!is_xio, Sender!got_more_keys, Sender!NextKey, Sender!First,
       Sender!Following, Sender!Event, Sender!get_curr_xio_no,
       Sender!got_more_xio_keys, Sender!NextXioKey,
       Send!Restarted, Send!Advance, Send!SendNext, Send!PollNext,
       Send!PollNoExpander, Send!NextPort, Send!NextPortKey,
       Send!SendsChanges, Send!PortsDone,
       Sender!Restarted, Sender!Advance, Sender!SendNext, Sender!PollNext,
       Sender!PollNoExpander, Sender!NextPort, Sender!NextPortKey,
       Sender!SendsChanges, Sender!PortsDone,
       Send!Written, Send!NotWritten, Send!ReleaseSent, Send!Press, Send!Release,
       Sender!Written, Sender!NotWritten, Sender!ReleaseSent, Sender!Press,
       Sender!Release
<1>3. ASSUME NEW x \in Expanders, NEW i \in Ports, Send!Move(x, i)
      PROVE  Sender!Move(x, i)
  BY <1>3, Zenon DEF Send!Move, Sender!Move, Send!SymDiff, Sender!SymDiff,
       Send!args, Send!walk, Send!xwalk, Send!keyboard, Send!history,
       Sender!args, Sender!walk, Sender!xwalk, Sender!keyboard, Sender!history
<1>4. ASSUME NEW x \in Expanders, Send!ReadExpander(x) \/ Send!MisreadExpander(x)
      PROVE  Sender!ReadExpander(x) \/ Sender!MisreadExpander(x)
  <2>1. \A y, value : Send!Poll(y, value) => Sender!Poll(y, value)
    <3>1. \A y, value : Send!PortKeys(y, value) = Sender!PortKeys(y, value)
      BY Zenon DEF Send!PortKeys, Sender!PortKeys, Send!KeysBelow, Sender!KeysBelow,
           Send!FlattenSeq, Sender!FlattenSeq, Send!Cardinality,
           Sender!Cardinality
    <3> QED
      BY <3>1, Zenon DEF Send!Poll, Sender!Poll, Send!Masked, Sender!Masked, Send!inmask,
           Sender!inmask, Send!SymDiff, Sender!SymDiff, Send!Remembered,
           Sender!Remembered, Send!Restarted, Sender!Restarted,
           Send!args, Sender!args, Send!keyboard, Sender!keyboard
  <2>2. Send!PollNext => Sender!PollNext
    BY Zenon DEF Send!PollNext, Sender!PollNext, Send!Advance, Sender!Advance,
         Send!is_xio, Send!got_more_keys, Send!NextKey, Send!First,
         Send!Following, Sender!is_xio, Sender!got_more_keys, Sender!NextKey,
         Sender!First, Sender!Following
  <2>3. \A at : Send!get_curr_xio_no(at) = Sender!get_curr_xio_no(at)
    BY Zenon DEF Send!get_curr_xio_no, Sender!get_curr_xio_no, Send!Event,
         Sender!Event
  <2> QED
    BY <1>4, <2>1, <2>2, <2>3, Zenon
       DEF Send!ReadExpander, Sender!ReadExpander, Send!MisreadExpander,
           Sender!MisreadExpander
<1>5. Sender!Next
  BY <1>1, <1>2, <1>3, <1>4, Zenon DEF Sender!Next, Sender!Continue
<1>6. Sender!KeysInv /\ [Sender!Next]_(Sender!vars) => Sender!KeysInv'
  BY SendConstants, Sender!KeysStep
<1> QED
  BY <1>5, <1>6 DEF SendingInv

LEMMA SendCalled ==
  ASSUME SendingInv, NEW g \in Groups, NEW p \in Pins, Send!Call(g, p)
  PROVE  SendingInv'
<1>1. Sender!Call(g, p)
  BY Zenon DEF Send!Call, Sender!Call, Send!Restarted, Sender!Restarted,
       Send!is_xio, Sender!is_xio, Send!EventKeys, Sender!EventKeys,
       Send!xwalk, Sender!xwalk, Send!keyboard, Sender!keyboard
<1> QED
  BY <1>1, SendConstants, Sender!KeysCalled DEF SendingInv

(* The process that ends leaves no call under way. *)
LEMMA KillSends ==
  ASSUME SendingInv, Kill
  PROVE  SendingInv'
<1> USE DEF Kill
<1>1. Send!TypeOK
  BY SendTypes
<1>2. low' \in [Expanders -> SUBSET Ports]
  BY <1>1 DEF chips, Send!TypeOK
<1>3. 0 \in Groups /\ LastPin \in Pins
  BY SendAssumption DEF Send!PinAssumption
<1>4. <<>> \in Seq(Keys \cup {0})
  OBVIOUS
<1>5. 0 \in 0 .. Sender!Cardinality(Ports)
  <2>1. Cardinality(Ports) \in Nat
    BY SendAssumption, FS_CardinalityType DEF Send!PortAssumption,
       Send!IsFiniteSet, IsFiniteSet
  <2>2. Sender!Cardinality(Ports) = Cardinality(Ports)
    BY DEF Sender!Cardinality, Cardinality
  <2> QED
    BY <2>1, <2>2
<1>6. Sender!TypeOK'
  BY <1>2, <1>3, <1>4, <1>5 DEF Sender!TypeOK
<1>7. Sender!SendInv'
  <2>1. Sender!WalksInLists'
    BY DEF Sender!WalksInLists
  <2>2. Sender!Shapes'
    BY <1>3 DEF Sender!Shapes, Sender!Sending
  <2>3. Sender!OwnWalk'
    BY DEF Sender!OwnWalk, Sender!Sending
  <2>4. Sender!HeldOrLost'
    BY DEF Sender!HeldOrLost, Sender!Held
  <2> QED
    BY <2>1, <2>2, <2>3, <2>4 DEF Sender!SendInv
<1>8. Sender!Progress'
  BY DEF Sender!Progress
<1> QED
  BY <1>6, <1>7, <1>8 DEF SendingInv, Sender!KeysInv

LEMMA KillPolls ==
  ASSUME Poll!TypeOK, Kill
  PROVE  Poll!TypeOK'
<1> USE DEF Kill
<1>1. 0 \in Poll!Groups /\ Groups = Poll!Groups
  BY PollAssumption DEF Poll!CountAssumption, Poll!Groups, Groups
<1>2. Poll!Nothing \in [Groups -> SUBSET Pins]
  BY <1>1 DEF Poll!Nothing
<1>3. GpioMask \in [Groups -> SUBSET Pins]
  BY DEF GpioMask
<1>4. bounce_cnt' \in [Groups -> 0 .. BounceTime]
  BY PollAssumption DEF Poll!TimeAssumption
<1>5. key_rpt' \in [Groups -> [Pins -> Poll!Stage]]
  <2>1. [idx |-> 0, t_now |-> 0, t_next |-> 0] \in Poll!Stage
    BY DEF Poll!Stage
  <2> QED
    BY <2>1
<1> QED
  BY <1>1, <1>2, <1>3, <1>4, <1>5 DEF Poll!TypeOK

-----------------------------------------------------------------------------
(* The calls of a poll, in a sequence of the right type. *)
LEMMA CallsTyped ==
  ASSUME Poll!TypeOK', NEW g \in Groups
  PROVE  Calls(g) \in Seq(Groups \X Pins)
<1> DEFINE C == Groups \X Pins
           polled == Ascending(irq'[g] \cup press'[g])
           repeats == Ascending(repeat'[g])
           of(p, S) == IF p \in S THEN <<<<g, p>>>> ELSE <<>>
           parts == [n \in DOMAIN polled |->
                       of(polled[n], irq'[g]) \o of(polled[n], press'[g])]
           last == [n \in DOMAIN repeats |-> <<g, repeats[n]>>]
<1>1. IsFiniteSet(Pins) /\ Pins \subseteq Nat
  BY SendAssumption DEF Send!PinAssumption, Send!IsFiniteSet, IsFiniteSet
<1>2. /\ irq'[g] \subseteq Pins /\ press'[g] \subseteq Pins
      /\ repeat'[g] \subseteq Pins
  BY DEF Poll!TypeOK, Poll!Groups, Groups
<1>3. ASSUME NEW S \in SUBSET Pins
      PROVE  Ascending(S) \in Seq(Pins)
  <2>1. S \in SUBSET Nat /\ IsFiniteSet(S)
    BY <1>1, FS_Subset
  <2>2. Sorts(Ascending(S), S) /\ Cardinality(S) \in Nat
    BY <2>1, AscendingSorts, FS_CardinalityType
  <2>3. Ascending(S) \in [1 .. Cardinality(S) -> S]
    BY <2>2 DEF Sorts
  <2> QED
    BY <2>2, <2>3
<1>4. polled \in Seq(Pins) /\ repeats \in Seq(Pins)
  BY <1>2, <1>3
<1>5. \A p \in Pins : \A S : of(p, S) \in Seq(C)
  OBVIOUS
<1> HIDE DEF C, polled, repeats, of
<1>6. parts \in Seq(Seq(C))
  <2>1. \A n \in DOMAIN polled : parts[n] \in Seq(C)
    <3>1. \A n \in DOMAIN polled : polled[n] \in Pins
      BY <1>4
    <3>2. \A s, t \in Seq(C) : s \o t \in Seq(C)
      BY ConcatProperties
    <3> QED
      BY <1>5, <3>1, <3>2
  <2>2. Len(polled) \in Nat /\ DOMAIN polled = 1 .. Len(polled)
    BY <1>4
  <2> QED
    BY <2>1, <2>2
<1>7. FlattenSeq(parts) \in Seq(C)
  BY <1>6, FlattenType
<1>8. last \in Seq(C)
  <2>1. Len(repeats) \in Nat /\ DOMAIN repeats = 1 .. Len(repeats)
        /\ \A n \in DOMAIN repeats : repeats[n] \in Pins
    BY <1>4
  <2> QED
    BY <2>1 DEF C
<1>9. Calls(g) = FlattenSeq(parts) \o last
  BY DEF Calls, polled, repeats, of
<1> QED
  BY <1>7, <1>8, <1>9, ConcatProperties DEF C

-----------------------------------------------------------------------------
(* The conjuncts of TypeOK that are about the composition. *)
CompositionTypes ==
  /\ running \in BOOLEAN
  /\ todo \in Seq(Groups \X Pins)
  /\ int \subseteq Expanders /\ known \subseteq Expanders
  /\ served \subseteq Groups \X Pins
  /\ todo # <<>> => running /\ ~reading

WholeInv == Poll!TypeOK /\ SendingInv /\ CompositionTypes

LEMMA WholeMeans == WholeInv => TypeOK
BY SendTypes DEF WholeInv, CompositionTypes, TypeOK

LEMMA WholeInit == Init => WholeInv
<1>1. Init => Poll!TypeOK /\ SendingInv
  BY PollInit, SendInit DEF Init
<1>2. Init => CompositionTypes
  BY DEF Init, CompositionTypes
<1> QED
  BY <1>1, <1>2 DEF WholeInv

(* A step of SendKeys alone and a step of GpioPoll alone. *)
LEMMA PollingKeptTypes ==
  ASSUME Poll!TypeOK, UNCHANGED polling, closed' \subseteq Poll!Contacts
  PROVE  Poll!TypeOK'
BY DEF Poll!TypeOK, polling

LEMMA SendingKept ==
  ASSUME SendingInv, UNCHANGED <<sending, low>>
  PROVE  SendingInv'
<1>1. UNCHANGED Sender!vars
  BY DEF sending, Sender!vars, Sender!args, Sender!walk, Sender!xwalk,
         Sender!keyboard, Sender!history
<1> QED
  BY <1>1, SendConstants, Sender!KeysStep DEF SendingInv

(* The wires of an interrupt and of the switches are contacts. *)
LEMMA WiresAreContacts ==
  /\ Wired \subseteq Poll!Contacts
  /\ \A pending : Lines(pending) \subseteq Poll!Contacts
<1>1. 0 \in Groups /\ Groups = Poll!Groups
  BY SendAssumption DEF Send!PinAssumption, Poll!Groups, Groups
<1>2. IntPins \subseteq Pins
  BY DEF IntPins
<1> QED
  BY <1>1, <1>2, WiringAssumption DEF Poll!Contacts, Lines

LEMMA WholeStep == WholeInv /\ [Next]_vars => WholeInv'
<1> SUFFICES ASSUME WholeInv, [Next]_vars PROVE WholeInv'
  OBVIOUS
<1> USE DEF WholeInv
<1>1. closed \subseteq Poll!Contacts
  BY DEF Poll!TypeOK
<1>2. \A pending : closed' = (closed \cap Wired) \cup Lines(pending)
                     => closed' \subseteq Poll!Contacts
  BY WiresAreContacts
<1>3. CASE Drive
  <2>1. Poll!TypeOK'
    BY <1>3, PollDrives DEF Drive
  <2>2. SendingInv'
    BY <1>3, SendingKept DEF Drive, chips
  <2>3. CompositionTypes'
    BY <1>3 DEF Drive, Idle, CompositionTypes, chips, progress
  <2> QED
    BY <2>1, <2>2, <2>3
<1>4. CASE Read
  <2>1. Poll!TypeOK'
    BY <1>4, PollReads DEF Read
  <2>2. SendingInv'
    BY <1>4, SendingKept DEF Read, chips
  <2>3. scan \in Groups
    BY DEF Poll!TypeOK, Poll!Groups, Groups
  <2>4. todo' \in Seq(Groups \X Pins)
    BY <1>4, <2>1, <2>3, CallsTyped DEF Read
  <2>5. running' /\ ~reading'
    BY <1>4 DEF Read, Poll!Read
  <2>6. CompositionTypes'
    BY <1>4, <2>4, <2>5 DEF Read, CompositionTypes, chips
  <2> QED
    BY <2>1, <2>2, <2>6
<1>5. CASE Call
  <2>1. Poll!TypeOK'
    BY <1>1, <1>5, PollingKeptTypes DEF Call
  <2>2. Head(todo) \in Groups \X Pins /\ Tail(todo) \in Seq(Groups \X Pins)
    BY <1>5, HeadTailProperties DEF Call, CompositionTypes
  <2>3. SendingInv'
    <3>1. Head(todo)[1] \in Groups /\ Head(todo)[2] \in Pins
      BY <2>2
    <3> QED
      BY <1>5, <3>1, SendCalled DEF Call
  <2>4. CompositionTypes'
    BY <1>5, <2>2 DEF Call, CompositionTypes, polling
  <2> QED
    BY <2>1, <2>3, <2>4
<1>6. CASE Return
  <2>1. Poll!TypeOK' /\ SendingInv'
    BY <1>1, <1>6, PollingKeptTypes, SendSteps DEF Return
  <2>2. <<grp, gpio>> \in Groups \X Pins
    BY SendTypes DEF Send!TypeOK
  <2>3. CompositionTypes'
    BY <1>6, <2>2 DEF Return, CompositionTypes, polling
  <2> QED
    BY <2>1, <2>3
<1>7. CASE Proceed
  <2>1. Poll!TypeOK' /\ SendingInv'
    BY <1>1, <1>7, PollingKeptTypes, SendSteps DEF Proceed
  <2>2. CompositionTypes'
    BY <1>7 DEF Proceed, CompositionTypes, polling, progress
  <2> QED
    BY <2>1, <2>2
<1>8. ASSUME NEW x \in Expanders, ReadExpander(x)
      PROVE  WholeInv'
  <2>1. Poll!TypeOK' /\ SendingInv'
    BY <1>2, <1>8, PollingKeptTypes, SendSteps DEF ReadExpander, Interrupted
  <2>2. CompositionTypes'
    BY <1>8 DEF ReadExpander, Interrupted, CompositionTypes, polling
  <2> QED
    BY <2>1, <2>2
<1>9. ASSUME NEW x \in Expanders, MisreadExpander(x)
      PROVE  WholeInv'
  <2>1. Poll!TypeOK' /\ SendingInv'
    BY <1>2, <1>9, PollingKeptTypes, SendSteps DEF MisreadExpander, Interrupted
  <2>2. CompositionTypes'
    BY <1>9 DEF MisreadExpander, Interrupted, CompositionTypes, polling
  <2> QED
    BY <2>1, <2>2
<1>10. ASSUME NEW c \in Wired, Switch(c)
       PROVE  WholeInv'
  <2>1. Poll!TypeOK'
    BY <1>10, WiresAreContacts, PollMoves DEF Switch
  <2>2. SendingInv'
    BY <1>10, SendingKept DEF Switch, chips
  <2>3. CompositionTypes'
    BY <1>10 DEF Switch, Poll!Move, CompositionTypes, chips, progress
  <2> QED
    BY <2>1, <2>2, <2>3
<1>11. ASSUME NEW x \in Expanders, NEW i \in Ports, Port(x, i)
       PROVE  WholeInv'
  <2>1. Poll!TypeOK' /\ SendingInv'
    BY <1>2, <1>11, PollingKeptTypes, SendSteps DEF Port, Interrupted
  <2>2. CompositionTypes'
    BY <1>11 DEF Port, Interrupted, CompositionTypes, polling, progress
  <2> QED
    BY <2>1, <2>2
<1>12. CASE Kill
  <2>1. running' = FALSE /\ todo' = <<>> /\ int' = int /\ known' = {} /\ served' = {}
    BY <1>12 DEF Kill, chips
  <2>2. CompositionTypes'
    <3>1. todo' \in Seq(Groups \X Pins) /\ ~(todo' # <<>>)
      BY <2>1, EmptySeq
    <3>2. running' \in BOOLEAN /\ int' \subseteq Expanders
      BY <2>1 DEF CompositionTypes
    <3>3. known' \subseteq Expanders /\ served' \subseteq Groups \X Pins
      BY <2>1
    <3> QED
      BY <3>1, <3>2, <3>3 DEF CompositionTypes
  <2> QED
    BY <1>12, <2>2, KillPolls, KillSends
<1>13. CASE Start
  <2>1. Poll!TypeOK'
    BY <1>13 DEF Start, Poll!TypeOK
  <2>2. SendingInv'
    BY <1>13, SendingKept DEF Start, chips
  <2>3. CompositionTypes'
    BY <1>13 DEF Start, CompositionTypes, chips, progress
  <2> QED
    BY <2>1, <2>2, <2>3
<1>14. CASE UNCHANGED vars
  <2>1. Poll!TypeOK' /\ SendingInv'
    BY <1>1, <1>14, PollingKeptTypes, SendingKept DEF vars, chips
  <2>2. CompositionTypes'
    BY <1>14 DEF vars, CompositionTypes, polling, chips, progress
  <2> QED
    BY <2>1, <2>2
<1> QED
  BY <1>3, <1>4, <1>5, <1>6, <1>7, <1>8, <1>9, <1>10, <1>11, <1>12, <1>13, <1>14
     DEF Next, Daemon

LEMMA WholeInvariant == Spec => []WholeInv
<1> QED
  BY WholeInit, WholeStep, PTL DEF Spec

(***************************************************************************)
(* All variables of the daemon at work keep their types, for any matrix,   *)
(* expanders and lists; a call that a poll still has to make is of a pin   *)
(* of a group, and none is left when the next poll begins.                 *)
(***************************************************************************)
THEOREM TypeCorrect == Spec => []TypeOK
<1> QED
  BY WholeMeans, WholeInvariant, PTL

(***************************************************************************)
(* What send_gpio_keys() promises of any sequence of calls, see SendKeys,  *)
(* holds of the calls that the polls make, whenever the daemon is killed   *)
(* and started: a call in which nothing fails sends all keys in order, and *)
(* only a failed release leaves a key down.                                *)
(***************************************************************************)
THEOREM CallsKeepPromise ==
  Spec => [](Send!AllKeysInOrder /\ Send!StuckOnlyByFailure)
<1>1. SendingInv => Sender!AllKeysInOrder /\ Sender!StuckOnlyByFailure
  BY SendConstants, Sender!KeysMean, Sender!HeldMeans
     DEF SendingInv, Sender!KeysInv
<1>2. Send!AtReturn <=> Sender!AtReturn
  BY Zenon DEF Send!AtReturn, Sender!AtReturn, Send!got_more_keys,
           Sender!got_more_keys
<1>3. WholeInv => Send!AllKeysInOrder /\ Send!StuckOnlyByFailure
  BY <1>1, <1>2 DEF WholeInv, Send!AllKeysInOrder, Sender!AllKeysInOrder,
     Send!StuckOnlyByFailure, Sender!StuckOnlyByFailure
<1> QED
  BY <1>3, WholeInvariant, PTL
=============================================================================
