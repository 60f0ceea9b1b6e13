--------------------------- MODULE SendKeys_proofs ---------------------------
(***************************************************************************)
(* Theorems about SendKeys, for lists of any length: the iterators stay    *)
(* inside their lists, and no key stays down unless a write failed.        *)
(***************************************************************************)
EXTENDS SendKeysTaps, DataLemmas

(* Words of keys, before the assumptions on the lists are brought in. *)
Word == Seq(Keys \cup {0})

LEMMA JoinWords ==
  ASSUME NEW s, NEW t, NEW u, s \in Word, t \in Word, u \in Word
  PROVE  s \o t \in Word /\ (s \o t) \o u = s \o (t \o u)
<1> DEFINE K == Keys \cup {0}
<1>1. Word = Seq(K)
  BY DEF Word
<1> HIDE DEF K
<1>2. s \o t \in Seq(K)
  BY <1>1, ConcatProperties
<1>3. (s \o t) \o u = s \o (t \o u)
  <2>1. s \in Seq(K) /\ t \in Seq(K) /\ u \in Seq(K)
    BY <1>1, Zenon
  <2> QED
    BY <2>1, ConcatAssociative
<1> QED
  BY <1>1, <1>2, <1>3, Zenon

LEMMA AppendWord ==
  ASSUME NEW s, NEW k, s \in Word, k \in Keys \cup {0},
         NEW one, one = <<k>>
  PROVE  one \in Word /\ Append(s, k) = s \o one
<1> DEFINE K == Keys \cup {0}
<1>1. s \in Seq(K) /\ k \in K /\ Word = Seq(K)
  BY DEF Word
<1> HIDE DEF K
<1> QED
  BY <1>1, AppendIsConcat

USE ListAssumption, PinAssumption DEF KeyLists

Sending == {"xloop", "xpress", "xrelease"}

(* An iterator is NULL or points at an element of a list. *)
Within(list, at) == at[2] \in 1 .. Len(list)

PinPlace(g, at) == at \in Pins \X Nat /\ Within(GpioKey[g][at[1]], at)
PortPlace(x, at) == at \in Ports \X Nat /\ Within(XioKey[x][at[1]], at)

(***************************************************************************)
(* No iterator of config.c leaves the lists, whatever calls came before:   *)
(* each pointer is NULL or an event of its group, or a key of its          *)
(* expander.                                                               *)
(***************************************************************************)
WalksInLists ==
  /\ \A g \in Groups : last_gpio_key[g] = NULL \/ PinPlace(g, last_gpio_key[g])
  /\ \A x \in Expanders : last_key[x] = NULL \/ PortPlace(x, last_key[x])

Shapes ==
  /\ grp \in Groups /\ gpio \in Pins
  /\ DOMAIN last_gpio_key = Groups /\ DOMAIN last_key = Expanders
  /\ pc \in Sending => xio \in Expanders

(* A call finds the iterator at NULL or at an event of its own pin, and so *)
(* does the nested walk with the keys of its port.                         *)
OwnWalk ==
  /\ pc # "idle" /\ last_gpio_key[grp] # NULL
       => last_gpio_key[grp][1] = gpio /\ lastgpio = gpio
  /\ pc \in Sending /\ port \in Ports /\ last_key[xio] # NULL
       => last_key[xio][1] = port /\ xlastgpio = port

(* In a call that began with no key down and in which nothing failed, only *)
(* the key whose release is due is down, and the readers know it.          *)
HeldOrLost ==
  /\ down \subseteq lost \cup Held
  /\ pc # "idle" /\ clean => down \subseteq Held
  /\ clean /\ emitted # <<>> => seen = down

SendInv == WalksInLists /\ Shapes /\ OwnWalk /\ HeldOrLost

-----------------------------------------------------------------------------
Events == [key : Keys \cup {0}, xio : Expanders \cup {-1}]

LEMMA ListsOfEvents ==
  /\ \A g \in Groups, p \in Pins : GpioKey[g][p] \in Seq(Events)
  /\ \A x \in Expanders, i \in Ports : XioKey[x][i] \in Seq(Keys)
<1> DEFINE S == Seq(Events)
           T == Seq(Keys)
<1>1. GpioKey \in [Groups -> [Pins -> S]]
  BY Zenon DEF Events, ListAssumption
<1>2. XioKey \in [Expanders -> [Ports -> T]]
  BY Zenon DEF ListAssumption
<1> HIDE DEF S, T
<1>3. \A g \in Groups, p \in Pins : GpioKey[g][p] \in S
  BY <1>1
<1>4. \A x \in Expanders, i \in Ports : XioKey[x][i] \in T
  BY <1>2
<1> QED
  BY <1>3, <1>4, Zenon DEF S, T

LEMMA ListsTyped ==
  /\ \A g \in Groups, p \in Pins : Len(GpioKey[g][p]) \in Nat
  /\ \A x \in Expanders, i \in Ports : Len(XioKey[x][i]) \in Nat
  /\ \A g \in Groups, p \in Pins : GpioKey[g][p] # <<>> => Len(GpioKey[g][p]) >= 1
  /\ \A x \in Expanders, i \in Ports : XioKey[x][i] # <<>> => Len(XioKey[x][i]) >= 1
<1>1. ASSUME NEW T, NEW list \in Seq(T)
      PROVE  Len(list) \in Nat /\ (list # <<>> => Len(list) >= 1)
  BY EmptySeq
<1> QED
  BY <1>1, ListsOfEvents

LEMMA SendInit == Init => SendInv
<1> SUFFICES ASSUME Init PROVE SendInv
  OBVIOUS
<1>1. Shapes
  BY DEF Init, Dumped, Shapes, Sending
<1>2. WalksInLists
  <2>1. CASE Dumped
    <3>1. \A g \in Groups : LastPin \in Listed(g) =>
            PinPlace(g, <<LastPin, Len(GpioKey[g][LastPin])>>)
      BY ListsTyped DEF Listed, PinPlace, Within
    <3> QED
      BY <2>1, <3>1 DEF Init, Dumped, WalksInLists
  <2>2. CASE last_gpio_key = [g \in Groups |-> NULL]
    BY <2>2 DEF Init, WalksInLists
  <2> QED
    BY <2>1, <2>2 DEF Init
<1>3. OwnWalk
  BY DEF Init, OwnWalk, Sending
<1>4. HeldOrLost
  BY DEF Init, HeldOrLost
<1> QED
  BY <1>1, <1>2, <1>3, <1>4 DEF SendInv

(* get_next_key() in a call goes to the first or to the following event of *)
(* the pin, and finds it.                                                  *)
LEMMA AdvancesInList ==
  ASSUME SendInv, Advance
  PROVE  /\ DOMAIN last_gpio_key' = Groups
         /\ PinPlace(grp, last_gpio_key'[grp])
         /\ last_gpio_key'[grp][1] = gpio /\ lastgpio' = gpio
         /\ \A g \in Groups : g # grp => last_gpio_key'[g] = last_gpio_key[g]
<1> USE DEF SendInv, Shapes
<1>1. PinPlace(grp, NextKey(grp, gpio)) /\ NextKey(grp, gpio)[1] = gpio
  <2>1. CASE last_gpio_key[grp] = NULL
    <3>1. GpioKey[grp][gpio] # <<>>
      BY <2>1 DEF Advance, got_more_keys
    <3>2. NextKey(grp, gpio) = <<gpio, 1>>
      BY <2>1, <3>1 DEF NextKey, First
    <3> QED
      BY <3>1, <3>2, ListsTyped DEF PinPlace, Within
  <2>2. CASE last_gpio_key[grp] # NULL
    <3> DEFINE at == last_gpio_key[grp]
    <3> HIDE DEF at
    <3>1. /\ at[1] = gpio /\ lastgpio = gpio
          /\ PinPlace(grp, at)
          /\ at[2] < Len(GpioKey[grp][gpio])
      BY <2>2 DEF OwnWalk, WalksInLists, Advance, got_more_keys, at
    <3>2. NextKey(grp, gpio) = <<gpio, at[2] + 1>>
      BY <2>2, <3>1 DEF NextKey, Following, at
    <3> QED
      BY <3>1, <3>2, ListsTyped DEF PinPlace, Within
  <2> QED
    BY <2>1, <2>2
<1>2. last_gpio_key' = [last_gpio_key EXCEPT ![grp] = NextKey(grp, gpio)]
      /\ lastgpio' = gpio
  BY DEF Advance
<1> QED
  BY <1>1, <1>2

(* The same of get_next_xio_key() and the port that is being looked at. *)
LEMMA AdvancesInPort ==
  ASSUME SendInv, NextPortKey
  PROVE  /\ DOMAIN last_key' = Expanders
         /\ PortPlace(xio, last_key'[xio])
         /\ last_key'[xio][1] = port /\ xlastgpio' = port
         /\ \A x \in Expanders : x # xio => last_key'[x] = last_key[x]
<1> USE DEF SendInv, Shapes
<1>1. xio \in Expanders /\ port \in Ports /\ pc \in Sending
  BY DEF NextPortKey, Sending
<1>2. PortPlace(xio, NextXioKey(xio, port)) /\ NextXioKey(xio, port)[1] = port
  <2>1. CASE last_key[xio] = NULL
    <3>1. XioKey[xio][port] # <<>>
      BY <2>1 DEF NextPortKey, got_more_xio_keys
    <3>2. NextXioKey(xio, port) = <<port, 1>>
      BY <2>1, <3>1 DEF NextXioKey, First
    <3> QED
      BY <1>1, <3>1, <3>2, ListsTyped DEF PortPlace, Within
  <2>2. CASE last_key[xio] # NULL
    <3> DEFINE at == last_key[xio]
    <3> HIDE DEF at
    <3>1. /\ at[1] = port /\ xlastgpio = port
          /\ PortPlace(xio, at)
          /\ at[2] < Len(XioKey[xio][port])
      BY <1>1, <2>2 DEF OwnWalk, WalksInLists, NextPortKey, got_more_xio_keys, at
    <3>2. NextXioKey(xio, port) = <<port, at[2] + 1>>
      BY <2>2, <3>1 DEF NextXioKey, Following, at
    <3> QED
      BY <1>1, <3>1, <3>2, ListsTyped DEF PortPlace, Within
  <2> QED
    BY <2>1, <2>2
<1>3. last_key' = [last_key EXCEPT ![xio] = NextXioKey(xio, port)]
      /\ xlastgpio' = port
  BY DEF NextPortKey
<1> QED
  BY <1>1, <1>2, <1>3

(* Steps that move no iterator and stay in the call. *)
LEMMA IteratorsRest ==
  ASSUME SendInv, HeldOrLost', UNCHANGED <<args, walk, xwalk>>,
         pc' # "idle" => pc # "idle", pc' \in Sending => pc \in Sending
  PROVE  SendInv'
<1> USE DEF SendInv, args, walk, xwalk
<1>1. WalksInLists'
  BY DEF WalksInLists
<1>2. Shapes'
  BY DEF Shapes
<1>3. OwnWalk'
  BY DEF OwnWalk
<1> QED
  BY <1>1, <1>2, <1>3

LEMMA CallKeeps ==
  ASSUME SendInv, NEW g \in Groups, NEW p \in Pins, Call(g, p)
  PROVE  SendInv'
<1> USE DEF SendInv, Call, Restarted
<1>1. WalksInLists'
  BY DEF WalksInLists, Shapes, xwalk
<1>2. Shapes'
  BY DEF Shapes, Sending, xwalk
<1>3. OwnWalk'
  BY DEF OwnWalk, Shapes, Sending, xwalk
<1>4. HeldOrLost'
  BY DEF HeldOrLost, Held, keyboard
<1> QED
  BY <1>1, <1>2, <1>3, <1>4

LEMMA ReturnKeeps ==
  ASSUME SendInv, Return
  PROVE  SendInv'
<1> USE DEF SendInv, Return, AtReturn, walk
<1>1. WalksInLists'
  BY DEF WalksInLists
<1>2. Shapes'
  BY DEF Shapes, Sending
<1>3. OwnWalk'
  BY DEF OwnWalk, Sending
<1>4. HeldOrLost'
  BY DEF HeldOrLost, Held, keyboard
<1> QED
  BY <1>1, <1>2, <1>3, <1>4

(* A step of the walk over the events of a pin. *)
LEMMA WalkKeeps ==
  ASSUME SendInv, Advance, HeldOrLost', UNCHANGED args,
         \/ UNCHANGED last_key
         \/ \E x \in Expanders : xio' = x /\ last_key' = [last_key EXCEPT ![x] = NULL],
         pc' \in Sending => xio' \in Expanders /\ last_key'[xio'] = NULL
  PROVE  SendInv'
<1> USE DEF SendInv, args
<1>1. WalksInLists'
  BY AdvancesInList DEF WalksInLists, Shapes
<1>2. Shapes'
  BY AdvancesInList DEF Shapes
<1>3. OwnWalk'
  BY AdvancesInList DEF OwnWalk, Shapes
<1> QED
  BY <1>1, <1>2, <1>3

LEMMA SendNextKeeps ==
  ASSUME SendInv, SendNext
  PROVE  SendInv'
<1>1. HeldOrLost'
  BY DEF SendInv, HeldOrLost, Held, SendNext, Advance, keyboard, history
<1> QED
  BY <1>1, WalkKeeps DEF SendNext, Sending, xwalk

LEMMA PollKeeps ==
  ASSUME SendInv, PollNext, NEW x \in Expanders, NEW value, Poll(x, value)
  PROVE  SendInv'
<1>1. HeldOrLost'
  BY DEF SendInv, HeldOrLost, Held, PollNext, Advance, Poll, keyboard
<1>2. last_key' = [last_key EXCEPT ![x] = NULL] /\ xio' = x /\ UNCHANGED args
  BY DEF Poll, Restarted
<1>3. last_key'[x] = NULL
  BY <1>2 DEF SendInv, Shapes
<1> QED
  BY <1>1, <1>2, <1>3, WalkKeeps DEF PollNext

LEMMA PollNoExpanderKeeps ==
  ASSUME SendInv, PollNoExpander
  PROVE  SendInv'
<1>1. HeldOrLost'
  BY DEF SendInv, HeldOrLost, Held, PollNoExpander, PollNext, Advance, keyboard,
         history
<1> QED
  BY <1>1, WalkKeeps DEF PollNoExpander, PollNext, Sending, xwalk

LEMMA NextPortKeeps ==
  ASSUME SendInv, NextPort
  PROVE  SendInv'
<1> USE DEF SendInv, NextPort, Restarted, args, walk
<1>0. last_key' \in {last_key, [last_key EXCEPT ![xio] = NULL]}
      /\ (port' \in Ports => last_key' = [last_key EXCEPT ![xio] = NULL])
  OBVIOUS
<1>1. WalksInLists'
  BY <1>0 DEF WalksInLists, Shapes
<1>2. Shapes'
  BY <1>0 DEF Shapes, Sending
<1>3. OwnWalk'
  BY <1>0 DEF OwnWalk, Shapes, Sending
<1>4. HeldOrLost'
  BY DEF HeldOrLost, Held, keyboard, history
<1> QED
  BY <1>1, <1>2, <1>3, <1>4

LEMMA NextPortKeyKeeps ==
  ASSUME SendInv, NextPortKey
  PROVE  SendInv'
<1> USE DEF SendInv, args, walk
<1>1. UNCHANGED <<args, walk, xio, port, keyboard, history>>
      /\ pc = "xloop" /\ pc' \in {"xpress", "xloop"}
  BY DEF NextPortKey
<1>2. WalksInLists'
  BY <1>1, AdvancesInPort DEF WalksInLists, Shapes
<1>3. Shapes'
  BY <1>1, AdvancesInPort DEF Shapes, Sending
<1>4. OwnWalk'
  BY <1>1, AdvancesInPort DEF OwnWalk, Sending
<1>5. HeldOrLost'
  BY <1>1 DEF HeldOrLost, Held, keyboard, history
<1> QED
  BY <1>2, <1>3, <1>4, <1>5

LEMMA PressKeeps ==
  ASSUME SendInv, Press
  PROVE  SendInv'
<1>1. Held = {} /\ Held' = {key} /\ pc # "idle"
  BY DEF Press, Held
<1>2. /\ down' \subseteq lost' \cup Held'
      /\ clean' => down' \subseteq Held'
  BY <1>1 DEF SendInv, HeldOrLost, Press, Written, NotWritten, keyboard
<1>3. clean' /\ emitted' # <<>> => seen' = down'
  BY DEF SendInv, HeldOrLost, Press, Written, NotWritten, keyboard
<1>4. HeldOrLost'
  BY <1>2, <1>3 DEF HeldOrLost
<1> QED
  BY <1>4, IteratorsRest DEF Press, Sending

LEMMA ReleaseKeeps ==
  ASSUME SendInv, Release
  PROVE  SendInv'
<1>1. Held = {key} /\ Held' = {} /\ pc # "idle"
  BY DEF Release, Held
<1>2. /\ down' \subseteq lost' \cup Held'
      /\ clean' => down' \subseteq Held'
  BY <1>1 DEF SendInv, HeldOrLost, Release, ReleaseSent, Written, NotWritten,
              keyboard
<1>3. clean' /\ emitted' # <<>> => seen' = down'
  BY DEF SendInv, HeldOrLost, Release, ReleaseSent, Written, NotWritten, keyboard
<1>4. HeldOrLost'
  BY <1>2, <1>3 DEF HeldOrLost
<1> QED
  BY <1>4, IteratorsRest DEF Release, Sending

LEMMA SendStep == SendInv /\ [Next]_vars => SendInv'
<1> SUFFICES ASSUME SendInv, [Next]_vars PROVE SendInv'
  OBVIOUS
<1>1. ASSUME NEW x \in Expanders, NEW i \in Ports, Move(x, i) PROVE SendInv'
  <2>1. HeldOrLost'
    BY <1>1 DEF SendInv, HeldOrLost, Held, Move, keyboard, history
  <2> QED
    BY <1>1, <2>1, IteratorsRest DEF Move
<1>2. ASSUME NEW g \in Groups, NEW p \in Pins, Call(g, p) PROVE SendInv'
  BY <1>2, CallKeeps
<1>3. CASE Return
  BY <1>3, ReturnKeeps
<1>4. ASSUME NEW x \in Expanders, ReadExpander(x) \/ MisreadExpander(x)
      PROVE  SendInv'
  BY <1>4, PollKeeps DEF ReadExpander, MisreadExpander
<1>5. CASE Proceed
  <2>1. CASE PortsDone
    <3>1. HeldOrLost'
      BY <2>1 DEF SendInv, HeldOrLost, Held, PortsDone, keyboard, history
    <3> QED
      BY <2>1, <3>1, IteratorsRest DEF PortsDone, Sending
  <2> QED
    BY <1>5, <2>1, SendNextKeeps, PollNoExpanderKeeps, NextPortKeeps,
       NextPortKeyKeeps, PressKeeps, ReleaseKeeps DEF Proceed
<1>6. CASE UNCHANGED vars
  <2>1. HeldOrLost'
    BY <1>6 DEF SendInv, HeldOrLost, Held, vars, keyboard, history
  <2> QED
    BY <1>6, <2>1, IteratorsRest DEF vars
<1> QED
  BY <1>1, <1>2, <1>3, <1>4, <1>5, <1>6 DEF Next, Continue

(***************************************************************************)
(* The state of the walks and of the keyboard is consistent, for any lists *)
(* and any order of calls, failures and changes.                           *)
(***************************************************************************)
THEOREM InductiveInvariant == Spec => []SendInv
<1> QED
  BY SendInit, SendStep, PTL DEF Spec

(***************************************************************************)
(* No event is read outside a list, although the iterators live in globals *)
(* that calls, nested walks and the dump of the configuration share.       *)
(***************************************************************************)
THEOREM NoStrayIterator == Spec => []WalksInLists
<1>1. SendInv => WalksInLists
  BY DEF SendInv
<1> QED
  BY <1>1, InductiveInvariant, PTL

LEMMA HeldMeans == SendInv => StuckOnlyByFailure
BY DEF SendInv, HeldOrLost, Held, StuckOnlyByFailure, AtReturn

(***************************************************************************)
(* A key that is down when a call ends is one whose release failed, and    *)
(* without a failure the readers have seen every key go up again.          *)
(***************************************************************************)
THEOREM NoKeyStuck == Spec => []StuckOnlyByFailure
<1> QED
  BY HeldMeans, InductiveInvariant, PTL

-----------------------------------------------------------------------------
(* The types. *)

LEMMA EventTyped ==
  ASSUME NEW g \in Groups, NEW at, PinPlace(g, at)
  PROVE  /\ Event(g, at).key \in Keys \cup {0}
         /\ Event(g, at).xio \in Expanders \cup {-1}
<1>1. at[1] \in Pins /\ at[2] \in 1 .. Len(GpioKey[g][at[1]])
  BY DEF PinPlace, Within
<1>2. GpioKey[g][at[1]] \in Seq(Events)
  BY <1>1, ListsOfEvents
<1>3. GpioKey[g][at[1]][at[2]] \in Events
  BY <1>1, <1>2, ElementOfSeq
<1> QED
  BY <1>3 DEF Event, Events

LEMMA PortKeyTyped ==
  ASSUME NEW x \in Expanders, NEW at, PortPlace(x, at)
  PROVE  XioKey[x][at[1]][at[2]] \in Keys
<1>1. at[1] \in Ports /\ at[2] \in 1 .. Len(XioKey[x][at[1]])
  BY DEF PortPlace, Within
<1> QED
  BY <1>1, ListsOfEvents, ElementOfSeq

LEMMA EventKeysTyped ==
  ASSUME NEW g \in Groups, NEW p \in Pins
  PROVE  /\ EventKeys(g, p) \in Word
         /\ Len(EventKeys(g, p)) = Len(GpioKey[g][p])
         /\ \A n \in 1 .. Len(GpioKey[g][p]) :
              EventKeys(g, p)[n] = GpioKey[g][p][n].key
<1> DEFINE list == GpioKey[g][p]
<1>1. list \in Seq(Events)
  BY ListsOfEvents
<1>2. EventKeys(g, p) = [n \in DOMAIN list |-> list[n].key]
  BY DEF EventKeys
<1> HIDE DEF list
<1>3. DOMAIN list = 1 .. Len(list) /\ Len(list) \in Nat
      /\ \A n \in 1 .. Len(list) : list[n] \in Events
  BY <1>1, LenProperties, ElementOfSeq
<1>4. \A n \in 1 .. Len(list) : list[n].key \in Keys \cup {0}
  BY <1>3 DEF Events
<1>5. EventKeys(g, p) = [n \in 1 .. Len(list) |-> list[n].key]
  BY <1>2, <1>3
<1>6. EventKeys(g, p) \in Word /\ Len(EventKeys(g, p)) = Len(list)
  BY <1>3, <1>4, <1>5 DEF Word
<1> QED
  BY <1>5, <1>6 DEF list

(* The keys of the changed ports below port i, one port at a time. *)
Share(x, changed, n) == IF n - 1 \in changed THEN XioKey[x][n - 1] ELSE <<>>

LEMMA KeysBelowParts ==
  ASSUME NEW x \in Expanders, NEW changed, NEW i \in 0 .. Cardinality(Ports)
  PROVE  /\ [n \in 1 .. i |-> Share(x, changed, n)] \in Seq(Seq(Keys))
         /\ KeysBelow(x, changed, i)
              = FlattenSeq([n \in 1 .. i |-> Share(x, changed, n)])
<1>1. Cardinality(Ports) \in Nat
  BY PortAssumption, FS_CardinalityType
<1>2. ASSUME NEW n \in 1 .. i PROVE Share(x, changed, n) \in Seq(Keys)
  <2>1. n - 1 \in Ports
    BY <1>1, PortAssumption
  <2>2. XioKey[x][n - 1] \in Seq(Keys) /\ <<>> \in Seq(Keys)
    BY <2>1
  <2> QED
    BY <2>2 DEF Share
<1>3. i \in Nat
  BY <1>1
<1> QED
  BY <1>2, <1>3, SeqDef DEF KeysBelow, Share

LEMMA KeysBelowTyped ==
  ASSUME NEW x \in Expanders, NEW changed, NEW i \in 0 .. Cardinality(Ports)
  PROVE  KeysBelow(x, changed, i) \in Seq(Keys) /\ KeysBelow(x, changed, i) \in Word
<1> DEFINE parts == [n \in 1 .. i |-> Share(x, changed, n)]
<1>1. KeysBelow(x, changed, i) \in Seq(Keys)
  <2>1. parts \in Seq(Seq(Keys)) /\ KeysBelow(x, changed, i) = FlattenSeq(parts)
    BY KeysBelowParts
  <2> HIDE DEF parts
  <2> QED
    BY <2>1, FlattenType
<1> QED
  BY <1>1 DEF Word

LEMMA KeysBelowFirst ==
  ASSUME NEW x, NEW changed
  PROVE  KeysBelow(x, changed, 0) = <<>>
<1>1. [n \in 1 .. 0 |-> Share(x, changed, n)] = <<>>
  OBVIOUS
<1> QED
  BY <1>1, FlattenEmpty DEF KeysBelow, Share

LEMMA KeysBelowNext ==
  ASSUME NEW x \in Expanders, NEW changed, NEW i \in Ports
  PROVE  /\ i + 1 \in 0 .. Cardinality(Ports)
         /\ KeysBelow(x, changed, i + 1)
              = KeysBelow(x, changed, i)
                  \o (IF i \in changed THEN XioKey[x][i] ELSE <<>>)
<1>1. i \in Nat /\ i \in 0 .. Cardinality(Ports) /\ i + 1 \in 0 .. Cardinality(Ports)
  BY PortAssumption, FS_CardinalityType
<1> DEFINE parts(k) == [n \in 1 .. k |-> Share(x, changed, n)]
           last == Share(x, changed, i + 1)
<1>2. parts(i + 1) = Append(parts(i), last)
  <2>1. parts(i) \in Seq(Seq(Keys)) /\ parts(i + 1) \in Seq(Seq(Keys))
    BY <1>1, KeysBelowParts
  <2>2. Len(parts(i)) = i /\ Len(parts(i + 1)) = i + 1
    BY <1>1
  <2> QED
    BY <1>1, <2>1, <2>2
<1>3. last = IF i \in changed THEN XioKey[x][i] ELSE <<>>
  BY <1>1 DEF Share
<1>4. last \in Seq(Keys)
  <2> HIDE DEF last
  <2> QED
    BY <1>3, ListsOfEvents, EmptySeq
<1>5. parts(i) \in Seq(Seq(Keys))
  BY <1>1, KeysBelowParts
<1>6. FlattenSeq(Append(parts(i), last)) = FlattenSeq(parts(i)) \o last
  <2> HIDE DEF parts, last
  <2> QED
    BY <1>4, <1>5, FlattenAppend
<1>7. /\ KeysBelow(x, changed, i + 1) = FlattenSeq(parts(i + 1))
      /\ KeysBelow(x, changed, i) = FlattenSeq(parts(i))
  BY <1>1, KeysBelowParts
<1> HIDE DEF parts, last
<1> QED
  BY <1>1, <1>2, <1>3, <1>6, <1>7

-----------------------------------------------------------------------------
LEMMA TypeInit == Init => TypeOK
<1> SUFFICES ASSUME Init PROVE TypeOK
  OBVIOUS
<1> DEFINE walked == {g \in Groups : g = 0 => \E p \in Pins :
                        \E n \in DOMAIN GpioKey[0][p] : GpioKey[0][p][n].xio = -1}
           listed == {g \in walked : Listed(g) # {}}
<1>1. last_gpio_key \in [Groups -> (Pins \X Nat) \cup {NULL}]
  <2>1. CASE Dumped
    <3>1. Len(GpioKey[0][LastPin]) \in Nat /\ \A g \in Groups : Len(GpioKey[g][LastPin]) \in Nat
      BY ListsTyped
    <3> QED
      BY <2>1, <3>1 DEF Dumped
  <2> QED
    BY <2>1 DEF Init
<1>2. lastgpio \in Pins \cup {-1}
  <2>1. CASE Dumped /\ listed # {}
    <3>1. listed \in SUBSET Nat /\ IsFiniteSet(listed)
      BY FS_Subset
    <3>2. Max(listed) \in listed
      <4> HIDE DEF listed
      <4> QED
        BY <2>1, <3>1, MaxOfFinite
    <3>3. Listed(Max(listed)) # {}
      BY <3>2
    <3>4. /\ Listed(Max(listed)) \in SUBSET Nat
          /\ Listed(Max(listed)) \subseteq Pins
          /\ IsFiniteSet(Listed(Max(listed)))
      <4> HIDE DEF listed
      <4> QED
        BY FS_Subset DEF Listed
    <3>5. lastgpio = Max(Listed(Max(listed)))
      BY <2>1 DEF Dumped
    <3> HIDE DEF listed
    <3>6. Max(Listed(Max(listed))) \in Listed(Max(listed))
      BY <3>3, <3>4, MaxOfFinite
    <3> QED
      BY <3>4, <3>5, <3>6
  <2>2. CASE Dumped /\ listed = {}
    BY <2>2 DEF Dumped
  <2> QED
    BY <2>1, <2>2 DEF Init
<1>3. Cardinality(Ports) \in Nat
  BY PortAssumption, FS_CardinalityType
<1> QED
  BY <1>1, <1>2, <1>3 DEF Init, TypeOK

LEMMA CallTyped ==
  ASSUME TypeOK, NEW g \in Groups, NEW p \in Pins, Call(g, p)
  PROVE  TypeOK'
<1>1. expected' \in Word /\ emitted' \in Word
  BY EventKeysTyped, EmptySeq DEF Call, Word
<1>2. last_gpio_key' \in [Groups -> (Pins \X Nat) \cup {NULL}]
  BY DEF Call, TypeOK, Restarted
<1> QED
  BY <1>1, <1>2 DEF TypeOK, Call, Word, xwalk, keyboard

LEMMA ReturnTyped ==
  ASSUME TypeOK, Return
  PROVE  TypeOK'
<1>1. Cardinality(Ports) \in Nat
  BY PortAssumption, FS_CardinalityType
<1>2. emitted' \in Word /\ expected' \in Word
  BY EmptySeq DEF Return, Word
<1>3. port' \in 0 .. Cardinality(Ports) /\ xio' \in Expanders \cup {-1}
  BY <1>1 DEF Return
<1> QED
  BY <1>2, <1>3 DEF TypeOK, Return, Word, walk, keyboard

LEMMA AdvanceTyped ==
  ASSUME TypeOK, SendInv, Advance
  PROVE  /\ last_gpio_key' \in [Groups -> (Pins \X Nat) \cup {NULL}]
         /\ lastgpio' \in Pins \cup {-1}
<1>1. \A g \in Groups : last_gpio_key'[g] \in (Pins \X Nat) \cup {NULL}
  BY AdvancesInList DEF TypeOK, PinPlace
<1>2. last_gpio_key' = [last_gpio_key EXCEPT ![grp] = last_gpio_key'[grp]]
  BY DEF Advance, TypeOK
<1> QED
  BY <1>1, <1>2 DEF TypeOK, Advance

LEMMA PollTyped ==
  ASSUME TypeOK, SendInv, PollNext, NEW x \in Expanders, NEW value, Poll(x, value)
  PROVE  TypeOK'
<1> DEFINE ival    == Masked(x, value)
           changed == SymDiff(ival, lastvalue[x])
<1>1. /\ lastvalue' = [lastvalue EXCEPT ![x] = ival]
      /\ xval' = changed /\ xio' = x /\ port' = 0 /\ pc' = "xloop"
      /\ last_key' = [last_key EXCEPT ![x] = NULL]
      /\ expected' = expected \o PortKeys(x, changed)
      /\ UNCHANGED <<args, xlastgpio, key, low, keyboard, emitted, clean, lost>>
  BY DEF Poll, Remembered, Restarted
<1>2. ival \subseteq Ports
  BY DEF Masked, inmask
<1>3. changed \subseteq Ports
  BY <1>2 DEF SymDiff, TypeOK
<1> HIDE DEF ival, changed
<1>4. Cardinality(Ports) \in Nat
  BY PortAssumption, FS_CardinalityType
<1>5. expected' \in Word
  <2>1. PortKeys(x, changed) \in Word
    BY <1>4, KeysBelowTyped DEF PortKeys
  <2> QED
    BY <1>1, <2>1, ConcatProperties DEF TypeOK, Word
<1>6. lastvalue' \in [Expanders -> SUBSET Ports]
  BY <1>1, <1>2 DEF TypeOK
<1>7. last_key' \in [Expanders -> (Ports \X Nat) \cup {NULL}]
  BY <1>1 DEF TypeOK
<1>8. /\ last_gpio_key' \in [Groups -> (Pins \X Nat) \cup {NULL}]
      /\ lastgpio' \in Pins \cup {-1}
  BY AdvanceTyped DEF PollNext
<1>9. /\ xval' \subseteq Ports /\ port' \in 0 .. Cardinality(Ports)
      /\ xio' \in Expanders \cup {-1}
  BY <1>1, <1>3, <1>4
<1>10. pc' = "xloop" /\ UNCHANGED <<grp, gpio, xlastgpio, key, low, down, seen, emitted, clean, lost>>
  BY <1>1 DEF args, keyboard
<1> QED
  BY <1>5, <1>6, <1>7, <1>8, <1>9, <1>10 DEF TypeOK, Word

LEMMA SendNextTyped ==
  ASSUME TypeOK, SendInv, SendNext
  PROVE  TypeOK'
<1>1. key' \in Keys \cup {0}
  BY AdvancesInList, EventTyped DEF SendNext, SendInv, Shapes
<1> QED
  BY <1>1, AdvanceTyped DEF TypeOK, SendNext, args, xwalk, keyboard, history

LEMMA PollNoExpanderTyped ==
  ASSUME TypeOK, SendInv, PollNoExpander
  PROVE  TypeOK'
BY AdvanceTyped DEF TypeOK, PollNoExpander, PollNext, args, xwalk, keyboard, history

LEMMA NextPortTyped ==
  ASSUME TypeOK, NextPort
  PROVE  TypeOK'
<1>1. port' \in 0 .. Cardinality(Ports)
  BY PortAssumption, FS_CardinalityType DEF NextPort
<1>2. last_key' \in [Expanders -> (Ports \X Nat) \cup {NULL}]
  BY DEF NextPort, TypeOK, Restarted
<1> QED
  BY <1>1, <1>2 DEF TypeOK, NextPort, args, walk, keyboard, history

LEMMA NextPortKeyTyped ==
  ASSUME TypeOK, SendInv, NextPortKey
  PROVE  TypeOK'
<1>1. xio \in Expanders /\ port \in Ports
  BY DEF NextPortKey, SendInv, Shapes, Sending
<1>2. key' \in Keys
  BY <1>1, AdvancesInPort, PortKeyTyped DEF NextPortKey
<1>3. last_key' \in [Expanders -> (Ports \X Nat) \cup {NULL}]
  <2>1. \A x \in Expanders : last_key'[x] \in (Ports \X Nat) \cup {NULL}
    BY AdvancesInPort DEF TypeOK, PortPlace
  <2>2. last_key' = [last_key EXCEPT ![xio] = last_key'[xio]]
    BY <1>1 DEF NextPortKey, TypeOK
  <2> QED
    BY <2>1, <2>2 DEF TypeOK
<1> QED
  BY <1>1, <1>2, <1>3 DEF TypeOK, NextPortKey, args, walk, keyboard, history

LEMMA KeyTyped ==
  ASSUME TypeOK, Press \/ Release
  PROVE  TypeOK'
<1> USE DEF Press, Release, Written, NotWritten, ReleaseSent, keyboard
<1>1. emitted' \in Word
  <2>1. emitted' = emitted \/ emitted' = Append(emitted, key)
    OBVIOUS
  <2>2. emitted \in Word /\ Append(emitted, key) \in Word
    BY AppendProperties DEF TypeOK, Word
  <2> QED
    BY <2>1, <2>2
<1>2. pc' \in {"loop", "xloop", "release", "xrelease"}
  OBVIOUS
<1>3. clean' \in BOOLEAN
  BY DEF TypeOK
<1>4. /\ down' \subseteq Keys \cup {0}
      /\ seen' \subseteq Keys \cup {0} /\ lost' \subseteq Keys \cup {0}
  BY DEF TypeOK
<1> QED
  BY <1>1, <1>2, <1>3, <1>4 DEF TypeOK, Word, args, walk, xwalk

LEMMA TypeStep == TypeOK /\ SendInv /\ [Next]_vars => TypeOK'
<1> SUFFICES ASSUME TypeOK, SendInv, [Next]_vars PROVE TypeOK'
  OBVIOUS
<1>1. ASSUME NEW x \in Expanders, NEW i \in Ports, Move(x, i) PROVE TypeOK'
  <2>1. low' \in [Expanders -> SUBSET Ports]
    BY <1>1 DEF Move, TypeOK, SymDiff
  <2> QED
    BY <1>1, <2>1 DEF Move, TypeOK, args, walk, xwalk, keyboard, history
<1>2. ASSUME NEW x \in Expanders, ReadExpander(x) \/ MisreadExpander(x)
      PROVE  TypeOK'
  BY <1>2, PollTyped DEF ReadExpander, MisreadExpander
<1>3. CASE Proceed
  <2>1. CASE PortsDone
    BY <2>1 DEF PortsDone, TypeOK, args, walk, xwalk, keyboard, history
  <2> QED
    BY <1>3, <2>1, SendNextTyped, PollNoExpanderTyped, NextPortTyped,
       NextPortKeyTyped, KeyTyped DEF Proceed
<1>4. CASE UNCHANGED vars
  BY <1>4 DEF TypeOK, vars, args, walk, xwalk, keyboard, history
<1> QED
  BY <1>1, <1>2, <1>3, <1>4, CallTyped, ReturnTyped DEF Next, Continue

(***************************************************************************)
(* All variables keep their types, for any lists and any order of calls,   *)
(* changes and failures.                                                   *)
(***************************************************************************)
THEOREM TypeCorrect == Spec => []TypeOK
<1> QED
  BY TypeInit, TypeStep, InductiveInvariant, PTL DEF Spec

-----------------------------------------------------------------------------
(* How far a call has come. *)

(* A pin's call has sent the keys up to the iterator, or all but the last. *)
PinProgress ==
  LET n == Sent(last_gpio_key[grp])
  IN  /\ pc \in {"loop", "press", "release"}
      /\ expected = EventKeys(grp, gpio)
      /\ emitted = SubSeq(expected, 1, IF pc = "press" THEN n - 1 ELSE n)
      /\ pc = "press" => n \in 1 .. Len(expected) /\ key = expected[n]

OfPort ==
  LET n == Sent(last_key[xio])
  IN  IF port \in xval
      THEN SubSeq(XioKey[xio][port], 1, IF pc = "xpress" THEN n - 1 ELSE n)
      ELSE <<>>

(* A walk over the ports adds to what was sent before it the keys of the   *)
(* ports that it has passed and those of its port up to the iterator.      *)
PortProgress ==
  /\ \E done \in Word :
       /\ expected = done \o PortKeys(xio, xval)
       /\ emitted = done \o (KeysBelow(xio, xval, port) \o OfPort)
  /\ pc = "xpress" =>
       /\ port \in xval
       /\ Sent(last_key[xio]) \in 1 .. Len(XioKey[xio][port])
       /\ key = XioKey[xio][port][Sent(last_key[xio])]

XioProgress ==
  /\ pc \in {"loop", "xloop", "xpress", "xrelease"}
  /\ pc = "loop" => emitted = expected
  /\ pc # "loop" => PortProgress

(* Progress is lost with a failure, and nothing is known of a call that    *)
(* found a key down.                                                       *)
Progress ==
  clean /\ pc \notin {"idle", "undefined"} =>
    IF is_xio(gpio) THEN XioProgress ELSE PinProgress

KeysInv == SendInv /\ TypeOK /\ Progress

LEMMA PinCounted ==
  ASSUME SendInv, pc # "idle"
  PROVE  /\ Sent(last_gpio_key[grp]) \in 0 .. Len(GpioKey[grp][gpio])
         /\ pc = "loop" /\ ~got_more_keys(grp, gpio)
              => Sent(last_gpio_key[grp]) = Len(GpioKey[grp][gpio])
<1>1. Len(GpioKey[grp][gpio]) \in Nat
  BY ListsTyped DEF SendInv, Shapes
<1>2. CASE last_gpio_key[grp] = NULL
  BY <1>1, <1>2, EmptySeq DEF Sent, got_more_keys
<1>3. CASE last_gpio_key[grp] # NULL
  <2> DEFINE at == last_gpio_key[grp]
  <2>1. at[1] = gpio /\ at[2] \in 1 .. Len(GpioKey[grp][gpio])
    BY <1>3 DEF SendInv, Shapes, OwnWalk, WalksInLists, PinPlace, Within
  <2>2. got_more_keys(grp, gpio) <=> at[2] < Len(GpioKey[grp][gpio])
    BY <1>3, <2>1 DEF got_more_keys
  <2> QED
    BY <1>1, <1>3, <2>1, <2>2 DEF Sent
<1> QED
  BY <1>2, <1>3

LEMMA PinAdvanceCounts ==
  ASSUME SendInv, Advance
  PROVE  /\ Sent(last_gpio_key'[grp]) = Sent(last_gpio_key[grp]) + 1
         /\ Sent(last_gpio_key'[grp]) \in 1 .. Len(GpioKey[grp][gpio])
         /\ last_gpio_key'[grp] = <<gpio, Sent(last_gpio_key'[grp])>>
<1>1. last_gpio_key'[grp] = NextKey(grp, gpio)
  BY DEF Advance, SendInv, Shapes
<1>2. PinPlace(grp, NextKey(grp, gpio)) /\ NextKey(grp, gpio)[1] = gpio
  BY <1>1, AdvancesInList
<1>3. NextKey(grp, gpio) # NULL
  BY <1>2 DEF PinPlace
<1>4. CASE last_gpio_key[grp] = NULL
  <2>1. GpioKey[grp][gpio] # <<>>
    BY <1>4 DEF Advance, got_more_keys
  <2>2. NextKey(grp, gpio) = <<gpio, 1>>
    BY <1>4, <2>1 DEF NextKey, First
  <2> QED
    BY <1>1, <1>2, <1>3, <1>4, <2>2 DEF Sent, PinPlace, Within
<1>5. CASE last_gpio_key[grp] # NULL
  <2> DEFINE at == last_gpio_key[grp]
  <2>1. /\ at[1] = gpio /\ lastgpio = gpio /\ at[2] \in Nat
        /\ at[2] < Len(GpioKey[grp][gpio])
    BY <1>5 DEF SendInv, Shapes, OwnWalk, WalksInLists, PinPlace, Within,
                Advance, got_more_keys
  <2>2. NextKey(grp, gpio) = <<gpio, at[2] + 1>>
    BY <1>5, <2>1 DEF NextKey, Following
  <2> QED
    BY <1>1, <1>2, <1>3, <1>5, <2>1, <2>2 DEF Sent, PinPlace, Within
<1> QED
  BY <1>4, <1>5

LEMMA PortCounted ==
  ASSUME SendInv, pc \in Sending, port \in Ports
  PROVE  /\ Sent(last_key[xio]) \in 0 .. Len(XioKey[xio][port])
         /\ ~got_more_xio_keys(xio, port)
              => Sent(last_key[xio]) = Len(XioKey[xio][port])
<1>1. Len(XioKey[xio][port]) \in Nat /\ xio \in Expanders
  BY ListsTyped DEF SendInv, Shapes
<1>2. CASE last_key[xio] = NULL
  BY <1>1, <1>2, EmptySeq DEF Sent, got_more_xio_keys
<1>3. CASE last_key[xio] # NULL
  <2> DEFINE at == last_key[xio]
  <2>1. at[1] = port /\ at[2] \in 1 .. Len(XioKey[xio][port])
    BY <1>1, <1>3 DEF SendInv, OwnWalk, WalksInLists, PortPlace, Within
  <2>2. got_more_xio_keys(xio, port) <=> at[2] < Len(XioKey[xio][port])
    BY <1>3, <2>1 DEF got_more_xio_keys
  <2> QED
    BY <1>1, <1>3, <2>1, <2>2 DEF Sent
<1> QED
  BY <1>2, <1>3

LEMMA PortAdvanceCounts ==
  ASSUME SendInv, NextPortKey
  PROVE  /\ Sent(last_key'[xio]) = Sent(last_key[xio]) + 1
         /\ Sent(last_key'[xio]) \in 1 .. Len(XioKey[xio][port])
         /\ last_key'[xio][2] = Sent(last_key'[xio])
<1>0. xio \in Expanders /\ port \in Ports /\ pc \in Sending
  BY DEF NextPortKey, SendInv, Shapes, Sending
<1>1. last_key'[xio] = NextXioKey(xio, port)
  BY <1>0 DEF NextPortKey, SendInv, Shapes
<1>2. PortPlace(xio, NextXioKey(xio, port)) /\ NextXioKey(xio, port)[1] = port
  BY <1>1, AdvancesInPort
<1>3. NextXioKey(xio, port) # NULL
  BY <1>2, PinAssumption DEF PortPlace
<1>4. CASE last_key[xio] = NULL
  <2>1. XioKey[xio][port] # <<>>
    BY <1>4 DEF NextPortKey, got_more_xio_keys
  <2>2. NextXioKey(xio, port) = <<port, 1>>
    BY <1>4, <2>1 DEF NextXioKey, First
  <2> QED
    BY <1>1, <1>2, <1>3, <1>4, <2>2 DEF Sent, PortPlace, Within
<1>5. CASE last_key[xio] # NULL
  <2> DEFINE at == last_key[xio]
  <2>1. /\ at[1] = port /\ xlastgpio = port /\ at[2] \in Nat
        /\ at[2] < Len(XioKey[xio][port])
    BY <1>0, <1>5 DEF SendInv, OwnWalk, WalksInLists, PortPlace, Within,
                NextPortKey, got_more_xio_keys
  <2>2. NextXioKey(xio, port) = <<port, at[2] + 1>>
    BY <1>5, <2>1 DEF NextXioKey, Following
  <2> QED
    BY <1>1, <1>2, <1>3, <1>5, <2>1, <2>2 DEF Sent, PortPlace, Within
<1> QED
  BY <1>4, <1>5

LEMMA ProgressInit == Init => Progress
  BY DEF Init, Progress

(* Steps of the environment. *)
LEMMA ProgressRests ==
  ASSUME Progress, UNCHANGED <<pc, args, walk, xwalk, key, emitted, expected, clean>>
  PROVE  Progress'
BY DEF Progress, PinProgress, XioProgress, PortProgress, OfPort, Sent, is_xio,
       args, walk, xwalk

LEMMA CallProgress ==
  ASSUME KeysInv, NEW g \in Groups, NEW p \in Pins, Call(g, p)
  PROVE  Progress'
<1>1. /\ pc' = "loop" /\ grp' = g /\ gpio' = p /\ emitted' = <<>>
      /\ expected' = IF is_xio(p) THEN <<>> ELSE EventKeys(g, p)
      /\ last_gpio_key'[g] = NULL
  BY DEF Call, Restarted, KeysInv, TypeOK
<1>2. SubSeq(EventKeys(g, p), 1, 0) = <<>>
  BY SubSeqEmpty
<1>3. CASE is_xio(p)
  BY <1>1, <1>3 DEF Progress, XioProgress, is_xio
<1>4. CASE ~is_xio(p)
  BY <1>1, <1>2, <1>4 DEF Progress, PinProgress, Sent, is_xio
<1> QED
  BY <1>3, <1>4

LEMMA SendNextProgress ==
  ASSUME KeysInv, SendNext
  PROVE  Progress'
<1> DEFINE n == Sent(last_gpio_key[grp])
           m == Sent(last_gpio_key'[grp])
<1>1. /\ pc = "loop" /\ ~is_xio(gpio) /\ Advance /\ pc' = "press"
      /\ key' = Event(grp, last_gpio_key'[grp]).key
      /\ UNCHANGED <<grp, gpio, emitted, expected, clean>>
  BY DEF SendNext, Advance, args, history
<1>2. m = n + 1 /\ m \in 1 .. Len(GpioKey[grp][gpio])
      /\ last_gpio_key'[grp] = <<gpio, m>> /\ n \in Nat
  BY <1>1, PinAdvanceCounts, PinCounted DEF KeysInv
<1> HIDE DEF n, m
<1>3. SUFFICES ASSUME clean PROVE PinProgress'
  BY <1>1 DEF Progress, is_xio
<1>4. PinProgress
  BY <1>1, <1>3 DEF KeysInv, Progress
<1>5. expected = EventKeys(grp, gpio) /\ emitted = SubSeq(expected, 1, n)
  BY <1>1, <1>4 DEF PinProgress, n
<1>6. grp \in Groups /\ gpio \in Pins
  BY DEF KeysInv, TypeOK
<1>7. Len(expected) = Len(GpioKey[grp][gpio]) /\ expected[m] = GpioKey[grp][gpio][m].key
  BY <1>2, <1>5, <1>6, EventKeysTyped
<1>8. key' = expected[m] /\ m - 1 = n
  BY <1>1, <1>2, <1>7 DEF Event
<1> QED
  BY <1>1, <1>2, <1>5, <1>7, <1>8 DEF PinProgress, m

(* A press that is written in an undisturbed call reaches the readers. *)
LEMMA PressEmits ==
  ASSUME KeysInv, Press, clean'
  PROVE  clean /\ emitted' = Append(emitted, key)
<1>1. clean /\ Written(1)
  BY DEF KeysInv, TypeOK, Press, Written, NotWritten
<1>2. down = {}
  BY <1>1 DEF Press, KeysInv, SendInv, HeldOrLost, Held
<1> QED
  BY <1>1, <1>2 DEF Press, Written, NotWritten

LEMMA PinKeyProgress ==
  ASSUME KeysInv, Press \/ Release, ~is_xio(gpio)
  PROVE  Progress'
<1> DEFINE n == Sent(last_gpio_key[grp])
<1>1. UNCHANGED <<grp, gpio, last_gpio_key, key, expected>>
  BY DEF Press, Release, args, walk
<1>2. clean' => clean
  BY DEF KeysInv, TypeOK, Press, Release, Written, NotWritten, ReleaseSent
<1>3. SUFFICES ASSUME clean' PROVE PinProgress'
  BY <1>1 DEF Progress, is_xio
<1>4. PinProgress
  BY <1>2, <1>3 DEF KeysInv, Progress, Press, Release
<1>5. CASE Release
  <2>1. pc = "release" /\ pc' = "loop" /\ emitted' = emitted
    BY <1>4, <1>5 DEF PinProgress, Release
  <2> QED
    BY <1>1, <1>4, <2>1 DEF PinProgress
<1>6. CASE Press
  <2>1. pc = "press" /\ pc' = "release" /\ emitted' = Append(emitted, key)
    BY <1>3, <1>4, <1>6, PressEmits DEF PinProgress, Press
  <2>2. /\ emitted = SubSeq(expected, 1, n - 1)
        /\ n \in 1 .. Len(expected) /\ key = expected[n]
        /\ expected = EventKeys(grp, gpio)
    BY <1>4, <2>1 DEF PinProgress
  <2>3. expected \in Word
    BY DEF KeysInv, TypeOK, Word
  <2> HIDE DEF n
  <2>4. emitted' = SubSeq(expected, 1, n)
    BY <2>1, <2>2, <2>3, TakeNext DEF Word
  <2> QED
    BY <1>1, <2>1, <2>2, <2>4 DEF PinProgress, n
<1> QED
  BY <1>5, <1>6

(* The first n keys of a port are keys. *)
LEMMA TakenTyped ==
  ASSUME NEW x \in Expanders, NEW i \in Ports, NEW n \in 0 .. Len(XioKey[x][i])
  PROVE  SubSeq(XioKey[x][i], 1, n) \in Word
<1> DEFINE list == XioKey[x][i]
<1>1. list \in Seq(Keys) /\ Len(list) \in Nat
  BY ListsOfEvents, ListsTyped
<1> HIDE DEF list
<1>2. \A k \in 1 .. n : list[k] \in Keys
  BY <1>1, ElementOfSeq DEF list
<1> QED
  BY <1>2, SubSeqProperties DEF Word, list

LEMMA PollProgress ==
  ASSUME KeysInv, PollNext, NEW x \in Expanders, NEW value, Poll(x, value)
  PROVE  Progress'
<1>1. /\ pc = "loop" /\ is_xio(gpio) /\ pc' = "xloop" /\ UNCHANGED <<gpio, clean>>
      /\ xio' = x /\ port' = 0 /\ last_key' = [last_key EXCEPT ![x] = NULL]
      /\ expected' = expected \o PortKeys(x, xval') /\ emitted' = emitted
  BY DEF PollNext, Advance, Poll, Restarted, args
<1>2. SUFFICES ASSUME clean PROVE PortProgress'
  BY <1>1 DEF Progress, XioProgress, is_xio
<1>3. emitted = expected /\ emitted \in Word
  BY <1>1, <1>2 DEF KeysInv, Progress, XioProgress, TypeOK, Word
<1>4. last_key'[xio'] = NULL
  BY <1>1 DEF KeysInv, TypeOK
<1>5. OfPort' = <<>>
  <2>1. SubSeq(XioKey[x][0], 1, 0) = <<>>
    BY SubSeqEmpty
  <2> QED
    BY <1>1, <1>4, <2>1 DEF OfPort, Sent
<1>6. KeysBelow(xio', xval', 0) \o <<>> = <<>>
  BY KeysBelowFirst
<1>7. emitted' = emitted \o (KeysBelow(xio', xval', port') \o OfPort')
  BY <1>1, <1>3, <1>5, <1>6, ConcatEmptySeq DEF Word
<1> QED
  BY <1>1, <1>3, <1>7 DEF PortProgress

LEMMA PollNoExpanderProgress ==
  ASSUME KeysInv, PollNoExpander
  PROVE  Progress'
BY DEF KeysInv, PollNoExpander, PollNext, Advance, Progress, XioProgress, is_xio,
       args, history

(* The facts about a walk over the ports that the next lemmas begin with.  *)
LEMMA WalkFacts ==
  ASSUME KeysInv, clean, pc \in Sending
  PROVE  /\ is_xio(gpio) /\ PortProgress
         /\ xio \in Expanders /\ xval \subseteq Ports
         /\ port \in 0 .. Cardinality(Ports) /\ Cardinality(Ports) \in Nat
         /\ KeysBelow(xio, xval, port) \in Word
<1>1. xio \in Expanders /\ port \in 0 .. Cardinality(Ports) /\ xval \subseteq Ports
  BY DEF KeysInv, SendInv, Shapes, TypeOK
<1>2. Cardinality(Ports) \in Nat
  BY PortAssumption, FS_CardinalityType
<1>3. KeysBelow(xio, xval, port) \in Word
  BY <1>1, KeysBelowTyped
<1> QED
  BY <1>1, <1>2, <1>3 DEF KeysInv, Progress, XioProgress, PinProgress, Sending

LEMMA NextPortProgress ==
  ASSUME KeysInv, NextPort
  PROVE  Progress'
<1>1. /\ pc = "xloop" /\ pc' = "xloop" /\ port \in Ports /\ port' = port + 1
      /\ ~got_more_xio_keys(xio, port)
      /\ port' \in Ports => last_key' = [last_key EXCEPT ![xio] = NULL]
      /\ UNCHANGED <<gpio, xio, xval, emitted, expected, clean>>
  BY DEF NextPort, Restarted, args, history
<1>2. CASE ~clean
  BY <1>1, <1>2 DEF Progress
<1>3. CASE clean
  <2>1. /\ is_xio(gpio) /\ PortProgress /\ xio \in Expanders /\ xval \subseteq Ports
        /\ KeysBelow(xio, xval, port) \in Word
    BY <1>1, <1>3, WalkFacts DEF Sending
  <2>2. PICK done \in Word :
          /\ expected = done \o PortKeys(xio, xval)
          /\ emitted = done \o (KeysBelow(xio, xval, port) \o OfPort)
    BY <2>1 DEF PortProgress
  <2>3. OfPort = IF port \in xval THEN XioKey[xio][port] ELSE <<>>
    <3>1. Sent(last_key[xio]) = Len(XioKey[xio][port])
      BY <1>1, PortCounted DEF KeysInv, Sending
    <3>2. SubSeq(XioKey[xio][port], 1, Len(XioKey[xio][port])) = XioKey[xio][port]
      BY <1>1, <2>1, ListsOfEvents, SubSeqFull
    <3> QED
      BY <1>1, <3>1, <3>2 DEF OfPort
  <2>4. KeysBelow(xio, xval, port') = KeysBelow(xio, xval, port) \o OfPort
    <3>1. KeysBelow(xio, xval, port + 1)
            = KeysBelow(xio, xval, port)
                \o (IF port \in xval THEN XioKey[xio][port] ELSE <<>>)
      <4> DEFINE x == xio
                 i == port
                 changed == xval
      <4>1. x \in Expanders /\ i \in Ports
        BY <1>1, <2>1
      <4> HIDE DEF x, i, changed
      <4>2. KeysBelow(x, changed, i + 1)
              = KeysBelow(x, changed, i)
                  \o (IF i \in changed THEN XioKey[x][i] ELSE <<>>)
        BY <4>1, KeysBelowNext
      <4> QED
        BY <4>2 DEF x, i, changed
    <3> QED
      BY <1>1, <2>3, <3>1
  <2>5. KeysBelow(xio, xval, port') \in Word
    BY <1>1, <2>1, KeysBelowNext, KeysBelowTyped
  <2>6. OfPort' = <<>>
    <3>1. port' \in xval' => last_key'[xio'] = NULL
      BY <1>1, <2>1 DEF KeysInv, TypeOK
    <3>2. SubSeq(XioKey[xio'][port'], 1, 0) = <<>>
      BY SubSeqEmpty
    <3> QED
      BY <1>1, <3>1, <3>2 DEF OfPort, Sent
  <2>7. KeysBelow(xio', xval', port') \o OfPort' = KeysBelow(xio, xval, port) \o OfPort
    BY <1>1, <2>4, <2>5, <2>6, ConcatEmptySeq DEF Word
  <2>8. PortProgress'
    BY <1>1, <2>2, <2>7 DEF PortProgress
  <2> QED
    BY <1>1, <2>1, <2>8 DEF Progress, XioProgress, is_xio
<1> QED
  BY <1>2, <1>3

LEMMA NextPortKeyProgress ==
  ASSUME KeysInv, NextPortKey
  PROVE  Progress'
<1>1. /\ pc = "xloop" /\ port \in Ports
      /\ pc' = IF port \in xval THEN "xpress" ELSE "xloop"
      /\ key' = XioKey[xio][port][last_key'[xio][2]]
      /\ UNCHANGED <<gpio, xio, port, xval, emitted, expected, clean>>
  BY DEF NextPortKey, SendsChanges, args, history
<1>2. CASE ~clean
  BY <1>1, <1>2 DEF Progress
<1>3. CASE clean
  <2> DEFINE n == Sent(last_key[xio])
             m == Sent(last_key'[xio])
  <2>1. is_xio(gpio) /\ PortProgress
    BY <1>1, <1>3, WalkFacts DEF Sending
  <2>2. /\ m = n + 1 /\ m \in 1 .. Len(XioKey[xio][port]) /\ n \in Nat
        /\ last_key'[xio][2] = m
    BY <1>1, PortAdvanceCounts, PortCounted DEF KeysInv, Sending
  <2>3. m - 1 = n
    BY <2>2
  <2>4. OfPort' = OfPort
    BY <1>1, <2>3 DEF OfPort
  <2>5. PortProgress'
    BY <1>1, <2>1, <2>2, <2>4 DEF PortProgress
  <2> QED
    BY <1>1, <2>1, <2>5 DEF Progress, XioProgress, is_xio
<1> QED
  BY <1>2, <1>3

LEMMA PortKeyProgress ==
  ASSUME KeysInv, Press \/ Release, is_xio(gpio)
  PROVE  Progress'
<1> DEFINE n == Sent(last_key[xio])
           list == XioKey[xio][port]
<1>1. UNCHANGED <<grp, gpio, xio, port, xval, last_key, key, expected>>
  BY DEF Press, Release, args, xwalk
<1>2. clean' => clean
  BY DEF KeysInv, TypeOK, Press, Release, Written, NotWritten, ReleaseSent
<1>3. SUFFICES ASSUME clean' PROVE XioProgress'
  BY <1>1 DEF Progress, is_xio
<1>4. XioProgress
  BY <1>2, <1>3 DEF KeysInv, Progress, Press, Release
<1>5. CASE Release
  <2>1. pc = "xrelease" /\ pc' = "xloop" /\ emitted' = emitted
    BY <1>4, <1>5 DEF XioProgress, Release
  <2>2. OfPort' = OfPort
    BY <1>1, <2>1 DEF OfPort
  <2>3. PortProgress'
    BY <1>1, <1>4, <2>1, <2>2 DEF XioProgress, PortProgress
  <2> QED
    BY <2>1, <2>3 DEF XioProgress
<1>6. CASE Press
  <2>1. pc = "xpress" /\ pc' = "xrelease" /\ emitted' = Append(emitted, key)
    BY <1>3, <1>4, <1>6, PressEmits DEF XioProgress, Press
  <2>2. /\ PortProgress /\ xio \in Expanders /\ xval \subseteq Ports
        /\ KeysBelow(xio, xval, port) \in Word
    BY <1>2, <1>3, <2>1, WalkFacts DEF Sending
  <2>3. port \in xval /\ n \in 1 .. Len(list) /\ key = list[n]
    BY <2>1, <2>2 DEF PortProgress
  <2>4. PICK done \in Word :
          /\ expected = done \o PortKeys(xio, xval)
          /\ emitted = done \o (KeysBelow(xio, xval, port) \o OfPort)
    BY <2>2 DEF PortProgress
  <2>5. port \in Ports /\ list \in Seq(Keys) /\ Len(list) \in Nat
    BY <2>2, <2>3, ListsOfEvents, ListsTyped
  <2>6. OfPort = SubSeq(list, 1, n - 1) /\ OfPort' = SubSeq(list, 1, n)
    BY <1>1, <2>1, <2>3 DEF OfPort
  <2>7. OfPort \in Word /\ key \in Keys \cup {0}
    <3> HIDE DEF n
    <3>1. n - 1 \in 0 .. Len(list)
      BY <2>3, <2>5
    <3>2. SubSeq(list, 1, n - 1) \in Word
      BY <2>2, <2>5, <3>1, TakenTyped
    <3> QED
      BY <2>6, <3>2 DEF KeysInv, TypeOK
  <2>8. OfPort' = Append(OfPort, key)
    <3> HIDE DEF n, list
    <3> QED
      BY <2>3, <2>5, <2>6, TakeNext
  <2>9. emitted' = done \o (KeysBelow(xio, xval, port) \o OfPort')
    <3> DEFINE below == KeysBelow(xio, xval, port)
               sofar == below \o OfPort
               one == <<key>>
    <3>1. below \in Word /\ sofar \in Word /\ emitted = done \o sofar
      BY <2>2, <2>4, <2>7, JoinWords
    <3>2. emitted \in Word
      BY <3>1, JoinWords
    <3>3. one \in Word /\ Append(emitted, key) = emitted \o one
      BY <2>7, <3>2, AppendWord
    <3>4. Append(OfPort, key) = OfPort \o one
      BY <2>7, AppendWord
    <3>5. emitted' = emitted \o one /\ OfPort' = OfPort \o one
      BY <2>1, <2>8, <3>3, <3>4, Zenon
    <3> HIDE ListAssumption, PinAssumption DEF one
    <3>6. sofar \o one = below \o (OfPort \o one)
      <4>1. below \in Word /\ OfPort \in Word /\ one \in Word
        BY <2>7, <3>1, <3>3
      <4> HIDE DEF below
      <4> QED
        BY <4>1, JoinWords
    <3> HIDE DEF sofar
    <3>7. (done \o sofar) \o one = done \o (sofar \o one)
      <4>1. done \in Word /\ sofar \in Word /\ one \in Word
        BY <3>1, <3>3
      <4> QED
        BY <4>1, JoinWords
    <3> QED
      BY <3>1, <3>5, <3>6, <3>7, Zenon DEF below
  <2>10. PortProgress'
    BY <1>1, <2>1, <2>4, <2>9 DEF PortProgress
  <2> QED
    BY <2>1, <2>10 DEF XioProgress
<1> QED
  BY <1>5, <1>6

LEMMA PortsDoneProgress ==
  ASSUME KeysInv, PortsDone
  PROVE  Progress'
<1>1. /\ pc = "xloop" /\ pc' = "loop" /\ port \notin Ports
      /\ UNCHANGED <<gpio, emitted, expected, clean>>
  BY DEF PortsDone, args, history
<1>2. CASE ~clean
  BY <1>1, <1>2 DEF Progress
<1>3. CASE clean
  <2>1. /\ is_xio(gpio) /\ PortProgress /\ xval \subseteq Ports /\ xio \in Expanders
        /\ port \in 0 .. Cardinality(Ports) /\ Cardinality(Ports) \in Nat
        /\ KeysBelow(xio, xval, port) \in Word
    BY <1>1, <1>3, WalkFacts DEF Sending
  <2>2. port = Cardinality(Ports)
    BY <1>1, <2>1, PortAssumption
  <2>3. OfPort = <<>>
    BY <1>1, <2>1 DEF OfPort
  <2>4. KeysBelow(xio, xval, port) \o OfPort = PortKeys(xio, xval)
    BY <2>1, <2>2, <2>3, ConcatEmptySeq DEF PortKeys, Word
  <2>5. emitted = expected
    BY <2>1, <2>4 DEF PortProgress
  <2> QED
    BY <1>1, <2>1, <2>5 DEF Progress, XioProgress, is_xio
<1> QED
  BY <1>2, <1>3

LEMMA ProgressStep == KeysInv /\ [Next]_vars => Progress'
<1> SUFFICES ASSUME KeysInv, [Next]_vars PROVE Progress'
  OBVIOUS
<1>1. ASSUME NEW x \in Expanders, NEW i \in Ports, Move(x, i) PROVE Progress'
  BY <1>1, ProgressRests DEF KeysInv, Move, history
<1>2. ASSUME NEW x \in Expanders, ReadExpander(x) \/ MisreadExpander(x)
      PROVE  Progress'
  BY <1>2, PollProgress DEF ReadExpander, MisreadExpander
<1>3. CASE Return
  BY <1>3 DEF Return, Progress
<1>4. CASE Proceed
  BY <1>4, SendNextProgress, PollNoExpanderProgress, NextPortProgress,
     NextPortKeyProgress, PortsDoneProgress, PinKeyProgress, PortKeyProgress
     DEF Proceed
<1>5. CASE UNCHANGED vars
  BY <1>5, ProgressRests DEF KeysInv, vars, history
<1> QED
  BY <1>1, <1>2, <1>3, <1>4, <1>5, CallProgress DEF Next, Continue

(* The three facts of KeysInv, also for a caller of send_gpio_keys() that  *)
(* is not SendKeys' own Next.                                              *)
LEMMA KeysInit == Init => KeysInv
BY SendInit, TypeInit, ProgressInit DEF KeysInv

LEMMA KeysStep == KeysInv /\ [Next]_vars => KeysInv'
BY SendStep, TypeStep, ProgressStep DEF KeysInv

LEMMA KeysCalled ==
  ASSUME KeysInv, NEW g \in Groups, NEW p \in Pins, Call(g, p)
  PROVE  KeysInv'
BY CallKeeps, CallTyped, CallProgress DEF KeysInv

LEMMA KeysInvariant == Spec => []KeysInv
<1> QED
  BY KeysInit, KeysStep, PTL DEF Spec

LEMMA KeysMean == KeysInv => AllKeysInOrder
<1> SUFFICES ASSUME KeysInv, AtReturn, clean PROVE emitted = expected
  BY DEF AllKeysInOrder
<1>1. pc = "loop" /\ ~got_more_keys(grp, gpio)
  BY DEF AtReturn
<1>2. CASE is_xio(gpio)
  BY <1>1, <1>2 DEF KeysInv, Progress, XioProgress
<1>3. CASE ~is_xio(gpio)
  <2>1. expected = EventKeys(grp, gpio)
        /\ emitted = SubSeq(expected, 1, Sent(last_gpio_key[grp]))
    BY <1>1, <1>3 DEF KeysInv, Progress, PinProgress
  <2>2. Sent(last_gpio_key[grp]) = Len(GpioKey[grp][gpio])
    BY <1>1, PinCounted DEF KeysInv
  <2>3. expected \in Word /\ Len(expected) = Len(GpioKey[grp][gpio])
    BY <2>1, EventKeysTyped DEF KeysInv, TypeOK
  <2>4. SubSeq(expected, 1, Len(expected)) = expected
    BY <2>3, SubSeqFull DEF Word
  <2> QED
    BY <2>1, <2>2, <2>3, <2>4
<1> QED
  BY <1>2, <1>3

(***************************************************************************)
(* pikeyd.conf:89 for lists of any length, any number of ports and every   *)
(* order of calls: an undisturbed call sends all keys of its pin, or of    *)
(* the changed ports, in order.                                            *)
(***************************************************************************)
THEOREM KeysInOrder == Spec => []AllKeysInOrder
<1> QED
  BY KeysMean, KeysInvariant, PTL

-----------------------------------------------------------------------------
(* SendKeys implements KeyTaps. *)

(* The key to be sent is that of the iterator, also in a call in which     *)
(* something failed, about which Progress says nothing.                    *)
Chosen ==
  /\ pc \in {"press", "release"} => ~is_xio(gpio)
  /\ pc \in Sending => is_xio(gpio)
  /\ pc = "press" =>
       LET n == Sent(last_gpio_key[grp])
       IN  n \in 1 .. Len(GpioKey[grp][gpio]) /\ key = GpioKey[grp][gpio][n].key
  /\ pc = "xpress" =>
       LET n == Sent(last_key[xio])
       IN  /\ port \in xval
           /\ n \in 1 .. Len(XioKey[xio][port]) /\ key = XioKey[xio][port][n]

TapsInv == KeysInv /\ Chosen

LEMMA SendNextChooses ==
  ASSUME SendInv, SendNext
  PROVE  Chosen'
<1> DEFINE n == Sent(last_gpio_key'[grp])
<1>1. /\ pc' = "press" /\ ~is_xio(gpio) /\ UNCHANGED <<grp, gpio>>
      /\ key' = Event(grp, last_gpio_key'[grp]).key
  BY DEF SendNext, args
<1>2. n \in 1 .. Len(GpioKey[grp][gpio]) /\ last_gpio_key'[grp] = <<gpio, n>>
  BY PinAdvanceCounts DEF SendNext
<1>3. key' = GpioKey[grp][gpio][n].key
  BY <1>1, <1>2 DEF Event
<1> QED
  BY <1>1, <1>2, <1>3 DEF Chosen, Sending, is_xio

LEMMA NextPortKeyChooses ==
  ASSUME SendInv, Chosen, NextPortKey
  PROVE  Chosen'
<1>1. /\ pc = "xloop" /\ is_xio(gpio) /\ UNCHANGED <<gpio, xio, port, xval>>
      /\ pc' \in {"xpress", "xloop"} /\ (pc' = "xpress" => port \in xval)
      /\ key' = XioKey[xio][port][last_key'[xio][2]]
  BY DEF NextPortKey, SendsChanges, Chosen, Sending, args
<1>2. /\ Sent(last_key'[xio]) \in 1 .. Len(XioKey[xio][port])
      /\ last_key'[xio][2] = Sent(last_key'[xio])
  BY PortAdvanceCounts
<1> QED
  BY <1>1, <1>2 DEF Chosen, Sending, is_xio

LEMMA ChosenStep == SendInv /\ Chosen /\ [Next]_vars => Chosen'
<1> SUFFICES ASSUME SendInv, Chosen, [Next]_vars PROVE Chosen'
  OBVIOUS
<1> USE DEF Chosen, Sending, is_xio
<1>1. CASE UNCHANGED vars \/ \E x \in Expanders, i \in Ports : Move(x, i)
  BY <1>1 DEF vars, Move, args, walk, xwalk
<1>2. CASE Return \/ \E g \in Groups, p \in Pins : Call(g, p)
  BY <1>2 DEF Return, Call
<1>3. CASE \E x \in Expanders : ReadExpander(x) \/ MisreadExpander(x)
  BY <1>3 DEF ReadExpander, MisreadExpander, PollNext, Poll, args
<1>4. CASE PollNoExpander \/ NextPort \/ PortsDone
  BY <1>4 DEF PollNoExpander, NextPort, PortsDone, args, walk
<1>5. CASE Press \/ Release
  BY <1>5 DEF Press, Release, args, walk, xwalk
<1>6. CASE SendNext \/ NextPortKey
  BY <1>6, SendNextChooses, NextPortKeyChooses
<1> QED
  BY <1>1, <1>2, <1>3, <1>4, <1>5, <1>6 DEF Next, Continue, Proceed

LEMMA TapsInvariant == Spec => []TapsInv
<1>1. Init => TapsInv
  BY KeysInit DEF TapsInv, Init, Chosen, Sending
<1>2. TapsInv /\ [Next]_vars => TapsInv'
  BY KeysStep, ChosenStep DEF TapsInv, KeysInv
<1> QED
  BY <1>1, <1>2, PTL DEF Spec

(* What is due, as numbers of keys. *)
LEMMA BeyondNext ==
  ASSUME NEW T, NEW word \in Seq(T), NEW n \in 1 .. Len(word)
  PROVE  /\ Beyond(word, n - 1) # <<>>
         /\ Head(Beyond(word, n - 1)) = word[n]
         /\ Tail(Beyond(word, n - 1)) = Beyond(word, n)
<1>1. Len(word) \in Nat /\ Len(word) \in n .. Len(word)
  BY LenProperties
<1>2. (n - 1) + 1 = n
  OBVIOUS
<1>3. Beyond(word, n - 1) = SubSeq(word, n, Len(word))
  BY <1>2 DEF Beyond
<1>4. /\ Head(SubSeq(word, n, Len(word))) = word[n]
      /\ Tail(SubSeq(word, n, Len(word))) = SubSeq(word, n + 1, Len(word))
  BY <1>1, HeadTailOfSubSeq
<1>5. SubSeq(word, n, Len(word)) # <<>>
  <2>1. \A k \in n .. Len(word) : word[k] \in T
    BY <1>1, ElementOfSeq
  <2> DEFINE left == SubSeq(word, n, Len(word))
  <2>2. left \in Seq(T) /\ Len(left) = Len(word) - n + 1
    BY <1>1, <2>1, SubSeqProperties
  <2>3. Len(left) # 0
    BY <1>1, <2>2
  <2> HIDE DEF left
  <2>4. left # <<>>
    BY <2>2, <2>3, EmptySeq
  <2> QED
    BY <2>4 DEF left
<1> QED
  BY <1>3, <1>4, <1>5 DEF Beyond

LEMMA BeyondEnds ==
  ASSUME NEW T, NEW word \in Seq(T)
  PROVE  Beyond(word, 0) = word /\ Beyond(word, Len(word)) = <<>>
<1>1. Len(word) \in Nat
  BY LenProperties
<1> QED
  BY <1>1, SubSeqFull, SubSeqEmpty DEF Beyond

(* The keys of a changed port are part of those of all changed ports.      *)
Grows(x, changed, i, j) ==
  \E rest \in Word : KeysBelow(x, changed, j) = KeysBelow(x, changed, i) \o rest

LEMMA KeysBelowGrow ==
  ASSUME NEW x \in Expanders, NEW changed, NEW i \in 0 .. Cardinality(Ports),
         NEW top \in i .. Cardinality(Ports)
  PROVE  Grows(x, changed, i, top)
<1> DEFINE C == Cardinality(Ports)
           grows(j) == Grows(x, changed, i, j)
           bad == {j \in i .. C : ~grows(j)}
<1>1. C \in Nat
  BY PortAssumption, FS_CardinalityType
<1>2. ASSUME bad # {} PROVE FALSE
  <2>1. bad \in SUBSET Nat
    BY <1>1
  <2>2. PICK j \in bad : \A k \in bad : j <= k
    <3> HIDE DEF bad
    <3> QED
      BY <1>2, <2>1, LeastNat
  <2>3. j \in i .. C /\ ~grows(j)
    OBVIOUS
  <2>4. j # i
    <3>1. KeysBelow(x, changed, i) \in Word /\ <<>> \in Word
      BY KeysBelowTyped, EmptySeq DEF Word
    <3>2. KeysBelow(x, changed, i) = KeysBelow(x, changed, i) \o <<>>
      BY <3>1, ConcatEmptySeq DEF Word
    <3>3. grows(i)
      BY <3>1, <3>2 DEF Grows
    <3> QED
      BY <2>3, <3>3
  <2>5. j - 1 \in i .. C /\ j - 1 \in Ports
    BY <1>1, <2>3, <2>4, PortAssumption
  <2>6. grows(j - 1)
    <3>1. j \in Nat
      BY <2>1
    <3> HIDE DEF bad
    <3>2. j - 1 \notin bad
      BY <2>2, <3>1
    <3> USE DEF bad
    <3> HIDE DEF grows
    <3> QED
      BY <2>5, <3>2
  <2>7. PICK rest \in Word :
          KeysBelow(x, changed, j - 1) = KeysBelow(x, changed, i) \o rest
    BY <2>6 DEF Grows
  <2> HIDE DEF bad, grows
  <2> DEFINE more == IF j - 1 \in changed THEN XioKey[x][j - 1] ELSE <<>>
             below == KeysBelow(x, changed, i)
  <2>8. KeysBelow(x, changed, j) = KeysBelow(x, changed, j - 1) \o more
    <3> DEFINE k == j - 1
    <3>1. k \in Ports /\ k + 1 = j
      BY <1>1, <2>3, <2>5
    <3> HIDE ListAssumption, PinAssumption DEF k, C
    <3>2. KeysBelow(x, changed, k + 1)
            = KeysBelow(x, changed, k) \o (IF k \in changed THEN XioKey[x][k] ELSE <<>>)
      BY <3>1, KeysBelowNext
    <3> QED
      BY <3>1, <3>2, Zenon DEF k
  <2>9. more \in Word /\ below \in Word
    <3>1. XioKey[x][j - 1] \in Word /\ <<>> \in Word
      BY <2>5, ListsOfEvents, EmptySeq DEF Word
    <3> QED
      BY <3>1, KeysBelowTyped
  <2> HIDE ListAssumption, PinAssumption DEF more, below, C
  <2>10. rest \o more \in Word /\ (below \o rest) \o more = below \o (rest \o more)
    BY <2>9, JoinWords
  <2>11. KeysBelow(x, changed, j) = below \o (rest \o more)
    BY <2>7, <2>8, <2>10, Zenon DEF below
  <2>12. grows(j)
    BY <2>10, <2>11, Zenon DEF below, grows, Grows
  <2> QED
    BY <2>3, <2>12
<1>3. top \notin bad
  BY <1>2
<1> HIDE DEF grows
<1>4. grows(top)
  BY <1>3
<1> QED
  BY <1>4 DEF grows

LEMMA PortKeysGrow ==
  ASSUME NEW x \in Expanders, NEW changed, NEW i \in 0 .. Cardinality(Ports)
  PROVE  \E rest \in Word : PortKeys(x, changed) = KeysBelow(x, changed, i) \o rest
<1>1. Cardinality(Ports) \in i .. Cardinality(Ports)
  BY PortAssumption, FS_CardinalityType
<1>2. Grows(x, changed, i, Cardinality(Ports))
  BY <1>1, KeysBelowGrow
<1> QED
  BY <1>2 DEF PortKeys, Grows

LEMMA PortKeyPlace ==
  ASSUME NEW x \in Expanders, NEW changed, NEW i \in Ports, i \in changed,
         NEW n \in 1 .. Len(XioKey[x][i])
  PROVE  LET k == Len(KeysBelow(x, changed, i)) + n
         IN  /\ k \in 1 .. Len(PortKeys(x, changed))
             /\ PortKeys(x, changed)[k] = XioKey[x][i][n]
<1> DEFINE below == KeysBelow(x, changed, i)
           list  == XioKey[x][i]
           upto  == KeysBelow(x, changed, i + 1)
           all   == PortKeys(x, changed)
<1>1. /\ Cardinality(Ports) \in Nat
      /\ i \in 0 .. Cardinality(Ports) /\ i + 1 \in 0 .. Cardinality(Ports)
      /\ Cardinality(Ports) \in i + 1 .. Cardinality(Ports)
  BY PortAssumption, FS_CardinalityType
<1>2. upto = below \o list
  BY KeysBelowNext
<1>3. below \in Word /\ list \in Word
  BY <1>1, KeysBelowTyped, ListsOfEvents DEF Word
<1>4. PICK rest \in Word : all = upto \o rest
  <2> DEFINE k == i + 1
  <2>1. k \in 0 .. Cardinality(Ports) /\ upto = KeysBelow(x, changed, k)
    BY <1>1
  <2> HIDE DEF k, upto, all
  <2>2. \E rest \in Word : PortKeys(x, changed) = KeysBelow(x, changed, k) \o rest
    BY <2>1, PortKeysGrow
  <2> QED
    BY <2>1, <2>2 DEF all
<1> HIDE DEF below, list, upto, all
<1>5. Len(below) \in Nat /\ Len(list) \in Nat /\ Len(rest) \in Nat
  BY <1>3, LenProperties DEF Word
<1>6. n \in 1 .. Len(list)
  BY DEF list
<1>7. /\ upto \in Word /\ Len(upto) = Len(below) + Len(list)
      /\ upto[Len(below) + n] = list[n]
  BY <1>2, <1>3, <1>5, <1>6, ConcatProperties DEF Word
<1>8. /\ Len(all) = Len(upto) + Len(rest)
      /\ all[Len(below) + n] = upto[Len(below) + n]
  <2> DEFINE k == Len(below) + n
             joined == upto \o rest
  <2>1. k \in 1 .. Len(upto) /\ Len(upto) \in Nat
    BY <1>5, <1>6, <1>7
  <2>2. upto \in Seq(Keys \cup {0}) /\ rest \in Seq(Keys \cup {0})
    BY <1>7 DEF Word
  <2> HIDE DEF k
  <2>3. k \in 1 .. Len(upto) + Len(rest) /\ k <= Len(upto)
    BY <1>5, <2>1
  <2>4. Len(joined) = Len(upto) + Len(rest) /\ joined[k] = upto[k]
    BY <2>2, <2>3, ConcatProperties
  <2> HIDE DEF joined
  <2>5. all = joined
    BY <1>4 DEF joined
  <2> QED
    BY <2>4, <2>5 DEF k
<1> QED
  BY <1>5, <1>6, <1>7, <1>8 DEF below, list, all

-----------------------------------------------------------------------------
(* The steps of SendKeys as steps of KeyTaps. *)

OrderStep ==
  \E keys \in Orders :
    /\ Ordered = <<>> /\ Ordered' = keys /\ Due' = keys
    /\ UNCHANGED <<Held, down, seen>>

DoneStep ==
  /\ Due = <<>> /\ Held = {} /\ Ordered' = <<>>
  /\ UNCHANGED <<Due, Held, down, seen>>

Stutter == UNCHANGED <<Ordered, Due, Held, down, seen>>

LEMMA StepsOfTaps ==
  /\ OrderStep \/ DoneStep => Taps!Next
  /\ Stutter => UNCHANGED Taps!vars
BY DEF OrderStep, DoneStep, Stutter, Taps!Next, Taps!Order, Taps!Done, Taps!vars

(* Steps that move no iterator. *)
LEMMA DueRests ==
  ASSUME UNCHANGED <<pc, args, walk, xwalk>>
  PROVE  UNCHANGED <<Ordered, Due>>
BY DEF Due, Ordered, AtPin, AtPort, Tapped, Sent, is_xio, args, walk, xwalk

LEMMA CallTaps ==
  ASSUME TapsInv, NEW g \in Groups, NEW p \in Pins, Call(g, p)
  PROVE  OrderStep \/ Stutter
<1>1. /\ pc = "idle" /\ pc' = "loop" /\ grp' = g /\ gpio' = p
      /\ last_gpio_key'[g] = NULL /\ UNCHANGED <<down, seen>>
  BY DEF Call, Restarted, TapsInv, KeysInv, SendInv, Shapes, keyboard
<1>2. Ordered = <<>> /\ Due = <<>> /\ Held = {} /\ Held' = {}
  BY <1>1 DEF Due, Ordered, AtPin, AtPort, Held
<1>3. CASE is_xio(p)
  <2>1. Ordered' = <<>> /\ Due' = <<>>
    BY <1>1, <1>3 DEF Due, Ordered, AtPin, AtPort, is_xio
  <2> QED
    BY <1>1, <1>2, <2>1 DEF Stutter
<1>4. CASE ~is_xio(p)
  <2>1. Ordered' = EventKeys(g, p) /\ Due' = Beyond(EventKeys(g, p), 0)
    BY <1>1, <1>4 DEF Due, Ordered, AtPin, AtPort, Tapped, Sent, is_xio
  <2>2. EventKeys(g, p) \in Orders /\ Beyond(EventKeys(g, p), 0) = EventKeys(g, p)
    BY EventKeysTyped, BeyondEnds DEF Orders, Word
  <2> QED
    BY <1>1, <1>2, <2>1, <2>2 DEF OrderStep
<1> QED
  BY <1>3, <1>4

LEMMA ReturnTaps ==
  ASSUME TapsInv, Return
  PROVE  DoneStep
<1>1. /\ pc = "loop" /\ ~got_more_keys(grp, gpio) /\ pc' = "idle"
      /\ UNCHANGED <<down, seen>>
  BY DEF Return, AtReturn, keyboard
<1>2. Ordered' = <<>> /\ Due' = <<>> /\ Held = {} /\ Held' = {}
  BY <1>1 DEF Due, Ordered, AtPin, AtPort, Held
<1>3. Due = <<>>
  <2>1. CASE is_xio(gpio)
    BY <1>1, <2>1 DEF Due, Ordered, AtPin, AtPort
  <2>2. CASE ~is_xio(gpio)
    <3>1. grp \in Groups /\ gpio \in Pins
      BY DEF TapsInv, KeysInv, SendInv, Shapes
    <3>2. Sent(last_gpio_key[grp]) = Len(EventKeys(grp, gpio))
      BY <1>1, <3>1, PinCounted, EventKeysTyped DEF TapsInv, KeysInv
    <3>3. Due = Beyond(EventKeys(grp, gpio), Len(EventKeys(grp, gpio)))
      BY <1>1, <2>2, <3>2 DEF Due, Ordered, AtPin, AtPort, Tapped
    <3>4. EventKeys(grp, gpio) \in Word
      BY <3>1, EventKeysTyped
    <3> QED
      BY <3>3, <3>4, BeyondEnds DEF Word
  <2> QED
    BY <2>1, <2>2
<1> QED
  BY <1>1, <1>2, <1>3 DEF DoneStep

LEMMA SendNextTaps ==
  ASSUME TapsInv, SendNext
  PROVE  Stutter
<1>1. /\ pc = "loop" /\ pc' = "press" /\ ~is_xio(gpio)
      /\ UNCHANGED <<grp, gpio, down, seen>>
  BY DEF SendNext, Advance, args, keyboard
<1>2. Sent(last_gpio_key'[grp]) = Sent(last_gpio_key[grp]) + 1
      /\ Sent(last_gpio_key[grp]) \in Nat
  BY <1>1, PinAdvanceCounts, PinCounted, ListsTyped
     DEF SendNext, TapsInv, KeysInv, SendInv, Shapes
<1>3. Tapped(last_gpio_key[grp])' = Tapped(last_gpio_key[grp])
  <2>1. Tapped(last_gpio_key[grp]) = Sent(last_gpio_key[grp])
    BY <1>1 DEF Tapped
  <2>2. Tapped(last_gpio_key[grp])' = Sent(last_gpio_key'[grp]) - 1
    BY <1>1 DEF Tapped, Sent
  <2> HIDE DEF Sent
  <2> QED
    BY <1>2, <2>1, <2>2
<1>4. Due' = Due
  BY <1>1, <1>3 DEF Due, Ordered, AtPin, AtPort, is_xio
<1> QED
  BY <1>1, <1>4 DEF Stutter, Held, Ordered, AtPin, AtPort

LEMMA PollTaps ==
  ASSUME TapsInv, PollNext, NEW x \in Expanders, NEW value, Poll(x, value)
  PROVE  OrderStep
<1> DEFINE changed == xval'
<1>1. /\ pc = "loop" /\ is_xio(gpio) /\ pc' = "xloop" /\ xio' = x /\ port' = 0
      /\ last_key'[x] = NULL /\ UNCHANGED <<down, seen>>
  BY DEF PollNext, Advance, Poll, Restarted, TapsInv, KeysInv, SendInv, Shapes,
         keyboard
<1>2. changed \in SUBSET Ports
  BY DEF Poll, Masked, inmask, SymDiff, TapsInv, KeysInv, TypeOK
<1>3. Ordered = <<>> /\ Held = {} /\ Held' = {}
  BY <1>1 DEF Due, Ordered, AtPin, AtPort, Held
<1>4. Ordered' = PortKeys(x, changed) /\ Due' = Beyond(PortKeys(x, changed), 0)
  <2>1. KeysBelow(x, changed, 0) = <<>> /\ Len(<<>>) = 0
    BY KeysBelowFirst
  <2>2. /\ Ordered' = PortKeys(x, changed)
        /\ Due' = Beyond(PortKeys(x, changed), Len(KeysBelow(x, changed, 0)) + 0)
    BY <1>1 DEF Due, Ordered, AtPin, AtPort, Tapped, Sent
  <2> QED
    BY <2>1, <2>2
<1>5. PortKeys(x, changed) \in Word
  <2>1. Cardinality(Ports) \in Nat
    BY PortAssumption, FS_CardinalityType
  <2> QED
    BY <2>1, KeysBelowTyped DEF PortKeys
<1>6. PortKeys(x, changed) \in Orders
  BY <1>2 DEF Orders
<1>7. Beyond(PortKeys(x, changed), 0) = PortKeys(x, changed)
  BY <1>5, BeyondEnds DEF Word
<1> QED
  BY <1>1, <1>3, <1>4, <1>6, <1>7 DEF OrderStep
LEMMA PollNoExpanderTaps ==
  ASSUME PollNoExpander
  PROVE  Stutter
<1>1. /\ pc = "loop" /\ is_xio(gpio) /\ pc' \in {"loop", "undefined"}
      /\ UNCHANGED <<gpio, down, seen>>
  BY DEF PollNoExpander, PollNext, Advance, args, keyboard
<1>2. Ordered = <<>> /\ Due = <<>> /\ Held = {} /\ Held' = {}
  BY <1>1 DEF Due, Ordered, AtPin, AtPort, Held
<1>3. Ordered' = <<>> /\ Due' = <<>>
  BY <1>1 DEF Due, Ordered, AtPin, AtPort, is_xio
<1> QED
  BY <1>1, <1>2, <1>3 DEF Stutter

(* The keys that a walk over the ports has tapped. *)
PortCount == Len(KeysBelow(xio, xval, port))
               + IF port \in xval THEN Tapped(last_key[xio]) ELSE 0

LEMMA WalkDue ==
  /\ pc \in Sending => Due = Beyond(PortKeys(xio, xval), PortCount)
  /\ pc' \in Sending => Due' = Beyond(PortKeys(xio', xval'), PortCount')
BY DEF Due, Ordered, AtPin, AtPort, PortCount, Sending

LEMMA WalkPlace ==
  ASSUME TapsInv, pc \in Sending
  PROVE  /\ is_xio(gpio) /\ xio \in Expanders /\ xval \subseteq Ports
         /\ port \in 0 .. Cardinality(Ports)
         /\ KeysBelow(xio, xval, port) \in Word
         /\ Len(KeysBelow(xio, xval, port)) \in Nat
<1>1. /\ is_xio(gpio) /\ xio \in Expanders /\ xval \subseteq Ports
      /\ port \in 0 .. Cardinality(Ports)
  BY DEF TapsInv, KeysInv, SendInv, Shapes, TypeOK, Chosen
<1>2. KeysBelow(xio, xval, port) \in Word
  BY <1>1, KeysBelowTyped
<1> QED
  BY <1>1, <1>2, LenProperties DEF Word

LEMMA NextPortTaps ==
  ASSUME TapsInv, NextPort
  PROVE  Stutter
<1> DEFINE below == KeysBelow(xio, xval, port)
           list  == XioKey[xio][port]
           upto  == KeysBelow(xio, xval, port + 1)
<1>1. /\ pc = "xloop" /\ pc' = "xloop" /\ port \in Ports /\ port' = port + 1
      /\ ~got_more_xio_keys(xio, port)
      /\ port' \in Ports => last_key' = [last_key EXCEPT ![xio] = NULL]
      /\ UNCHANGED <<xio, xval, down, seen>>
  BY DEF NextPort, Restarted, keyboard
<1>2. /\ xio \in Expanders /\ below \in Word /\ Len(below) \in Nat
      /\ list \in Word /\ Len(list) \in Nat
  BY <1>1, WalkPlace, ListsOfEvents, ListsTyped DEF Sending, Word
<1>3. Sent(last_key[xio]) = Len(list)
  BY <1>1, PortCounted DEF TapsInv, KeysInv, Sending
<1>4. upto = below \o (IF port \in xval THEN list ELSE <<>>)
  <2> DEFINE x == xio
             i == port
             changed == xval
  <2>1. x \in Expanders /\ i \in Ports
    BY <1>1, <1>2
  <2> HIDE DEF x, i, changed
  <2>2. KeysBelow(x, changed, i + 1)
          = KeysBelow(x, changed, i) \o (IF i \in changed THEN XioKey[x][i] ELSE <<>>)
    BY <2>1, KeysBelowNext
  <2> QED
    BY <2>2 DEF x, i, changed
<1>5. port' \in xval' => last_key'[xio'] = NULL
  BY <1>1, <1>2, WalkPlace DEF TapsInv, KeysInv, TypeOK, Sending
<1>6. PortCount' = Len(upto) + 0
  BY <1>1, <1>5 DEF PortCount, Tapped, Sent
<1>7. PortCount = Len(below) + IF port \in xval THEN Len(list) ELSE 0
  BY <1>1, <1>3 DEF PortCount, Tapped
<1> HIDE DEF below, list, upto
<1>8. Len(upto) = Len(below) + IF port \in xval THEN Len(list) ELSE 0
  <2>1. CASE port \in xval
    <3>1. Len(below \o list) = Len(below) + Len(list)
      BY <1>2, ConcatProperties DEF Word
    <3> QED
      BY <1>4, <2>1, <3>1
  <2>2. CASE port \notin xval
    <3>1. below \o <<>> = below
      BY <1>2, ConcatEmptySeq DEF Word
    <3> QED
      BY <1>2, <1>4, <2>2, <3>1
  <2> QED
    BY <2>1, <2>2
<1>9. PortCount' = PortCount
  BY <1>2, <1>6, <1>7, <1>8
<1>10. Due' = Due
  BY <1>1, <1>9, WalkDue DEF Sending
<1> QED
  BY <1>1, <1>10 DEF Stutter, Held, Ordered, AtPin, AtPort

LEMMA NextPortKeyTaps ==
  ASSUME TapsInv, NextPortKey
  PROVE  Stutter
<1>1. /\ pc = "xloop" /\ port \in Ports
      /\ pc' = IF port \in xval THEN "xpress" ELSE "xloop"
      /\ UNCHANGED <<xio, port, xval, down, seen>>
  BY DEF NextPortKey, SendsChanges, keyboard
<1>2. /\ Sent(last_key'[xio]) = Sent(last_key[xio]) + 1
      /\ Sent(last_key[xio]) \in Nat
  BY <1>1, PortAdvanceCounts, PortCounted, WalkPlace, ListsTyped
     DEF TapsInv, KeysInv, Sending
<1>3. PortCount' = PortCount
  <2>1. CASE port \notin xval
    BY <1>1, <2>1 DEF PortCount
  <2>2. CASE port \in xval
    <3>1. Tapped(last_key[xio])' = Sent(last_key'[xio]) - 1
      BY <1>1, <2>2 DEF Tapped, Sent
    <3>2. Tapped(last_key[xio]) = Sent(last_key[xio])
      BY <1>1 DEF Tapped
    <3>3. Tapped(last_key[xio])' = Tapped(last_key[xio])
      <4> HIDE DEF Sent
      <4> QED
        BY <1>2, <3>1, <3>2
    <3> QED
      BY <1>1, <2>2, <3>3 DEF PortCount
  <2> QED
    BY <2>1, <2>2
<1>4. Due' = Due
  BY <1>1, <1>3, WalkDue DEF Sending
<1> QED
  BY <1>1, <1>4 DEF Stutter, Held, Ordered, AtPin, AtPort

LEMMA PortsDoneTaps ==
  ASSUME TapsInv, PortsDone
  PROVE  DoneStep
<1>1. /\ pc = "xloop" /\ pc' = "loop" /\ port \notin Ports
      /\ UNCHANGED <<gpio, down, seen>>
  BY DEF PortsDone, args, keyboard
<1>2. /\ is_xio(gpio) /\ xval \subseteq Ports /\ port \in 0 .. Cardinality(Ports)
      /\ KeysBelow(xio, xval, port) \in Word
      /\ Len(KeysBelow(xio, xval, port)) \in Nat /\ Cardinality(Ports) \in Nat
  BY <1>1, WalkPlace, PortAssumption, FS_CardinalityType DEF Sending
<1>3. port = Cardinality(Ports)
  BY <1>1, <1>2, PortAssumption
<1>4. PortCount = Len(PortKeys(xio, xval)) /\ PortKeys(xio, xval) \in Word
  BY <1>1, <1>2, <1>3 DEF PortCount, PortKeys
<1>5. Due = Beyond(PortKeys(xio, xval), Len(PortKeys(xio, xval)))
  BY <1>1, <1>4, WalkDue DEF Sending
<1>6. Due = <<>>
  BY <1>4, <1>5, BeyondEnds DEF Word
<1>7. Ordered' = <<>> /\ Due' = <<>>
  BY <1>1, <1>2 DEF Due, Ordered, AtPin, AtPort, is_xio
<1> QED
  BY <1>1, <1>6, <1>7 DEF DoneStep, Held

(* What a press or a release does to the keyboard, if anything.            *)
LEMMA KeyBecomes ==
  /\ Press => Taps!Become(down \cup {key})
  /\ Release => Taps!Become(down \ {key})
BY DEF Press, Release, ReleaseSent, Written, NotWritten, Taps!Become, keyboard

(* The key that is pressed is the next of those that are due.              *)
TakesNext(word, n) ==
  /\ n \in 1 .. Len(word) /\ key = word[n]
  /\ Due = Beyond(word, n - 1) /\ Due' = Beyond(word, n) /\ Ordered' = Ordered

LEMMA PinPressTakes ==
  ASSUME TapsInv, Press, pc = "press"
  PROVE  \E word \in Word, n \in Nat : TakesNext(word, n)
<1> DEFINE word == EventKeys(grp, gpio)
           n == Sent(last_gpio_key[grp])
<1>1. /\ pc' = "release" /\ ~is_xio(gpio) /\ grp \in Groups /\ gpio \in Pins
      /\ UNCHANGED <<grp, gpio, last_gpio_key>>
      /\ n \in 1 .. Len(GpioKey[grp][gpio]) /\ key = GpioKey[grp][gpio][n].key
  BY DEF Press, args, walk, TapsInv, KeysInv, SendInv, Shapes, Chosen
<1>2. /\ word \in Word /\ Len(word) = Len(GpioKey[grp][gpio])
      /\ word[n] = GpioKey[grp][gpio][n].key
  BY <1>1, EventKeysTyped
<1>3. Due = Beyond(word, n - 1)
  BY <1>1 DEF Due, Ordered, AtPin, AtPort, Tapped
<1>4. Due' = Beyond(word, n) /\ Ordered' = Ordered
  BY <1>1 DEF Due, Ordered, AtPin, AtPort, Tapped, Sent, is_xio
<1>5. TakesNext(word, n) /\ n \in Nat
  <2>1. n \in 1 .. Len(word) /\ key = word[n]
    BY <1>1, <1>2
  <2> HIDE DEF n, word
  <2>2. n \in Nat
    BY <2>1
  <2> QED
    BY <1>3, <1>4, <2>1, <2>2 DEF TakesNext
<1> QED
  BY <1>2, <1>5

LEMMA PortPressTakes ==
  ASSUME TapsInv, Press, pc = "xpress"
  PROVE  \E word \in Word, n \in Nat : TakesNext(word, n)
<1> DEFINE word == PortKeys(xio, xval)
           s == Sent(last_key[xio])
           below == Len(KeysBelow(xio, xval, port))
<1>1. /\ pc' = "xrelease" /\ UNCHANGED <<xio, port, xval, last_key>>
      /\ port \in xval
      /\ s \in 1 .. Len(XioKey[xio][port]) /\ key = XioKey[xio][port][s]
  BY DEF Press, xwalk, TapsInv, Chosen
<1>2. xio \in Expanders /\ xval \subseteq Ports /\ port \in Ports /\ below \in Nat
  BY <1>1, WalkPlace DEF Sending
<1>3. word \in Word
  <2>1. Cardinality(Ports) \in 0 .. Cardinality(Ports)
    BY PortAssumption, FS_CardinalityType
  <2> QED
    BY <1>2, <2>1, KeysBelowTyped DEF PortKeys
<1>4. below + s \in 1 .. Len(word) /\ word[below + s] = XioKey[xio][port][s]
  BY <1>1, <1>2, PortKeyPlace
<1>5. PortCount = below + (s - 1)
  BY <1>1 DEF PortCount, Tapped
<1>6. PortCount' = below + s
  BY <1>1 DEF PortCount, Tapped, Sent
<1>7. /\ Due = Beyond(word, PortCount)
      /\ Due' = Beyond(word, PortCount') /\ Ordered' = Ordered
  BY <1>1, WalkDue DEF Sending, Ordered, AtPin, AtPort
<1>8. TakesNext(word, below + s) /\ below + s \in Nat
  <2> DEFINE n == below + s
  <2>1. key = word[n] /\ n \in 1 .. Len(word) /\ Due' = Beyond(word, n)
    BY <1>1, <1>4, <1>6, <1>7
  <2>2. s \in Nat
    <3> HIDE DEF s
    <3> QED
      BY <1>1
  <2> HIDE DEF s, below
  <2>3. below + (s - 1) = n - 1 /\ n \in Nat
    BY <1>2, <2>2
  <2>4. Due = Beyond(word, n - 1)
    BY <1>5, <1>7, <2>3
  <2> QED
    BY <1>7, <2>1, <2>3, <2>4 DEF TakesNext
<1> QED
  BY <1>3, <1>8

LEMMA PressTaps ==
  ASSUME TapsInv, Press
  PROVE  Taps!Next
<1>1. PICK word \in Word, n \in Nat : TakesNext(word, n)
  BY PinPressTakes, PortPressTakes DEF Press
<1>2. Due # <<>> /\ Head(Due) = key /\ Tail(Due) = Due' /\ Ordered' = Ordered
  BY <1>1, BeyondNext DEF TakesNext, Word
<1>3. Held = {} /\ Held' = {key}
  BY DEF Held, Press
<1>4. Taps!Become(down \cup Held')
  BY <1>3, KeyBecomes
<1> QED
  BY <1>2, <1>3, <1>4 DEF Taps!Next, Taps!Press

LEMMA ReleaseTaps ==
  ASSUME TapsInv, Release
  PROVE  Taps!Next
<1>1. Held = {key} /\ Held' = {}
  BY DEF Held, Release
<1>2. Due' = Due /\ Ordered' = Ordered
  <2>1. CASE pc = "release"
    BY <2>1 DEF Release, args, walk, Due, Ordered, AtPin, AtPort, Tapped, Sent,
                is_xio, TapsInv, Chosen
  <2>2. CASE pc = "xrelease"
    <3>1. /\ pc' = "xloop" /\ UNCHANGED <<xio, port, xval, last_key>>
      BY <2>2 DEF Release, xwalk
    <3>2. PortCount' = PortCount
      BY <2>2, <3>1 DEF PortCount, Tapped, Sent
    <3> QED
      BY <2>2, <3>1, <3>2, WalkDue DEF Sending, Ordered, AtPin, AtPort
  <2> QED
    BY <2>1, <2>2 DEF Release
<1>3. Taps!Become(down \ Held)
  BY <1>1, KeyBecomes
<1> QED
  BY <1>1, <1>2, <1>3 DEF Taps!Next, Taps!Release

LEMMA TapsInit == Init => Taps!Init
BY DEF Init, Due, Ordered, AtPin, AtPort, Held, Taps!Init

LEMMA TapsStep == TapsInv /\ [Next]_vars => [Taps!Next]_(Taps!vars)
<1> SUFFICES ASSUME TapsInv, [Next]_vars, ~(OrderStep \/ DoneStep \/ Stutter)
             PROVE  Taps!Next
  BY StepsOfTaps
<1>1. ASSUME UNCHANGED vars \/ \E x \in Expanders, i \in Ports : Move(x, i)
      PROVE  FALSE
  <2>1. UNCHANGED <<pc, args, walk, xwalk, key, down, seen>>
    BY <1>1 DEF vars, Move, keyboard
  <2>2. UNCHANGED <<Ordered, Due>>
    BY <2>1, DueRests
  <2>3. Held' = Held
    BY <2>1 DEF Held
  <2> QED
    BY <2>1, <2>2, <2>3 DEF Stutter
<1>2. ASSUME NEW g \in Groups, NEW p \in Pins, Call(g, p)
      PROVE  FALSE
  BY <1>2, CallTaps
<1>3. ASSUME NEW x \in Expanders, ReadExpander(x) \/ MisreadExpander(x)
      PROVE  FALSE
  BY <1>3, PollTaps DEF ReadExpander, MisreadExpander
<1>4. CASE Return
  BY <1>4, ReturnTaps
<1>5. CASE Proceed
  BY <1>5, SendNextTaps, PollNoExpanderTaps, NextPortTaps, NextPortKeyTaps,
     PortsDoneTaps, PressTaps, ReleaseTaps DEF Proceed
<1> QED
  BY <1>1, <1>2, <1>3, <1>4, <1>5 DEF Next, Continue

(***************************************************************************)
(* send_gpio_keys(), handle_iic_event() and their iterators implement      *)
(* KeyTaps, for all lists and all failures: no key is sent twice, passed   *)
(* over, out of order or before the release of the one before it.          *)
(***************************************************************************)
THEOREM TapsKept == Spec => KeepsPromise
<1> QED
  BY TapsInit, TapsStep, TapsInvariant, PTL DEF Spec, KeepsPromise, Taps!Spec
=============================================================================
