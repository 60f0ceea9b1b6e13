-------------------------- MODULE GpioPoll_proofs --------------------------
(***************************************************************************)
(* Theorems about GpioPoll, for every number of groups, every wiring and   *)
(* every choice of times: the inductive invariant HInv, the absence of     *)
(* cross-talk between matrix groups, and the refinement of ContactKeys.    *)
(***************************************************************************)
EXTENDS GpioPollHist, TLAPS

USE CountAssumption, ConfigAssumption, TimeAssumption DEF PollMasks

-----------------------------------------------------------------------------
(* Lemmas about the operators of one poll. *)

(* A poll sees only input pins, and changes only input pins. *)
LEMMA MaskedSets ==
  ASSUME HTypeOK, DebounceInv, NEW g \in Groups
  PROVE  /\ HighPins(g) \subseteq GpioMask[g]
         /\ GpioMask[g] \subseteq Pins
         /\ Changed(g, HighPins(g)) \subseteq GpioMask[g]
         /\ Pending(g, HighPins(g)) \subseteq GpioMask[g]
         /\ Pressed(g, HighPins(g)) \subseteq GpioMask[g] \ HighPins(g)
         /\ PendingAfter(g, HighPins(g)) \subseteq GpioMask[g]
BY DEF HTypeOK, TypeOK, DebounceInv, HighPins, Changed, SymDiff, Pending,
       Pressed, PendingAfter, Groups

(* The bounce counter counts to BounceTime and stays there. *)
LEMMA BounceTypes ==
  ASSUME TypeOK, NEW g \in Groups, NEW new_gpio
  PROVE  /\ Bounce(g, new_gpio) \in 0 .. BounceTime
         /\ BounceCount(g, new_gpio) \in 0 .. BounceTime
         /\ Settled(g, new_gpio) <=> Bounce(g, new_gpio) = BounceTime
<1>1. Bounce(g, new_gpio) \in 0 .. BounceTime
  BY DEF TypeOK, Bounce
<1> QED
  BY <1>1 DEF BounceCount, Settled

(* A timer moves between the four stages of mxkey.                         *)
LEMMA AdvanceType ==
  ASSUME NEW r \in Stage
  PROVE  /\ Advance(r) \in Stage
         /\ IdleTimer \in Stage
         /\ Expired(r) \in BOOLEAN
<1>1. NextStage \in [0 .. 3 -> 0 .. 3]
  BY DEF NextStage
<1>2. IdleTimer \in Stage
  BY DEF IdleTimer, Stage
<1>3. CASE r.idx = -1
  BY <1>2, <1>3 DEF Advance, Stage, Expired
<1>4. CASE r.idx # -1 /\ Expired(r)
  <2>1. r.idx \in 0 .. 3
    BY <1>4 DEF Stage
  <2>2. NextStage[r.idx] \in 0 .. 3
    BY <1>1, <2>1
  <2> QED
    BY <1>2, <1>4, <2>2 DEF Advance, Stage, Expired
<1>5. CASE r.idx # -1 /\ ~Expired(r)
  BY <1>2, <1>5 DEF Advance, Stage, Expired
<1> QED
  BY <1>3, <1>4, <1>5
-----------------------------------------------------------------------------
(* The steps of GpioPoll keep the types, for whoever takes them. *)

LEMMA TypesInit == Init => TypeOK
<1> SUFFICES ASSUME Init PROVE TypeOK
  OBVIOUS
<1>1. 0 \in Groups
  BY DEF Groups
<1>2. [idx |-> 0, t_now |-> 0, t_next |-> 0] \in Stage
  BY DEF Stage
<1>3. key_rpt \in [Groups -> [Pins -> Stage]]
  BY <1>2 DEF Init
<1>4. bounce_cnt \in [Groups -> 0 .. BounceTime]
  BY DEF Init
<1> QED
  BY <1>1, <1>3, <1>4 DEF Init, TypeOK, Nothing

LEMMA MoveTypes ==
  ASSUME TypeOK, NEW c \in Contacts, Move(c)
  PROVE  TypeOK'
BY DEF TypeOK, Move, SymDiff, debounce, timers, sent

LEMMA DriveTypes ==
  ASSUME TypeOK, Drive
  PROVE  TypeOK'
<1>1. Nothing \in [Groups -> SUBSET Pins]
  BY DEF Nothing
<1>2. driven' \subseteq Groups
  BY DEF LineDriven, Drive, TypeOK
<1> QED
  BY <1>1, <1>2 DEF TypeOK, Drive, debounce, timers

LEMMA PollTypes ==
  ASSUME TypeOK, Read
  PROVE  TypeOK'
<1> DEFINE n == HighPins(scan)
<1> USE DEF Read
<1>1. scan \in Groups /\ scan' \in Groups
  BY DEF TypeOK, Groups
<1>2. /\ n \subseteq Pins
      /\ Pending(scan, n) \subseteq Pins
      /\ Pressed(scan, n) \subseteq Pins
      /\ PendingAfter(scan, n) \subseteq Pins
  BY <1>1 DEF TypeOK, HighPins, Changed, SymDiff, Pending, Pressed, PendingAfter
<1>3. /\ last_gpio' \in [Groups -> SUBSET Pins]
      /\ cur_gpio' \in [Groups -> SUBSET Pins]
      /\ bounce_cnt' \in [Groups -> 0 .. BounceTime]
      /\ press' \in [Groups -> SUBSET Pins]
      /\ irq' \in [Groups -> SUBSET Pins]
  <2>1. BounceCount(scan, n) \in 0 .. BounceTime
    BY <1>1, BounceTypes
  <2>2. Interrupting(scan, n) \subseteq Pins
    BY DEF Interrupting
  <2> HIDE DEF n
  <2> QED
    BY <1>1, <1>2, <2>1, <2>2 DEF TypeOK, Debounce, Nothing, n
<1>4. /\ prev_gpio' \in [Groups -> SUBSET Pins]
      /\ repeat' \in [Groups -> SUBSET Pins]
      /\ key_rpt' \in [Groups -> [Pins -> Stage]]
  <2>1. StillLow(scan, GpioMask[scan] \ n) \subseteq Pins
    BY <1>1 DEF StillLow
  <2>2. \A p \in Pins : /\ key_rpt[scan][p] \in Stage
                        /\ Advance(key_rpt[scan][p]) \in Stage
                        /\ IdleTimer \in Stage
    <3>1. \A p \in Pins : key_rpt[scan][p] \in Stage
      BY <1>1 DEF TypeOK
    <3> QED
      BY <3>1, AdvanceType
  <2>3. [p \in Pins |-> IF p \notin Repeats(scan) THEN key_rpt[scan][p]
                        ELSE IF p \in StillLow(scan, GpioMask[scan] \ n)
                             THEN Advance(key_rpt[scan][p])
                             ELSE IdleTimer] \in [Pins -> Stage]
    BY <2>2
  <2> HIDE DEF n
  <2>4. GpioMask[scan] \ n \subseteq Pins
    BY <1>1
  <2> QED
    BY <1>1, <2>1, <2>3, <2>4 DEF TypeOK, HandleRepeat, Nothing, n
<1>5. /\ closed' \subseteq Contacts
      /\ driven' \subseteq Groups
      /\ reading' \in BOOLEAN
  BY DEF TypeOK, LineReleased, Contacts
<1> QED
  BY <1>1, <1>3, <1>4, <1>5 DEF TypeOK

-----------------------------------------------------------------------------
(* The inductive invariant, one conjunct after another.                    *)

LEMMA InitInv == HInit => HInv
<1> SUFFICES ASSUME HInit PROVE HInv
  OBVIOUS
<1> USE DEF HInit, Init, Promise!ReadsInit, Promise!OfContacts, Nothing
<1>1. HTypeOK
  <2>1. TypeOK
    BY TypesInit DEF HInit
  <2>2. quiet \in [Groups -> 0 .. BounceTime + 1]
    BY DEF HInit
  <2>3. /\ lows \in [Groups -> [Pins -> 0 .. BounceTime + 1]]
        /\ told \in [Groups -> [Pins -> BOOLEAN]]
        /\ held \in [Groups -> [Pins -> Nat]]
        /\ stage \in [Groups -> [Pins -> 0 .. 3]]
    BY DEF HInit
  <2> QED
    BY <2>1, <2>2, <2>3 DEF HTypeOK
<1>2. DebounceInv
  BY DEF DebounceInv, Promise!IsLow
<1>3. RepeatInv
  <2> SUFFICES ASSUME NEW g \in Groups, NEW p \in Repeats(g)
               PROVE  /\ prev_gpio[g] = GpioMask[g] \ last_gpio[g]
                      /\ p \in Pins
                      /\ held[g][p] = 0 /\ stage[g][p] = 0
    BY DEF RepeatInv
  <2> QED
    BY DEF Repeats
<1>4. LineInv
  BY DEF LineInv
<1> QED
  BY <1>1, <1>2, <1>3, <1>4 DEF HInv

LEMMA ReadTypes ==
  ASSUME HTypeOK, HRead
  PROVE  HTypeOK'
<1> USE DEF HRead
<1>1. TypeOK' /\ scan \in Groups
  BY PollTypes DEF HTypeOK, TypeOK
<1>2. /\ quiet' \in [Groups -> 0 .. BounceTime + 1]
      /\ lows' \in [Groups -> [Pins -> 0 .. BounceTime + 1]]
      /\ told' \in [Groups -> [Pins -> BOOLEAN]]
      /\ held' \in [Groups -> [Pins -> Nat]]
      /\ stage' \in [Groups -> [Pins -> 0 .. 3]]
  BY <1>1 DEF HTypeOK, Promise!CountReads, Promise!Count, Promise!StageAfter
<1> QED
  BY <1>1, <1>2 DEF HTypeOK

(* What one poll of scan does to the state of scan, and to no other group. *)
LEMMA ReadEffect ==
  ASSUME HTypeOK, HRead
  PROVE  LET g == scan
             n == HighPins(scan)
         IN  /\ last_gpio'[g] = n
             /\ bounce_cnt'[g] = BounceCount(g, n)
             /\ cur_gpio'[g] = PendingAfter(g, n)
             /\ press'[g] = Pressed(g, n)
             /\ prev_gpio'[g] = GpioMask[g] \ n
             /\ \A h \in Groups \ {g} :
                  /\ last_gpio'[h] = last_gpio[h]
                  /\ bounce_cnt'[h] = bounce_cnt[h]
                  /\ cur_gpio'[h] = cur_gpio[h]
                  /\ prev_gpio'[h] = prev_gpio[h]
                  /\ key_rpt'[h] = key_rpt[h]
                  /\ press'[h] = {} /\ repeat'[h] = {}
                  /\ quiet'[h] = quiet[h]
                  /\ lows'[h] = lows[h]
                  /\ told'[h] = told[h]
                  /\ held'[h] = held[h]
                  /\ stage'[h] = stage[h]
<1> DEFINE n == HighPins(scan)
<1>1. scan \in Groups
  BY DEF HTypeOK, TypeOK
<1>2. Debounce(scan, n) /\ HandleRepeat(scan, GpioMask[scan] \ n)
  BY DEF HRead, Read
<1>3. Promise!CountReads(scan, GpioMask[scan] \ last_gpio'[scan])
  BY DEF HRead
<1> HIDE DEF n
<1>4. /\ last_gpio'[scan] = n
      /\ bounce_cnt'[scan] = BounceCount(scan, n)
      /\ cur_gpio'[scan] = PendingAfter(scan, n)
      /\ press'[scan] = Pressed(scan, n)
      /\ prev_gpio'[scan] = GpioMask[scan] \ n
  BY <1>1, <1>2 DEF HTypeOK, TypeOK, Debounce, HandleRepeat, Nothing
<1>5. \A h \in Groups \ {scan} :
        /\ last_gpio'[h] = last_gpio[h]
        /\ bounce_cnt'[h] = bounce_cnt[h]
        /\ cur_gpio'[h] = cur_gpio[h]
        /\ prev_gpio'[h] = prev_gpio[h]
        /\ key_rpt'[h] = key_rpt[h]
        /\ press'[h] = {} /\ repeat'[h] = {}
  BY <1>1, <1>2 DEF HTypeOK, TypeOK, Debounce, HandleRepeat, Nothing
<1>6. \A h \in Groups \ {scan} :
        /\ quiet'[h] = quiet[h]
        /\ lows'[h] = lows[h]
        /\ told'[h] = told[h]
        /\ held'[h] = held[h]
        /\ stage'[h] = stage[h]
  BY <1>1, <1>3 DEF HTypeOK, Promise!CountReads
<1> QED
  BY <1>4, <1>5, <1>6 DEF n

(* What the counts of the contacts of scan become. *)
LEMMA ReadCounts ==
  ASSUME HTypeOK, HRead
  PROVE  LET g   == scan
             low == GpioMask[scan] \ HighPins(scan)
         IN  /\ quiet'[g] = IF \A p \in GpioMask[g] : Promise!IsLow(g, p) <=> p \in low
                            THEN Promise!Count(quiet[g]) ELSE 0
             /\ \A p \in Pins :
                  /\ lows'[g][p] = IF p \in low THEN Promise!Count(lows[g][p]) ELSE 0
                  /\ told'[g][p] = (p \in low /\ (told[g][p] \/ p \in press'[g]))
                  /\ held'[g][p] = IF p \in (low \cap Repeats(g)) \ Promise!Ending(g, low)
                                   THEN held[g][p] + 1 ELSE 0
                  /\ stage'[g][p] = IF p \notin low THEN 0
                                    ELSE IF p \in Promise!Ending(g, low)
                                    THEN Promise!StageAfter(stage[g][p])
                                    ELSE stage[g][p]
<1> DEFINE low == GpioMask[scan] \ HighPins(scan)
<1>1. scan \in Groups
  BY DEF HTypeOK, TypeOK
<1>2. Promise!CountReads(scan, low)
  BY ReadEffect DEF HRead
<1> HIDE DEF low
<1> QED
  BY <1>1, <1>2 DEF HTypeOK, Promise!CountReads, low
(* One poll keeps the debounce state in step with the contacts' history.   *)
LEMMA ReadKeepsDebounce ==
  ASSUME HTypeOK, DebounceInv, HRead
  PROVE  DebounceInv'
<1> DEFINE n == HighPins(scan)
           low == GpioMask[scan] \ n
<1>1. scan \in Groups
  BY DEF HTypeOK, TypeOK
<1>2. /\ n \subseteq GpioMask[scan]
      /\ GpioMask[scan] \subseteq Pins
      /\ PendingAfter(scan, n) \subseteq GpioMask[scan]
  BY <1>1, MaskedSets
<1>3. /\ bounce_cnt[scan] \in 0 .. BounceTime
      /\ quiet[scan] \in 0 .. BounceTime + 1
      /\ lows[scan] \in [Pins -> 0 .. BounceTime + 1]
      /\ told[scan] \in [Pins -> BOOLEAN]
  BY <1>1 DEF HTypeOK, TypeOK
<1> HIDE DEF n
<1>4. /\ last_gpio'[scan] = n
      /\ bounce_cnt'[scan] = BounceCount(scan, n)
      /\ cur_gpio'[scan] = PendingAfter(scan, n)
      /\ press'[scan] = Pressed(scan, n)
  BY ReadEffect DEF n
<1>5. /\ quiet'[scan] = IF \A p \in GpioMask[scan] : Promise!IsLow(scan, p) <=> p \in low
                        THEN Promise!Count(quiet[scan]) ELSE 0
      /\ \A p \in Pins :
           /\ lows'[scan][p] = IF p \in low THEN Promise!Count(lows[scan][p]) ELSE 0
           /\ told'[scan][p] = (p \in low /\ (told[scan][p] \/ p \in press'[scan]))
  BY ReadCounts DEF n
<1>6. /\ last_gpio[scan] \subseteq GpioMask[scan]
      /\ \A p \in Pins :
           LET was == p \in GpioMask[scan] \ last_gpio[scan]
           IN  /\ Promise!IsLow(scan, p) <=> was
               /\ told[scan][p] => was
               /\ was => /\ told[scan][p] <=> p \notin cur_gpio[scan]
                         /\ bounce_cnt[scan] <= lows[scan][p]
                         /\ \/ quiet[scan] < bounce_cnt[scan]
                            \/ bounce_cnt[scan] = BounceTime
  BY <1>1 DEF DebounceInv
(* A changed group starts counting again; an unchanged one counts on.      *)
<1>7. Changed(scan, n) = {} <=> \A p \in GpioMask[scan] : Promise!IsLow(scan, p) <=> p \in low
  BY <1>2, <1>6 DEF Changed, SymDiff
<1>8. ASSUME NEW p \in low
      PROVE  /\ bounce_cnt'[scan] <= lows'[scan][p]
             /\ \/ quiet'[scan] < bounce_cnt'[scan]
                \/ bounce_cnt'[scan] = BounceTime
  <2>1. lows'[scan][p] = Promise!Count(lows[scan][p]) /\ lows[scan][p] \in 0 .. BounceTime + 1
    BY <1>2, <1>3, <1>5
  <2>2. CASE Changed(scan, n) = {}
    <3>1. Promise!IsLow(scan, p) /\ p \in GpioMask[scan] \ last_gpio[scan] /\ p \in Pins
      BY <1>2, <1>6, <1>7, <2>2
    <3>2. /\ bounce_cnt[scan] <= lows[scan][p]
          /\ quiet[scan] < bounce_cnt[scan] \/ bounce_cnt[scan] = BounceTime
      BY <1>6, <3>1
    <3>3. /\ quiet'[scan] = Promise!Count(quiet[scan])
          /\ bounce_cnt'[scan] = IF bounce_cnt[scan] >= BounceTime
                                 THEN bounce_cnt[scan] ELSE bounce_cnt[scan] + 1
      BY <1>4, <1>5, <1>7, <2>2 DEF BounceCount, Settled, Bounce
    <3> QED
      BY <1>3, <2>1, <3>2, <3>3 DEF Promise!Count
  <2>3. CASE Changed(scan, n) # {}
    <3>1. /\ quiet'[scan] = 0
          /\ bounce_cnt'[scan] = IF 0 >= BounceTime THEN 0 ELSE 1
      BY <1>4, <1>5, <1>7, <2>3 DEF BounceCount, Settled, Bounce
    <3> QED
      BY <2>1, <3>1 DEF Promise!Count
  <2> QED
    BY <2>2, <2>3
(* A low pin is pending until the poll at which it is reported.            *)
<1>9. ASSUME NEW p \in low
      PROVE  told'[scan][p] <=> p \notin cur_gpio'[scan]
  <2>1. p \in Pins /\ p \in GpioMask[scan] /\ p \notin n
    BY <1>2
  <2>2. told'[scan][p] <=> told[scan][p] \/ p \in press'[scan]
    BY <1>3, <1>5, <2>1
  <2>3. told[scan][p] <=> p \notin Pending(scan, n)
    BY <1>6, <2>1 DEF Pending, Changed, SymDiff
  <2> QED
    BY <1>4, <2>1, <2>2, <2>3 DEF Pressed, PendingAfter
<1>10. ASSUME NEW p \in Pins
       PROVE  (lows'[scan][p] > 0 <=> p \in low) /\ (told'[scan][p] => p \in low)
  <2>1. lows[scan][p] \in 0 .. BounceTime + 1
    BY <1>3
  <2>2. Promise!Count(lows[scan][p]) > 0
    BY <2>1 DEF Promise!Count
  <2>3. lows'[scan][p] = IF p \in low THEN Promise!Count(lows[scan][p]) ELSE 0
    BY <1>5
  <2>4. told'[scan][p] => p \in low
    BY <1>5
  <2> QED
    BY <2>2, <2>3, <2>4
<1>11. ASSUME NEW g \in Groups, g # scan
       PROVE  /\ last_gpio'[g] = last_gpio[g]
              /\ bounce_cnt'[g] = bounce_cnt[g]
              /\ cur_gpio'[g] = cur_gpio[g]
              /\ quiet'[g] = quiet[g]
              /\ lows'[g] = lows[g]
              /\ told'[g] = told[g]
  BY <1>11, ReadEffect
<1> SUFFICES ASSUME NEW g \in Groups
             PROVE  (/\ last_gpio[g] \subseteq GpioMask[g]
                     /\ cur_gpio[g] \subseteq GpioMask[g]
                     /\ \A p \in Pins :
                          LET low_p == p \in GpioMask[g] \ last_gpio[g]
                          IN  /\ Promise!IsLow(g, p) <=> low_p
                              /\ told[g][p] => low_p
                              /\ low_p => /\ told[g][p] <=> p \notin cur_gpio[g]
                                          /\ bounce_cnt[g] <= lows[g][p]
                                          /\ \/ quiet[g] < bounce_cnt[g]
                                             \/ bounce_cnt[g] = BounceTime)'
  BY DEF DebounceInv
<1>12. CASE g = scan
  BY <1>2, <1>4, <1>8, <1>9, <1>10, <1>12 DEF Promise!IsLow
<1>13. CASE g # scan
  BY <1>11, <1>13 DEF DebounceInv, Promise!IsLow
<1> QED
  BY <1>12, <1>13
-----------------------------------------------------------------------------
(* The repeat timers. *)

(* Distributing Tick, once for all. *)
LEMMA TickTimes ==
  ASSUME NEW h \in Int
  PROVE  /\ Tick * h \in Int
         /\ Tick * (h + 1) = Tick * h + Tick
         /\ Tick * (h - 2) = Tick * h - 2 * Tick
         /\ Tick * (h - 1) = Tick * h - Tick
         /\ Tick * 0 = 0 /\ Tick * 1 = Tick /\ Tick * 2 = 2 * Tick
<1>1. Tick \in Int
  OBVIOUS
<1> QED
  BY <1>1, Z3

(* What RepeatInv says of one repeating contact. *)
LEMMA TimerCases ==
  ASSUME HTypeOK, RepeatInv, NEW g \in Groups, NEW p \in Repeats(g)
  PROVE  LET r == key_rpt[g][p]
             h == held[g][p]
             s == stage[g][p]
         IN  /\ p \in Pins
             /\ r \in Stage /\ h \in Nat /\ s \in 0 .. 3
             /\ p \notin prev_gpio[g] => h = 0 /\ s = 0
             /\ p \in prev_gpio[g] => TimerMatches(r, h, s)
<1>1. p \in Pins
  BY DEF Repeats
<1>2. /\ key_rpt[g][p] \in Stage
      /\ held[g][p] \in Nat
      /\ stage[g][p] \in 0 .. 3
  BY <1>1 DEF HTypeOK, TypeOK
<1> QED
  BY <1>1, <1>2 DEF RepeatInv

(* A timer expires exactly when ContactKeys says that the contact is due.  *)
LEMMA ExpiredIsDue ==
  ASSUME HTypeOK, RepeatInv, NEW g \in Groups, NEW p \in Repeats(g)
  PROVE  (p \in prev_gpio[g] /\ Expired(key_rpt[g][p])) <=> Promise!Due(g, p)
<1> DEFINE r == key_rpt[g][p]
           h == held[g][p]
           s == stage[g][p]
<1>1. /\ r \in Stage /\ h \in Nat /\ s \in 0 .. 3
      /\ p \notin prev_gpio[g] => h = 0 /\ s = 0
      /\ p \in prev_gpio[g] => TimerMatches(r, h, s)
  BY TimerCases
<1>2. Promise!Due(g, p) <=>
        Tick * (h + 1) >= IF s = 0 THEN 3 * Tick + RptTime[0] ELSE RptTime[s]
  BY DEF Promise!Due, Promise!Delay
<1>3. Expired(r) <=> r.idx # -1 /\ r.t_now + Tick >= r.t_next
  BY DEF Expired
<1> HIDE DEF r, h, s
<1>4. /\ Tick * h \in Int
      /\ Tick * (h + 1) = Tick * h + Tick
      /\ Tick * (h - 2) = Tick * h - 2 * Tick
      /\ Tick * 0 = 0 /\ Tick * 1 = Tick
  BY <1>1, TickTimes
<1>5. RptTime[0] \in Nat /\ RptTime[s] \in Nat
  BY <1>1
<1>6. CASE p \notin prev_gpio[g]
  BY <1>1, <1>2, <1>4, <1>5, <1>6 DEF r
<1>7. CASE p \in prev_gpio[g] /\ s = 0 /\ h = 1 /\ r.idx = -1
  <2>1. Tick * (h + 1) = Tick + Tick
    BY <1>4, <1>7
  <2> QED
    BY <1>2, <1>3, <1>5, <1>7, <2>1 DEF r
<1>8. CASE /\ p \in prev_gpio[g] /\ s = 0 /\ h >= 2 /\ r.idx = 0
           /\ r.t_now = Tick * (h - 2)
           /\ r.t_next = Tick + RptTime[0]
  BY <1>2, <1>3, <1>4, <1>5, <1>8 DEF r
<1>9. CASE /\ p \in prev_gpio[g] /\ s > 0 /\ r.idx = s
           /\ r.t_now = Tick * h
           /\ r.t_next = RptTime[s]
  BY <1>1, <1>2, <1>3, <1>4, <1>5, <1>9 DEF r
<1> QED
  BY <1>1, <1>6, <1>7, <1>8, <1>9 DEF TimerMatches

(* The contacts a poll of scan repeats. *)
LEMMA ReadRepeats ==
  ASSUME HTypeOK, RepeatInv, HRead
  PROVE  LET low == GpioMask[scan] \ HighPins(scan)
         IN  /\ repeat'[scan] = Promise!Ending(scan, low)
             /\ \A p \in Repeats(scan) :
                  key_rpt'[scan][p] = IF p \in low \cap prev_gpio[scan]
                                      THEN Advance(key_rpt[scan][p])
                                      ELSE IdleTimer
<1> DEFINE low == GpioMask[scan] \ HighPins(scan)
<1>1. scan \in Groups
  BY DEF HTypeOK, TypeOK
<1>2. HandleRepeat(scan, low)
  BY DEF HRead, Read
<1>3. \A p \in Repeats(scan) : p \in Pins
  BY <1>1 DEF Repeats
<1> HIDE DEF low
<1>4. repeat'[scan] = {p \in (low \cap prev_gpio[scan]) \cap Repeats(scan) :
                         Expired(key_rpt[scan][p])}
  BY <1>1, <1>2 DEF HandleRepeat, StillLow, Nothing
<1>5. \A p \in Repeats(scan) :
        key_rpt'[scan][p] = IF p \in low \cap prev_gpio[scan]
                            THEN Advance(key_rpt[scan][p])
                            ELSE IdleTimer
  BY <1>1, <1>2, <1>3 DEF HandleRepeat, StillLow, HTypeOK, TypeOK
<1>6. \A p \in Repeats(scan) :
        (p \in prev_gpio[scan] /\ Expired(key_rpt[scan][p])) <=> Promise!Due(scan, p)
  BY <1>1, ExpiredIsDue
<1> QED
  BY <1>1, <1>4, <1>5, <1>6 DEF low, Promise!Ending
(* One poll keeps the timers in step with the contacts' history.           *)
LEMMA ReadKeepsRepeat ==
  ASSUME HTypeOK, DebounceInv, RepeatInv, HRead
  PROVE  RepeatInv'
<1> DEFINE low == GpioMask[scan] \ HighPins(scan)
<1>1. scan \in Groups
  BY DEF HTypeOK, TypeOK
<1>2. prev_gpio'[scan] = GpioMask[scan] \ last_gpio'[scan] /\ prev_gpio'[scan] = low
  BY ReadEffect
<1>3. ASSUME NEW p \in Repeats(scan)
      PROVE  LET r == key_rpt'[scan][p]
                 h == held'[scan][p]
                 s == stage'[scan][p]
             IN  /\ p \notin low => h = 0 /\ s = 0
                 /\ p \in low => TimerMatches(r, h, s)
  <2> DEFINE r == key_rpt[scan][p]
             h == held[scan][p]
             s == stage[scan][p]
             due == Promise!Due(scan, p)
  <2>1. /\ p \in Pins
        /\ r \in Stage /\ h \in Nat /\ s \in 0 .. 3
        /\ p \notin prev_gpio[scan] => h = 0 /\ s = 0
        /\ p \in prev_gpio[scan] => TimerMatches(r, h, s)
    BY <1>1, TimerCases
  <2>2. /\ p \in Promise!Ending(scan, low) <=> p \in low /\ due
        /\ key_rpt'[scan][p] = IF p \in low \cap prev_gpio[scan]
                               THEN Advance(r) ELSE IdleTimer
    BY <1>1, ReadRepeats DEF Promise!Ending
  <2>3. /\ held'[scan][p] = IF p \in low /\ ~due THEN h + 1 ELSE 0
        /\ stage'[scan][p] = IF p \notin low THEN 0
                             ELSE IF due THEN Promise!StageAfter(s) ELSE s
    BY <2>1, <2>2, ReadCounts
  <2>4. p \in prev_gpio[scan] /\ Expired(r) <=> due
    BY <1>1, ExpiredIsDue
  <2> HIDE DEF low, r, h, s, due
  <2>5. CASE p \notin low
    BY <2>3, <2>5
  <2>6. CASE p \in low /\ p \notin prev_gpio[scan]
    BY <2>1, <2>2, <2>3, <2>4, <2>6 DEF IdleTimer, TimerMatches
  <2>7. CASE p \in low \cap prev_gpio[scan] /\ r.idx = -1
    (* The second low read starts the timer. *)
    <3>1. s = 0 /\ h = 1 /\ ~due
      BY <2>1, <2>4, <2>7 DEF Expired, TimerMatches
    <3>2. key_rpt'[scan][p] = [idx |-> 0, t_now |-> 0, t_next |-> Tick + RptTime[0]]
      BY <2>2, <2>7 DEF Advance
    <3>3. held'[scan][p] = 2 /\ stage'[scan][p] = 0
      BY <2>3, <2>7, <3>1
    <3> QED
      BY <2>7, <3>2, <3>3, TickTimes DEF TimerMatches
  <2>8. CASE p \in low \cap prev_gpio[scan] /\ r.idx # -1 /\ Expired(r)
    (* The repeat starts the next delay. *)
    <3>1. r.idx = s
      BY <2>1, <2>8 DEF TimerMatches
    <3>2. NextStage[s] = Promise!StageAfter(s) /\ Promise!StageAfter(s) \in 1 .. 3
      BY <2>1 DEF NextStage, Promise!StageAfter
    <3>3. key_rpt'[scan][p] = [idx |-> NextStage[s], t_now |-> 0,
                               t_next |-> RptTime[NextStage[s]]]
      BY <2>2, <2>8, <3>1 DEF Advance
    <3>4. held'[scan][p] = 0 /\ stage'[scan][p] = Promise!StageAfter(s)
      BY <2>3, <2>4, <2>8
    <3>5. Tick * 0 = 0
      BY TickTimes
    <3> QED
      BY <2>8, <3>2, <3>3, <3>4, <3>5 DEF TimerMatches
  <2>9. CASE p \in low \cap prev_gpio[scan] /\ r.idx # -1 /\ ~Expired(r)
    (* The timer runs on. *)
    <3>1. key_rpt'[scan][p] = [r EXCEPT !.t_now = @ + Tick]
      BY <2>2, <2>9 DEF Advance
    <3>2. held'[scan][p] = h + 1 /\ stage'[scan][p] = s
      BY <2>3, <2>4, <2>9
    <3>3. /\ key_rpt'[scan][p].idx = r.idx
          /\ key_rpt'[scan][p].t_now = r.t_now + Tick
          /\ key_rpt'[scan][p].t_next = r.t_next
      BY <2>1, <3>1 DEF Stage
    <3>4. /\ Tick * h \in Int /\ Tick * (h - 1) \in Int
          /\ Tick * (h + 1) = Tick * h + Tick
          /\ Tick * (h - 2) = Tick * h - 2 * Tick
          /\ Tick * (h - 1) = Tick * h - Tick
      BY <2>1, TickTimes
    <3>5. (h + 1) - 2 = h - 1
      BY <2>1
    <3>6. CASE s = 0 /\ h >= 2 /\ r.idx = 0 /\ r.t_now = Tick * (h - 2)
               /\ r.t_next = Tick + RptTime[0]
      BY <2>1, <2>9, <3>2, <3>3, <3>4, <3>5, <3>6 DEF TimerMatches
    <3>7. CASE s > 0 /\ r.idx = s /\ r.t_now = Tick * h /\ r.t_next = RptTime[s]
      BY <2>9, <3>2, <3>3, <3>4, <3>7 DEF TimerMatches
    <3> QED
      BY <2>1, <2>9, <3>6, <3>7 DEF TimerMatches
  <2> QED
    BY <2>5, <2>6, <2>7, <2>8, <2>9
<1> HIDE DEF low
<1>4. ASSUME NEW g \in Groups, g # scan
      PROVE  /\ prev_gpio'[g] = prev_gpio[g] /\ last_gpio'[g] = last_gpio[g]
             /\ key_rpt'[g] = key_rpt[g]
             /\ held'[g] = held[g] /\ stage'[g] = stage[g]
  BY <1>4, ReadEffect
<1> SUFFICES ASSUME NEW g \in Groups
             PROVE  /\ prev_gpio'[g] = GpioMask[g] \ last_gpio'[g]
                    /\ \A p \in Repeats(g) :
                         LET r == key_rpt'[g][p]
                             h == held'[g][p]
                             s == stage'[g][p]
                         IN  /\ p \notin prev_gpio'[g] => h = 0 /\ s = 0
                             /\ p \in prev_gpio'[g] => TimerMatches(r, h, s)
  BY DEF RepeatInv, Repeats
<1>5. CASE g = scan
  BY <1>2, <1>3, <1>5
<1>6. CASE g # scan
  BY <1>4, <1>6 DEF RepeatInv
<1> QED
  BY <1>5, <1>6
-----------------------------------------------------------------------------
(* The theorems. *)

LEMMA NextInv == HInv /\ [HNext]_hvars => HInv'
<1> SUFFICES ASSUME HInv, [HNext]_hvars PROVE HInv'
  OBVIOUS
<1> USE DEF HInv
<1>1. CASE HDrive
  <2>1. HTypeOK'
    BY <1>1, DriveTypes DEF HTypeOK, HDrive, history
  <2>2. DebounceInv'
    BY <1>1 DEF DebounceInv, HDrive, Drive, debounce, history, Promise!IsLow
  <2>3. RepeatInv'
    BY <1>1 DEF RepeatInv, TimerMatches, HDrive, Drive, debounce, timers, history, Repeats
  <2>4. LineInv'
    BY <1>1 DEF LineInv, HDrive, Drive, LineDriven
  <2> QED
    BY <2>1, <2>2, <2>3, <2>4
<1>2. CASE HRead
  <2>1. HTypeOK'
    BY <1>2, ReadTypes
  <2>2. DebounceInv'
    BY <1>2, ReadKeepsDebounce
  <2>3. RepeatInv'
    BY <1>2, ReadKeepsRepeat
  <2>4. LineInv'
    BY <1>2 DEF LineInv, LineReleased, HRead, Read
  <2> QED
    BY <2>1, <2>2, <2>3, <2>4
<1>3. ASSUME NEW c \in Contacts, HMove(c)
      PROVE  HInv'
  <2> USE <1>3 DEF HMove, Move
  <2>1. HTypeOK'
    BY MoveTypes DEF HTypeOK, history
  <2>2. DebounceInv'
    BY DEF DebounceInv, debounce, history, Promise!IsLow
  <2>3. RepeatInv'
    BY DEF RepeatInv, TimerMatches, debounce, timers, history, Repeats
  <2>4. LineInv'
    BY DEF LineInv
  <2> QED
    BY <2>1, <2>2, <2>3, <2>4
<1>4. CASE UNCHANGED hvars
  <2> USE <1>4 DEF hvars, vars, hardware, debounce, timers, sent, history
  <2>1. HTypeOK'
    BY DEF HTypeOK, TypeOK
  <2>2. DebounceInv'
    BY DEF DebounceInv, Promise!IsLow
  <2>3. RepeatInv'
    BY DEF RepeatInv, TimerMatches, Repeats
  <2>4. LineInv'
    BY DEF LineInv
  <2> QED
    BY <2>1, <2>2, <2>3, <2>4
<1> QED
  BY <1>1, <1>2, <1>3, <1>4 DEF HNext

(***************************************************************************)
(* For every wiring, every choice of times and every movement of the       *)
(* contacts: the masks, counters and timers that gpio_poll() keeps agree   *)
(* with what each contact has really read, and at most the driver line of  *)
(* the group being read is low.                                            *)
(***************************************************************************)
THEOREM InductiveInvariant == HSpec => []HInv
BY InitInv, NextInv, PTL DEF HSpec

(* Type correctness: bounce_cnt stays at or below BOUNCE_TIME, and idx,    *)
(* which indexes the tables of handle_repeat(), inside them.               *)
THEOREM TypeCorrect == HSpec => []HTypeOK
<1>1. HInv => HTypeOK
  BY DEF HInv
<1> QED
  BY InductiveInvariant, <1>1, PTL

(* Debouncing is exact: a pin that reads low is pending exactly until its  *)
(* press has been reported, whatever the other pins of its group do.       *)
THEOREM DebounceExact == HSpec => []DebounceInv
<1>1. HInv => DebounceInv
  BY DEF HInv
<1> QED
  BY InductiveInvariant, <1>1, PTL

(* The repeat timers measure the time since the press or the last repeat.  *)
THEOREM RepeatExact == HSpec => []RepeatInv
<1>1. HInv => RepeatInv
  BY DEF HInv
<1> QED
  BY InductiveInvariant, <1>1, PTL

(* No key of one matrix group is pressed by a contact of another.          *)
THEOREM NoCrossTalk == HSpec => KeyFromOwnContact
<1> DEFINE Step == \A g \in Groups : \A p \in press'[g] :
                     p \in press[g] \/ <<g, p>> \in closed \/ <<0, p>> \in closed
<1>1. HInv /\ [HNext]_hvars => [Step]_vars
  <2> SUFFICES ASSUME HInv, HNext PROVE Step \/ UNCHANGED vars
    BY DEF hvars
  <2>1. CASE HDrive
    BY <2>1 DEF HDrive, Drive, Nothing
  <2>2. CASE HRead
    <3> SUFFICES ASSUME NEW g \in Groups, NEW p \in press'[g]
                 PROVE  <<g, p>> \in closed \/ <<0, p>> \in closed
      OBVIOUS
    <3>1. HTypeOK /\ DebounceInv /\ LineInv /\ scan \in Groups
      BY DEF HInv, HTypeOK, TypeOK
    <3>2. g = scan
      BY <2>2, <3>1, ReadEffect
    <3>3. p \in Pressed(scan, HighPins(scan))
      BY <2>2, <3>1, <3>2, ReadEffect
    <3>4. p \in GpioMask[scan] \ HighPins(scan)
      BY <3>1, <3>3, MaskedSets
    <3> QED
      BY <3>1, <3>2, <3>4 DEF HighPins, PulledLow, LineInv
  <2>3. ASSUME NEW c \in Contacts, HMove(c) PROVE Step
    BY <2>3 DEF HMove, Move, sent
  <2> QED
    BY <2>1, <2>2, <2>3 DEF HNext
<1>2. KeyFromOwnContact <=> [][Step]_vars
  BY DEF KeyFromOwnContact
<1> QED
  BY <1>1, <1>2, InductiveInvariant, PTL DEF HSpec
-----------------------------------------------------------------------------
(* One poll is a step Poll of ContactKeys. *)
LEMMA ReadIsPoll ==
  ASSUME HInv, HRead
  PROVE  Promise!Poll(scan, GpioMask[scan] \ HighPins(scan))
<1> DEFINE n   == HighPins(scan)
           low == GpioMask[scan] \ n
           new == {p \in low : ~told[scan][p]}
<1>1. HTypeOK /\ DebounceInv /\ RepeatInv /\ scan \in Groups
  BY DEF HInv, HTypeOK, TypeOK
<1>2. HTypeOK' /\ DebounceInv'
  BY <1>1, ReadTypes, ReadKeepsDebounce
<1>3. /\ last_gpio'[scan] = n
      /\ bounce_cnt'[scan] = BounceCount(scan, n)
      /\ press'[scan] = Pressed(scan, n)
      /\ \A h \in Groups \ {scan} : press'[h] = {} /\ repeat'[h] = {}
  BY <1>1, ReadEffect
<1>4. /\ n \subseteq GpioMask[scan] /\ GpioMask[scan] \subseteq Pins
      /\ Pressed(scan, n) \subseteq low
  BY <1>1, MaskedSets
<1>5. Promise!CountReads(scan, low)
  BY <1>3 DEF HRead
<1> HIDE DEF n
(* Before the poll, exactly the low contacts not yet reported are pending. *)
<1>6. \A p \in low : p \in Pending(scan, n) <=> ~told[scan][p]
  BY <1>1, <1>4 DEF DebounceInv, Pending, Changed, SymDiff, HTypeOK
<1>7. Pressed(scan, n) = IF Settled(scan, n) THEN new ELSE {}
  BY <1>4, <1>6 DEF Pressed
<1>8. press' \in [Groups -> SUBSET Pins] /\ repeat' \in [Groups -> SUBSET Pins]
  BY <1>2 DEF HTypeOK, TypeOK
(* A press is reported only after BounceTime + 1 low reads ...             *)
<1>9. ASSUME Settled(scan, n), NEW p \in low
      PROVE  lows'[scan][p] > BounceTime
  <2>1. /\ p \in Pins
        /\ bounce_cnt[scan] \in 0 .. BounceTime
        /\ lows[scan][p] \in 0 .. BounceTime + 1
    BY <1>1, <1>4 DEF HTypeOK, TypeOK
  <2>2. lows'[scan][p] = Promise!Count(lows[scan][p])
    BY <1>1, <2>1, ReadCounts DEF n
  <2>3. CASE Changed(scan, n) = {}
    <3>1. p \in GpioMask[scan] \ last_gpio[scan]
      BY <2>3 DEF Changed, SymDiff
    <3>2. bounce_cnt[scan] <= lows[scan][p]
      BY <1>1, <2>1, <3>1 DEF DebounceInv
    <3>3. bounce_cnt[scan] >= BounceTime
      BY <1>9, <2>3 DEF Settled, Bounce
    <3> QED
      BY <2>1, <2>2, <3>2, <3>3 DEF Promise!Count
  <2>4. CASE Changed(scan, n) # {}
    <3>1. BounceTime = 0
      BY <1>9, <2>4 DEF Settled, Bounce
    <3> QED
      BY <2>1, <2>2, <3>1 DEF Promise!Count
  <2> QED
    BY <2>3, <2>4
(* ... and no later than when the whole group has been quiet that long.    *)
<1>10. ASSUME quiet'[scan] >= BounceTime, NEW p \in new
       PROVE  Settled(scan, n)
  <2>1. p \in Pins /\ p \in GpioMask[scan] \ last_gpio'[scan]
    BY <1>3, <1>4
  <2>2. quiet'[scan] < bounce_cnt'[scan] \/ bounce_cnt'[scan] = BounceTime
    BY <1>1, <1>2, <2>1 DEF DebounceInv
  <2>3. /\ bounce_cnt[scan] \in 0 .. BounceTime
        /\ quiet[scan] \in 0 .. BounceTime + 1
    BY <1>1 DEF HTypeOK, TypeOK
  <2>4. CASE Changed(scan, n) = {}
    <3>1. p \in GpioMask[scan] \ last_gpio[scan]
      BY <1>4, <2>1, <1>3, <2>4 DEF Changed, SymDiff
    <3>2. quiet[scan] < bounce_cnt[scan] \/ bounce_cnt[scan] = BounceTime
      BY <1>1, <2>1, <3>1 DEF DebounceInv
    <3>3. quiet'[scan] = 0 \/ quiet'[scan] = Promise!Count(quiet[scan])
      BY <1>1, ReadCounts
    <3> QED
      BY <1>10, <2>3, <2>4, <3>2, <3>3 DEF Promise!Count, Settled, Bounce
  <2>5. CASE Changed(scan, n) # {}
    <3>1. \E q \in GpioMask[scan] : ~(Promise!IsLow(scan, q) <=> q \in low)
      BY <1>1, <1>4, <2>5 DEF DebounceInv, Changed, SymDiff
    <3>2. quiet'[scan] = 0
      BY <1>1, <3>1, ReadCounts DEF n
    <3> QED
      BY <1>10, <2>5, <3>2 DEF Settled, Bounce
  <2> QED
    BY <2>4, <2>5
(* Every stage that ends is reported, those that only may be included.      *)
<1>11. repeat'[scan] = Promise!Ending(scan, low)
  BY <1>1, ReadRepeats DEF n
<1>12. \E reported \in SUBSET Promise!Ending(scan, low) :
         /\ {p \in Promise!Ending(scan, low) : RptValue[stage[scan][p]] = 1}
              \subseteq reported
         /\ repeat' = [Promise!NoContacts EXCEPT ![scan] = reported]
  <2>1. repeat' = [Promise!NoContacts EXCEPT ![scan] = Promise!Ending(scan, low)]
    BY <1>1, <1>3, <1>8, <1>11 DEF Promise!NoContacts
  <2> QED
    BY <2>1
<1>13. press'[scan] \subseteq {p \in new : lows'[scan][p] > BounceTime}
  BY <1>3, <1>7, <1>9
<1>14. quiet'[scan] >= BounceTime => new \subseteq press'[scan]
  BY <1>3, <1>7, <1>10
<1> HIDE DEF low
<1>15. /\ press' \in [Groups -> SUBSET Pins]
       /\ \A h \in Groups \ {scan} : press'[h] = {}
  BY <1>3, <1>8
<1> QED
  BY <1>1, <1>5, <1>12, <1>13, <1>14, <1>15 DEF Promise!Poll, low, n

(***************************************************************************)
(* gpio_poll() implements ContactKeys, for every wiring and every choice   *)
(* of times: the masks and counters add and lose no report that the        *)
(* contacts' own history does not call for.                                *)
(***************************************************************************)
THEOREM PollRefines == HSpec => Refines
<1>1. HInit => Promise!Init
  BY DEF HInit, Init, Promise!Init, Nothing, Promise!NoContacts
<1>2. HInv /\ [HNext]_hvars => [Promise!Next]_(Promise!vars)
  <2> SUFFICES ASSUME HInv, [HNext]_hvars
               PROVE  Promise!Next \/ UNCHANGED Promise!vars
    OBVIOUS
  <2> USE DEF Promise!vars, Promise!reads, Promise!reports
  <2>1. CASE HDrive
    BY <2>1 DEF HDrive, Drive, Promise!Next, Promise!Begin, Nothing,
                Promise!NoContacts, history
  <2>2. CASE HRead
    <3>1. scan \in Groups /\ GpioMask[scan] \ HighPins(scan) \in SUBSET GpioMask[scan]
      BY DEF HInv, HTypeOK, TypeOK
    <3> QED
      BY <2>2, <3>1, ReadIsPoll DEF Promise!Next
  <2>3. ASSUME NEW c \in Contacts, HMove(c) PROVE UNCHANGED Promise!vars
    BY <2>3 DEF HMove, Move, sent, history
  <2>4. CASE UNCHANGED hvars
    BY <2>4 DEF hvars, vars, sent, history
  <2> QED
    BY <2>1, <2>2, <2>3, <2>4 DEF HNext
<1> QED
  BY <1>1, <1>2, InductiveInvariant, PTL DEF HSpec, Refines, Promise!Spec
=============================================================================
