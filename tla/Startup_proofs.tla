--------------------------- MODULE Startup_proofs ---------------------------
(***************************************************************************)
(* Theorems about Startup, for all command lines and any number of         *)
(* expanders.                                                              *)
(***************************************************************************)
EXTENDS Startup, TLAPS

(* What has been got by each stage of main(), and what has not yet.        *)
StageInv ==
  /\ pc \in {"args", "daemonize", "exit"} => has = {}
  /\ pc \notin {"args", "daemonize", "exit"} =>
       ("-d" \in options /\ ~adopted => "lock" \in has)
  /\ pc \in {"uinput", "open", "parse", "setup", "test", "iic", "poll"} =>
       "gpio" \in has
  /\ pc \in {"parse", "setup", "test", "iic", "poll"} => conf \in files
  /\ pc \in {"args", "daemonize", "gpio", "uinput", "open", "parse"} =>
       xio_count = 0
  /\ pc \notin {"poll", "exit"} => fd = "stdin"
  /\ pc = "iic" => xio_count > 0
  /\ BusIffExpanders

(* No write of setup_xio() finds the bus open. *)
NoneReached == reached = {}

StartInv == TypeOK /\ StageInv /\ NoneReached

-----------------------------------------------------------------------------
LEMMA InitStartInv == Init => StartInv
  BY ArgumentAssumption, XioAssumption
     DEF Init, StartInv, TypeOK, StageInv, BusIffExpanders, NoneReached, Options, Dirs

LEMMA ExitKeeps ==
  ASSUME StartInv, Exit
  PROVE  StartInv'
<1>1. TypeOK'
  BY DEF StartInv, TypeOK, Exit, found, config, bus
<1> QED
  BY <1>1 DEF StartInv, StageInv, BusIffExpanders, NoneReached, Exit, found, config, bus

LEMMA NextStartInv == StartInv /\ [Next]_vars => StartInv'
<1> SUFFICES ASSUME StartInv, [Next]_vars PROVE StartInv'
  OBVIOUS
<1> USE DEF found, config, bus
<1>1. CASE SetOption
  <2>1. Head(argv) \in Options \/ Head(argv) = NoDebug
    BY <1>1 DEF SetOption
  <2>2. options' \subseteq Options /\ argv' \in Seq(Options \cup Quitting \cup Invalid \cup {NoDebug})
    BY <1>1, <2>1 DEF SetOption, Taken, StartInv, TypeOK
  <2>3. TypeOK'
    BY <1>1, <2>2 DEF SetOption, StartInv, TypeOK
  <2> QED
    BY <1>1, <2>3 DEF SetOption, StartInv, StageInv, BusIffExpanders, NoneReached
<1>2. CASE ArgsDone \/ Adopted
  <2>1. TypeOK'
    BY <1>2 DEF ArgsDone, Adopted, AfterArgs, StartInv, TypeOK
  <2> QED
    BY <1>2, <2>1 DEF ArgsDone, Adopted, AfterArgs, StartInv, StageInv, BusIffExpanders, NoneReached
<1>3. CASE Daemonize
  <2>1. TypeOK'
    BY <1>3 DEF Daemonize, StartInv, TypeOK
  <2> QED
    BY <1>3, <2>1 DEF Daemonize, StartInv, StageInv, BusIffExpanders, NoneReached
<1>4. CASE GpioInit
  <2>1. PICK ok \in BOOLEAN : Initialise("gpio", ok, gpio_init(ok), "uinput")
    BY <1>4 DEF GpioInit
  <2>2. CASE ok
    <3>1. /\ has' = has \cup {"gpio"} /\ pc = "gpio" /\ pc' = "uinput"
          /\ UNCHANGED <<found, argv, options, dir, config, bus>>
      BY <1>4, <2>1, <2>2 DEF GpioInit, Initialise, gpio_init
    <3>2. TypeOK'
      BY <3>1 DEF StartInv, TypeOK
    <3> QED
      BY <3>1, <3>2 DEF StartInv, StageInv, BusIffExpanders, NoneReached
  <2>3. CASE ~ok
    <3>1. Exit
      BY <2>1, <2>3 DEF Initialise, gpio_init
    <3> QED
      BY <3>1, ExitKeeps
  <2> QED
    BY <2>2, <2>3
<1>5. CASE InitUinput
  <2>1. PICK ok \in BOOLEAN : Initialise("keyboard", ok, init_uinput(ok), "open")
    BY <1>5 DEF InitUinput
  <2>2. init_uinput(ok) = 1
    BY DEF init_uinput, EXIT_FAILURE
  <2>3. /\ has' \in {has, has \cup {"keyboard"}} /\ pc = "uinput" /\ pc' = "open"
        /\ UNCHANGED <<found, argv, options, dir, config, bus>>
    BY <1>5, <2>1, <2>2 DEF InitUinput, Initialise
  <2>4. TypeOK'
    BY <2>3 DEF StartInv, TypeOK
  <2> QED
    BY <2>3, <2>4 DEF StartInv, StageInv, BusIffExpanders, NoneReached
<1>6. CASE OpenConfig
  <2>1. /\ conf' \in files /\ pc = "open" /\ pc' = "parse"
        /\ UNCHANGED <<found, argv, options, dir, has, xio_count, mat_cnt, bus>>
    BY <1>6 DEF OpenConfig
  <2>2. TypeOK'
    BY <2>1 DEF StartInv, TypeOK
  <2> QED
    BY <2>1, <2>2 DEF StartInv, StageInv, BusIffExpanders, NoneReached
<1>7. CASE Parse
  <2>1. /\ xio_count' \in 0 .. MaxXio /\ mat_cnt' \in {0, 1}
        /\ pc = "parse" /\ pc' = "setup"
        /\ UNCHANGED <<found, argv, options, dir, has, conf, bus>>
    BY <1>7 DEF Parse
  <2>2. j = 0 /\ MaxXio \in Nat /\ {0, 1} \subseteq Nat
    BY <2>1, XioAssumption DEF StartInv, TypeOK, StageInv
  <2>3. j' <= xio_count'
    BY <2>1, <2>2
  <2>4. TypeOK'
    BY <2>1, <2>2, <2>3 DEF StartInv, TypeOK
  <2> QED
    BY <2>1, <2>4 DEF StartInv, StageInv, BusIffExpanders, NoneReached
<1>8. CASE SetupXio
  <2>1. /\ pc = "setup" /\ pc' = "test" /\ j < xio_count /\ reached' = {}
        /\ UNCHANGED <<found, argv, options, dir, has, config, j, fd>>
    BY <1>8 DEF SetupXio, MoreXio, StartInv, StageInv, NoneReached
  <2>2. TypeOK'
    BY <2>1 DEF StartInv, TypeOK
  <2> QED
    BY <2>1, <2>2 DEF StartInv, StageInv, BusIffExpanders, NoneReached
<1>9. CASE TestIic \/ InputCame
  <2>1. /\ pc = "test" /\ pc' = "setup" /\ j' = j + 1
        /\ UNCHANGED <<found, argv, options, dir, has, config, fd, reached>>
    BY <1>9 DEF TestIic, InputCame, WaitsForInput, Tested
  <2>2. j' \in 0 .. MaxXio /\ j' <= xio_count
    BY <2>1, XioAssumption DEF StartInv, TypeOK
  <2>3. TypeOK'
    BY <2>1, <2>2 DEF StartInv, TypeOK
  <2> QED
    BY <2>1, <2>3 DEF StartInv, StageInv, BusIffExpanders, NoneReached
<1>10. CASE ConfigDone
  <2>1. /\ pc = "setup"
        /\ pc' = IF xio_count > 0 THEN "iic" ELSE "poll"
        /\ UNCHANGED <<found, argv, options, dir, has, config, bus>>
    BY <1>10 DEF ConfigDone, Result
  <2>2. TypeOK'
    BY <2>1 DEF StartInv, TypeOK
  <2> QED
    BY <2>1, <2>2 DEF StartInv, StageInv, BusIffExpanders, NoneReached
<1>11. CASE InitIic
  <2>1. TypeOK'
    BY <1>11 DEF InitIic, StartInv, TypeOK
  <2> QED
    BY <1>11, <2>1 DEF InitIic, StartInv, StageInv, BusIffExpanders, NoneReached
<1>12. CASE Quit \/ Reject \/ DaemonizeFails \/ NoConfig \/ ConfigRefused \/ Killed
  BY <1>12, ExitKeeps DEF Quit, Reject, DaemonizeFails, NoConfig, ConfigRefused, Killed
<1>13. CASE UNCHANGED vars
  BY <1>13 DEF vars, StartInv, TypeOK, StageInv, BusIffExpanders, NoneReached
<1> QED
  BY <1>1, <1>2, <1>3, <1>4, <1>5, <1>6, <1>7, <1>8, <1>9, <1>10, <1>11, <1>12, <1>13
     DEF Next, Proceed

THEOREM InductiveInvariant == Spec => []StartInv
  BY InitStartInv, NextStartInv, PTL DEF Spec

(***************************************************************************)
(* All variables of the start-up keep their types.                         *)
(***************************************************************************)
THEOREM TypeCorrect == Spec => []TypeOK
  BY InductiveInvariant, PTL DEF StartInv

(***************************************************************************)
(* A daemon holds the lock before it touches the registers or creates the  *)
(* uinput device, whatever its arguments.                                  *)
(***************************************************************************)
THEOREM LockBeforeDrivers == Spec => []DriversUnderLock
<1>1. StartInv => DriversUnderLock
  BY DEF StartInv, StageInv, DriversUnderLock
<1> QED
  BY <1>1, InductiveInvariant, PTL

(***************************************************************************)
(* The loop runs only over mapped registers and an accepted configuration. *)
(***************************************************************************)
THEOREM ReadyWhenPolling == Spec => []LoopIsReady
<1>1. StartInv => LoopIsReady
  BY DEF StartInv, StageInv, LoopIsReady
<1> QED
  BY <1>1, InductiveInvariant, PTL

(***************************************************************************)
(* The bus is opened exactly for the configurations with expanders, however *)
(* many there are.                                                         *)
(***************************************************************************)
THEOREM BusOpened == Spec => []BusIffExpanders
<1>1. StartInv => BusIffExpanders
  BY DEF StartInv, StageInv
<1> QED
  BY <1>1, InductiveInvariant, PTL

(***************************************************************************)
(* No start ever sets up the chip of an expander: all of setup_xio()'s     *)
(* writes come before init_iic() has opened the bus (config.c:597).        *)
(***************************************************************************)
THEOREM NoChipIsSetUp == Spec => []NoneReached
  BY InductiveInvariant, PTL DEF StartInv
=============================================================================
