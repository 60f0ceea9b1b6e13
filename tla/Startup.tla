------------------------------ MODULE Startup ------------------------------
(***************************************************************************)
(* main() from its first argument to its loop: the options, daemonize(),   *)
(* gpio_init(), init_uinput(), init_config() with the set-up of the I/O    *)
(* expanders, and init_iic().  Every step may fail, and what becomes of    *)
(* that is a matter of the value it returns.                               *)
(*                                                                         *)
(* The pid file is modelled in Daemon, the text of the configuration in    *)
(* Config; here they succeed or fail.  iic.c's descriptor is 0, standard   *)
(* input, until init_iic() has opened the bus.                             *)
(***************************************************************************)
EXTENDS Integers, Sequences

CONSTANTS
  CommandLines,   \* the arguments that pikeyd may be given
  MaxXio          \* a configuration defines at most so many expanders

Options == {"-d", "-r", "-D"}
Quitting == {"-k", "-v", "-h"}
NoDebug == "-D0"   \* sets the debug level to 0
Invalid == {"-Dx", "other"}

ASSUME ArgumentAssumption ==
  CommandLines \subseteq Seq(Options \cup Quitting \cup Invalid \cup {NoDebug})

ASSUME XioAssumption == MaxXio \in Nat

Dirs == {"start", "/tmp", "home", "/etc"}

VARIABLES
  (* What pikeyd finds. *)
  adopted,     \* is its parent the init process?
  files,       \* the directories with a configuration file that it may read
  blocking,    \* does a read from standard input wait, as that of a terminal
               \* or of an empty pipe does?
  (* The process. *)
  pc,
  argv,        \* the arguments that are still to be looked at
  options,     \* the options in force
  dir,         \* the working directory
  has,         \* the lock of the pid file, the registers, the uinput device
  conf,        \* where the configuration was found
  xio_count, mat_cnt,
  j,           \* the expander that init_config() sets up
  fd,          \* of iic.c
  reached      \* the expanders whose chip got its settings

found  == <<adopted, files, blocking>>
config == <<conf, xio_count, mat_cnt>>
bus    == <<j, fd, reached>>
vars   == <<found, pc, argv, options, dir, has, config, bus>>

TypeOK ==
  /\ adopted \in BOOLEAN /\ files \subseteq Dirs /\ blocking \in BOOLEAN
  /\ pc \in {"args", "daemonize", "gpio", "uinput", "open", "parse", "setup",
             "test", "iic", "poll", "exit"}
  /\ argv \in Seq(Options \cup Quitting \cup Invalid \cup {NoDebug})
  /\ options \subseteq Options
  /\ dir \in {"start", "/tmp"}
  /\ has \subseteq {"lock", "gpio", "keyboard"}
  /\ conf \in Dirs \cup {"none"}
  /\ xio_count \in 0 .. MaxXio
  /\ mat_cnt \in Nat
  /\ j \in 0 .. MaxXio /\ j <= xio_count
  /\ pc = "test" => j < xio_count
  /\ fd \in {"stdin", "bus", "none"}
  /\ reached \subseteq 0 .. MaxXio - 1

Init ==
  /\ adopted \in BOOLEAN /\ files \in SUBSET Dirs /\ blocking \in BOOLEAN
  /\ pc = "args"
  /\ argv \in CommandLines
  /\ options = {} /\ dir = "start" /\ has = {}
  /\ conf = "none" /\ xio_count = 0 /\ mat_cnt = 0
  /\ j = 0 /\ fd = "stdin" /\ reached = {}

-----------------------------------------------------------------------------
(* The process ends; the kernel takes back what it has. *)
Exit ==
  /\ pc' = "exit" /\ has' = {}
  /\ UNCHANGED <<found, argv, options, dir, config, bus>>

(* The loop over the arguments. *)
NotTaken == argv
Taken == Tail(argv)

SetOption ==
  /\ pc = "args" /\ argv # <<>>
  /\ Head(argv) \in Options \cup {NoDebug}
  /\ options' = IF Head(argv) = NoDebug THEN options \ {"-D"}
                                        ELSE options \cup {Head(argv)}
  /\ argv' = Taken
  /\ UNCHANGED <<found, pc, dir, has, config, bus>>

Quit == pc = "args" /\ argv # <<>> /\ Head(argv) \in Quitting /\ Exit

Reject == pc = "args" /\ argv # <<>> /\ Head(argv) \in Invalid /\ Exit

AfterArgsForeground == "gpio"
AfterArgs == IF "-d" \in options THEN "daemonize" ELSE "gpio"

ArgsDone ==
  /\ pc = "args" /\ argv = <<>>
  /\ pc' = AfterArgs
  /\ UNCHANGED <<found, argv, options, dir, has, config, bus>>

(* daemonize(), in the child; it does nothing in a child of init.          *)
Adopted ==
  /\ pc = "daemonize" /\ adopted
  /\ pc' = "gpio"
  /\ UNCHANGED <<found, argv, options, dir, has, config, bus>>

Daemonize ==
  /\ pc = "daemonize" /\ ~adopted
  /\ dir' \in {dir, "/tmp"}      \* a failed chdir() is only reported
  /\ has' = has \cup {"lock"}
  /\ pc' = "gpio"
  /\ UNCHANGED <<found, argv, options, config, bus>>

DaemonizeFails == pc = "daemonize" /\ ~adopted /\ Exit

-----------------------------------------------------------------------------
EXIT_FAILURE == 1

(* What the two functions return.  init_uinput() fails with die().         *)
gpio_initDies(ok) == IF ok THEN 1 ELSE EXIT_FAILURE
gpio_init(ok) == IF ok THEN 1 ELSE 0

init_uinput(ok) == IF ok THEN 1 ELSE EXIT_FAILURE

Initialise(what, ok, r, next) ==
  IF r = 0 THEN Exit
  ELSE /\ has' = IF ok THEN has \cup {what} ELSE has
       /\ pc' = next
       /\ UNCHANGED <<found, argv, options, dir, config, bus>>

GpioInit ==
  /\ pc = "gpio"
  /\ \E ok \in BOOLEAN : Initialise("gpio", ok, gpio_init(ok), "uinput")

InitUinput ==
  /\ pc = "uinput"
  /\ \E ok \in BOOLEAN : Initialise("keyboard", ok, init_uinput(ok), "open")

(* init_config() looks in the working directory, which -d has changed.     *)
OpenConfig ==
  /\ pc = "open"
  /\ \E d \in files :
       /\ \/ d = dir
          \/ d = "home" /\ dir \notin files
          \/ d = "/etc" /\ {dir, "home"} \cap files = {}
       /\ conf' = d
  /\ pc' = "parse"
  /\ UNCHANGED <<found, argv, options, dir, has, xio_count, mat_cnt, bus>>

NoConfig ==
  /\ pc = "open" /\ {dir, "home", "/etc"} \cap files = {}
  /\ Exit

Parse ==
  /\ pc = "parse"
  /\ \E n \in 0 .. MaxXio, m \in {0, 1} : xio_count' = n /\ mat_cnt' = m
  /\ pc' = "setup"
  /\ UNCHANGED <<found, argv, options, dir, has, conf, bus>>

ConfigRefused == pc = "parse" /\ Exit

MoreXioTooFar == j <= xio_count
MoreXio == j < xio_count

(* write_iic() sends to whatever fd is; setup_xio() ignores the outcome.   *)
SetupXio ==
  /\ pc = "setup" /\ MoreXio
  /\ reached' = IF fd = "bus" THEN reached \cup {j} ELSE reached
  /\ pc' = "test"
  /\ UNCHANGED <<found, argv, options, dir, has, config, j, fd>>

(* test_iic() reads from standard input if that is what fd is.             *)
WaitsForInput == pc = "test" /\ fd = "stdin" /\ blocking

Tested ==
  /\ j' = j + 1
  /\ pc' = "setup"
  /\ UNCHANGED <<found, argv, options, dir, has, config, fd, reached>>

TestIic == pc = "test" /\ ~WaitsForInput /\ Tested

(* Input or its end comes, or a signal that is handled ends the read.      *)
InputCame == WaitsForInput /\ Tested

(* init_config() returns.                                                  *)
ResultMatrixFirst == IF mat_cnt > 0 THEN 3 ELSE IF xio_count > 0 THEN 2 ELSE 1
Result == IF xio_count > 0 THEN 2 ELSE IF mat_cnt > 0 THEN 3 ELSE 1

ConfigDone ==
  /\ pc = "setup" /\ ~MoreXio
  /\ pc' = IF Result = 2 THEN "iic" ELSE "poll"
  /\ UNCHANGED <<found, argv, options, dir, has, config, bus>>

(* The result of init_iic() is ignored.                                    *)
InitIic ==
  /\ pc = "iic"
  /\ fd' \in {"bus", "none"}
  /\ pc' = "poll"
  /\ UNCHANGED <<found, argv, options, dir, has, config, j, reached>>

(* SIGTERM, SIGINT or a crash, at any time. *)
Killed == pc # "exit" /\ Exit

Proceed ==
  \/ SetOption \/ Quit \/ Reject \/ ArgsDone
  \/ Adopted \/ Daemonize \/ DaemonizeFails
  \/ GpioInit \/ InitUinput
  \/ OpenConfig \/ NoConfig \/ Parse \/ ConfigRefused
  \/ SetupXio \/ TestIic \/ ConfigDone \/ InitIic

Next == Proceed \/ InputCame \/ Killed

Spec == Init /\ [][Next]_vars

(* Nothing but the read from standard input waits for anything. *)
FairSpec == Spec /\ WF_vars(Proceed)

-----------------------------------------------------------------------------
(***************************************************************************)
(* A daemon touches neither the registers nor the uinput device before it  *)
(* holds the lock of the pid file: a second daemon is refused before it    *)
(* can configure pins under the first one's feet (pikeyd.c:87).            *)
(***************************************************************************)
DriversUnderLock ==
  "-d" \in options /\ ~adopted /\ has # {} => "lock" \in has

(***************************************************************************)
(* The loop runs only with the registers mapped and a configuration found  *)
(* and accepted.  It may run without a keyboard: a failed init_uinput()    *)
(* returns what main() takes for success (uinput.c:46, pikeyd.c:113).      *)
(***************************************************************************)
LoopIsReady == pc = "poll" => "gpio" \in has /\ conf \in files

(***************************************************************************)
(* The bus is opened exactly for a configuration that has expanders,       *)
(* beside matrices or not: the three results of init_config() are tested   *)
(* and produced in an order that loses none (config.c:714, pikeyd.c:118).  *)
(***************************************************************************)
BusIffExpanders == pc = "poll" => (xio_count > 0 <=> fd # "stdin")

(***************************************************************************)
(* Start-up comes to an end: the loop, or an exit, unless it waits for     *)
(* ever for the standard input that test_iic() takes for the bus           *)
(* (iic.c:102).                                                            *)
(***************************************************************************)
StartUpEnds == <>(pc \in {"poll", "exit"}) \/ <>[]WaitsForInput

(***************************************************************************)
(* setup_xio(), config.c:1161, "enable interrupts for defined pins": when  *)
(* the loop runs with the bus open, every expander has its settings.       *)
(***************************************************************************)
ExpandersSetUp == pc = "poll" /\ fd = "bus" => reached = 0 .. xio_count - 1
=============================================================================
