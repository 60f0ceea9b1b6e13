# pikeyd in TLA+

A model of pikeyd, the Universal Raspberry Pi GPIO keyboard daemon: TLA+
modules for its components, TLC configurations that check them on small
instances, and TLAPS proofs for every value of the constants.

The sources contain unresolved merge markers. The `key_matrix` side is the
program that is modelled: `gpio.c`, `uinput.c` and `main()`'s loop call the
functions of that side only.

## The system

pikeyd is one process with one thread. `main()` reads the command line, may
turn into a daemon, maps the GPIO registers, creates a uinput device, reads the
configuration and then polls for ever.

| Component | State | Operations | Works with |
|---|---|---|---|
| Polling (`gpio.c`, loop of `pikeyd.c`) | per group: `cur_gpio`, `last_gpio`, `bounce_cnt`, `prev_gpio`, `key_rpt[]`; the lines' levels | `gpio_poll`, `handle_repeat`, `force_repeat` | reads what Configuration set up, calls Sending keys |
| Sending keys (`uinput.c`, iterators of `config.c`, `iic.c`) | `last_gpio_key`, static `lastgpio`, `xio_dev[].last_key`, `lastvalue` | `send_gpio_keys`, `sendKey`, `get_next_key`, `poll_iic`, `handle_iic_event` | writes to the kernel, reads the expanders over I2C |
| Daemon control (`daemon.c`) | pid file (entry, content, lock), `pid_fd` of each process | `daemonize`, `signal_handler`, `daemonShutdown`, `daemonKill` | other runs of pikeyd, signals |
| Configuration (`config.c`, `gpio_pincfg`, `gpio_pull`) | `mat_grp[]`, `mat_cnt`, `xio_dev[]`, `xio_count`, `GpioFlags[]`, `xio_mask` | one handler per command | hands its state to Polling and Sending keys |
| Expander set-up (`setup_xio`, `iic.c`) | the chips' registers, the bus' descriptor | `setup_xio`, `write_iic`, `init_iic` | called by Configuration and `main()` |
| Start-up (`pikeyd.c`) | what has been initialised | `main` | all |
| Lexer (`config.c`) | `parse_buf`, `parse_bufptr` | `load_buffer`, `next_token`, `next_command` | feeds Configuration |
| Key names, debug output | a table, a level | - | - |

What is hard, and what makes each component correct:

- **Polling**. Switches move between any two register reads; the groups share
  input pins, and one bounce counter serves a whole group. Correct: a press is
  reported after enough equal reads, once, and only for the group it belongs
  to; repeats come at the specified times; an interrupt line that is low is
  served; nothing is lost when the group rests.
- **Sending keys**. The position in a list is kept in globals between calls,
  a walk over an expander's ports nests in a walk over a pin's events, and any
  write may fail. Correct: all keys of the pin, in order, each pressed and
  released; every call returns; no key stays down unless a write failed.
- **Daemon control**. Several processes open, lock and unlink one name in
  separate steps, may be killed between them, and pids are reused. Correct: one
  holder per file, no refusal because of a stale file, a file names its holder.
- **Configuration**. Commands come in any order and share pins; the array grows
  while it is used; references may be bad. Correct: what it hands over is what
  Polling assumes.
- **Lexer**. The file comes in chunks and each loop refills the buffer itself.
  Correct: the commands are the lines of the file, wherever the chunks end.
- **Start-up and expander set-up**. Five initialisations in a row, each with a
  value of its own for failure, one of them (`init_config`) using a bus that a
  later one opens. Correct: locked before anything is touched, everything ready
  before the loop, the expanders set up.
- **The whole**. Interrupts come between and during the polls, one poll makes
  several calls that share globals, and a signal may end the process anywhere.
  Correct: presses are sent, interrupts answered, port changes noticed, and
  nothing is sent that nobody pressed.

PROJECT.json lists these hazards line by line, with the property for each or the
reason why there is none.

## Modules

| Module | Models |
|---|---|
| `ContactKeys` | Abstract specification: what polling promises of each contact, in terms of what the contact has read |
| `GpioPoll` | `main()`'s loop, `gpio_poll()`, `handle_repeat()` |
| `GpioPollHist` | `GpioPoll` with the variables of `ContactKeys` as history variables; its invariants, liveness properties, and the refinement |
| `GpioPoll_proofs` | Theorems about `GpioPollHist` |
| `KeyTaps` | Abstract specification: what sending keys promises to whoever reads the keyboard |
| `SendKeys`, `SendKeys_proofs` | `send_gpio_keys()` and all below it; theorems |
| `SendKeysTaps` | The refinement mapping from `SendKeys` to `KeyTaps` |
| `Pikeyd`, `Pikeyd_proofs` | `GpioPoll` making the calls of `SendKeys`, the expanders' interrupts, kills and restarts; theorems |
| `Config`, `Config_proofs` | `init_config()`, command by command; theorems |
| `Lexer`, `Lexer_proofs` | `load_buffer()`, `next_token()`, `next_command()`; theorems |
| `Startup`, `Startup_proofs` | `main()` up to its loop, with the set-up of the expanders; theorems |
| `Daemon`, `Daemon_proofs` | `daemon.c`; theorems |
| `Handover` | What `Config` ends with and `GpioPoll` and `SendKeys` assume of their constants |
| `Sorting`, `DataLemmas` | Sets of numbers in ascending order; facts on sets and sequences that several proofs need |
| `MC...` | Instances for TLC |

`Pikeyd` composes `GpioPoll` and `SendKeys` (`INSTANCE`, sharing all variables).
`Config` shows what these two assume of their constants, in the words of
`Handover`; `Lexer` is what comes
before `Config`, `Startup` what is around it, `Daemon` what surrounds a process.

### GpioPoll

A bit mask is the set of its 1 bits. A contact `<<g, p>>` is a switch between
pin `p` and the line of group `g`, or ground for group 0. One call of
`gpio_poll()` is two actions, since a switch may move while it waits 5 us with
the line low: `Drive` up to the wait, `Read` from the register read to the end,
with the debouncing (`Debounce`), the repeat timers (`HandleRepeat`) and the
line's release. `irq`, `press` and `repeat` are the pins that the call sent, by
cause; within a call the code goes through them in ascending order, which
nothing here depends on. `Move` is the environment. Between the calls the loop
sleeps 4 ms, which is why every call adds one `Tick` to a timer.

Assumptions on the wiring: pins are pulled up, as `pikeyd.conf` asks; a matrix
has diodes, so a closed contact pulls its pin low only while its own line is
low (`PulledLow`). That drivers differ from inputs and from each other is not
assumed but checked in `Config`.

`ContactKeys` forgets masks, counters and timers. It counts what each contact
has read and says: a press only after `BounceTime + 1` low reads in a row and
at most once per closing (as sampled); a press at the latest when the group has
read the same `BounceTime + 1` times; repeats only where a stage of the timer
ends (`Ending`), and always where the code's table calls that stage a press
(`RptValue`, `mxkey.value`). Whether a stage that the table calls a release sends
keys `ContactKeys` leaves open; the code does (run `releases`).

### SendKeys

A pointer into a list is a pin and a position. `pc` separates the steps between
which something can fail or a port can change: one iteration of each loop, the
press and the release. `Written` and `NotWritten` are the outcomes of
`sendKey()` and `sendSync()`, `down` is what the kernel holds pressed, `seen`
what its readers were told. A poll of an expander, `poll_iic()` with the start of
`handle_iic_event()`, is `ReadExpander(x)` or, after a failed transfer,
`MisreadExpander(x)`: the result of each of the three system calls is ignored, so
the buffer has the register's number if the read failed, and otherwise whatever
the chip addressed last has in the register selected last. For an event
that is no expander's (`PollNoExpander`) the code reads `xio_dev[-1]`: the model
goes on with nothing to send, or to `pc = "undefined"`, where it stops. `Init`
has the two states of the iterators that the configuration can leave behind,
with and without `test_config()`'s dump. All key codes are below 0x300, so that
test is left out.

Of the constants `SendKeys` assumes what the configuration hands over
(`ListAssumption`, by `Handover`), that ports are numbered from 0, and that
pins and groups are finitely many numbers with a last pin and a group 0, which
`test_config()` goes through.

`KeyTaps` forgets the lists, the two iterators and the loops. An order, a word
of keys, is taken when the one before is done; its keys are tapped in the
order given, each once and released before the next is pressed; unless
something fails, the readers see these taps. `SendKeysTaps` tells the order from
the parameters of the call (the pin, or the ports that changed), and what is
still due from the iterators, never from the history variables of `SendKeys`. So
`KeepsPromise` also speaks of calls in which a write fails, about which
`AllKeysInOrder` says nothing: a failure costs its own key, and the iterators
go on. It is a safety property; that calls return is `CallReturns`.

### Pikeyd

The daemon at work. `Read` is the poll of one group; the calls of
`send_gpio_keys()` that it makes are left in `todo`, in the order of the code
(`Calls`), and made one after the other (`Call`, `Proceed`, `ReadExpander`,
`Return`) before the next poll begins (`Idle`). Debounce state and timers are
updated with the poll although the code does it after the calls: nothing that a
call does reads or writes them. `Switch` and `Port` come at any time. A chip
latches a change of an enabled port, `int`, and pulls its interrupt pin low
until its register is read; the pin's contact in `GpioPoll` is derived from
`int`. A failed transfer may take back the interrupt of the expander it reads
instead of the one it was meant for, and neither is `known` any more.
`XioMask` has the pins that `gpio_pincfg()` found to be interrupt pins: all that
group 0 reads and any that a matrix configures, as a key or a driver
(`InterruptsMarked` of `Config`). Interrupts are enabled by whoever set up the chip (`Enabled`): the
daemon's own writes come too early, as `Startup` shows. `Kill` is a signal or a
crash at any step; the memory is lost, the levels of the driver lines are not.
`Start` sets the drivers high, as `gpio_pincfg()` does. What happens to the pid
file meanwhile is in `Daemon`.

The interrupt pin in the instance has a key of its own, since only then is it
read at all (run `interrupt`); so `send_gpio_keys()` polls expander -1 as well,
and the liveness properties hold only while that has not become `"undefined"`
(`Alive`).

### Daemon

The pid file is an entry that names an inode; locks belong to inodes. Each pid
goes through `daemonize()` from the assignment of `pid_lock_file` on: `Open`,
`Lock`, then `Write`, or `Refused`, the unlink, and `Leave`, the exit. `Signal` is
SIGTERM or SIGINT at any point, also while the handler of the other one runs
(`handling`), `Shutdown` the unlink that follows the close in `daemonShutdown()`,
after which the process leaves. `Die` is a crash, SIGKILL or a failed start,
`Other` a program that gets the pid. `KillOpen`, `KillRead`, `KillSend` are
`pikeyd -k`. The constant `Signals` has the signals that come from elsewhere.

### Config

One action per command, `End` for the end of the file, `Unknown` for a line
that no handler accepts. The order of tests in a handler is kept: a `MATRIX`
command adds its group before the driver is refused. An index outside an array
ends what can be said, so the status names it ("pin", "port", "group") and the
model stops. Pin texts are records of a connector and a number;
`get_gpio_pin()` is their table. An expander's address and type are left out.
A debug message that formats a key code as a string (config.c:301, debug level
DEV1 and up) is not modelled.

Its final state is what `GpioPoll` and `SendKeys` take as constants and as
initial states: `last_gpio` is the mask (`ReadyForPolling`), `xio_mask` is a subset
of the interrupt pins (`InterruptsMarked`), and `HandsOver` states what the two
assume, with the operators of `Handover` that their own `ASSUME`s are written
with: events name keys or expanders that are there, ports have keys only, and
`inmask` has the ports with a list. `HandsOver` presupposes that a slot of
`xio_dev[]` is free, as the count is 0 otherwise (below).

### Lexer

A file is a sequence of characters of five kinds; which letter it is matters
only in that neighbours differ. `pc` names the loop of `next_token()`, `tok` and
`cmd` are the token and the words of `next_command()`, and `HandOver` is
`init_config()` taking a command, which it may refuse. `Step` is `parse_bufptr++`
with the refill that follows it, and `LineEnds` the one increment that is not
followed by a refill. `CommandsOf` says what the commands of a text are, with no
lexer: words are maximal runs of letters outside comments, a command the words of
a line. A read fails at most by bringing nothing.

### Startup

`has` is what the process holds: the lock of the pid file, the mapped registers,
the uinput device. `gpio_init(ok)` and `init_uinput(ok)` are the values returned;
`Initialise` tests them as `main()` does. `Parse` stands for the commands of
`Config` and yields some number of expanders and matrices; `SetupXio` and
`TestIic` are the loop that follows. `fd` is the descriptor in `iic.c`, which is
0, standard input, until `InitIic`; whether a read from it waits, as that of a
terminal or of an empty pipe does, is `blocking`.
`Adopted` is `daemonize()` returning at once in a child of init.

## Runs

Passing:

| Run | Instance | Shows |
|---|---|---|
| `poll` | pins 4, 17; groups 0, 1; pin 4 is an expander's interrupt line and a matrix input, pin 17 a repeating matrix input; bounce time and all stages of the timer | `DebounceInv`, `RepeatInv`, `KeyFromOwnContact`, `PressIsReported`, `HeldKeyRepeats`, `InterruptIsServed`, refinement of `ContactKeys` |
| `sendkeys` | 2 groups, 3 pins, an expander with 2 ports, 2 keys, failing writes and transfers | `AllKeysInOrder`, `StuckOnlyByFailure`, `CallReturns`, refinement of `KeyTaps` |
| `pikeyd` | a button and a matrix contact on pin 4, an expander on pin 17, failing transfers, kills and restarts | `NoPortChangeMissed`, `NoGhostPress`, `PressIsSent`, `InterruptIsAnswered` |
| `config` | all files over 2 pins, 2 matrix groups, 3 expanders in an array of 3, up to 3 events | `PinsHaveOneUse`, `ReadyForPolling`, `InterruptsMarked`, `ExpandersApart`, `HandsOver`, `ConfigOnlyGrows` |
| `lexer` | all files of up to 7 characters, chunks of 3, failing reads | `CommandsAreTheLines`, `IgnoredOnlyAfterNewline`, `ParsingEnds` |
| `startup` | all command lines of up to 2 arguments, up to 2 expanders | `DriversUnderLock`, `LoopIsReady`, `BusIffExpanders`, `StartUpEnds` |
| `daemon` | 2 daemons, a child of init, 3 inodes | `OneHolderPerFile`, `RefusedOnlyByHolder`, `PidWrittenUnderLock` |

Violations, each of one sentence of the repository:

| Run | Property | What happens |
|---|---|---|
| `releases` | `RepeatsArePresses` (gpio.c:304) | a held contact sends its keys at the end of the stage of 80 ms, a release |
| `onlyone` | `OnlyOneAtATime` (daemon.c:154) | a refused start unlinks the running daemon's file; the next start succeeds |
| `kill` | `KillHitsDaemon` (daemon.c:68) | a stale pid gets the SIGTERM |
| `interrupt` | `InterruptsAreRead` (pikeyd.conf:64) | an expander's interrupt pin is in no mask |
| `chipsetup` | `ExpandersSetUp` (config.c:1161) | the settings of the expanders are written to standard input, before the bus is open |

The models contain more of the code's surprises, without a run of their own:

- `OnlyOneAtATime` is also broken by a start that gets a SIGTERM before it has
  the lock: `daemonShutdown()` unlinks the file, whosever it is (daemon.c:48,
  123). In `onlyone` `Signals` is empty, so that its trace is the refused start;
- a direct pin that does not exist, such as the power pin P1-1, is used as the
  index -1, since the test looks at a pointer (config.c:939, status `"pin"` of
  `Config`);
- a port of an expander sends its keys when its switch opens as well as when it
  closes (config.c:1281; `PortKeys` of `SendKeys`);
- a contact that reads high once while it is closed is reported again
  (`ContactKeys` says at most once *until it reads high*, gpio.c:253);
- an interrupt pin that has a key of its own, which is the one way to have it
  read, makes `send_gpio_keys()` poll expander -1 (uinput.c:170, status
  `"undefined"` of `SendKeys`);
- `REPEAT` of a direct pin, or of a port, writes `mat_grp[-1]` (config.c:553,
  status `"group"` of `Config`), a port number above 7 leaves `key[]`
  (config.c:299, status `"port"`);
- the expander that fills `xio_dev[]` makes the count 0, and none is found
  any more (config.c:387; `ExpandersApart` says what holds before that);
- the rest of a file after a newline that ends a chunk is ignored (config.c:762;
  `IgnoredOnlyAfterNewline` says that nothing else is), and an error in a last
  line without a newline is reported one line too low (`CommandOf`);
- a failed `init_uinput()` is taken for success, and the loop runs without a
  keyboard (pikeyd.c:113; `LoopIsReady` leaves it out);
- `test_iic()` waits for input when standard input is a terminal or an empty
  pipe (iic.c:102; the second case of `StartUpEnds`);
- the configuration is looked for in the working directory first, which is
  `/tmp` with `-d`; README:11 names the home directory and `/etc` only.

Bounds, and why they are enough. Debouncing concerns a group, its counter and
the pins that share it: two pins and a second group on the same pin are the
smallest instance with all of these. Times are scaled to 4, 12, 8 and 4 ms, so
that each stage takes another number of polls; a bounce time of 2 is the
smallest with a read that neither starts nor ends it. Counts in the history stop at
`BounceTime + 1`; timers need no bound, a release or a repeat resets them. In
`daemon` three inodes are one more than two daemons and `-k` hold open, and
inodes are interchangeable (symmetry, as for the tags in `config`; neither run
checks a liveness property). In
`sendkeys` two keys on a pin are the shortest list with a successor, and two
groups with the same pin tell `lastgpio` of one from the other's position. In
`config`, `MaxEvents` = 3 bounds all lists together: an expander and two keys on
one pin, in every order. `MaxXioDevs` = 3 stands for 8, so that the
count can go all the way round, and two groups are the
array growing twice. In `lexer`, seven characters are two full chunks and the
begin of a third: every kind of character is first, in the middle and last in a
chunk, and a word, a comment and a line go on past one. In `startup` two
arguments are the shortest line in which order matters, two expanders the
shortest list with a second. In `pikeyd` there is one contact of each kind and
a bounce time of 1; nothing repeats there, since `poll` has the timers, and no
write fails, since `sendkeys` has that.

Deadlock is checked except where the system really ends: `sendkeys`
(`"undefined"`), `lexer` (the end of the file) and `startup` and `chipsetup`
(the exit).

## Fairness

`FairSpec` of `GpioPoll` has weak fairness of `Drive` and `Read`: the loop of
`main()` (pikeyd.c:134-139) never ends, `usleep()` returns, and nothing in it
blocks. Nothing is assumed of the switches; properties that need them to rest
say so. `FairSpec` of `SendKeys` has weak fairness of the steps of a call in
progress: each is a bounded computation or a system call that returns. New
calls and port changes are not fair. `FairSpec` of `Pikeyd` has the same two
together: weak fairness of the daemon's next step while it runs, none of
switches, ports, kills and restarts. `Lexer` has weak fairness of its steps,
since reading a file does not block, `Startup` of every step but one: the read
from standard input, which may never return.

## Proofs

Assumed are only the named assumptions on the constants. A run of each module
evaluates them; those of `GpioPoll` and `SendKeys` on masks and lists are what
`HandedOver` proves of `Config`.

`GpioPoll_proofs`: with `HInv == HTypeOK /\ DebounceInv /\ RepeatInv /\ LineInv`,
the first three of which the run `poll` checks,

- `InductiveInvariant`: `HSpec => []HInv`. The typing is not inductive for the
  repeat timers' stages or the masks alone. `DebounceInv` ties `cur_gpio` to the
  history - a low pin is pending until it is reported - and bounds `bounce_cnt`
  by both the contact's and the group's stable reads, which is what makes
  "settled" imply "read low often enough". `RepeatInv` gives the timer's state
  as a function of the time since it last mattered. `LineInv` says that only the
  line of the group that is being read can be low.
- `TypeCorrect`, `DebounceExact`, `RepeatExact` follow.
- `NoCrossTalk`: `HSpec => KeyFromOwnContact`, from `LineInv`.
- `PollRefines`: `HSpec => Refines`, that is, `GpioPoll` implements
  `ContactKeys`, whatever `RptValue` is. `ReadIsPoll` shows that a `Read` is a `Poll` of the same group;
  `Drive` is a `Begin`, `Move` a stutter.

`Daemon_proofs`: `DaemonInv == TypeOK /\ FileIsOpen /\ KillerReady /\
OneHolderPerFile` is inductive. `FileIsOpen` (a process inside `daemonize()` has
the file open) is what `OneHolderPerFile` lacks: without it `Lock` could hand
the lock of no file to a process. From it `HolderExclusive`, `TypeCorrect`,
`NoStaleRefusal` and `PidNamesHolder`.

`Config_proofs`: `ConfigInv == TypeOK /\ FlagsTellUse /\ ReadyForPolling /\
InterruptsMarked` is inductive. `PinsHaveOneUse` is not: that an input never
becomes a driver follows only from the flags in `GpioFlags`, which
`gpio_pincfg()` tests, so `FlagsTellUse` says that they agree with masks, drivers
and pulls. From it `TypeCorrect`, `OneUse`, `StartsReleased`, `InterruptPins` and
`OnlyGrows`. `SlotsApart` needs a second invariant, `SlotsInv`: the number of
expanders is the number of their events as long as the array is not full, which
is an argument about cardinalities. `HandedOver` needs a third, `ListsInv`: only
group 0 has events of expanders, and `inmask` agrees with the lists once the whole
file has been read. With it the assumptions on masks and lists of the two modules that
run after `init_config()` are discharged by the one that models it, as long as a
slot of `xio_dev[]` is free.

`SendKeys_proofs`: `SendInv == WalksInLists /\ Shapes /\ OwnWalk /\ HeldOrLost`.
`OwnWalk` is the point of the iterators: in a call the shared `last_gpio_key` and
`lastgpio` are at an event of the very pin of the call, whatever was there
before. `HeldOrLost` extends `StuckOnlyByFailure` to the middle of a call, where
the key whose release is due is down, too. From these `NoStrayIterator` and
`NoKeyStuck`.

- `TypeCorrect` and `KeysInOrder` (`AllKeysInOrder`) follow from
  `KeysInv == SendInv /\ TypeOK /\ Progress`. `AllKeysInOrder` speaks of returned
  calls only and is far from inductive: `Progress` says of a call in progress
  that what was emitted is the begin of what is expected, up to the event where
  the iterator stands; in the walk over ports, the lists of all lower ports that
  changed and that begin of the port's own. Its steps are the case where the
  iterator has the next event, where the list ends, and where the next port is
  one that changed.
- `TapsKept`: `Spec => KeepsPromise`, that is, `SendKeys` implements `KeyTaps`. It
  needs `TapsInv == KeysInv /\ Chosen`, since in a call where something failed
  `Progress` is silent: `Chosen` says that the key to be sent is still that of the
  iterator. There is one lemma per action; most map to `Press`, `Release` or `Done`,
  the moves of an iterator to stutters.

`Pikeyd_proofs`: `PikeydInv == LineInv /\ MaskInv /\ PortsInv`. A line may be low
without a daemon, so `LineInv` speaks of a running one only, and `Start` is what
makes it true again. `PortsInv` is `NoPortChangeMissed` with the domains of the
arrays. From it `NoChangeMissed` and `NoGhosts`. `NoChangeMissed` is also what is
known of several expanders, whose failed transfers read each other: the run has
one.
A second invariant, `WholeInv`, is composed of those of the two components,
`Poll!TypeOK` and `KeysInv`, whose lemmas are cited through `INSTANCE`, under
`PollAssumption` and `SendAssumption`: a step of the whole is a step of one
component or both, a kill, which empties the memory, or a start. It gives `TypeCorrect` and `CallsKeepPromise`:
what `SendKeys` shows of single calls in any order holds of those that the
polls make.

`Lexer_proofs`: `LexInv == TypeOK /\ ChunkInv /\ DoneAtEnd`. `ChunkInv` says that the
buffer is the last piece of what was read and when the pointer can be behind it;
it gives `IgnoredOnlyThere`. `LinesBecomeCommands` (`CommandsAreTheLines`) needs
`LinesInv == LexInv /\ Tokens /\ Given`: at each character the commands given so far
are those of the lines before it, and `cmd` and `tok` are the words of its own line
and the begun one, wherever the chunk ends. `Step` and `LineEnds` are then facts on
what one more character does to the words, the lines and the starts of words
of a text.

`Startup_proofs`: `StartInv == TypeOK /\ StageInv /\ NoneReached`, what the process has
at each stage. From it `TypeCorrect`, `LockBeforeDrivers`, `ReadyWhenPolling`, `BusOpened`, and
`NoChipIsSetUp`: on no path does `setup_xio()` reach a chip.

`DataLemmas` has what these need of sets and sequences: least and greatest
elements, that a finite set of numbers has one ascending order, what a further
element adds to it, and what the recursive function in `FlattenSeq` computes.
The provers cannot instantiate the induction rules of the library, so
where a claim is about every length the proof takes the least number that
violates it, which exists because `<` on the naturals is well-founded
(`LeastNat`). `Sorting` states the order of ports and words in plain terms, as the
`SortSeq` of the library is opaque to the prover.

Every invariant and every action property that a passing run checks is proved,
and both refinements. Only model-checked are the liveness properties
(`PressIsReported`, `HeldKeyRepeats`, `InterruptIsServed`, `CallReturns`,
`PressIsSent`, `InterruptIsAnswered`, `ParsingEnds`, `StartUpEnds`), which are out
of the prover's reach.

## Not modelled

- The values in the registers of an expander (`IODIR`, `IOCON`, `GPPU`, ...) and
  its address and type: no step of the code tests them. Whether they get there is
  in `Startup`.
- The table of key names and the messages and levels of `debug.c`: no behaviour;
  the one effect of debugging on state is in `Init` of `SendKeys`.
- The characters of command words, pin texts and numbers: `Lexer` hands over
  words, `Config` takes commands, and the tests for the number of words and the
  spelling in between are the `Unknown` and refused lines of `Config`.
- `sendRel()`, `close_uinput()`, `close_iic()`, `get_event_key()` and
  `gpio_pin()`, which have no caller; `print_err()`, whose body is commented out.
- The `HEAD` side of the merge markers.
- What becomes of the events of a daemon without a keyboard: `uidev_fd` is 0 then,
  so they are written to standard input.

## What is left

Nothing in the code is planned and unmodelled. Possible extensions are a run of
`Pikeyd` with two expanders on one interrupt line, which `xio_dev[]` allows, the
two abstract specifications as promises of `Pikeyd` as a whole (`ContactKeys` needs
the history variables of `GpioPollHist` there), and one for `Daemon`: a lock that
is taken by at most one and given up by who dies, as far as the code
keeps that.
