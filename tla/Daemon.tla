------------------------------- MODULE Daemon -------------------------------
(***************************************************************************)
(* daemon.c and the uses main() makes of it: several runs of "pikeyd -d"   *)
(* and of "pikeyd -k" over one pid file.                                   *)
(*                                                                         *)
(* The pid file is a directory entry that names an inode; processes hold   *)
(* inodes open after the entry is gone, and lock inodes, not names.        *)
(* A process that ends loses its descriptors and its lock.  A pid is       *)
(* reused, by pikeyd or by another program, once its process has ended.    *)
(***************************************************************************)
EXTENDS Integers

CONSTANTS
  Pids,          \* the pids in use
  Inodes,        \* the inodes the pid file may get
  InitChildren,  \* the pids whose parent is init when they start
  Signals,       \* the signals that may come, besides those of "pikeyd -k"
  None           \* no inode, no pid

ASSUME NoneAssumption == None \notin Pids /\ None \notin Inodes

ASSUME InitAssumption == InitChildren \subseteq Pids

(* Those that signal_handler() ends the process for. *)
Ending == {"SIGTERM", "SIGINT"}

ASSUME SignalAssumption == Signals \subseteq Ending

VARIABLES
  entry,     \* the inode that pidfile names
  content,   \* the pid written in each inode
  lock,      \* the process that holds lockf()'s lock of each inode
  pc,        \* where each pid's process is, see State
  pid_fd,    \* the inode that each process has open
  handling,  \* the signals whose handlers run in it, and are blocked
  kill_pc,   \* where "pikeyd -k" is
  kill_fd,   \* the inode it has open
  target     \* the pid it has read

file   == <<entry, content, lock>>
daemon == <<pc, pid_fd, handling>>
killer == <<kill_pc, kill_fd, target>>
vars   == <<file, daemon, killer>>

State == {"none", "other",         \* no process, or another program's
          "open", "lock", "unlink", "write",   \* in daemonize()
          "run",                   \* back in main()
          "shutdown",              \* in daemonShutdown(), pid_fd closed
          "leave"}                 \* about to exit, the file unlinked

TypeOK ==
  /\ entry \in Inodes \cup {None}
  /\ content \in [Inodes -> Pids \cup {None}]
  /\ lock \in [Inodes -> Pids \cup {None}]
  /\ pc \in [Pids -> State]
  /\ pid_fd \in [Pids -> Inodes \cup {None}]
  /\ handling \in [Pids -> SUBSET Ending]
  /\ kill_pc \in {"none", "read", "kill"}
  /\ kill_fd \in Inodes \cup {None}
  /\ target \in Pids \cup {None}
  /\ kill_pc = "kill" => target # None

Init ==
  /\ entry = None
  /\ content = [i \in Inodes |-> None]
  /\ lock = [i \in Inodes |-> None]
  /\ pc = [p \in Pids |-> "none"]
  /\ pid_fd = [p \in Pids |-> None]
  /\ handling = [p \in Pids |-> {}]
  /\ kill_pc = "none" /\ kill_fd = None /\ target = None

-----------------------------------------------------------------------------
Goto(p, l) == pc' = [pc EXCEPT ![p] = l]

(* The kernel closes p's descriptor, which also gives up its lock.         *)
CloseFd(p) ==
  /\ pid_fd' = [pid_fd EXCEPT ![p] = None]
  /\ lock' = [i \in Inodes |-> IF lock[i] = p THEN None ELSE lock[i]]

Exit(p) ==
  /\ Goto(p, "none") /\ CloseFd(p)
  /\ handling' = [handling EXCEPT ![p] = {}]

(* daemonize(), up to the assignment of pid_lock_file: fork and detach.    *)
(* A child of init returns at once and has neither handler nor pid file.   *)
(* A signal before the assignment ends the process and touches no file.    *)
Start(p) ==
  /\ pc[p] = "none"
  /\ Goto(p, IF p \in InitChildren THEN "run" ELSE "open")
  /\ UNCHANGED <<file, pid_fd, handling, killer>>

Unused(i) == entry # i /\ kill_fd # i /\ \A p \in Pids : pid_fd[p] # i

(* open(pidfile, O_RDWR|O_CREAT): an existing file is kept as it is.       *)
Open(p) ==
  /\ pc[p] = "open"
  /\ \/ /\ entry # None
        /\ pid_fd' = [pid_fd EXCEPT ![p] = entry]
        /\ UNCHANGED file
     \/ /\ entry = None
        /\ \E i \in Inodes :
             /\ Unused(i)
             /\ entry' = i
             /\ content' = [content EXCEPT ![i] = None]
             /\ pid_fd' = [pid_fd EXCEPT ![p] = i]
        /\ UNCHANGED lock
  /\ Goto(p, "lock")
  /\ UNCHANGED <<handling, killer>>

OpenFails(p) ==
  /\ pc[p] = "open"
  /\ Goto(p, "none")
  /\ UNCHANGED <<file, pid_fd, handling, killer>>

(* lockf(pid_fd, F_TLOCK, 0) *)
LockFreeIfUnwritten(i) == content[i] = None
LockFree(i) == lock[i] = None

Lock(p) ==
  /\ pc[p] = "lock"
  /\ \/ /\ LockFree(pid_fd[p])
        /\ lock' = [lock EXCEPT ![pid_fd[p]] = p]
        /\ Goto(p, "write")
     \/ /\ ~LockFree(pid_fd[p])
        /\ Goto(p, "unlink")
        /\ UNCHANGED lock
  /\ UNCHANGED <<entry, content, pid_fd, handling, killer>>

(* The process that did not get the lock unlinks the file ...              *)
Refused(p) ==
  /\ pc[p] = "unlink"
  /\ entry' = None
  /\ Goto(p, "leave")
  /\ UNCHANGED <<content, lock, pid_fd, handling, killer>>

(* ... and exits, as does one that has been through daemonShutdown().      *)
Leave(p) ==
  /\ pc[p] = "leave"
  /\ Exit(p)
  /\ UNCHANGED <<entry, content, killer>>

(* The process that did writes its pid; a failed write is only reported.   *)
Write(p) ==
  /\ pc[p] = "write"
  /\ content' \in {content, [content EXCEPT ![pid_fd[p]] = p]}
  /\ Goto(p, "run")
  /\ UNCHANGED <<entry, lock, pid_fd, handling, killer>>
-----------------------------------------------------------------------------
Live == {p \in Pids : pc[p] \notin {"none", "other"}}

(* A signal that ends p: signal_handler() runs daemonShutdown() in a       *)
(* daemon, which first closes pid_fd, within another handler if that of    *)
(* the other signal is running; any other process just ends.               *)
Terminated(p, s) ==
  IF p \in Live \ InitChildren
  THEN /\ s \notin handling[p]
       /\ handling' = [handling EXCEPT ![p] = @ \cup {s}]
       /\ CloseFd(p) /\ Goto(p, "shutdown")
  ELSE Exit(p)

Signal(p) ==
  /\ p \in Live
  /\ \E s \in Signals : Terminated(p, s)
  /\ UNCHANGED <<entry, content, killer>>

(* daemonShutdown() unlinks the file; the innermost handler then exits.    *)
Shutdown(p) ==
  /\ pc[p] = "shutdown"
  /\ entry' = None
  /\ Goto(p, "leave")
  /\ UNCHANGED <<content, lock, pid_fd, handling, killer>>

(* The process is killed, or main() returns because a part of pikeyd could *)
(* not be initialised: the file stays.                                     *)
Die(p) ==
  /\ p \in Live
  /\ Exit(p)
  /\ UNCHANGED <<entry, content, killer>>

(* Another program gets the pid, or ends. *)
Other(p) ==
  /\ pc[p] \in {"none", "other"}
  /\ Goto(p, IF pc[p] = "none" THEN "other" ELSE "none")
  /\ UNCHANGED <<file, pid_fd, handling, killer>>

-----------------------------------------------------------------------------
(* daemonKill(): open the file, ... *)
KillOpen ==
  /\ kill_pc = "none" /\ entry # None
  /\ kill_fd' = entry
  /\ kill_pc' = "read"
  /\ UNCHANGED <<file, daemon, target>>

(* ... read a pid; an empty file, or pid 0, ends it, ... *)
HasPidUntested(i) == TRUE
HasPid(i) == content[i] # None

KillRead ==
  /\ kill_pc = "read"
  /\ target' = content[kill_fd]
  /\ \/ HasPid(kill_fd) /\ kill_pc' = "kill" /\ UNCHANGED kill_fd
     \/ ~HasPid(kill_fd) /\ kill_pc' = "none" /\ kill_fd' = None
  /\ UNCHANGED <<file, daemon>>

(* ... and send SIGTERM to it, if there is such a process.                 *)
KillSend ==
  /\ kill_pc = "kill"
  /\ \/ /\ pc[target] = "none" \/ "SIGTERM" \in handling[target]
        /\ UNCHANGED <<lock, daemon>>
     \/ pc[target] # "none" /\ Terminated(target, "SIGTERM")
  /\ kill_pc' = "none" /\ kill_fd' = None /\ target' = None
  /\ UNCHANGED <<entry, content>>

Next ==
  \/ \E p \in Pids :
       \/ Start(p) \/ Open(p) \/ OpenFails(p) \/ Lock(p) \/ Refused(p) \/ Leave(p)
       \/ Write(p) \/ Signal(p) \/ Shutdown(p) \/ Die(p) \/ Other(p)
  \/ KillOpen \/ KillRead \/ KillSend

Spec == Init /\ [][Next]_vars

-----------------------------------------------------------------------------
(* The processes that have passed lockf(). *)
Holders == {p \in Pids \ InitChildren : pc[p] \in {"write", "run"}}

(***************************************************************************)
(* At most one process is past the lock of one and the same file, through  *)
(* any order of starts, signals and crashes; a process that has ended, in  *)
(* whatever way, holds no lock.                                            *)
(***************************************************************************)
OneHolderPerFile ==
  /\ \A p \in Holders : pid_fd[p] # None /\ lock[pid_fd[p]] = p
  /\ \A i \in Inodes : lock[i] # None => lock[i] \in Holders /\ pid_fd[lock[i]] = i

(***************************************************************************)
(* A process is refused only while another one really is past the lock: a  *)
(* pid file left behind by a crash never keeps pikeyd from starting.       *)
(***************************************************************************)
RefusedOnlyByHolder ==
  [][\A p \in Pids : pc[p] = "lock" /\ pc'[p] = "unlink" =>
       \E q \in Holders \ {p} : pid_fd[q] = pid_fd[p]]_vars

(***************************************************************************)
(* A pid gets into a file only by the process of that pid, while it holds  *)
(* the file's lock: two daemons never overwrite each other's pid.          *)
(***************************************************************************)
PidWrittenUnderLock ==
  [][\A i \in Inodes :
       content'[i] \notin {content[i], None} => lock[i] = content'[i]]_vars

(***************************************************************************)
(* daemon.c:154, "only one at a time": two daemons never run together.     *)
(***************************************************************************)
OnlyOneAtATime ==
  \A p, q \in Pids : pc[p] = "run" /\ pc[q] = "run" => p = q

(***************************************************************************)
(* daemon.c:68, "get the pid from the pid lock file and terminate the      *)
(* daemon": "pikeyd -k" signals no process but a daemon.                   *)
(***************************************************************************)
KillHitsDaemon == [][kill_pc = "kill" /\ KillSend => pc[target] # "other"]_vars
=============================================================================
