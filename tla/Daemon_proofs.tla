--------------------------- MODULE Daemon_proofs ---------------------------
(***************************************************************************)
(* What the lock of the pid file does guarantee, for any number of         *)
(* processes: one holder per file, and no refusal without a holder.        *)
(***************************************************************************)
EXTENDS Daemon, TLAPS

(* A process has the file open from open() until it lets go of it, and a   *)
(* child of init is never inside daemonize().                              *)
FileIsOpen ==
  \A p \in Pids :
    /\ pc[p] \in {"lock", "unlink", "write"} => pid_fd[p] # None
    /\ p \in InitChildren => pc[p] \in {"none", "other", "run"}

(* "pikeyd -k" reads from an open file. *)
KillerReady == kill_pc = "read" => kill_fd # None

DaemonInv == TypeOK /\ FileIsOpen /\ KillerReady /\ OneHolderPerFile

USE NoneAssumption, InitAssumption, SignalAssumption

LEMMA DaemonInit == Init => DaemonInv
BY DEF Init, DaemonInv, TypeOK, State, FileIsOpen, KillerReady,
       OneHolderPerFile, Holders

(* A process that lets go of its file and leaves the holders.              *)
LEMMA LettingGo ==
  ASSUME DaemonInv, NEW p \in Pids, CloseFd(p),
         NEW l \in {"none", "shutdown"}, Goto(p, l),
         p \in InitChildren => l = "none"
  PROVE  /\ pc' \in [Pids -> State]
         /\ pid_fd' \in [Pids -> Inodes \cup {None}]
         /\ lock' \in [Inodes -> Pids \cup {None}]
         /\ FileIsOpen' /\ OneHolderPerFile'
<1> USE DEF CloseFd, Goto, DaemonInv, TypeOK, State
<1>1. /\ pc' \in [Pids -> State]
      /\ pid_fd' \in [Pids -> Inodes \cup {None}]
      /\ lock' \in [Inodes -> Pids \cup {None}]
  OBVIOUS
<1>2. FileIsOpen'
  BY DEF FileIsOpen
<1>3. OneHolderPerFile'
  <2>1. Holders' = Holders \ {p}
    BY DEF Holders
  <2>2. \A q \in Holders' : pid_fd'[q] # None /\ lock'[pid_fd'[q]] = q
    BY <2>1 DEF OneHolderPerFile, Holders
  <2>3. \A i \in Inodes :
          lock'[i] # None => lock'[i] \in Holders' /\ pid_fd'[lock'[i]] = i
    BY <2>1 DEF OneHolderPerFile, Holders
  <2> QED
    BY <2>2, <2>3 DEF OneHolderPerFile
<1> QED
  BY <1>1, <1>2, <1>3

(* A process that ends, or is made to by a signal, lets go. *)
LEMMA ExitLetsGo ==
  ASSUME DaemonInv, NEW p \in Pids, Exit(p)
  PROVE  /\ pc' \in [Pids -> State]
         /\ pid_fd' \in [Pids -> Inodes \cup {None}]
         /\ handling' \in [Pids -> SUBSET Ending]
         /\ lock' \in [Inodes -> Pids \cup {None}]
         /\ FileIsOpen' /\ OneHolderPerFile'
<1>1. CloseFd(p) /\ Goto(p, "none")
  BY DEF Exit
<1>2. handling' \in [Pids -> SUBSET Ending]
  BY DEF Exit, DaemonInv, TypeOK
<1> QED
  BY <1>1, <1>2, LettingGo

LEMMA TerminatedKeeps ==
  ASSUME DaemonInv, NEW p \in Pids, NEW s \in Ending, Terminated(p, s),
         UNCHANGED <<entry, content>>,
         kill_pc' \in {"none", "read", "kill"},
         kill_fd' \in Inodes \cup {None}, target' \in Pids \cup {None},
         kill_pc' = "kill" => target' # None, KillerReady'
  PROVE  DaemonInv'
<1>1. CASE p \in Live \ InitChildren
  <2>1. CloseFd(p) /\ Goto(p, "shutdown") /\ p \notin InitChildren
    BY <1>1 DEF Terminated
  <2>2. handling' \in [Pids -> SUBSET Ending]
    BY <1>1 DEF Terminated, DaemonInv, TypeOK
  <2> QED
    BY <2>1, <2>2, LettingGo DEF DaemonInv, TypeOK
<1>2. CASE p \notin Live \ InitChildren
  <2>1. Exit(p)
    BY <1>2 DEF Terminated
  <2> QED
    BY <2>1, ExitLetsGo DEF DaemonInv, TypeOK
<1> QED
  BY <1>1, <1>2

LEMMA DaemonNext == DaemonInv /\ [Next]_vars => DaemonInv'
<1> SUFFICES ASSUME DaemonInv, [Next]_vars PROVE DaemonInv'
  OBVIOUS
<1> USE DEF DaemonInv
<1>1. ASSUME NEW p \in Pids, Start(p) \/ OpenFails(p) \/ Other(p)
      PROVE  DaemonInv'
  <2> USE <1>1 DEF Start, OpenFails, Other, Goto, file, killer
  <2>1. TypeOK'
    BY DEF TypeOK, State
  <2>2. FileIsOpen'
    BY DEF FileIsOpen, TypeOK
  <2>3. (p \notin Holders /\ p \notin Holders') \/ p \in InitChildren
    BY DEF Holders, TypeOK
  <2>4. Holders' = Holders
    BY <2>3 DEF Holders, TypeOK
  <2>5. OneHolderPerFile'
    BY <2>4 DEF OneHolderPerFile
  <2>6. KillerReady'
    BY DEF KillerReady
  <2> QED
    BY <2>1, <2>2, <2>5, <2>6
<1>2. ASSUME NEW p \in Pids, Open(p)
      PROVE  DaemonInv'
  <2> USE <1>2 DEF Open, Goto, file, killer
  <2>1. PICK i \in Inodes : /\ pid_fd' = [pid_fd EXCEPT ![p] = i]
                            /\ entry' = i
                            /\ content' \in {content, [content EXCEPT ![i] = None]}
    BY DEF TypeOK
  <2>2. TypeOK'
    BY <2>1 DEF TypeOK, State
  <2>3. FileIsOpen'
    BY <2>1 DEF FileIsOpen, TypeOK
  <2>4. p \notin Holders /\ Holders' = Holders
    BY DEF Holders, TypeOK
  <2>5. OneHolderPerFile'
    BY <2>1, <2>4 DEF OneHolderPerFile, TypeOK, Holders
  <2>6. KillerReady'
    BY DEF KillerReady
  <2> QED
    BY <2>2, <2>3, <2>5, <2>6
<1>3. ASSUME NEW p \in Pids, Lock(p)
      PROVE  DaemonInv'
  <2> USE <1>3 DEF Lock, Goto, killer
  <2>1. pid_fd[p] \in Inodes /\ p \notin InitChildren /\ p \notin Holders
    BY DEF FileIsOpen, TypeOK, Holders
  <2>2. TypeOK'
    BY <2>1 DEF TypeOK, State
  <2>3. FileIsOpen'
    BY <2>1 DEF FileIsOpen, TypeOK
  <2> KillerReady'
    BY DEF KillerReady
  <2>4. CASE LockFree(pid_fd[p]) /\ lock' = [lock EXCEPT ![pid_fd[p]] = p] /\ Goto(p, "write")
    <3>1. Holders' = Holders \cup {p}
      BY <2>1, <2>4 DEF Holders, TypeOK
    <3>2. \A q \in Holders : pid_fd[q] # pid_fd[p]
      BY <2>1, <2>4 DEF OneHolderPerFile, LockFree, Holders
    <3> QED
      BY <2>1, <2>2, <2>3, <2>4, <3>1, <3>2 DEF OneHolderPerFile, TypeOK, Holders
  <2>5. CASE Goto(p, "unlink") /\ UNCHANGED lock
    <3>1. Holders' = Holders
      BY <2>1, <2>5 DEF Holders, TypeOK
    <3> QED
      BY <2>2, <2>3, <2>5, <3>1 DEF OneHolderPerFile
  <2> QED
    BY <2>4, <2>5
<1>4. ASSUME NEW p \in Pids, Write(p)
      PROVE  DaemonInv'
  <2> USE <1>4 DEF Write, Goto, killer
  <2>1. pid_fd[p] \in Inodes
    BY DEF FileIsOpen, TypeOK
  <2>2. TypeOK'
    BY <2>1 DEF TypeOK, State
  <2>3. FileIsOpen'
    BY DEF FileIsOpen, TypeOK
  <2>4. Holders' = Holders
    BY DEF Holders, TypeOK
  <2> QED
    BY <2>2, <2>3, <2>4 DEF OneHolderPerFile, KillerReady
<1>5. ASSUME NEW p \in Pids, Leave(p) \/ Die(p)
      PROVE  DaemonInv'
  <2>1. Exit(p)
    BY <1>5 DEF Leave, Die
  <2> QED
    BY <1>5, <2>1, ExitLetsGo DEF Leave, Die, killer, TypeOK, KillerReady
<1>6. ASSUME NEW p \in Pids, Signal(p)
      PROVE  DaemonInv'
  <2>1. PICK s \in Ending : Terminated(p, s)
    BY <1>6 DEF Signal
  <2> QED
    BY <1>6, <2>1, TerminatedKeeps DEF Signal, killer, TypeOK, KillerReady
<1>7. ASSUME NEW p \in Pids, Refused(p) \/ Shutdown(p)
      PROVE  DaemonInv'
  <2> USE <1>7 DEF Refused, Shutdown, Goto, killer
  <2>1. TypeOK'
    BY DEF TypeOK, State
  <2>2. FileIsOpen'
    BY DEF FileIsOpen, TypeOK
  <2>3. Holders' = Holders
    BY DEF Holders, TypeOK
  <2> QED
    BY <2>1, <2>2, <2>3 DEF OneHolderPerFile, KillerReady
<1>8. CASE KillOpen \/ KillRead
  <2> USE <1>8 DEF KillOpen, KillRead, HasPid, file, daemon
  <2>1. TypeOK' /\ KillerReady'
    BY DEF TypeOK, KillerReady
  <2>2. FileIsOpen' /\ OneHolderPerFile'
    BY DEF FileIsOpen, OneHolderPerFile, Holders
  <2> QED
    BY <2>1, <2>2
<1>9. CASE KillSend
  <2>1. target \in Pids /\ KillerReady'
    BY <1>9 DEF KillSend, KillerReady, TypeOK
  <2>2. CASE UNCHANGED <<lock, daemon>>
    BY <1>9, <2>1, <2>2
       DEF KillSend, daemon, TypeOK, FileIsOpen, OneHolderPerFile, Holders
  <2>3. CASE Terminated(target, "SIGTERM")
    BY <1>9, <2>1, <2>3, TerminatedKeeps DEF KillSend, Ending
  <2> QED
    BY <1>9, <2>2, <2>3 DEF KillSend
<1>10. CASE UNCHANGED vars
  BY <1>10 DEF vars, file, daemon, killer, TypeOK, FileIsOpen, KillerReady,
               OneHolderPerFile, Holders
<1> QED
  BY <1>1, <1>2, <1>3, <1>4, <1>5, <1>6, <1>7, <1>8, <1>9, <1>10 DEF Next
-----------------------------------------------------------------------------
(***************************************************************************)
(* For any number of processes, starts, signals and crashes, lockf() keeps *)
(* at most one process past the lock of each file.                         *)
(***************************************************************************)
THEOREM HolderExclusive == Spec => []OneHolderPerFile
<1>1. DaemonInv => OneHolderPerFile
  BY DEF DaemonInv
<1> QED
  BY DaemonInit, DaemonNext, <1>1, PTL DEF Spec

(* The types, and with them that "pikeyd -k" signals no process group: the *)
(* pid it sends to is one that it read.                                    *)
THEOREM TypeCorrect == Spec => []TypeOK
<1>1. DaemonInv => TypeOK
  BY DEF DaemonInv
<1> QED
  BY DaemonInit, DaemonNext, <1>1, PTL DEF Spec

(* A stale pid file never keeps a daemon from starting. *)
THEOREM NoStaleRefusal == Spec => RefusedOnlyByHolder
<1> DEFINE Step == \A p \in Pids : pc[p] = "lock" /\ pc'[p] = "unlink" =>
                     \E q \in Holders \ {p} : pid_fd[q] = pid_fd[p]
<1>1. DaemonInv /\ [Next]_vars => [Step]_vars
  <2> SUFFICES ASSUME DaemonInv, Next,
                      NEW p \in Pids, pc[p] = "lock", pc'[p] = "unlink"
               PROVE  \E q \in Holders \ {p} : pid_fd[q] = pid_fd[p]
    OBVIOUS
  <2>1. TypeOK /\ FileIsOpen /\ OneHolderPerFile
    BY DEF DaemonInv
  <2>2. Lock(p)
    BY <2>1 DEF TypeOK, Next, Start, Open, OpenFails, Lock, Refused, Leave, Write, Signal,
          Shutdown, Die, Other, Terminated, Exit, Goto, KillOpen, KillRead,
          KillSend, daemon
  <2>3. lock[pid_fd[p]] # None /\ pid_fd[p] \in Inodes
    BY <2>1, <2>2 DEF Lock, LockFree, Goto, FileIsOpen, TypeOK
  <2>4. lock[pid_fd[p]] \in Holders \ {p} /\ pid_fd[lock[pid_fd[p]]] = pid_fd[p]
    BY <2>1, <2>3 DEF OneHolderPerFile, Holders
  <2> QED
    BY <2>4
<1>2. RefusedOnlyByHolder <=> [][Step]_vars
  BY DEF RefusedOnlyByHolder
<1> QED
  BY DaemonInit, DaemonNext, <1>1, <1>2, PTL DEF Spec

(* The pid in a file is that of a process that held its lock. *)
THEOREM PidNamesHolder == Spec => PidWrittenUnderLock
<1> DEFINE Step == \A i \in Inodes :
                     content'[i] \notin {content[i], None} => lock[i] = content'[i]
<1>1. DaemonInv /\ [Next]_vars => [Step]_vars
  <2> SUFFICES ASSUME DaemonInv, Next, NEW i \in Inodes,
                      content'[i] \notin {content[i], None}
               PROVE  lock[i] = content'[i]
    OBVIOUS
  <2>1. TypeOK /\ FileIsOpen /\ OneHolderPerFile
    BY DEF DaemonInv
  <2>2. PICK p \in Pids : Write(p)
    BY <2>1 DEF TypeOK, Next, Start, Open, OpenFails, Lock, Refused, Leave, Write, Signal,
          Shutdown, Die, Other, KillOpen, KillRead, HasPid, KillSend, file
  <2>3. p \in Holders /\ pid_fd[p] = i /\ content'[i] = p
    BY <2>1, <2>2 DEF Write, FileIsOpen, TypeOK, Holders
  <2> QED
    BY <2>1, <2>3 DEF OneHolderPerFile
<1>2. PidWrittenUnderLock <=> [][Step]_vars
  BY DEF PidWrittenUnderLock
<1> QED
  BY DaemonInit, DaemonNext, <1>1, <1>2, PTL DEF Spec
=============================================================================
