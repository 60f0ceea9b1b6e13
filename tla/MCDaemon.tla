------------------------------ MODULE MCDaemon ------------------------------
(* Instances of Daemon: two pids that daemonize, in one of them a third    *)
(* that is a child of init, over one inode more than can be in use.        *)
EXTENDS Daemon, TLC

Interchangeable == Permutations(Inodes)
=============================================================================
