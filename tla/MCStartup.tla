----------------------------- MODULE MCStartup -----------------------------
(* All command lines of up to two arguments. *)
EXTENDS Startup

Arguments == Options \cup Quitting \cup Invalid \cup {NoDebug}

ShortLines == UNION {[1 .. n -> Arguments] : n \in 0 .. 2}
=============================================================================
