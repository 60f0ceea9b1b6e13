----------------------------- MODULE MCGpioPoll -----------------------------
(***************************************************************************)
(* An instance of GpioPollHist.  Pin 4 is the interrupt line of an         *)
(* expander in group 0 and an input of matrix group 1, pin 17 an input of  *)
(* group 1 that repeats.  The times of the code, 80, 200, 40 and 40 ms,    *)
(* are scaled down; no two that follow each other are equal.               *)
(***************************************************************************)
EXTENDS GpioPollHist, TLC

PollMask == 0 :> {4} @@ 1 :> {4, 17}
PollRpt  == 0 :> {} @@ 1 :> {17}

ScaledTimes == 0 :> 4 @@ 1 :> 12 @@ 2 :> 8 @@ 3 :> 4
=============================================================================
