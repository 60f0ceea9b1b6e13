------------------------------ MODULE Sorting ------------------------------
(***************************************************************************)
(* A finite set of numbers in ascending order.  The operators SortSeq of   *)
(* TLC and SetToSortSeq of SequencesExt do the same; the prover does not   *)
(* know the former.                                                        *)
(***************************************************************************)
EXTENDS Integers, FiniteSets

Sorts(s, S) ==
  /\ s \in [1 .. Cardinality(S) -> S]
  /\ \A i, j \in DOMAIN s : i < j => s[i] < s[j]

Ascending(S) == CHOOSE s \in [1 .. Cardinality(S) -> S] : Sorts(s, S)
=============================================================================
