------------------------------ MODULE MCConfig ------------------------------
(***************************************************************************)
(* Instances of Config: pins 8 and 17, written as connector pins too.      *)
(***************************************************************************)
EXTENDS Config, TLC

Text(place, no) == [place |-> place, no |-> no]

ValidTexts == {Text("P1", 24), Text("GPIO", 17)}

(* P1-1 is a power pin, and there is no GPIO 40. *)
MixedTexts == ValidTexts \cup {Text("P1", 1), Text("", 40)}

AllTexts == MixedTexts \cup {Text("GPIO", 8), Text("P5", 3)}

Interchangeable == Permutations(MatTags) \cup Permutations(XioTags)
=============================================================================
