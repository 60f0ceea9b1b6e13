------------------------------ MODULE MCLexer ------------------------------
(***************************************************************************)
(* All files of up to MaxLen characters, read in chunks of BufSiz.  Two    *)
(* letters in turn make neighbouring letters differ.                       *)
(***************************************************************************)
EXTENDS Lexer

CONSTANTS a, b, MaxLen

Character(n, c) == IF c # a THEN c ELSE IF n % 2 = 1 THEN a ELSE b

TextsOf(n) ==
  {[k \in 1 .. n |-> Character(k, c[k])] :
     c \in [1 .. n -> {a, Blank, Hash, Newline}]}

AllTexts == UNION {TextsOf(n) : n \in 0 .. MaxLen}
=============================================================================
