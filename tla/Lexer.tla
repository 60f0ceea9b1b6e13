------------------------------- MODULE Lexer -------------------------------
(***************************************************************************)
(* How init_config() gets its commands: load_buffer() reads the file in    *)
(* chunks, next_token() goes through them character by character, and      *)
(* next_command() collects the words of a line.                            *)
(*                                                                         *)
(* A zero byte ends a chunk; the lexer tells the end of a chunk from the   *)
(* end of the file only by what load_buffer() brings.                      *)
(***************************************************************************)
EXTENDS Integers, SequencesExt, FiniteSetsExt, Sorting

CONSTANTS
  Letters,     \* the characters that words are made of
  Blank,       \* a space, a tab or a carriage return
  Hash,        \* starts a comment
  Newline,
  End,         \* the zero byte after a chunk
  Texts,       \* the files
  BufSiz,      \* BUFSIZ
  ReadErrors   \* may read() fail?

Chars == Letters \cup {Blank, Hash, Newline}

ASSUME CharAssumption ==
  /\ Blank \notin Letters \cup {Hash, Newline, End}
  /\ Hash \notin Letters \cup {Newline, End}
  /\ Newline \notin Letters \cup {End}
  /\ End \notin Letters

ASSUME FileAssumption ==
  /\ Texts \subseteq Seq(Chars)
  /\ BufSiz \in Nat \ {0}
  /\ ReadErrors \in BOOLEAN

VARIABLES
  text,        \* the file
  from,        \* how much of it has been read
  failed,      \* has a read failed?
  buf, ptr,    \* parse_buf up to the zero byte, parse_bufptr
  pc,          \* which loop of next_token(), or how init_config() ended
  tok, cmd,    \* the token and the command so far
  lnno,        \* parse_lnno
  commands     \* what init_config() was given, and parse_lnno at the time

file   == <<text, from, failed>>
chunk  == <<buf, ptr>>
line   == <<cmd, lnno, commands>>
vars   == <<file, chunk, pc, tok, line>>

Word == Seq(Letters)

TypeOK ==
  /\ text \in Seq(Chars)
  /\ from \in 0 .. Len(text)
  /\ failed \in BOOLEAN
  /\ buf \in Seq(Chars) /\ Len(buf) <= BufSiz
  /\ ptr \in 1 .. Len(buf) + 1
  /\ pc \in {"open", "blank", "comment", "word", "done", "refused"}
  /\ tok \in Word
  /\ cmd \in Seq(Word)
  /\ lnno \in Nat
  /\ commands \in Seq([words : Seq(Word), at : Nat])

Init ==
  /\ text \in Texts
  /\ from = 0 /\ failed = FALSE
  /\ buf = <<>> /\ ptr = 1
  /\ pc = "open"
  /\ tok = <<>> /\ cmd = <<>> /\ lnno = 0 /\ commands = <<>>

-----------------------------------------------------------------------------
Here == IF ptr > Len(buf) THEN End ELSE buf[ptr]

(* load_buffer() clears the buffer, so that nothing of the last chunk is   *)
(* left after a shorter one, or after a read that brings nothing: at the   *)
(* end of the file, or because it failed.                                  *)
OverLastChunk(bytes) == bytes \o SubSeq(buf, Len(bytes) + 1, Len(buf))
OverZeros(bytes) == bytes

NotRewound == ptr
Rewound == 1

load_buffer ==
  /\ \/ /\ from' = IF from + BufSiz < Len(text) THEN from + BufSiz ELSE Len(text)
        /\ buf' = OverZeros(SubSeq(text, from + 1, from'))
        /\ UNCHANGED failed
     \/ ReadErrors /\ failed' = TRUE /\ buf' = OverZeros(<<>>) /\ UNCHANGED from
  /\ ptr' = Rewound
  /\ UNCHANGED text

(* To the next character, for which the next chunk is read if need be.     *)
StepUnloaded == ptr' = ptr + 1 /\ UNCHANGED <<file, buf>>
Step ==
  IF ptr = Len(buf) THEN load_buffer
                    ELSE ptr' = ptr + 1 /\ UNCHANGED <<file, buf>>

Open ==
  /\ pc = "open"
  /\ load_buffer
  /\ pc' = "blank"
  /\ UNCHANGED <<tok, line>>

Chew ==
  /\ pc = "blank" /\ Here = Blank
  /\ Step
  /\ UNCHANGED <<pc, tok, line>>

Comment ==
  /\ \/ pc = "blank" /\ Here = Hash
     \/ pc = "comment" /\ Here \notin {Newline, End}
  /\ Step
  /\ pc' = "comment"
  /\ UNCHANGED <<tok, line>>

CommentEnds ==
  /\ pc = "comment" /\ Here \in {Newline, End}
  /\ pc' = "blank"
  /\ UNCHANGED <<file, chunk, tok, line>>

Gobble ==
  /\ pc \in {"blank", "word"} /\ Here \in Letters
  /\ tok' = Append(tok, Here)
  /\ Step
  /\ pc' = "word"
  /\ UNCHANGED line

(* next_command() takes the word. *)
WordEnds ==
  /\ pc = "word" /\ Here \notin Letters
  /\ cmd' = Append(cmd, tok)
  /\ tok' = <<>>
  /\ pc' = "blank"
  /\ UNCHANGED <<file, chunk, lnno, commands>>

(* init_config() gets the words of a line, and goes on unless it refuses   *)
(* them.  It skips an empty line.                                          *)
HandOver ==
  IF cmd = <<>> THEN pc' = "blank" /\ UNCHANGED <<cmd, commands>>
  ELSE /\ commands' = Append(commands, [words |-> cmd, at |-> lnno'])
       /\ cmd' = <<>>
       /\ pc' \in {"blank", "refused"}

(* No chunk is read here: a newline that ends one is followed by the zero  *)
(* byte.                                                                   *)
LineUncounted == lnno
LineCounted == lnno + 1

LineEnds ==
  /\ pc = "blank" /\ Here = Newline
  /\ ptr' = ptr + 1
  /\ lnno' = LineCounted
  /\ HandOver
  /\ UNCHANGED <<file, buf, tok>>

LastLine ==
  /\ pc = "blank" /\ Here = End /\ cmd # <<>>
  /\ UNCHANGED lnno
  /\ HandOver
  /\ UNCHANGED <<file, chunk, tok>>

Done ==
  /\ pc = "blank" /\ Here = End /\ cmd = <<>>
  /\ pc' = "done"
  /\ UNCHANGED <<file, chunk, tok, line>>

Next ==
  \/ Open \/ Chew \/ Comment \/ CommentEnds \/ Gobble \/ WordEnds
  \/ LineEnds \/ LastLine \/ Done

Spec == Init /\ [][Next]_vars

(* init_config() runs to its end: reading a file does not block. *)
FairSpec == Spec /\ WF_vars(Next)

-----------------------------------------------------------------------------
(* The commands of a text t, without a lexer. *)

Commented(t, n) ==
  \E h \in 1 .. n : t[h] = Hash /\ \A k \in h .. n : t[k] # Newline

InWord(t, n) == n \in DOMAIN t /\ t[n] \in Letters /\ ~Commented(t, n)

NewlinesTo(t, n) == Cardinality({k \in 1 .. n : t[k] = Newline})

Starts(t) == {n \in DOMAIN t : InWord(t, n) /\ ~InWord(t, n - 1)}

WordAt(t, n) ==
  SubSeq(t, n, Min({k \in n .. Len(t) : ~InWord(t, k + 1)}))

WordsAt(t, S) ==
  LET s == Ascending(S) IN [i \in DOMAIN s |-> WordAt(t, s[i])]

StartsOf(t, l) == {n \in Starts(t) : NewlinesTo(t, n) = l}

WordsOf(t, l) == WordsAt(t, StartsOf(t, l))

(* The line with l newlines before it, and its number: the last line of a  *)
(* file has one only if a newline ends it.                                 *)
CommandOf(t, l) ==
  [words |-> WordsOf(t, l),
   at |-> IF l < NewlinesTo(t, Len(t)) THEN l + 1 ELSE l]

Lines(t) == {NewlinesTo(t, n) : n \in Starts(t)}

CommandsAt(t, S) ==
  LET s == Ascending(S) IN [i \in DOMAIN s |-> CommandOf(t, s[i])]

CommandsOf(t) == CommandsAt(t, Lines(t))

(* The characters that the lexer has gone past. *)
Consumed == SubSeq(text, 1, from - Len(buf) + ptr - 1)

(***************************************************************************)
(* Between two commands, init_config() has been given the commands of what *)
(* the lexer has gone past, with all of their words, in order and with the *)
(* line's number, wherever chunks end in a word, a comment or a line.      *)
(***************************************************************************)
CommandsAreTheLines ==
  cmd = <<>> /\ tok = <<>> => commands = CommandsOf(Consumed)

(***************************************************************************)
(* The rest of the file is ignored only after a failed read or where a     *)
(* newline ends a chunk (config.c:762): never within a line.               *)
(***************************************************************************)
IgnoredOnlyAfterNewline ==
  pc = "done" => \/ from = Len(text)
                 \/ failed
                 \/ from > 0 /\ text[from] = Newline

(* A file is parsed to an end: init_config() returns. *)
ParsingEnds == <>(pc \in {"done", "refused"})
=============================================================================
