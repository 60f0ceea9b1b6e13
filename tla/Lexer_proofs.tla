---------------------------- MODULE Lexer_proofs ----------------------------
(***************************************************************************)
(* Theorems about Lexer, for files of any length and chunks of any size.   *)
(***************************************************************************)
EXTENDS Lexer, DataLemmas

(* parse_buf is the part of the file that was read last; it is empty only  *)
(* when there was nothing to bring, and a pointer behind a chunk that is   *)
(* not empty stands behind a newline.                                      *)
ChunkInv ==
  /\ Len(buf) <= from
  /\ \A i \in 1 .. Len(buf) : buf[i] = text[from - Len(buf) + i]
  /\ buf = <<>> => pc = "open" \/ failed \/ from = Len(text)
  /\ buf # <<>> /\ ptr = Len(buf) + 1 => buf[Len(buf)] = Newline

DoneAtEnd == pc = "done" => ptr = Len(buf) + 1

LexInv == TypeOK /\ ChunkInv /\ DoneAtEnd

-----------------------------------------------------------------------------
(* The prover does little arithmetic on primed variables; their values are *)
(* named where it is needed.                                               *)
LEMMA Difference ==
  ASSUME NEW m \in Nat, NEW n \in Nat, m <= n, NEW d, d = n - m
  PROVE  /\ d \in Nat /\ d <= n /\ n - d = m
         /\ d = 0 => n = m
  OBVIOUS

(* A part of a file, by its bounds.                                        *)
LEMMA Part ==
  ASSUME NEW t \in Seq(Chars), NEW m \in Nat, NEW n \in Nat,
         m <= n, n <= Len(t)
  PROVE  /\ SubSeq(t, m + 1, n) \in Seq(Chars)
         /\ Len(SubSeq(t, m + 1, n)) = n - m
         /\ \A i \in 1 .. n - m : SubSeq(t, m + 1, n)[i] = t[m + i]
<1>1. Len(t) \in Nat /\ \A i \in m + 1 .. n : t[i] \in Chars
  OBVIOUS
<1>2. /\ SubSeq(t, m + 1, n) \in Seq(Chars)
      /\ Len(SubSeq(t, m + 1, n)) = IF m + 1 <= n THEN n - (m + 1) + 1 ELSE 0
      /\ \A i \in 1 .. n - (m + 1) + 1 :
           SubSeq(t, m + 1, n)[i] = t[m + 1 + i - 1]
  BY <1>1, SubSeqProperties
<1>3. n - (m + 1) + 1 = n - m /\ (~(m + 1 <= n) => n - m = 0)
  OBVIOUS
<1>4. \A i \in 1 .. n - m : m + 1 + i - 1 = m + i
  OBVIOUS
<1> QED
  BY <1>2, <1>3, <1>4

(* What load_buffer() leaves, when it is called again or for the first     *)
(* time: a chunk that is empty only at the end of the file or on failure.  *)
LEMMA Load ==
  ASSUME TypeOK, load_buffer
  PROVE  /\ text' = text
         /\ from' \in 0 .. Len(text)
         /\ failed' \in BOOLEAN
         /\ buf' \in Seq(Chars) /\ Len(buf') <= BufSiz
         /\ ptr' = 1
         /\ Len(buf') <= from' /\ from' - Len(buf') = from
         /\ \A i \in 1 .. Len(buf') : buf'[i] = text[from' - Len(buf') + i]
         /\ buf' = <<>> => failed' \/ from' = Len(text)
<1>1. /\ text \in Seq(Chars) /\ Len(text) \in Nat
      /\ BufSiz \in Nat /\ BufSiz > 0 /\ failed \in BOOLEAN
      /\ from \in Nat /\ from <= Len(text)
  BY FileAssumption DEF TypeOK
<1>2. text' = text /\ ptr' = 1
  BY DEF load_buffer, Rewound
<1>3. CASE /\ from' = IF from + BufSiz < Len(text) THEN from + BufSiz ELSE Len(text)
           /\ buf' = SubSeq(text, from + 1, from')
           /\ UNCHANGED failed
  <2>1. /\ from' \in Nat /\ from <= from' /\ from' <= Len(text)
        /\ from' - from <= BufSiz
        /\ from' = Len(text) \/ from < from'
    BY <1>1, <1>3
  <2>2. /\ buf' \in Seq(Chars) /\ Len(buf') = from' - from
        /\ \A i \in 1 .. from' - from : buf'[i] = text[from + i]
    <3> DEFINE new == from'
    <3>1. new \in Nat /\ from <= new /\ new <= Len(text)
      BY <2>1
    <3>2. buf' = SubSeq(text, from + 1, new)
      BY <1>3
    <3> HIDE DEF new
    <3>3. /\ SubSeq(text, from + 1, new) \in Seq(Chars)
          /\ Len(SubSeq(text, from + 1, new)) = new - from
          /\ \A i \in 1 .. new - from : SubSeq(text, from + 1, new)[i] = text[from + i]
      BY <1>1, <3>1, Part
    <3> QED
      BY <3>2, <3>3 DEF new
  <2>3. /\ Len(buf') <= from' /\ from' - Len(buf') = from
        /\ Len(buf') = 0 => from' = from
    BY <1>1, <2>1, <2>2, Difference
  <2>4. \A i \in 1 .. Len(buf') : buf'[i] = text[from' - Len(buf') + i]
    BY <2>2, <2>3
  <2>5. buf' = <<>> => from' = Len(text)
    BY <1>1, <2>1, <2>3
  <2>6. Len(buf') <= BufSiz
    BY <2>1, <2>2
  <2>7. from' \in 0 .. Len(text)
    BY <1>1, <2>1
  <2> QED
    BY <1>1, <1>2, <1>3, <2>2, <2>3, <2>4, <2>5, <2>6, <2>7
<1>4. CASE failed' = TRUE /\ buf' = <<>> /\ UNCHANGED from
  BY <1>1, <1>2, <1>4
<1> QED
  BY <1>3, <1>4 DEF load_buffer, OverZeros

(* Going on by one character from within the chunk keeps ChunkInv.         *)
LEMMA StepKeepsChunk ==
  ASSUME LexInv, Step, ptr <= Len(buf), pc' # "done", pc # "open"
  PROVE  /\ text' = text
         /\ from' \in 0 .. Len(text') /\ failed' \in BOOLEAN
         /\ buf' \in Seq(Chars) /\ Len(buf') <= BufSiz
         /\ ptr' \in 1 .. Len(buf') + 1
         /\ ChunkInv' /\ DoneAtEnd'
<1>1. CASE ptr = Len(buf)
  <2>1. load_buffer
    BY <1>1 DEF Step
  <2>2. /\ text' = text /\ from' \in 0 .. Len(text) /\ failed' \in BOOLEAN
        /\ buf' \in Seq(Chars) /\ Len(buf') <= BufSiz
        /\ ptr' = 1 /\ Len(buf') <= from'
        /\ \A i \in 1 .. Len(buf') : buf'[i] = text[from' - Len(buf') + i]
        /\ buf' = <<>> => failed' \/ from' = Len(text)
    BY <2>1, Load DEF LexInv
  <2>3. buf' # <<>> => Len(buf') > 0
    BY <2>2
  <2> QED
    BY <2>2, <2>3 DEF ChunkInv, DoneAtEnd
<1>2. CASE ptr # Len(buf)
  <2>1. ptr' = ptr + 1 /\ UNCHANGED <<file, buf>> /\ ptr < Len(buf)
    BY <1>2 DEF Step, LexInv, TypeOK
  <2> QED
    BY <2>1 DEF LexInv, TypeOK, ChunkInv, DoneAtEnd, file
<1> QED
  BY <1>1, <1>2

(* A character other than the zero byte is one of the chunk.               *)
LEMMA WithinChunk ==
  ASSUME TypeOK, Here # End
  PROVE  ptr \in 1 .. Len(buf) /\ Here = buf[ptr] /\ Here \in Chars
  BY DEF TypeOK, Here

LEMMA HandOverType ==
  ASSUME TypeOK, HandOver, lnno' \in Nat
  PROVE  /\ pc' \in {"blank", "refused"}
         /\ cmd' \in Seq(Word)
         /\ commands' \in Seq([words : Seq(Word), at : Nat])
<1>1. CASE cmd = <<>>
  BY <1>1 DEF TypeOK, HandOver
<1>2. CASE cmd # <<>>
  <2>1. /\ commands' = Append(commands, [words |-> cmd, at |-> lnno'])
        /\ cmd' = <<>> /\ pc' \in {"blank", "refused"}
    BY <1>2 DEF HandOver
  <2>2. [words |-> cmd, at |-> lnno'] \in [words : Seq(Word), at : Nat]
    BY DEF TypeOK
  <2> QED
    BY <2>1, <2>2 DEF TypeOK
<1> QED
  BY <1>1, <1>2

LEMMA InitLexInv == Init => LexInv
<1> SUFFICES ASSUME Init PROVE LexInv
  OBVIOUS
<1>1. text \in Seq(Chars) /\ Len(text) \in Nat /\ BufSiz \in Nat
  BY FileAssumption DEF Init
<1>2. /\ buf \in Seq(Chars) /\ tok \in Word /\ cmd \in Seq(Word)
      /\ commands \in Seq([words : Seq(Word), at : Nat])
  BY DEF Init, Word
<1>3. Len(buf) = 0 /\ from = 0 /\ ptr = 1 /\ lnno = 0
  BY DEF Init
<1>4. from \in 0 .. Len(text) /\ Len(buf) <= BufSiz /\ ptr \in 1 .. Len(buf) + 1
  BY <1>1, <1>3
<1>5. TypeOK
  <2>1. failed \in BOOLEAN /\ pc \in {"open", "blank", "comment", "word", "done", "refused"}
    BY DEF Init
  <2> QED
    BY <1>1, <1>2, <1>3, <1>4, <2>1 DEF TypeOK
<1> QED
  BY <1>1, <1>3, <1>5 DEF Init, LexInv, ChunkInv, DoneAtEnd

LEMMA NextLexInv == LexInv /\ [Next]_vars => LexInv'
<1> SUFFICES ASSUME LexInv, [Next]_vars PROVE LexInv'
  OBVIOUS
<1>t. TypeOK
  BY DEF LexInv
<1>c. /\ Blank # End /\ Hash # End /\ Newline # End /\ End \notin Letters
  BY CharAssumption
<1>1. CASE Open
  <2>1. load_buffer /\ pc' = "blank" /\ UNCHANGED <<tok, line>>
    BY <1>1 DEF Open
  <2>2. /\ text' = text /\ from' \in 0 .. Len(text) /\ failed' \in BOOLEAN
        /\ buf' \in Seq(Chars) /\ Len(buf') <= BufSiz
        /\ ptr' = 1 /\ Len(buf') <= from'
        /\ \A i \in 1 .. Len(buf') : buf'[i] = text[from' - Len(buf') + i]
        /\ buf' = <<>> => failed' \/ from' = Len(text)
    BY <2>1, <1>t, Load
  <2>3. buf' # <<>> => Len(buf') > 0
    BY <2>2
  <2>4. TypeOK'
    BY <2>1, <2>2, <1>t DEF TypeOK, line
  <2> QED
    BY <2>1, <2>2, <2>3, <2>4 DEF LexInv, ChunkInv, DoneAtEnd
<1>2. CASE Chew \/ Comment
  <2>1. Here # End /\ Step /\ pc' \in {"blank", "comment"} /\ pc # "open"
        /\ UNCHANGED <<tok, line>>
    BY <1>2, <1>c DEF Chew, Comment
  <2>2. ptr <= Len(buf)
    BY <2>1, <1>t, WithinChunk DEF TypeOK
  <2>3. /\ text' = text
        /\ from' \in 0 .. Len(text') /\ failed' \in BOOLEAN
        /\ buf' \in Seq(Chars) /\ Len(buf') <= BufSiz
        /\ ptr' \in 1 .. Len(buf') + 1
        /\ ChunkInv' /\ DoneAtEnd'
    BY <2>1, <2>2, StepKeepsChunk
  <2>4. TypeOK'
    BY <2>1, <2>3, <1>t DEF TypeOK, line
  <2> QED
    BY <2>3, <2>4 DEF LexInv
<1>3. CASE Gobble
  <2>1. Here \in Letters /\ Step /\ pc' = "word" /\ pc # "open"
        /\ tok' = Append(tok, Here) /\ UNCHANGED line
    BY <1>3 DEF Gobble
  <2>2. ptr <= Len(buf)
    BY <2>1, <1>c, <1>t, WithinChunk DEF TypeOK
  <2>3. /\ text' = text
        /\ from' \in 0 .. Len(text') /\ failed' \in BOOLEAN
        /\ buf' \in Seq(Chars) /\ Len(buf') <= BufSiz
        /\ ptr' \in 1 .. Len(buf') + 1
        /\ ChunkInv' /\ DoneAtEnd'
    BY <2>1, <2>2, StepKeepsChunk
  <2>4. TypeOK'
    BY <2>1, <2>3, <1>t DEF TypeOK, line, Word
  <2> QED
    BY <2>3, <2>4 DEF LexInv
<1>4. CASE LineEnds
  <2>1. /\ Here = Newline /\ ptr' = ptr + 1 /\ lnno' = lnno + 1
        /\ HandOver /\ UNCHANGED <<text, from, failed, buf, tok>>
    BY <1>4 DEF LineEnds, LineCounted, file
  <2>2. ptr \in 1 .. Len(buf) /\ buf[ptr] = Newline
    BY <2>1, <1>c, <1>t, WithinChunk
  <2>3. pc' \in {"blank", "refused"} /\ lnno' \in Nat /\ cmd' \in Seq(Word)
        /\ commands' \in Seq([words : Seq(Word), at : Nat])
    BY <2>1, <1>t, HandOverType DEF TypeOK
  <2>4. TypeOK'
    BY <2>1, <2>2, <2>3, <1>t DEF TypeOK
  <2>5. ChunkInv'
    BY <2>1, <2>2, <1>t, <1>4 DEF LexInv, TypeOK, ChunkInv, LineEnds
  <2>6. DoneAtEnd'
    BY <2>3 DEF DoneAtEnd
  <2> QED
    BY <2>4, <2>5, <2>6 DEF LexInv
<1>5. CASE LastLine
  <2>1. pc = "blank" /\ HandOver /\ UNCHANGED <<text, from, failed, buf, ptr, tok, lnno>>
    BY <1>5 DEF LastLine, file, chunk
  <2>2. pc' \in {"blank", "refused"} /\ lnno' \in Nat /\ cmd' \in Seq(Word)
        /\ commands' \in Seq([words : Seq(Word), at : Nat])
    BY <2>1, <1>t, HandOverType DEF TypeOK
  <2>3. TypeOK'
    BY <2>1, <2>2, <1>t DEF TypeOK
  <2> QED
    BY <2>1, <2>2, <2>3 DEF LexInv, ChunkInv, DoneAtEnd
<1>6. CASE WordEnds
  <2>1. /\ pc = "word" /\ pc' = "blank" /\ cmd' = Append(cmd, tok) /\ tok' = <<>>
        /\ UNCHANGED <<text, from, failed, buf, ptr, lnno, commands>>
    BY <1>6 DEF WordEnds, file, chunk
  <2>2. TypeOK'
    BY <2>1, <1>t DEF TypeOK, Word
  <2> QED
    BY <2>1, <2>2 DEF LexInv, ChunkInv, DoneAtEnd
<1>7. CASE CommentEnds \/ Done
  <2>1. /\ pc \in {"comment", "blank"} /\ pc' \in {"blank", "done"}
        /\ pc' = "done" => Here = End
        /\ UNCHANGED <<text, from, failed, buf, ptr, tok, cmd, lnno, commands>>
    BY <1>7 DEF CommentEnds, Done, file, chunk, line
  <2>2. TypeOK'
    BY <2>1, <1>t DEF TypeOK
  <2>3. ChunkInv'
    BY <2>1 DEF LexInv, ChunkInv
  <2>4. Here = End => ptr = Len(buf) + 1
    <3>1. ptr <= Len(buf) => buf[ptr] \in Chars
      BY <1>t DEF TypeOK
    <3> QED
      BY <3>1, <1>t, CharAssumption DEF TypeOK, Here, Chars
  <2> QED
    BY <2>1, <2>2, <2>3, <2>4 DEF LexInv, DoneAtEnd
<1>8. CASE UNCHANGED vars
  BY <1>8 DEF LexInv, TypeOK, ChunkInv, DoneAtEnd, vars, file, chunk, line
<1> QED
  BY <1>1, <1>2, <1>3, <1>4, <1>5, <1>6, <1>7, <1>8 DEF Next

THEOREM InductiveInvariant == Spec => []LexInv
  BY InitLexInv, NextLexInv, PTL DEF Spec

(***************************************************************************)
(* All variables of the lexer keep their types: the pointer stays in the   *)
(* buffer or on its zero byte.                                             *)
(***************************************************************************)
THEOREM TypeCorrect == Spec => []TypeOK
  BY InductiveInvariant, PTL DEF LexInv

(***************************************************************************)
(* The rest of a file is ignored only after a failed read or a newline     *)
(* that ends a chunk, for any file and any size of the buffer.             *)
(***************************************************************************)
THEOREM IgnoredOnlyThere == Spec => []IgnoredOnlyAfterNewline
<1>1. LexInv => IgnoredOnlyAfterNewline
  <2> SUFFICES ASSUME LexInv, pc = "done", ~failed, from # Len(text)
               PROVE  from > 0 /\ text[from] = Newline
    BY DEF IgnoredOnlyAfterNewline
  <2>1. buf # <<>> /\ ptr = Len(buf) + 1
    BY DEF LexInv, ChunkInv, DoneAtEnd
  <2>2. buf \in Seq(Chars) /\ from \in Nat
    BY DEF LexInv, TypeOK
  <2>3. Len(buf) \in Nat /\ Len(buf) > 0
    BY <2>1, <2>2
  <2>4. buf[Len(buf)] = text[from - Len(buf) + Len(buf)]
    BY <2>2, <2>3 DEF LexInv, ChunkInv
  <2> QED
    BY <2>1, <2>2, <2>3, <2>4 DEF LexInv, ChunkInv
<1> QED
  BY <1>1, InductiveInvariant, PTL

-----------------------------------------------------------------------------
(* What one more character changes in a text: u is t with c behind it.     *)
Grows(t, c, u) == t \in Seq(Chars) /\ c \in Chars /\ u = Append(t, c)

LEMMA Longer ==
  ASSUME NEW t, NEW c, NEW u, Grows(t, c, u)
  PROVE  /\ t \in Seq(Chars) /\ u \in Seq(Chars) /\ c \in Chars
         /\ Len(t) \in Nat /\ Len(u) = Len(t) + 1
         /\ DOMAIN t = 1 .. Len(t) /\ DOMAIN u = 1 .. Len(t) + 1
         /\ \A k \in 1 .. Len(t) : u[k] = t[k]
         /\ u[Len(t) + 1] = c
  BY AppendProperties, LenProperties DEF Grows

LEMMA CommentedLonger ==
  ASSUME NEW t, NEW c, NEW u, Grows(t, c, u)
  PROVE  /\ \A n \in 0 .. Len(t) : Commented(u, n) <=> Commented(t, n)
         /\ Commented(u, Len(t) + 1) <=>
              c = Hash \/ (Commented(t, Len(t)) /\ c # Newline)
<1> DEFINE m == Len(t)
<1>1. /\ m \in Nat /\ \A k \in 1 .. m : u[k] = t[k]
      /\ u[m + 1] = c
  BY Longer
<1>2. Hash # Newline
  BY CharAssumption
<1> HIDE DEF m
<1>3. ASSUME NEW n \in 0 .. m PROVE Commented(u, n) <=> Commented(t, n)
  <2>1. \A k \in 1 .. n : u[k] = t[k]
    BY <1>1
  <2>2. \A h \in 1 .. n : \A k \in h .. n : k \in 1 .. n
    BY <1>1
  <2> QED
    BY <2>1, <2>2 DEF Commented
<1>4. ASSUME c = Hash \/ (Commented(t, m) /\ c # Newline)
      PROVE  Commented(u, m + 1)
  <2>1. CASE c = Hash
    <3>1. /\ m + 1 \in 1 .. m + 1 /\ u[m + 1] = Hash
          /\ \A k \in m + 1 .. m + 1 : u[k] # Newline
      BY <1>1, <1>2, <2>1
    <3> QED
      BY <3>1 DEF Commented
  <2>2. CASE Commented(t, m) /\ c # Newline
    <3>1. PICK h \in 1 .. m : t[h] = Hash /\ \A k \in h .. m : t[k] # Newline
      BY <2>2 DEF Commented
    <3>2. \A k \in h .. m + 1 : k = m + 1 \/ (k \in h .. m /\ k \in 1 .. m)
      BY <1>1
    <3>3. /\ h \in 1 .. m + 1 /\ u[h] = Hash
          /\ \A k \in h .. m + 1 : u[k] # Newline
      BY <1>1, <2>2, <3>1, <3>2
    <3> QED
      BY <3>3 DEF Commented
  <2> QED
    BY <1>4, <2>1, <2>2
<1>5. ASSUME Commented(u, m + 1)
      PROVE  c = Hash \/ (Commented(t, m) /\ c # Newline)
  <2>1. PICK h \in 1 .. m + 1 :
          u[h] = Hash /\ \A k \in h .. m + 1 : u[k] # Newline
    BY <1>5 DEF Commented
  <2>2. CASE h = m + 1
    BY <1>1, <2>1, <2>2
  <2>3. CASE h # m + 1
    <3>1. h \in 1 .. m /\ \A k \in h .. m : k \in h .. m + 1 /\ k \in 1 .. m
      BY <1>1, <2>3
    <3>2. t[h] = Hash /\ \A k \in h .. m : t[k] # Newline
      BY <1>1, <2>1, <3>1
    <3>3. c # Newline
      BY <1>1, <2>1
    <3> QED
      BY <3>1, <3>2, <3>3 DEF Commented
  <2> QED
    BY <2>2, <2>3
<1> QED
  BY <1>3, <1>4, <1>5 DEF m

LEMMA InWordLonger ==
  ASSUME NEW t, NEW c, NEW u, Grows(t, c, u)
  PROVE  /\ \A n \in 0 .. Len(t) : InWord(u, n) <=> InWord(t, n)
         /\ InWord(u, Len(t) + 1) <=> c \in Letters /\ ~Commented(t, Len(t))
<1>1. Hash \notin Letters /\ Newline \notin Letters
  BY CharAssumption
<1>2. /\ Len(t) \in Nat
      /\ DOMAIN t = 1 .. Len(t) /\ DOMAIN u = 1 .. Len(t) + 1
      /\ \A k \in 1 .. Len(t) : u[k] = t[k]
      /\ u[Len(t) + 1] = c
  BY Longer
<1>3. /\ \A n \in 0 .. Len(t) : Commented(u, n) <=> Commented(t, n)
      /\ Commented(u, Len(t) + 1) <=>
           c = Hash \/ (Commented(t, Len(t)) /\ c # Newline)
  BY CommentedLonger
<1>4. \A n \in 0 .. Len(t) : InWord(u, n) <=> InWord(t, n)
  BY <1>2, <1>3 DEF InWord
<1>5. InWord(u, Len(t) + 1) <=> c \in Letters /\ ~Commented(t, Len(t))
  BY <1>1, <1>2, <1>3 DEF InWord
<1> QED
  BY <1>4, <1>5

LEMMA InWordOutside ==
  ASSUME NEW t \in Seq(Chars), NEW n, InWord(t, n)
  PROVE  n \in 1 .. Len(t) /\ t[n] \in Letters /\ ~Commented(t, n)
  BY DEF InWord

LEMMA NewlinesCounted ==
  ASSUME NEW t \in Seq(Chars), NEW n \in Nat, NEW m \in Nat, n <= m
  PROVE  /\ NewlinesTo(t, n) \in Nat /\ NewlinesTo(t, m) \in Nat
         /\ NewlinesTo(t, n) <= NewlinesTo(t, m)
         /\ (\A k \in n + 1 .. m : t[k] # Newline) => NewlinesTo(t, n) = NewlinesTo(t, m)
<1> DEFINE A(i) == {k \in 1 .. i : t[k] = Newline}
<1>1. \A i \in Nat : IsFiniteSet(A(i)) /\ Cardinality(A(i)) \in Nat
  <2>1. ASSUME NEW i \in Nat PROVE IsFiniteSet(A(i))
    <3>1. IsFiniteSet(1 .. i)
      BY FS_Interval
    <3> QED
      BY <3>1, FS_Subset
  <2> QED
    BY <2>1, FS_CardinalityType
<1>2. A(n) \in SUBSET A(m)
  OBVIOUS
<1>3. Cardinality(A(n)) <= Cardinality(A(m))
  BY <1>1, <1>2, FS_Subset
<1>4. (\A k \in n + 1 .. m : t[k] # Newline) => A(n) = A(m)
  <2>1. \A k \in 1 .. m : k \in 1 .. n \/ k \in n + 1 .. m
    OBVIOUS
  <2> QED
    BY <1>2, <2>1
<1> QED
  BY <1>1, <1>3, <1>4 DEF NewlinesTo

LEMMA NewlinesLonger ==
  ASSUME NEW t, NEW c, NEW u, Grows(t, c, u)
  PROVE  /\ \A n \in 0 .. Len(t) : NewlinesTo(u, n) = NewlinesTo(t, n)
         /\ NewlinesTo(u, Len(t) + 1) =
              IF c = Newline THEN NewlinesTo(t, Len(t)) + 1
                             ELSE NewlinesTo(t, Len(t))
<1> DEFINE m == Len(t)
           A(s, i) == {k \in 1 .. i : s[k] = Newline}
<1>1. /\ m \in Nat /\ \A k \in 1 .. m : u[k] = t[k]
      /\ u[m + 1] = c
  BY Longer
<1> HIDE DEF m
<1>2. \A n \in 0 .. m : A(u, n) = A(t, n)
  BY <1>1
<1>3. IsFiniteSet(A(t, m)) /\ m + 1 \notin A(t, m)
  <2>1. IsFiniteSet(1 .. m)
    BY <1>1, FS_Interval
  <2> QED
    BY <1>1, <2>1, FS_Subset
<1>4. A(u, m + 1) = IF c = Newline THEN A(t, m) \cup {m + 1} ELSE A(t, m)
  <2>1. \A k \in 1 .. m + 1 : k = m + 1 \/ k \in 1 .. m
    BY <1>1
  <2>2. 1 .. m \subseteq 1 .. m + 1 /\ m + 1 \in 1 .. m + 1 /\ m + 1 \notin 1 .. m
    BY <1>1
  <2> QED
    BY <1>1, <2>1, <2>2
<1>5. Cardinality(A(u, m + 1)) =
        IF c = Newline THEN Cardinality(A(t, m)) + 1 ELSE Cardinality(A(t, m))
  BY <1>3, <1>4, FS_AddElement
<1> QED
  BY <1>2, <1>5 DEF NewlinesTo, m

LEMMA StartsTyped ==
  ASSUME NEW t \in Seq(Chars)
  PROVE  /\ Starts(t) \in SUBSET (1 .. Len(t)) /\ Starts(t) \in SUBSET Nat
         /\ IsFiniteSet(Starts(t))
         /\ \A l : StartsOf(t, l) \in SUBSET Nat /\ IsFiniteSet(StartsOf(t, l))
<1>1. Len(t) \in Nat /\ DOMAIN t = 1 .. Len(t)
  BY LenProperties
<1>2. Starts(t) \in SUBSET (1 .. Len(t))
  BY <1>1 DEF Starts
<1>3. IsFiniteSet(Starts(t))
  <2>1. IsFiniteSet(1 .. Len(t))
    BY <1>1, FS_Interval
  <2> QED
    BY <1>2, <2>1, FS_Subset
<1>4. \A l : StartsOf(t, l) \in SUBSET Starts(t)
  BY DEF StartsOf
<1>5. \A l : IsFiniteSet(StartsOf(t, l))
  BY <1>3, <1>4, FS_Subset
<1> QED
  BY <1>1, <1>2, <1>3, <1>4, <1>5

LEMMA StartsLonger ==
  ASSUME NEW t, NEW c, NEW u, Grows(t, c, u)
  PROVE  Starts(u) = IF InWord(u, Len(t) + 1) /\ ~InWord(t, Len(t))
                     THEN Starts(t) \cup {Len(t) + 1} ELSE Starts(t)
<1> DEFINE m == Len(t)
<1>1. m \in Nat /\ DOMAIN t = 1 .. m /\ DOMAIN u = 1 .. m + 1
  BY Longer
<1>2. \A n \in 0 .. m : InWord(u, n) <=> InWord(t, n)
  BY InWordLonger
<1> HIDE DEF m
<1>3. \A n \in 1 .. m : n \in 0 .. m /\ n - 1 \in 0 .. m
  BY <1>1
<1>4. \A n \in 1 .. m : n \in Starts(u) <=> n \in Starts(t)
  BY <1>1, <1>2, <1>3 DEF Starts
<1>5. m + 1 \in Starts(u) <=> InWord(u, m + 1) /\ ~InWord(t, m)
  <2>1. m + 1 \in 1 .. m + 1 /\ m + 1 - 1 = m /\ m \in 0 .. m
    BY <1>1
  <2> QED
    BY <1>1, <1>2, <2>1 DEF Starts
<1>6. /\ \A n \in Starts(u) : n \in 1 .. m \/ n = m + 1
      /\ \A n \in Starts(t) : n \in 1 .. m
  BY <1>1 DEF Starts
<1> QED
  BY <1>4, <1>5, <1>6 DEF m

-----------------------------------------------------------------------------
(* The word at n ends at e. *)
EndsAt(t, n, e) ==
  /\ n \in 1 .. Len(t) /\ e \in n .. Len(t)
  /\ ~InWord(t, e + 1)
  /\ \A k \in n .. e - 1 : InWord(t, k + 1)

LEMMA WordTaken ==
  ASSUME NEW t \in Seq(Chars), NEW n \in 1 .. Len(t)
  PROVE  \E e \in n .. Len(t) : EndsAt(t, n, e) /\ WordAt(t, n) = SubSeq(t, n, e)
<1> DEFINE E == {k \in n .. Len(t) : ~InWord(t, k + 1)}
<1>1. Len(t) \in Nat
  BY LenProperties
<1>2. E \in SUBSET Nat
  BY <1>1
<1>3. Len(t) \in E
  <2>1. ~InWord(t, Len(t) + 1)
    BY <1>1, InWordOutside
  <2> QED
    BY <1>1, <2>1
<1> DEFINE e == Min(E)
<1>4. e \in E /\ \A k \in E : e <= k
  <2> HIDE DEF E
  <2> QED
    BY <1>2, <1>3, MinOfNats
<1>5. WordAt(t, n) = SubSeq(t, n, e)
  BY DEF WordAt
<1> HIDE DEF e
<1>6. e \in n .. Len(t) /\ ~InWord(t, e + 1)
  BY <1>4
<1>7. ASSUME NEW k \in n .. e - 1 PROVE InWord(t, k + 1)
  <2>1. k \in n .. Len(t) /\ ~(e <= k)
    BY <1>1, <1>6
  <2> QED
    BY <1>4, <2>1
<1>8. EndsAt(t, n, e)
  BY <1>6, <1>7 DEF EndsAt
<1> QED
  BY <1>5, <1>6, <1>8

LEMMA EndsOnce ==
  ASSUME NEW t \in Seq(Chars), NEW n, NEW d, NEW e, EndsAt(t, n, d), EndsAt(t, n, e)
  PROVE  d = e
<1>1. /\ n \in Nat /\ d \in Nat /\ e \in Nat /\ n <= d /\ n <= e
      /\ ~InWord(t, d + 1) /\ ~InWord(t, e + 1)
      /\ \A k \in n .. d - 1 : InWord(t, k + 1)
      /\ \A k \in n .. e - 1 : InWord(t, k + 1)
  BY LenProperties DEF EndsAt
<1>2. CASE d < e
  BY <1>1, <1>2
<1>3. CASE e < d
  BY <1>1, <1>3
<1> QED
  BY <1>1, <1>2, <1>3

LEMMA WordIs ==
  ASSUME NEW t \in Seq(Chars), NEW n, NEW e, EndsAt(t, n, e)
  PROVE  WordAt(t, n) = SubSeq(t, n, e)
<1>1. n \in 1 .. Len(t)
  BY DEF EndsAt
<1>2. PICK d \in n .. Len(t) : EndsAt(t, n, d) /\ WordAt(t, n) = SubSeq(t, n, d)
  BY <1>1, WordTaken
<1>3. d = e
  BY <1>2, EndsOnce
<1> QED
  BY <1>2, <1>3

(* A part of the text stays when the text grows ... *)
LEMMA PartLonger ==
  ASSUME NEW t, NEW c, NEW u, Grows(t, c, u),
         NEW n \in 1 .. Len(t), NEW e \in n .. Len(t)
  PROVE  /\ SubSeq(u, n, e) = SubSeq(t, n, e)
         /\ SubSeq(t, n, e) \in Seq(Chars)
<1> DEFINE m == Len(t)
<1>1. /\ t \in Seq(Chars) /\ u \in Seq(Chars)
      /\ m \in Nat /\ Len(u) = m + 1
      /\ \A k \in 1 .. m : u[k] = t[k]
  BY Longer
<1>2. /\ n \in 1 .. m /\ e \in n .. m
      /\ \A k \in n .. e : k \in 1 .. m /\ k \in 1 .. m + 1
  BY <1>1
<1>t. \A k \in 1 .. m : t[k] \in Chars
  BY <1>1
<1> HIDE DEF m
<1>3. \A k \in n .. e : t[k] \in Chars /\ u[k] \in Chars
  BY <1>1, <1>2, <1>t
<1>4. n \in Nat /\ e \in Nat /\ n <= e
  BY <1>1, <1>2
<1> DEFINE v == SubSeq(t, n, e)
           w == SubSeq(u, n, e)
<1>5. /\ v \in Seq(Chars) /\ Len(v) = e - n + 1
      /\ \A i \in 1 .. e - n + 1 : v[i] = t[n + i - 1]
  BY <1>3, <1>4, SubSeqProperties
<1>6. /\ w \in Seq(Chars) /\ Len(w) = e - n + 1
      /\ \A i \in 1 .. e - n + 1 : w[i] = u[n + i - 1]
  BY <1>3, <1>4, SubSeqProperties
<1>7. \A i \in 1 .. e - n + 1 : n + i - 1 \in n .. e
  BY <1>4
<1> HIDE DEF v, w
<1>8. \A i \in 1 .. Len(v) : w[i] = v[i]
  BY <1>1, <1>2, <1>5, <1>6, <1>7
<1>9. w = v
  BY <1>5, <1>6, <1>8, SeqEqual
<1> QED
  BY <1>5, <1>9 DEF v, w

(* ... and so does a word, unless the text ends in it and goes on in it.   *)
LEMMA WordLonger ==
  ASSUME NEW t, NEW c, NEW u, Grows(t, c, u), NEW n \in 1 .. Len(t),
         \/ ~InWord(u, Len(t) + 1)
         \/ \E k \in n .. Len(t) - 1 : ~InWord(t, k + 1)
  PROVE  WordAt(u, n) = WordAt(t, n)
<1> DEFINE m == Len(t)
<1>1. /\ t \in Seq(Chars) /\ u \in Seq(Chars)
      /\ m \in Nat /\ Len(u) = m + 1
  BY Longer
<1>2. PICK e \in n .. m : EndsAt(t, n, e) /\ WordAt(t, n) = SubSeq(t, n, e)
  BY <1>1, WordTaken
<1>3. /\ ~InWord(t, e + 1) /\ \A k \in n .. e - 1 : InWord(t, k + 1)
  BY <1>2 DEF EndsAt
<1>4. \A k \in 0 .. m : InWord(u, k) <=> InWord(t, k)
  BY InWordLonger
<1>h. \/ ~InWord(u, m + 1)
      \/ \E k \in n .. m - 1 : ~InWord(t, k + 1)
  OBVIOUS
<1>n. n \in 1 .. m
  OBVIOUS
<1>s. SubSeq(u, n, e) = SubSeq(t, n, e)
  BY <1>2, PartLonger
<1> HIDE DEF m
<1>5. ~InWord(u, e + 1)
  <2>1. CASE e = m
    <3>1. \A k \in n .. m - 1 : k \in n .. e - 1
      BY <2>1
    <3> QED
      BY <1>3, <1>h, <2>1, <3>1
  <2>2. CASE e # m
    <3>1. e + 1 \in 0 .. m
      BY <1>1, <1>n, <2>2
    <3> QED
      BY <1>3, <1>4, <3>1
  <2> QED
    BY <2>1, <2>2
<1>6. ASSUME NEW k \in n .. e - 1 PROVE InWord(u, k + 1)
  <2>1. k + 1 \in 0 .. m
    BY <1>1, <1>n
  <2> QED
    BY <1>3, <1>4, <2>1
<1>7. n \in 1 .. Len(u) /\ e \in n .. Len(u)
  BY <1>1, <1>n
<1>8. EndsAt(u, n, e)
  BY <1>5, <1>6, <1>7 DEF EndsAt
<1>9. WordAt(u, n) = SubSeq(u, n, e)
  BY <1>1, <1>8, WordIs
<1> QED
  BY <1>2, <1>9, <1>s

-----------------------------------------------------------------------------
(* The words at a set of places, and the commands of a set of lines.       *)
LEMMA WordsMapped ==
  ASSUME NEW t, NEW S \in SUBSET Nat, IsFiniteSet(S)
  PROVE  WordsAt(t, S) = Mapped([x \in Nat |-> WordAt(t, x)], S)
<1> DEFINE a == Ascending(S)
<1>1. \A i \in DOMAIN a : a[i] \in Nat
  BY AscendingTyped
<1>2. WordsAt(t, S) = [i \in DOMAIN a |-> WordAt(t, a[i])]
  BY DEF WordsAt
<1> QED
  BY <1>1, <1>2 DEF Mapped

LEMMA WordsAppend ==
  ASSUME NEW t, NEW S \in SUBSET Nat, IsFiniteSet(S),
         NEW m \in Nat, \A x \in S : x < m
  PROVE  WordsAt(t, S \cup {m}) = Append(WordsAt(t, S), WordAt(t, m))
<1> DEFINE g == [x \in Nat |-> WordAt(t, x)]
           S1 == S \cup {m}
<1>1. S1 \in SUBSET Nat /\ IsFiniteSet(S1)
  BY FS_AddElement
<1>2. WordsAt(t, S) = Mapped(g, S)
  BY WordsMapped
<1>3. WordsAt(t, S1) = Mapped(g, S1)
  <2> HIDE DEF S1
  <2> QED
    BY <1>1, WordsMapped
<1>4. g[m] = WordAt(t, m)
  OBVIOUS
<1> HIDE DEF g
<1>5. Mapped(g, S1) = Append(Mapped(g, S), g[m])
  BY MappedAppend
<1> QED
  BY <1>2, <1>3, <1>4, <1>5, Zenon DEF S1

LEMMA WordsSame ==
  ASSUME NEW t, NEW u, NEW S \in SUBSET Nat, IsFiniteSet(S),
         \A x \in S : WordAt(u, x) = WordAt(t, x)
  PROVE  WordsAt(u, S) = WordsAt(t, S)
<1> DEFINE a == Ascending(S)
<1>1. \A i \in DOMAIN a : a[i] \in S
  BY AscendingTyped
<1>2. \A v \in {t, u} : WordsAt(v, S) = [i \in DOMAIN a |-> WordAt(v, a[i])]
  BY DEF WordsAt
<1> HIDE DEF a
<1> QED
  BY <1>1, <1>2

LEMMA NoWords ==
  ASSUME NEW t, NEW S \in SUBSET Nat, IsFiniteSet(S)
  PROVE  WordsAt(t, S) = <<>> <=> S = {}
<1> DEFINE g == [x \in Nat |-> WordAt(t, x)]
<1>1. WordsAt(t, S) = Mapped(g, S)
  BY WordsMapped
<1> HIDE DEF g
<1>2. Mapped(g, S) = <<>> <=> S = {}
  BY MappedEmpty
<1> QED
  BY <1>1, <1>2

LEMMA CommandsMapped ==
  ASSUME NEW t, NEW S \in SUBSET Nat, IsFiniteSet(S)
  PROVE  CommandsAt(t, S) = Mapped([l \in Nat |-> CommandOf(t, l)], S)
<1> DEFINE a == Ascending(S)
<1>1. \A i \in DOMAIN a : a[i] \in Nat
  BY AscendingTyped
<1>2. CommandsAt(t, S) = [i \in DOMAIN a |-> CommandOf(t, a[i])]
  BY DEF CommandsAt
<1> QED
  BY <1>1, <1>2 DEF Mapped

LEMMA CommandsAppend ==
  ASSUME NEW t, NEW S \in SUBSET Nat, IsFiniteSet(S),
         NEW m \in Nat, \A l \in S : l < m
  PROVE  CommandsAt(t, S \cup {m}) = Append(CommandsAt(t, S), CommandOf(t, m))
<1> DEFINE g == [l \in Nat |-> CommandOf(t, l)]
           S1 == S \cup {m}
<1>1. S1 \in SUBSET Nat /\ IsFiniteSet(S1)
  BY FS_AddElement
<1>2. CommandsAt(t, S) = Mapped(g, S)
  BY CommandsMapped
<1>3. CommandsAt(t, S1) = Mapped(g, S1)
  <2> HIDE DEF S1
  <2> QED
    BY <1>1, CommandsMapped
<1>4. g[m] = CommandOf(t, m)
  OBVIOUS
<1> HIDE DEF g
<1>5. Mapped(g, S1) = Append(Mapped(g, S), g[m])
  BY MappedAppend
<1> QED
  BY <1>2, <1>3, <1>4, <1>5, Zenon DEF S1

LEMMA CommandsSame ==
  ASSUME NEW t, NEW u, NEW S \in SUBSET Nat, IsFiniteSet(S),
         \A l \in S : CommandOf(u, l) = CommandOf(t, l)
  PROVE  CommandsAt(u, S) = CommandsAt(t, S)
<1> DEFINE a == Ascending(S)
<1>1. \A i \in DOMAIN a : a[i] \in S
  BY AscendingTyped
<1>2. \A v \in {t, u} : CommandsAt(v, S) = [i \in DOMAIN a |-> CommandOf(v, a[i])]
  BY DEF CommandsAt
<1> HIDE DEF a
<1> QED
  BY <1>1, <1>2

-----------------------------------------------------------------------------
(* What one more character changes in the commands of a text.              *)
LineNo(t) == NewlinesTo(t, Len(t))
Before(t) == CommandsAt(t, Lines(t) \ {LineNo(t)})

LEMMA LinesTyped ==
  ASSUME NEW t \in Seq(Chars)
  PROVE  /\ LineNo(t) \in Nat
         /\ Lines(t) \in SUBSET Nat /\ IsFiniteSet(Lines(t))
         /\ \A l \in Lines(t) : l <= LineNo(t)
         /\ \A l : l \in Lines(t) <=> StartsOf(t, l) # {}
         /\ \A n \in Starts(t) : n \in 1 .. Len(t) /\ NewlinesTo(t, n) \in Nat
<1>1. Len(t) \in Nat /\ Starts(t) \in SUBSET (1 .. Len(t))
  BY LenProperties, StartsTyped
<1>2. ASSUME NEW n \in Starts(t)
      PROVE  NewlinesTo(t, n) \in Nat /\ NewlinesTo(t, n) <= LineNo(t)
  <2>1. n \in Nat /\ n <= Len(t)
    BY <1>1
  <2> QED
    BY <1>1, <2>1, NewlinesCounted DEF LineNo
<1>3. LineNo(t) \in Nat
  BY <1>1, NewlinesCounted DEF LineNo
<1>4. Lines(t) \in SUBSET Nat /\ \A l \in Lines(t) : l <= LineNo(t)
  BY <1>2 DEF Lines
<1>5. IsFiniteSet(Lines(t))
  BY <1>3, <1>4, FS_BoundedSetOfNaturals
<1>6. \A l : l \in Lines(t) <=> StartsOf(t, l) # {}
  BY DEF Lines, StartsOf
<1> QED
  BY <1>1, <1>2, <1>3, <1>4, <1>5, <1>6

LEMMA LineNoLonger ==
  ASSUME NEW t, NEW c, NEW u, Grows(t, c, u)
  PROVE  /\ LineNo(u) = IF c = Newline THEN LineNo(t) + 1 ELSE LineNo(t)
         /\ LineNo(t) \in Nat
         /\ \A n \in Starts(t) : NewlinesTo(u, n) = NewlinesTo(t, n)
<1>1. t \in Seq(Chars) /\ Len(u) = Len(t) + 1 /\ Len(t) \in Nat
  BY Longer
<1>2. \A n \in Starts(t) : n \in 0 .. Len(t)
  BY <1>1, LinesTyped
<1> QED
  BY <1>1, <1>2, NewlinesLonger, LinesTyped DEF LineNo

(* A word that does not go on is kept; one on an earlier line does not.    *)
LEMMA WordKept ==
  ASSUME NEW t, NEW c, NEW u, Grows(t, c, u), NEW n \in Starts(t),
         \/ ~InWord(u, Len(t) + 1)
         \/ ~InWord(t, Len(t))
         \/ NewlinesTo(t, n) < LineNo(t)
  PROVE  WordAt(u, n) = WordAt(t, n)
<1>1. /\ t \in Seq(Chars) /\ Len(t) \in Nat
      /\ n \in 1 .. Len(t) /\ InWord(t, n)
  BY Longer, LinesTyped DEF Starts
<1>2. CASE ~InWord(u, Len(t) + 1)
  BY <1>1, <1>2, WordLonger
<1>3. CASE ~InWord(t, Len(t))
  <2>1. n # Len(t)
    BY <1>1, <1>3
  <2> DEFINE k == Len(t) - 1
  <2>2. k \in n .. Len(t) - 1 /\ k + 1 = Len(t)
    BY <1>1, <2>1
  <2>3. ~InWord(t, k + 1)
    BY <1>3, <2>2
  <2> HIDE DEF k
  <2> QED
    BY <1>1, <2>2, <2>3, WordLonger
<1>4. CASE NewlinesTo(t, n) < LineNo(t)
  <2>1. n \in Nat /\ n <= Len(t) /\ LineNo(t) \in Nat
    BY <1>1, LinesTyped
  <2>2. PICK j \in n + 1 .. Len(t) : t[j] = Newline
    <3>1. NewlinesTo(t, n) # LineNo(t)
      BY <1>1, <1>4, <2>1, NewlinesCounted DEF LineNo
    <3> QED
      BY <1>1, <2>1, <3>1, NewlinesCounted DEF LineNo
  <2>3. ~InWord(t, j)
    BY <2>2, CharAssumption DEF InWord
  <2> DEFINE k == j - 1
  <2>4. k \in n .. Len(t) - 1 /\ k + 1 = j
    BY <1>1, <2>2
  <2> HIDE DEF k
  <2> QED
    BY <1>1, <2>3, <2>4, WordLonger
<1> QED
  BY <1>2, <1>3, <1>4

(* Which words are on an earlier line.                                     *)
LEMMA StartsKept ==
  ASSUME NEW t, NEW c, NEW u, Grows(t, c, u), NEW l \in Nat,
         l < LineNo(t) \/ (l = LineNo(t) /\ ~InWord(u, Len(t) + 1))
  PROVE  StartsOf(u, l) = StartsOf(t, l)
<1> DEFINE m == Len(t)
<1>1. t \in Seq(Chars) /\ m \in Nat /\ Len(u) = m + 1 /\ u \in Seq(Chars)
  BY Longer
<1>2. /\ LineNo(t) \in Nat
      /\ \A n \in Starts(t) : NewlinesTo(u, n) = NewlinesTo(t, n)
  BY LineNoLonger
<1>3. Starts(u) = IF InWord(u, m + 1) /\ ~InWord(t, m)
                  THEN Starts(t) \cup {m + 1} ELSE Starts(t)
  BY StartsLonger
<1>4. NewlinesTo(u, m + 1) >= LineNo(t)
  BY <1>2, NewlinesLonger DEF LineNo
<1>5. NewlinesTo(u, m + 1) \in Nat
  <2>1. m + 1 \in Nat
    BY <1>1
  <2> QED
    BY <1>1, <2>1, NewlinesCounted
<1>h. l < LineNo(t) \/ (l = LineNo(t) /\ ~InWord(u, m + 1))
  OBVIOUS
<1> HIDE DEF m
<1>6. m + 1 \in Starts(u) /\ m + 1 \notin Starts(t) => NewlinesTo(u, m + 1) # l
  BY <1>h, <1>2, <1>3, <1>4, <1>5
<1>7. \A n : n \in StartsOf(u, l) <=> n \in StartsOf(t, l)
  BY <1>2, <1>3, <1>6 DEF StartsOf
<1> QED
  BY <1>7

LEMMA CommandKept ==
  ASSUME NEW t, NEW c, NEW u, Grows(t, c, u), NEW l \in Nat, l < LineNo(t)
  PROVE  CommandOf(u, l) = CommandOf(t, l)
<1> DEFINE S == StartsOf(t, l)
<1>1. t \in Seq(Chars)
  BY Longer
<1>2. StartsOf(u, l) = S
  BY StartsKept
<1>3. S \in SUBSET Nat /\ IsFiniteSet(S)
  BY <1>1, StartsTyped
<1>4. \A n \in S : n \in Starts(t) /\ NewlinesTo(t, n) = l
  BY DEF StartsOf
<1> HIDE DEF S
<1>5. \A n \in S : WordAt(u, n) = WordAt(t, n)
  BY <1>4, WordKept
<1>6. WordsAt(u, S) = WordsAt(t, S)
  BY <1>3, <1>5, WordsSame
<1>7. WordsOf(u, l) = WordsOf(t, l)
  BY <1>2, <1>6 DEF WordsOf, S
<1>8. l < LineNo(u)
  BY LineNoLonger
<1> QED
  BY <1>7, <1>8 DEF CommandOf, LineNo

LEMMA CommandsKept ==
  ASSUME NEW t, NEW c, NEW u, Grows(t, c, u)
  PROVE  CommandsAt(u, Lines(t) \ {LineNo(t)}) = Before(t)
<1> DEFINE S == Lines(t) \ {LineNo(t)}
<1>1. /\ LineNo(t) \in Nat /\ Lines(t) \in SUBSET Nat /\ IsFiniteSet(Lines(t))
      /\ \A l \in Lines(t) : l <= LineNo(t)
  BY Longer, LinesTyped
<1>2. S \in SUBSET Nat /\ IsFiniteSet(S)
  BY <1>1, FS_RemoveElement
<1>3. \A l \in S : l \in Nat /\ l < LineNo(t)
  BY <1>1
<1> HIDE DEF S
<1>4. \A l \in S : CommandOf(u, l) = CommandOf(t, l)
  BY <1>3, CommandKept
<1>5. CommandsAt(u, S) = CommandsAt(t, S)
  BY <1>2, <1>4, CommandsSame
<1> QED
  BY <1>5 DEF Before, S

LEMMA BeforeKept ==
  ASSUME NEW t, NEW c, NEW u, Grows(t, c, u), c # Newline
  PROVE  Before(u) = Before(t) /\ LineNo(u) = LineNo(t)
<1> DEFINE m == Len(t)
           N == LineNo(t)
<1>1. N \in Nat /\ LineNo(u) = N /\ \A n \in Starts(t) : NewlinesTo(u, n) = NewlinesTo(t, n)
  BY LineNoLonger
<1>2. Starts(u) = IF InWord(u, m + 1) /\ ~InWord(t, m)
                  THEN Starts(t) \cup {m + 1} ELSE Starts(t)
  BY StartsLonger
<1>3. NewlinesTo(u, m + 1) = N
  BY NewlinesLonger DEF LineNo
<1> HIDE DEF m, N
<1>4. \A l : l \in Lines(u) /\ l # N <=> l \in Lines(t) /\ l # N
  BY <1>1, <1>2, <1>3 DEF Lines
<1>5. Lines(u) \ {N} = Lines(t) \ {N}
  BY <1>4
<1>6. CommandsAt(u, Lines(t) \ {N}) = Before(t)
  BY CommandsKept DEF N
<1> QED
  BY <1>1, <1>5, <1>6 DEF Before, N

(* A character that is not of a word.                                      *)
LEMMA WordsKept ==
  ASSUME NEW t, NEW c, NEW u, Grows(t, c, u), ~InWord(u, Len(t) + 1)
  PROVE  WordsOf(u, LineNo(t)) = WordsOf(t, LineNo(t))
<1> DEFINE N == LineNo(t)
           S == StartsOf(t, N)
<1>1. t \in Seq(Chars) /\ N \in Nat
  BY Longer, LineNoLonger
<1>2. StartsOf(u, N) = S
  BY <1>1, StartsKept
<1>3. S \in SUBSET Nat /\ IsFiniteSet(S) /\ \A n \in S : n \in Starts(t)
  BY <1>1, StartsTyped DEF StartsOf
<1> HIDE DEF S
<1>4. \A n \in S : WordAt(u, n) = WordAt(t, n)
  BY <1>3, WordKept
<1>5. WordsAt(u, S) = WordsAt(t, S)
  BY <1>3, <1>4, WordsSame
<1> QED
  BY <1>2, <1>5 DEF WordsOf, S

(* A newline: the words of the line become a command, if there are any.    *)
LEMMA LineIsOver ==
  ASSUME NEW t, NEW u, Grows(t, Newline, u)
  PROVE  /\ LineNo(u) = LineNo(t) + 1
         /\ WordsOf(u, LineNo(u)) = <<>>
         /\ Before(u) = IF WordsOf(t, LineNo(t)) = <<>> THEN Before(t)
                        ELSE Append(Before(t), [words |-> WordsOf(t, LineNo(t)),
                                                at |-> LineNo(t) + 1])
<1> DEFINE m == Len(t)
           N == LineNo(t)
<1>1. /\ N \in Nat /\ LineNo(u) = N + 1
      /\ \A n \in Starts(t) : NewlinesTo(u, n) = NewlinesTo(t, n)
  BY LineNoLonger
<1>2. t \in Seq(Chars) /\ u \in Seq(Chars)
  BY Longer
<1>3. ~InWord(u, m + 1)
  BY InWordLonger, CharAssumption
<1>4. Starts(u) = Starts(t)
  BY <1>3, StartsLonger
<1>5. /\ Lines(t) \in SUBSET Nat /\ IsFiniteSet(Lines(t))
      /\ \A l \in Lines(t) : l <= N
      /\ N \in Lines(t) <=> StartsOf(t, N) # {}
  BY <1>2, LinesTyped
<1>6. Lines(u) = Lines(t)
  BY <1>1, <1>4 DEF Lines
<1>7. WordsOf(u, N) = WordsOf(t, N)
  BY <1>3, WordsKept
<1>8. StartsOf(t, N) = {} <=> WordsOf(t, N) = <<>>
  <2>1. StartsOf(t, N) \in SUBSET Nat /\ IsFiniteSet(StartsOf(t, N))
    BY <1>2, StartsTyped
  <2> QED
    BY <2>1, NoWords DEF WordsOf
<1>9. CommandsAt(u, Lines(t) \ {N}) = Before(t)
  BY CommandsKept
<1> HIDE DEF N, m
<1>10. N + 1 \notin Lines(t) /\ \A l \in Lines(t) \ {N} : l < N
  BY <1>1, <1>5
<1>11. WordsOf(u, N + 1) = <<>>
  <2>1. StartsOf(u, N + 1) = {}
    <3>1. N + 1 \notin Lines(u)
      BY <1>6, <1>10
    <3> QED
      BY <1>2, <3>1, LinesTyped
  <2>2. {} \in SUBSET Nat /\ IsFiniteSet({})
    BY FS_EmptySet
  <2>3. WordsAt(u, {}) = <<>>
    BY <2>2, NoWords
  <2> QED
    BY <2>1, <2>3 DEF WordsOf
<1>12. Before(u) = CommandsAt(u, Lines(t))
  <2>1. Lines(u) \ {N + 1} = Lines(t)
    BY <1>6, <1>10
  <2> QED
    BY <1>1, <2>1 DEF Before
<1>13. CASE WordsOf(t, N) = <<>>
  <2>1. Lines(t) \ {N} = Lines(t)
    BY <1>5, <1>8, <1>13
  <2> QED
    BY <1>1, <1>9, <1>11, <1>12, <1>13, <2>1 DEF N
<1>14. CASE WordsOf(t, N) # <<>>
  <2> DEFINE S == Lines(t) \ {N}
  <2>1. N \in Lines(t) /\ S \cup {N} = Lines(t)
    BY <1>5, <1>8, <1>14
  <2>2. S \in SUBSET Nat /\ IsFiniteSet(S) /\ \A l \in S : l < N
    BY <1>5, <1>10, FS_RemoveElement
  <2>3. CommandsAt(u, S) = Before(t)
    BY <1>9
  <2> HIDE DEF S
  <2>4. CommandsAt(u, Lines(t)) = Append(Before(t), CommandOf(u, N))
    BY <1>1, <2>1, <2>2, <2>3, CommandsAppend
  <2>5. CommandOf(u, N) = [words |-> WordsOf(t, N), at |-> N + 1]
    <3>1. N < LineNo(u)
      BY <1>1
    <3> QED
      BY <1>7, <3>1 DEF CommandOf, LineNo
  <2> QED
    BY <1>1, <1>11, <1>12, <1>14, <2>4, <2>5 DEF N
<1> QED
  BY <1>13, <1>14

(* The end of the file: a last line without a newline is one, too.         *)
LEMMA FileIsOver ==
  ASSUME NEW t \in Seq(Chars)
  PROVE  CommandsOf(t) = IF WordsOf(t, LineNo(t)) = <<>> THEN Before(t)
                         ELSE Append(Before(t), [words |-> WordsOf(t, LineNo(t)),
                                                 at |-> LineNo(t)])
<1> DEFINE N == LineNo(t)
           S == Lines(t) \ {N}
<1>1. /\ N \in Nat /\ Lines(t) \in SUBSET Nat /\ IsFiniteSet(Lines(t))
      /\ \A l \in Lines(t) : l <= N
      /\ N \in Lines(t) <=> StartsOf(t, N) # {}
  BY LinesTyped
<1>2. StartsOf(t, N) = {} <=> WordsOf(t, N) = <<>>
  <2>1. StartsOf(t, N) \in SUBSET Nat /\ IsFiniteSet(StartsOf(t, N))
    BY StartsTyped
  <2> QED
    BY <2>1, NoWords DEF WordsOf
<1>3. CommandsAt(t, S) = Before(t)
  BY DEF Before
<1>4. CommandOf(t, N) = [words |-> WordsOf(t, N), at |-> N]
  BY <1>1 DEF CommandOf, LineNo
<1> HIDE DEF N
<1>5. S \in SUBSET Nat /\ IsFiniteSet(S) /\ \A l \in S : l < N
  BY <1>1, FS_RemoveElement
<1>6. CASE WordsOf(t, N) = <<>>
  <2>1. S = Lines(t)
    BY <1>1, <1>2, <1>6
  <2> QED
    BY <1>3, <1>6, <2>1 DEF CommandsOf, N
<1>7. CASE WordsOf(t, N) # <<>>
  <2>1. S \cup {N} = Lines(t)
    BY <1>1, <1>2, <1>7
  <2> HIDE DEF S
  <2>2. CommandsAt(t, Lines(t)) = Append(Before(t), CommandOf(t, N))
    BY <1>1, <1>3, <1>5, <2>1, CommandsAppend
  <2> QED
    BY <1>4, <1>7, <2>2 DEF CommandsOf, N
<1> QED
  BY <1>6, <1>7

LEMMA WordBegins ==
  ASSUME NEW t, NEW c, NEW u, Grows(t, c, u),
         InWord(u, Len(t) + 1), ~InWord(t, Len(t))
  PROVE  WordsOf(u, LineNo(t)) = Append(WordsOf(t, LineNo(t)), <<c>>)
<1> DEFINE m == Len(t)
           N == LineNo(t)
           S == StartsOf(t, N)
           new == m + 1
<1>1. /\ t \in Seq(Chars) /\ u \in Seq(Chars) /\ c \in Chars
      /\ m \in Nat /\ Len(u) = m + 1 /\ u[m + 1] = c
  BY Longer
<1>2. N \in Nat /\ \A n \in Starts(t) : NewlinesTo(u, n) = NewlinesTo(t, n)
  BY LineNoLonger
<1>3. Starts(u) = Starts(t) \cup {new}
  BY StartsLonger
<1>4. NewlinesTo(u, new) = N
  <2>1. c # Newline
    BY InWordLonger, CharAssumption
  <2> QED
    BY <2>1, NewlinesLonger DEF LineNo
<1>5. StartsOf(u, N) = S \cup {new}
  <2> HIDE DEF N, new
  <2> QED
    BY <1>2, <1>3, <1>4 DEF StartsOf
<1>6. /\ S \in SUBSET Nat /\ IsFiniteSet(S)
      /\ \A n \in S : n \in Starts(t) /\ n \in 1 .. m
  BY <1>1, StartsTyped, LinesTyped DEF StartsOf
<1>7. \A n \in S : WordAt(u, n) = WordAt(t, n)
  BY <1>6, WordKept
<1>8. WordsAt(u, S) = WordsAt(t, S)
  BY <1>6, <1>7, WordsSame
<1>9. WordAt(u, new) = <<c>>
  <2>1. ~InWord(u, new + 1)
    BY <1>1, InWordOutside
  <2>2. EndsAt(u, new, new)
    BY <1>1, <2>1 DEF EndsAt
  <2> DEFINE v == SubSeq(u, new, new)
  <2>3. WordAt(u, new) = v
    BY <1>1, <2>2, WordIs
  <2>4. new \in Nat /\ \A k \in new .. new : u[k] \in Chars
    BY <1>1
  <2>5. /\ v \in Seq(Chars) /\ Len(v) = 1 /\ v[1] = u[new]
    <3> HIDE DEF new
    <3>1. /\ v \in Seq(Chars)
          /\ Len(v) = IF new <= new THEN new - new + 1 ELSE 0
          /\ \A i \in 1 .. new - new + 1 : v[i] = u[new + i - 1]
      BY <2>4, SubSeqProperties
    <3> QED
      BY <2>4, <3>1
  <2> HIDE DEF v
  <2>6. v = <<c>>
    BY <1>1, <2>5
  <2> QED
    BY <2>3, <2>6
<1>10. new \in Nat /\ \A n \in S : n < new
  BY <1>1, <1>6
<1> HIDE DEF new, S, N
<1>11. WordsAt(u, S \cup {new}) = Append(WordsAt(u, S), WordAt(u, new))
  BY <1>6, <1>10, WordsAppend
<1>12. WordsOf(u, N) = WordsAt(u, S \cup {new}) /\ WordsOf(t, N) = WordsAt(t, S)
  BY <1>5 DEF WordsOf, S
<1> QED
  BY <1>8, <1>9, <1>11, <1>12 DEF N

LEMMA WordInProgress ==
  ASSUME NEW t \in Seq(Chars), InWord(t, Len(t))
  PROVE  \E w \in Starts(t) : /\ EndsAt(t, w, Len(t))
                             /\ NewlinesTo(t, w) = LineNo(t)
                             /\ \A n \in Starts(t) : n <= w
<1> DEFINE m == Len(t)
           R == {k \in 1 .. m : \A j \in k .. m : InWord(t, j)}
<1>1. m \in Nat /\ m \in 1 .. m /\ DOMAIN t = 1 .. m
  BY InWordOutside, LenProperties
<1>2. m \in R /\ R \in SUBSET Nat
  BY <1>1
<1>3. PICK w \in R : \A k \in R : w <= k
  <2> HIDE DEF R
  <2> QED
    BY <1>2, LeastNat
<1>4. w \in 1 .. m /\ \A j \in w .. m : InWord(t, j)
  BY <1>3
<1>5. ~InWord(t, w - 1)
  <2> SUFFICES ASSUME InWord(t, w - 1) PROVE FALSE
    OBVIOUS
  <2>1. w - 1 \in 1 .. m
    BY InWordOutside
  <2>2. \A j \in w - 1 .. m : j = w - 1 \/ j \in w .. m
    BY <1>1, <1>4
  <2>3. w - 1 \in R
    BY <1>4, <2>1, <2>2
  <2> QED
    BY <1>1, <1>3, <1>4, <2>3
<1> HIDE DEF R
<1>6. w \in Starts(t)
  BY <1>1, <1>4, <1>5 DEF Starts
<1>7. EndsAt(t, w, m)
  <2>1. ~InWord(t, m + 1)
    BY <1>1, InWordOutside
  <2>2. \A k \in w .. m - 1 : k + 1 \in w .. m
    BY <1>1, <1>4
  <2> QED
    BY <1>1, <1>4, <2>1, <2>2 DEF EndsAt
<1>8. NewlinesTo(t, w) = LineNo(t)
  <2>1. \A k \in w + 1 .. m : k \in w .. m
    BY <1>1, <1>4
  <2>2. \A k \in w + 1 .. m : t[k] # Newline
    BY <1>4, <2>1, CharAssumption DEF InWord
  <2>3. w \in Nat /\ w <= m
    BY <1>1, <1>4
  <2> QED
    BY <1>1, <2>2, <2>3, NewlinesCounted DEF LineNo
<1>9. ASSUME NEW n \in Starts(t) PROVE n <= w
  <2>1. n \in 1 .. m /\ ~InWord(t, n - 1)
    BY <1>1 DEF Starts
  <2>2. ~(n - 1 \in w .. m)
    BY <1>4, <2>1
  <2> QED
    BY <1>1, <1>4, <2>1, <2>2
<1> QED
  BY <1>6, <1>7, <1>8, <1>9

LEMMA WordsTyped ==
  ASSUME NEW t \in Seq(Chars), NEW S \in SUBSET (1 .. Len(t))
  PROVE  WordsAt(t, S) \in Seq(Seq(Chars))
<1> DEFINE a == Ascending(S)
           n == Cardinality(S)
<1>1. Len(t) \in Nat /\ IsFiniteSet(1 .. Len(t))
  BY LenProperties, FS_Interval
<1>2. S \in SUBSET Nat /\ IsFiniteSet(S)
  <2>1. S \in SUBSET Nat
    BY <1>1
  <2>2. IsFiniteSet(S)
    BY <1>1, FS_Subset
  <2> QED
    BY <2>1, <2>2
<1>3. n \in Nat /\ DOMAIN a = 1 .. n /\ \A i \in 1 .. n : a[i] \in S
  BY <1>2, AscendingSorts, SortsTyped
<1>4. ASSUME NEW x \in 1 .. Len(t) PROVE WordAt(t, x) \in Seq(Chars)
  <2>1. PICK e \in x .. Len(t) : WordAt(t, x) = SubSeq(t, x, e)
    BY WordTaken
  <2>2. /\ x \in Nat /\ e \in Nat
        /\ \A k \in x .. e : k \in 1 .. Len(t)
    BY <1>1
  <2>3. \A k \in x .. e : t[k] \in Chars
    BY <2>2, ElementOfSeq
  <2> QED
    BY <2>1, <2>2, <2>3, SubSeqProperties
<1> DEFINE W(x) == WordAt(t, x)
           T == Seq(Chars)
<1>5. \A i \in 1 .. n : W(a[i]) \in T
  BY <1>3, <1>4
<1>6. WordsAt(t, S) = [i \in 1 .. n |-> W(a[i])]
  BY <1>3 DEF WordsAt
<1> HIDE DEF W, T, n, a
<1>7. WordsAt(t, S) \in Seq(T)
  BY <1>3, <1>5, <1>6
<1> QED
  BY <1>7 DEF T

LEMMA WordGoesOn ==
  ASSUME NEW t, NEW c, NEW u, Grows(t, c, u),
         InWord(u, Len(t) + 1), InWord(t, Len(t))
  PROVE  \E front \in Seq(Seq(Chars)), word \in Seq(Chars) :
           /\ WordsOf(t, LineNo(t)) = Append(front, word)
           /\ WordsOf(u, LineNo(t)) = Append(front, Append(word, c))
<1> DEFINE m == Len(t)
           N == LineNo(t)
<1>1. /\ t \in Seq(Chars) /\ u \in Seq(Chars) /\ c \in Chars
      /\ m \in Nat /\ Len(u) = m + 1 /\ u[m + 1] = c
  BY Longer
<1>2. PICK w \in Starts(t) : /\ EndsAt(t, w, m) /\ NewlinesTo(t, w) = N
                             /\ \A n \in Starts(t) : n <= w
  BY <1>1, WordInProgress
<1> DEFINE A == StartsOf(t, N) \ {w}
           word == WordAt(t, w)
           front == WordsAt(t, A)
<1>3. /\ w \in 1 .. m /\ ~InWord(t, w - 1)
      /\ \A k \in w .. m - 1 : InWord(t, k + 1)
  BY <1>1, <1>2, LinesTyped DEF EndsAt, Starts
<1>4. \A k \in 0 .. m : InWord(u, k) <=> InWord(t, k)
  BY InWordLonger
<1>5. EndsAt(u, w, m + 1)
  <2>1. ~InWord(u, m + 1 + 1)
    BY <1>1, InWordOutside
  <2>2. ASSUME NEW k \in w .. m + 1 - 1 PROVE InWord(u, k + 1)
    <3>1. CASE k = m
      BY <3>1
    <3>2. CASE k # m
      <4>1. k \in w .. m - 1 /\ k + 1 \in 0 .. m
        BY <1>1, <1>3, <3>2
      <4> QED
        BY <1>3, <1>4, <4>1
    <3> QED
      BY <3>1, <3>2
  <2> QED
    BY <1>1, <1>3, <2>1, <2>2 DEF EndsAt
<1>6. word = SubSeq(t, w, m) /\ WordAt(u, w) = SubSeq(u, w, m + 1)
  BY <1>1, <1>2, <1>5, WordIs
<1>7. word \in Seq(Chars) /\ WordAt(u, w) = Append(word, c)
  <2>1. m \in w .. m /\ w \in Nat
    BY <1>1, <1>3
  <2>2. SubSeq(u, w, m) = SubSeq(t, w, m) /\ SubSeq(t, w, m) \in Seq(Chars)
    BY <1>3, <2>1, PartLonger
  <2> DEFINE long == SubSeq(u, w, m + 1)
             short == SubSeq(u, w, m)
             more == Append(short, c)
  <2>3. \A k \in w .. m + 1 : u[k] \in Chars
    <3>1. \A k \in w .. m + 1 : k \in 1 .. Len(u)
      BY <1>1, <1>3
    <3> QED
      BY <1>1, <3>1, ElementOfSeq
  <2>4. /\ long \in Seq(Chars) /\ Len(long) = m + 1 - w + 1
        /\ \A i \in 1 .. m + 1 - w + 1 : long[i] = u[w + i - 1]
    BY <1>1, <1>3, <2>1, <2>3, SubSeqProperties
  <2>5. /\ short \in Seq(Chars) /\ Len(short) = m - w + 1
        /\ \A i \in 1 .. m - w + 1 : short[i] = u[w + i - 1]
    BY <1>1, <1>3, <2>1, <2>3, SubSeqProperties
  <2> HIDE DEF long, short
  <2>6. /\ more \in Seq(Chars) /\ Len(more) = m - w + 1 + 1
        /\ \A i \in 1 .. m - w + 1 : more[i] = short[i]
        /\ more[m - w + 1 + 1] = c
    BY <1>1, <2>5, AppendProperties
  <2> HIDE DEF more
  <2>7. m + 1 - w + 1 = m - w + 1 + 1 /\ m - w + 1 \in Nat
    BY <1>1, <1>3
  <2>8. ASSUME NEW i \in 1 .. Len(long) PROVE long[i] = more[i]
    <3>1. CASE i = m - w + 1 + 1
      <4>1. w + i - 1 = m + 1
        BY <1>1, <1>3, <3>1
      <4> QED
        BY <1>1, <2>4, <2>6, <3>1, <4>1
    <3>2. CASE i # m - w + 1 + 1
      <4>1. i \in 1 .. m - w + 1
        BY <2>4, <2>7, <3>2
      <4> QED
        BY <2>4, <2>5, <2>6, <4>1
    <3> QED
      BY <3>1, <3>2
  <2>9. long = more
    BY <2>4, <2>6, <2>7, <2>8, SeqEqual
  <2> QED
    BY <1>6, <2>2, <2>9 DEF long, more, short
<1>8. /\ A \in SUBSET Nat /\ IsFiniteSet(A) /\ A \in SUBSET (1 .. m)
      /\ A \cup {w} = StartsOf(t, N)
      /\ \A n \in A : n \in Starts(t) /\ n < w
      /\ w \in Nat
  <2>1. /\ StartsOf(t, N) \in SUBSET Nat /\ IsFiniteSet(StartsOf(t, N))
        /\ Starts(t) \in SUBSET (1 .. m)
    BY <1>1, StartsTyped
  <2>2. w \in StartsOf(t, N) /\ StartsOf(t, N) \subseteq Starts(t)
    BY <1>2 DEF StartsOf
  <2>3. IsFiniteSet(A)
    BY <2>1, FS_RemoveElement
  <2>4. ASSUME NEW n \in A PROVE n \in Starts(t) /\ n < w
    <3>1. n \in Starts(t) /\ n # w
      BY <2>2
    <3>2. n \in Nat /\ w \in Nat /\ n <= w
      BY <1>2, <1>3, <2>1, <3>1
    <3> QED
      BY <3>1, <3>2
  <2> QED
    BY <1>3, <2>1, <2>2, <2>3, <2>4
<1>9. StartsOf(u, N) = A \cup {w}
  <2>1. Starts(u) = Starts(t)
    BY StartsLonger
  <2>2. \A n \in Starts(t) : NewlinesTo(u, n) = NewlinesTo(t, n)
    BY LineNoLonger
  <2> QED
    BY <1>8, <2>1, <2>2 DEF StartsOf
<1> HIDE DEF A, word
<1>10. ASSUME NEW n \in A PROVE WordAt(u, n) = WordAt(t, n)
  <2>1. n \in 1 .. m /\ n < w /\ InWord(t, n)
    BY <1>1, <1>8, LinesTyped DEF Starts
  <2>2. n # w - 1
    BY <1>3, <2>1
  <2> DEFINE k == w - 2
  <2>3. k \in n .. m - 1 /\ k + 1 = w - 1
    BY <1>1, <1>3, <2>1, <2>2
  <2> HIDE DEF k
  <2>4. ~InWord(t, k + 1)
    BY <1>3, <2>3
  <2> QED
    BY <2>1, <2>3, <2>4, WordLonger
<1>11. WordsAt(u, A) = front
  BY <1>8, <1>10, WordsSame
<1>12. front \in Seq(Seq(Chars))
  BY <1>1, <1>8, WordsTyped
<1>13. WordsAt(t, A \cup {w}) = Append(front, word)
  BY <1>8, WordsAppend DEF word
<1>14. WordsAt(u, A \cup {w}) = Append(front, Append(word, c))
  <2>1. WordsAt(u, A \cup {w}) = Append(WordsAt(u, A), WordAt(u, w))
    BY <1>8, WordsAppend
  <2> QED
    BY <1>7, <1>11, <2>1, Zenon
<1>15. /\ WordsOf(t, N) = Append(front, word)
       /\ WordsOf(u, N) = Append(front, Append(word, c))
  BY <1>8, <1>9, <1>13, <1>14 DEF WordsOf
<1> QED
  BY <1>7, <1>12, <1>15

-----------------------------------------------------------------------------
(* The lexer and what it has gone past.                                    *)

(* What the lexer is at, and what stands before it.  After a comment or a  *)
(* word, it looks at the character that ended it.                          *)
Tokens ==
  /\ pc = "open" => buf = <<>> /\ from = 0
  /\ pc = "word" <=> tok # <<>>
  /\ pc = "comment" => Commented(Consumed, Len(Consumed))
  /\ pc = "word" => InWord(Consumed, Len(Consumed))
  /\ pc = "blank" =>
       /\ Commented(Consumed, Len(Consumed)) => Here \in {Newline, End}
       /\ InWord(Consumed, Len(Consumed)) => Here \notin Letters

(* init_config() was given the lines before this one, and the words of     *)
(* this one are in the command and the token.                              *)
InLine ==
  /\ commands = Before(Consumed)
  /\ WordsOf(Consumed, lnno) = IF pc = "word" THEN Append(cmd, tok) ELSE cmd

(* It was given a last line that no newline ends.                          *)
AfterLastLine ==
  /\ Here = End /\ pc \in {"blank", "done", "refused"}
  /\ cmd = <<>> /\ commands = CommandsOf(Consumed)

Given == lnno = LineNo(Consumed) /\ (InLine \/ AfterLastLine)

LinesInv == LexInv /\ Tokens /\ Given

LEMMA ConsumedTyped ==
  ASSUME LexInv
  PROVE  /\ Consumed \in Seq(Chars)
         /\ from - Len(buf) + ptr - 1 \in 0 .. Len(text)
         /\ Len(Consumed) = from - Len(buf) + ptr - 1
<1> DEFINE p == from - Len(buf) + ptr - 1
<1>1. /\ text \in Seq(Chars) /\ Len(text) \in Nat /\ Len(buf) \in Nat
      /\ from \in Nat /\ ptr \in Nat /\ Len(buf) <= from
      /\ ptr >= 1 /\ ptr <= Len(buf) + 1 /\ from <= Len(text)
  BY DEF LexInv, TypeOK, ChunkInv
<1>2. p \in Nat /\ p <= Len(text)
  BY <1>1
<1>3. Consumed = SubSeq(text, 1, p)
  BY DEF Consumed
<1> HIDE DEF p
<1>4. \A k \in 1 .. p : text[k] \in Chars
  <2>1. \A k \in 1 .. p : k \in 1 .. Len(text)
    BY <1>1, <1>2
  <2> QED
    BY <1>1, <2>1, ElementOfSeq
<1>5. SubSeq(text, 1, p) \in Seq(Chars) /\ Len(SubSeq(text, 1, p)) = p
  <2>1. Len(SubSeq(text, 1, p)) = IF 1 <= p THEN p - 1 + 1 ELSE 0
    BY <1>2, <1>4, SubSeqProperties
  <2> QED
    BY <1>2, <1>4, <2>1, SubSeqProperties
<1> QED
  BY <1>1, <1>2, <1>3, <1>5 DEF p

(* Going on by a character.                                                *)
LEMMA GoesOn ==
  ASSUME LexInv, Here # End,
         Step \/ (ptr' = ptr + 1 /\ UNCHANGED <<file, buf>>)
  PROVE  Grows(Consumed, Here, Consumed')
<1> DEFINE p == from - Len(buf) + ptr - 1
           q == from' - Len(buf') + ptr' - 1
           n == p + 1
<1>1. /\ text \in Seq(Chars) /\ Len(text) \in Nat /\ Len(buf) \in Nat
      /\ from \in Nat /\ Len(buf) <= from /\ from <= Len(text)
      /\ \A i \in 1 .. Len(buf) : buf[i] = text[from - Len(buf) + i]
  BY DEF LexInv, TypeOK, ChunkInv
<1>2. ptr \in 1 .. Len(buf) /\ Here = buf[ptr] /\ Here \in Chars
  BY WithinChunk DEF LexInv
<1>3. p \in Nat /\ n \in 1 .. Len(text) /\ n = from - Len(buf) + ptr /\ n - 1 = p
  BY <1>1, <1>2
<1>4. text[n] = Here
  BY <1>1, <1>2, <1>3
<1>5. text' = text /\ q = p + 1
  <2>1. CASE ptr' = ptr + 1 /\ UNCHANGED <<file, buf>>
    BY <1>1, <1>2, <2>1 DEF file
  <2>2. CASE ptr = Len(buf) /\ load_buffer
    <3>1. text' = text /\ ptr' = 1 /\ from' - Len(buf') = from
      BY <2>2, Load DEF LexInv
    <3> QED
      BY <1>1, <1>2, <2>2, <3>1
  <2> QED
    BY <2>1, <2>2 DEF Step
<1>6. Consumed = SubSeq(text, 1, p) /\ Consumed' = SubSeq(text', 1, q)
  BY DEF Consumed
<1>7. Consumed \in Seq(Chars)
  BY ConsumedTyped
<1> HIDE DEF p, q, n
<1>8. Append(SubSeq(text, 1, n - 1), text[n]) = SubSeq(text, 1, n)
  BY <1>1, <1>3, TakeNext
<1>9. n = q
  BY <1>5 DEF n
<1> QED
  BY <1>2, <1>3, <1>4, <1>5, <1>6, <1>7, <1>8, <1>9, Zenon DEF Grows

(* A character that is not of a word leaves the line as it is.             *)
LEMMA LineKept ==
  ASSUME Grows(Consumed, Here, Consumed'), Given, Here # End, Here # Newline,
         ~InWord(Consumed', Len(Consumed) + 1), pc # "word", pc' # "word",
         UNCHANGED line
  PROVE  Given'
<1>1. lnno = LineNo(Consumed) /\ InLine
  BY DEF Given, AfterLastLine
<1>2. lnno' = lnno /\ cmd' = cmd /\ commands' = commands
  BY DEF line
<1>3. Before(Consumed') = Before(Consumed) /\ LineNo(Consumed') = LineNo(Consumed)
  BY BeforeKept
<1>4. WordsOf(Consumed', LineNo(Consumed)) = WordsOf(Consumed, LineNo(Consumed))
  BY WordsKept
<1> QED
  BY <1>1, <1>2, <1>3, <1>4 DEF Given, InLine

LEMMA InitLinesInv == Init => Tokens /\ Given
<1> SUFFICES ASSUME Init PROVE Tokens /\ Given
  OBVIOUS
<1>0. LexInv
  BY InitLexInv
<1>1. /\ buf = <<>> /\ from = 0 /\ ptr = 1 /\ pc = "open"
      /\ tok = <<>> /\ cmd = <<>> /\ lnno = 0 /\ commands = <<>>
  BY DEF Init
<1>2. Consumed \in Seq(Chars) /\ Len(Consumed) = 0
  <2>1. Len(buf) = 0
    BY <1>1
  <2> QED
    BY <1>0, <1>1, <2>1, ConsumedTyped
<1>3. LineNo(Consumed) = 0
  <2>1. {k \in 1 .. 0 : Consumed[k] = Newline} = {}
    OBVIOUS
  <2> QED
    BY <1>2, <2>1, FS_EmptySet DEF LineNo, NewlinesTo
<1>4. Starts(Consumed) = {}
  <2>1. Starts(Consumed) \in SUBSET (1 .. Len(Consumed))
    BY <1>2, StartsTyped
  <2> QED
    BY <1>2, <2>1
<1>5. {} \in SUBSET Nat /\ IsFiniteSet({})
  BY FS_EmptySet
<1>6. WordsOf(Consumed, 0) = <<>>
  <2>1. StartsOf(Consumed, 0) = {}
    BY <1>4 DEF StartsOf
  <2> QED
    BY <1>5, <2>1, NoWords DEF WordsOf
<1>7. Before(Consumed) = <<>>
  <2>1. Lines(Consumed) \ {LineNo(Consumed)} = {}
    BY <1>4 DEF Lines
  <2>2. CommandsAt(Consumed, {}) = <<>>
    BY <1>5, CommandsMapped, MappedEmpty
  <2> QED
    BY <2>1, <2>2 DEF Before
<1>8. Tokens
  BY <1>1 DEF Tokens
<1> QED
  BY <1>1, <1>3, <1>6, <1>7, <1>8 DEF Given, InLine

LEMMA OpenKeepsLines ==
  ASSUME LinesInv, Open
  PROVE  Tokens' /\ Given'
<1>1. /\ load_buffer /\ pc = "open" /\ pc' = "blank" /\ UNCHANGED <<tok, line>>
      /\ buf = <<>> /\ from = 0 /\ tok = <<>>
  BY DEF Open, LinesInv, Tokens
<1>2. text' = text /\ ptr' = 1 /\ from' - Len(buf') = from
  BY <1>1, Load DEF LinesInv, LexInv
<1>3. Len(buf) = 0 /\ ptr = 1
  <2>1. Len(buf) = 0
    BY <1>1
  <2> QED
    BY <2>1 DEF LinesInv, LexInv, TypeOK
<1>4. Consumed' = Consumed /\ Len(Consumed) = 0
  <2>1. from - Len(buf) + ptr - 1 = 0 /\ from' - Len(buf') + ptr' - 1 = 0
    <3> DEFINE d == from' - Len(buf')
    <3>1. d = 0 /\ ptr' = 1
      BY <1>1, <1>2
    <3> HIDE DEF d
    <3>2. d + ptr' - 1 = 0
      BY <3>1
    <3>3. from - Len(buf) + ptr - 1 = 0
      <4> DEFINE l == Len(buf)
      <4>1. l = 0 /\ from = 0 /\ ptr = 1
        BY <1>1, <1>3
      <4> HIDE DEF l
      <4>2. from - l + ptr - 1 = 0
        BY <4>1
      <4> QED
        BY <4>2 DEF l
    <3> QED
      BY <3>2, <3>3 DEF d
  <2> QED
    BY <1>2, <2>1, ConsumedTyped DEF LinesInv, Consumed
<1>5. ~Commented(Consumed, 0) /\ ~InWord(Consumed, 0)
  <2>1. Consumed \in Seq(Chars)
    BY ConsumedTyped DEF LinesInv
  <2> QED
    BY <2>1, InWordOutside DEF Commented
<1>6. Tokens'
  BY <1>1, <1>4, <1>5 DEF Tokens
<1>7. lnno = LineNo(Consumed) /\ InLine
  BY <1>1 DEF LinesInv, Given, AfterLastLine
<1> QED
  BY <1>1, <1>4, <1>6, <1>7 DEF Given, InLine, line

LEMMA ChewKeepsLines ==
  ASSUME LinesInv, Chew \/ Comment
  PROVE  Tokens' /\ Given'
<1>1. /\ Step /\ UNCHANGED <<tok, line>> /\ pc \in {"blank", "comment"}
      /\ pc' \in {"blank", "comment"}
      /\ \/ pc = "blank" /\ pc' = "blank" /\ Here = Blank
         \/ pc = "blank" /\ pc' = "comment" /\ Here = Hash
         \/ pc = "comment" /\ pc' = "comment" /\ Here \notin {Newline, End}
  BY DEF Chew, Comment
<1>2. Here # End /\ Here # Newline /\ Blank \notin Letters /\ Blank # Hash
  BY <1>1, CharAssumption
<1>3. Grows(Consumed, Here, Consumed')
  BY <1>1, <1>2, GoesOn DEF LinesInv
<1>4. Len(Consumed') = Len(Consumed) + 1
  BY <1>3, Longer
<1>5. pc = "comment" => Commented(Consumed, Len(Consumed))
  BY DEF LinesInv, Tokens
<1>6. pc = "blank" => (Commented(Consumed, Len(Consumed)) => Here \in {Newline, End})
  BY DEF LinesInv, Tokens
<1>7. Commented(Consumed', Len(Consumed) + 1) <=>
        Here = Hash \/ (Commented(Consumed, Len(Consumed)) /\ Here # Newline)
  BY <1>3, CommentedLonger
<1>8. ~InWord(Consumed', Len(Consumed) + 1)
  <2>1. Here = Blank \/ Commented(Consumed', Len(Consumed) + 1)
    BY <1>1, <1>2, <1>5, <1>7
  <2> QED
    BY <1>2, <1>3, <2>1, InWordLonger DEF InWord
<1>9. Tokens'
  <2>1. tok' = <<>>
    BY <1>1 DEF LinesInv, Tokens
  <2>2. pc' = "blank" => ~Commented(Consumed', Len(Consumed) + 1)
    BY <1>1, <1>2, <1>6, <1>7
  <2>3. pc' = "comment" => Commented(Consumed', Len(Consumed) + 1)
    BY <1>1, <1>2, <1>5, <1>7
  <2> QED
    BY <1>1, <1>4, <1>8, <2>1, <2>2, <2>3 DEF Tokens
<1>10. Given'
  BY <1>1, <1>2, <1>3, <1>8, LineKept DEF LinesInv
<1> QED
  BY <1>9, <1>10

LEMMA GobbleKeepsLines ==
  ASSUME LinesInv, Gobble
  PROVE  Tokens' /\ Given'
<1>1. /\ pc \in {"blank", "word"} /\ Here \in Letters /\ tok' = Append(tok, Here)
      /\ Step /\ pc' = "word" /\ UNCHANGED <<cmd, lnno, commands>>
  BY DEF Gobble, line
<1>2. Here # End /\ Here # Newline
  BY <1>1, CharAssumption
<1>3. Grows(Consumed, Here, Consumed')
  BY <1>1, <1>2, GoesOn DEF LinesInv
<1>4. /\ Consumed \in Seq(Chars) /\ Len(Consumed') = Len(Consumed) + 1
  BY <1>3, Longer
<1>5. ~Commented(Consumed, Len(Consumed))
  <2>1. CASE pc = "blank"
    BY <1>2, <2>1 DEF LinesInv, Tokens
  <2>2. CASE pc = "word"
    BY <2>2 DEF LinesInv, Tokens, InWord
  <2> QED
    BY <1>1, <2>1, <2>2
<1>6. InWord(Consumed', Len(Consumed) + 1)
  BY <1>1, <1>3, <1>5, InWordLonger
<1>7. tok \in Seq(Letters) /\ cmd \in Seq(Word) /\ tok' \in Word /\ tok' # <<>>
  <2>1. tok \in Seq(Letters) /\ cmd \in Seq(Word)
    BY DEF LinesInv, LexInv, TypeOK, Word
  <2> QED
    BY <1>1, <2>1, AppendProperties DEF Word
<1>8. Tokens'
  BY <1>1, <1>4, <1>6, <1>7 DEF Tokens
<1>9. lnno = LineNo(Consumed) /\ InLine
  BY <1>2 DEF LinesInv, Given, AfterLastLine
<1>10. Before(Consumed') = Before(Consumed) /\ LineNo(Consumed') = LineNo(Consumed)
  BY <1>2, <1>3, BeforeKept
<1>11. WordsOf(Consumed', lnno) = Append(cmd, tok')
  <2>1. CASE pc = "blank"
    <3>1. ~InWord(Consumed, Len(Consumed))
      BY <1>1, <2>1 DEF LinesInv, Tokens
    <3>2. tok = <<>>
      BY <2>1 DEF LinesInv, Tokens
    <3>3. Append(tok, Here) = <<Here>>
      BY <3>2
    <3>4. WordsOf(Consumed, lnno) = cmd
      BY <1>9, <2>1 DEF InLine
    <3>5. WordsOf(Consumed', LineNo(Consumed)) =
            Append(WordsOf(Consumed, LineNo(Consumed)), <<Here>>)
      BY <1>3, <1>6, <3>1, WordBegins
    <3> QED
      BY <1>1, <1>9, <3>3, <3>4, <3>5, Zenon
  <2>2. CASE pc = "word"
    <3>1. InWord(Consumed, Len(Consumed))
      BY <2>2 DEF LinesInv, Tokens
    <3>2. PICK front \in Seq(Seq(Chars)), word \in Seq(Chars) :
            /\ WordsOf(Consumed, LineNo(Consumed)) = Append(front, word)
            /\ WordsOf(Consumed', LineNo(Consumed)) = Append(front, Append(word, Here))
      BY <1>3, <1>6, <3>1, WordGoesOn
    <3>3. WordsOf(Consumed, lnno) = Append(cmd, tok)
      BY <1>9, <2>2 DEF InLine
    <3>4. Append(front, word) = Append(cmd, tok)
      BY <1>9, <3>2, <3>3, Zenon
    <3> DEFINE T == Seq(Chars)
    <3>5. front \in Seq(T) /\ word \in T /\ cmd \in Seq(T) /\ tok \in T
      <4>1. Letters \subseteq Chars
        BY DEF Chars
      <4>2. \A v \in Seq(Letters) : v \in Seq(Chars)
        BY <4>1
      <4>3. Word \subseteq T
        BY <4>2 DEF Word
      <4>4. tok \in T
        BY <1>7, <4>2
      <4> HIDE DEF T
      <4>5. cmd \in Seq(T)
        BY <1>7, <4>3
      <4> QED
        BY <3>2, <4>4, <4>5 DEF T
    <3> HIDE DEF T
    <3>6. front = cmd /\ word = tok
      BY <3>4, <3>5, AppendInjective
    <3> QED
      BY <1>1, <1>9, <3>2, <3>6, Zenon
  <2> QED
    BY <1>1, <2>1, <2>2
<1>12. Given'
  BY <1>1, <1>9, <1>10, <1>11, Zenon DEF Given, InLine
<1> QED
  BY <1>8, <1>12

LEMMA LineEndsKeepsLines ==
  ASSUME LinesInv, LineEnds
  PROVE  Tokens' /\ Given'
<1>1. /\ pc = "blank" /\ Here = Newline /\ ptr' = ptr + 1 /\ lnno' = lnno + 1
      /\ HandOver /\ UNCHANGED <<file, buf, tok>>
  BY DEF LineEnds, LineCounted
<1>2. Here # End /\ Newline \notin Letters /\ Newline # Hash
  BY <1>1, CharAssumption
<1>3. Grows(Consumed, Newline, Consumed')
  BY <1>1, <1>2, GoesOn DEF LinesInv
<1>4. lnno = LineNo(Consumed) /\ InLine
  BY <1>2 DEF LinesInv, Given, AfterLastLine
<1>5. WordsOf(Consumed, LineNo(Consumed)) = cmd /\ commands = Before(Consumed)
  BY <1>1, <1>4 DEF InLine
<1>6. /\ LineNo(Consumed') = LineNo(Consumed) + 1
      /\ WordsOf(Consumed', LineNo(Consumed')) = <<>>
      /\ Before(Consumed') =
           IF WordsOf(Consumed, LineNo(Consumed)) = <<>> THEN Before(Consumed)
           ELSE Append(Before(Consumed), [words |-> WordsOf(Consumed, LineNo(Consumed)),
                                          at |-> LineNo(Consumed) + 1])
  BY <1>3, LineIsOver
<1>7. pc' \in {"blank", "refused"} /\ cmd' = <<>> /\ commands' = Before(Consumed')
  <2>1. CASE cmd = <<>>
    <3>1. pc' = "blank" /\ UNCHANGED <<cmd, commands>>
      BY <1>1, <2>1 DEF HandOver
    <3> QED
      BY <1>5, <1>6, <2>1, <3>1
  <2>2. CASE cmd # <<>>
    <3>1. /\ commands' = Append(commands, [words |-> cmd, at |-> lnno'])
          /\ cmd' = <<>> /\ pc' \in {"blank", "refused"}
      BY <1>1, <2>2 DEF HandOver
    <3> QED
      BY <1>1, <1>4, <1>5, <1>6, <2>2, <3>1
  <2> QED
    BY <2>1, <2>2
<1>8. lnno' = LineNo(Consumed')
  BY <1>1, <1>4, <1>6
<1>9. Given'
  BY <1>6, <1>7, <1>8 DEF Given, InLine
<1>10. Tokens'
  <2>1. Len(Consumed') = Len(Consumed) + 1
    BY <1>3, Longer
  <2>2. ~Commented(Consumed', Len(Consumed) + 1)
    BY <1>2, <1>3, CommentedLonger
  <2>3. ~InWord(Consumed', Len(Consumed) + 1)
    BY <1>2, <1>3, InWordLonger
  <2>4. tok' = <<>>
    BY <1>1 DEF LinesInv, Tokens
  <2> QED
    BY <1>7, <2>1, <2>2, <2>3, <2>4 DEF Tokens
<1> QED
  BY <1>9, <1>10

(* The steps that take no character.                                       *)
LEMMA StandingKeepsLines ==
  ASSUME LinesInv, CommentEnds \/ WordEnds \/ LastLine \/ Done
  PROVE  Tokens' /\ Given'
<1>1. /\ UNCHANGED <<file, chunk, lnno>>
      /\ Consumed' = Consumed /\ Here' = Here
  BY DEF CommentEnds, WordEnds, LastLine, Done, line, file, chunk, Consumed, Here
<1>2. lnno = LineNo(Consumed) /\ lnno' = LineNo(Consumed')
  BY <1>1 DEF LinesInv, Given
<1>3. CASE CommentEnds
  <2>1. /\ pc = "comment" /\ Here \in {Newline, End} /\ pc' = "blank"
        /\ UNCHANGED <<tok, cmd, commands>>
    BY <1>3 DEF CommentEnds, line
  <2>2. Here \notin Letters
    BY <2>1, CharAssumption
  <2>3. Tokens'
    BY <1>1, <2>1, <2>2 DEF LinesInv, Tokens
  <2>4. InLine
    BY <2>1 DEF LinesInv, Given, AfterLastLine
  <2>5. InLine'
    BY <1>1, <2>1, <2>4 DEF InLine
  <2> QED
    BY <1>2, <2>3, <2>5 DEF Given
<1>4. CASE WordEnds
  <2>1. /\ pc = "word" /\ Here \notin Letters /\ pc' = "blank" /\ tok' = <<>>
        /\ cmd' = Append(cmd, tok) /\ UNCHANGED commands
    BY <1>4 DEF WordEnds
  <2>2. ~Commented(Consumed, Len(Consumed))
    BY <2>1 DEF LinesInv, Tokens, InWord
  <2>3. Tokens'
    BY <1>1, <2>1, <2>2 DEF Tokens
  <2>4. InLine
    BY <2>1 DEF LinesInv, Given, AfterLastLine
  <2>5. WordsOf(Consumed, lnno) = cmd' /\ commands = Before(Consumed)
    BY <2>1, <2>4 DEF InLine
  <2>6. InLine'
    BY <1>1, <2>1, <2>5 DEF InLine
  <2> QED
    BY <1>2, <2>3, <2>6 DEF Given
<1>5. CASE LastLine
  <2>1. /\ pc = "blank" /\ Here = End /\ cmd # <<>> /\ HandOver /\ UNCHANGED <<lnno, tok>>
    BY <1>5 DEF LastLine
  <2>2. /\ commands' = Append(commands, [words |-> cmd, at |-> lnno'])
        /\ cmd' = <<>> /\ pc' \in {"blank", "refused"}
    BY <2>1 DEF HandOver
  <2>3. WordsOf(Consumed, LineNo(Consumed)) = cmd /\ commands = Before(Consumed)
    BY <1>2, <2>1 DEF LinesInv, Given, AfterLastLine, InLine
  <2>4. Consumed \in Seq(Chars)
    BY ConsumedTyped DEF LinesInv
  <2>5. CommandsOf(Consumed) =
          IF WordsOf(Consumed, LineNo(Consumed)) = <<>> THEN Before(Consumed)
          ELSE Append(Before(Consumed), [words |-> WordsOf(Consumed, LineNo(Consumed)),
                                         at |-> LineNo(Consumed)])
    BY <2>4, FileIsOver
  <2>6. commands' = CommandsOf(Consumed)
    BY <1>2, <2>1, <2>2, <2>3, <2>5
  <2>7. AfterLastLine'
    BY <1>1, <2>1, <2>2, <2>6 DEF AfterLastLine
  <2>8. Tokens'
    BY <1>1, <2>1, <2>2 DEF LinesInv, Tokens
  <2> QED
    BY <1>2, <2>7, <2>8 DEF Given
<1>6. CASE Done
  <2>1. /\ pc = "blank" /\ pc' = "done" /\ UNCHANGED <<tok, cmd, commands>>
    BY <1>6 DEF Done, line
  <2>2. Tokens'
    BY <1>1, <2>1 DEF LinesInv, Tokens
  <2>3. InLine => InLine'
    BY <1>1, <2>1 DEF InLine
  <2>4. AfterLastLine => AfterLastLine'
    BY <1>1, <2>1 DEF AfterLastLine
  <2> QED
    BY <1>2, <2>2, <2>3, <2>4 DEF LinesInv, Given
<1> QED
  BY <1>3, <1>4, <1>5, <1>6

LEMMA NextLinesInv == LinesInv /\ [Next]_vars => LinesInv'
<1> SUFFICES ASSUME LinesInv, [Next]_vars PROVE LinesInv'
  OBVIOUS
<1>1. LexInv'
  BY NextLexInv DEF LinesInv
<1>2. CASE Next
  BY <1>1, <1>2, OpenKeepsLines, ChewKeepsLines, GobbleKeepsLines,
     LineEndsKeepsLines, StandingKeepsLines DEF Next, LinesInv
<1>3. CASE UNCHANGED vars
  <2>1. /\ UNCHANGED <<text, from, failed, buf, ptr, pc, tok, cmd, lnno, commands>>
        /\ Consumed' = Consumed /\ Here' = Here
    BY <1>3 DEF vars, file, chunk, line, Consumed, Here
  <2> QED
    BY <1>1, <2>1 DEF LinesInv, Tokens, Given, InLine, AfterLastLine
<1> QED
  BY <1>2, <1>3

THEOREM LinesInvariant == Spec => []LinesInv
<1>1. Init => LinesInv
  BY InitLexInv, InitLinesInv DEF LinesInv
<1> QED
  BY <1>1, NextLinesInv, PTL DEF Spec

(***************************************************************************)
(* For every file, every size of the buffer and whatever reads fail:       *)
(* between two commands, init_config() has been given the commands of what *)
(* the lexer has gone past, with all of their words, in order and with the *)
(* line's number.                                                          *)
(***************************************************************************)
THEOREM LinesBecomeCommands == Spec => []CommandsAreTheLines
<1>1. LinesInv => CommandsAreTheLines
  <2> SUFFICES ASSUME LinesInv, cmd = <<>>, tok = <<>>
               PROVE  commands = CommandsOf(Consumed)
    BY DEF CommandsAreTheLines
  <2>1. CASE AfterLastLine
    BY <2>1 DEF AfterLastLine
  <2>2. CASE InLine
    <3>1. pc # "word"
      BY DEF LinesInv, Tokens
    <3>2. WordsOf(Consumed, LineNo(Consumed)) = <<>> /\ commands = Before(Consumed)
      BY <2>2, <3>1 DEF InLine, LinesInv, Given
    <3> QED
      BY <3>2, ConsumedTyped, FileIsOver DEF LinesInv
  <2> QED
    BY <2>1, <2>2 DEF LinesInv, Given
<1> QED
  BY <1>1, LinesInvariant, PTL
=============================================================================
