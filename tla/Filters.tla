------------------------------- MODULE Filters -------------------------------
(***************************************************************************)
(* The programs that read a stream: user/grep.c, user/wc.c, user/cat.c.    *)
(* A pipe or the console may return fewer bytes than a read() asks for, so *)
(* the input arrives in pieces of any size.                                *)
(*                                                                         *)
(* Text is a sequence of one-character strings, "n" being the newline and  *)
(* " " any other white space.                                              *)
(***************************************************************************)
EXTENDS Integers, Sequences, FiniteSets, SequencesExt

CONSTANTS
  GREPBUF,   \* sizeof(buf) of grep
  Inputs,    \* set of inputs
  Patterns   \* set of patterns

NEWLINE == "n"

-----------------------------------------------------------------------------
(* match(), matchhere() and matchstar(): re and text from places i and j.  *)

One(c, t) == c = "." \/ c = t

\* re[0] = '$' && re[1] = '\0'
Dollar(re, i) == re[i] = "$" /\ i = Len(re)

Matchhere(re, text, i0, j0) ==
  LET here[i \in 1..Len(re)+1, j \in 1..Len(text)+1] ==
        IF i > Len(re) THEN TRUE
        ELSE IF i < Len(re) /\ re[i + 1] = "*"
        THEN \E k \in j..Len(text)+1 :
               /\ \A l \in j..k-1 : One(re[i], text[l])
               /\ here[i + 2, k]
        ELSE IF Dollar(re, i) THEN j > Len(text)
        ELSE j <= Len(text) /\ One(re[i], text[j]) /\ here[i + 1, j + 1]
  IN here[i0, j0]

Match(re, text) ==
  IF re # <<>> /\ re[1] = "^" THEN Matchhere(re, text, 2, 1)
  ELSE \E j \in 1..Len(text)+1 : Matchhere(re, text, 1, j)

-----------------------------------------------------------------------------
(* The programs. *)

VARIABLES
  prog,     \* "grep", "wc" or "cat"; "end" after the last read(), or "failed"
  pattern,  \* of grep
  input,    \* what is still to be read
  buf,      \* grep's buf up to m
  out,      \* what has been written: lines of grep, bytes of cat
  count,    \* l, w, c and inword of wc
  all       \* history: the program and its whole input

flvars == <<prog, pattern, input, buf, out, count, all>>

FlInit ==
  /\ prog \in {"grep", "wc", "cat"} /\ input \in Inputs
  /\ pattern \in (IF prog = "grep" THEN Patterns ELSE {<<>>})
  /\ buf = <<>> /\ out = <<>> /\ count = [l |-> 0, w |-> 0, c |-> 0, inword |-> FALSE]
  /\ all = [prog |-> prog, input |-> input]

\* The lines of s, with their newlines.
Lines(s) ==
  LET ends == SetToSortSeq({k \in 1..Len(s) : s[k] = NEWLINE}, <) IN
  [k \in 1..Len(ends) |-> SubSeq(s, IF k = 1 THEN 1 ELSE ends[k - 1] + 1, ends[k])]

Unended(s) == SubSeq(s, 1 + Max({k \in 0..Len(s) : k = 0 \/ s[k] = NEWLINE}), Len(s))

Matching(re, lines) == SelectSeq(lines, LAMBDA l : Match(re, Front(l)))

\* What is left after the lines of the buffer stays at its start.
Rest_Drop(s) == <<>>
Rest(s) == Unended(s)

Grep ==
  /\ prog = "grep" /\ input # <<>> /\ Len(buf) + 1 < GREPBUF
  /\ \E n \in 1..Len(input) :
       /\ Len(buf) + n < GREPBUF
       /\ LET s == buf \o SubSeq(input, 1, n) IN
          out' = out \o Matching(pattern, Lines(s)) /\ buf' = Rest(s)
       /\ input' = SubSeq(input, n + 1, Len(input))
  /\ UNCHANGED <<prog, pattern, count, all>>

Blank(c) == c \in {" ", NEWLINE}

Counted(k, c) ==
  [l |-> IF c = NEWLINE THEN k.l + 1 ELSE k.l, c |-> k.c + 1, inword |-> ~Blank(c),
   w |-> IF ~Blank(c) /\ ~k.inword THEN k.w + 1 ELSE k.w]

Wc ==
  /\ prog = "wc" /\ input # <<>>
  /\ \E n \in 1..Len(input) :
       /\ count' = FoldLeft(Counted, count, SubSeq(input, 1, n))
       /\ input' = SubSeq(input, n + 1, Len(input))
  /\ UNCHANGED <<prog, pattern, buf, out, all>>

\* A write() that fails may have written a part.
Cat ==
  /\ prog = "cat" /\ input # <<>>
  /\ \E n \in 1..Len(input) : \E k \in 0..n :
       /\ out' = out \o SubSeq(input, 1, k)
       /\ input' = SubSeq(input, n + 1, Len(input))
       /\ prog' = IF k = n THEN prog ELSE "failed"
  /\ UNCHANGED <<pattern, buf, count, all>>

\* read() returns -1.  cat and wc say so; grep ends as after the last read().
ReadFails ==
  /\ prog \in {"grep", "wc", "cat"}
  /\ prog' = "failed"
  /\ UNCHANGED <<pattern, input, buf, out, count, all>>

\* read() returns 0: at the end of the input, or because grep's buffer is full
\* and it asked for no byte.
FilterEnd ==
  /\ prog \in {"grep", "wc", "cat"}
  /\ input = <<>> \/ (prog = "grep" /\ Len(buf) + 1 = GREPBUF)
  /\ prog' = "end"
  /\ UNCHANGED <<pattern, input, buf, out, count, all>>

FlNext == Grep \/ Wc \/ Cat \/ ReadFails \/ FilterEnd

-----------------------------------------------------------------------------
(* What they are meant to do. *)

\* The items of a pattern: a character, and whether a star follows.
Items(re) ==
  LET from[i \in 1..Len(re)+2] ==
        IF i > Len(re) THEN <<>>
        ELSE IF i < Len(re) /\ re[i + 1] = "*" THEN <<[c |-> re[i], star |-> TRUE]>> \o from[i + 2]
        ELSE <<[c |-> re[i], star |-> FALSE]>> \o from[i + 1]
  IN from[1]

\* text can be cut into one piece for every item, with anything around them
\* where the pattern has no ^ and no $.
Denotes(re, text) ==
  LET start == re # <<>> /\ re[1] = "^"
      its == Items(IF start THEN Tail(re) ELSE re)
      end == its # <<>> /\ ~Last(its).star /\ Last(its).c = "$"
      body == IF end THEN Front(its) ELSE its
      n == Len(body) IN
  \E cut \in [0..n -> 0..Len(text)] :
    /\ start => cut[0] = 0
    /\ end => cut[n] = Len(text)
    /\ \A k \in 1..n :
         /\ cut[k - 1] <= cut[k]
         /\ body[k].star \/ cut[k] = cut[k - 1] + 1
         /\ \A j \in cut[k-1]+1..cut[k] : One(body[k].c, text[j])

\* The lines before the first one that does not fit in grep's buffer.
Fitting(lines) ==
  LET long == {k \in DOMAIN lines : Len(lines[k]) >= GREPBUF} IN
  IF long = {} THEN lines ELSE SubSeq(lines, 1, Min(long) - 1)

\* grep prints the lines the pattern denotes, up to the first line that fills
\* its buffer and without an unfinished last line, however read() cuts the
\* input into pieces; a first part of them if a read() fails.
GrepExact ==
  all.prog = "grep" =>
    LET lines == SelectSeq(Fitting(Lines(all.input)), LAMBDA l : Denotes(pattern, Front(l))) IN
    /\ prog = "end" => out = lines
    /\ prog = "failed" => IsPrefix(out, lines)

\* wc counts a word once even if a read() ends inside it, and cat copies its
\* input, however it arrives, and a first part of it if a call fails.
PiecesDoNotMatter ==
  /\ all.prog = "cat" => IsPrefix(out, all.input)
  /\ prog = "end" =>
       /\ all.prog = "cat" => out = all.input
       /\ all.prog = "wc" =>
            /\ count.c = Len(all.input)
            /\ count.l = Len(Lines(all.input))
            /\ count.w = Cardinality({k \in 1..Len(all.input) : ~Blank(all.input[k])
                                      /\ (k = 1 \/ Blank(all.input[k - 1]))})

\* grep, wc and cat give what their input asks for, however it is cut up.
FiltersExact == GrepExact /\ PiecesDoNotMatter
=============================================================================
