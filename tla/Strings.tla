------------------------------ MODULE Strings -------------------------------
(***************************************************************************)
(* The string functions of kernel/string.c and user/ulib.c, skipelem() of  *)
(* kernel/fs.c, and what a directory entry's name is made of with them.    *)
(*                                                                         *)
(* A C string is a sequence of characters without its NUL; reading past    *)
(* its end gives 0.  A buffer is a function from its indices, so that what *)
(* a function leaves unwritten stays in it.  Characters are numbers.       *)
(***************************************************************************)
EXTENDS Integers, Sequences, FiniteSets, SequencesExt

CONSTANT DIRSIZ

NUL == 0
SLASH == 47

\* s[i], counting from 0.
Char(s, i) == IF i < Len(s) THEN s[i + 1] ELSE NUL

-----------------------------------------------------------------------------
(* memmove() of the kernel and of the user library: n bytes in memory m.   *)

CopyUp(m, d, s, n) ==
  LET done[k \in 0..n] == IF k = 0 THEN m
                          ELSE [done[k - 1] EXCEPT ![d + k - 1] = done[k - 1][s + k - 1]]
  IN done[n]

CopyDown(m, d, s, n) ==
  LET done[k \in 0..n] == IF k = 0 THEN m
                          ELSE [done[k - 1] EXCEPT ![d + n - k] = done[k - 1][s + n - k]]
  IN done[n]

Memmove(m, d, s, n) == IF s < d /\ s + n > d THEN CopyDown(m, d, s, n) ELSE CopyUp(m, d, s, n)

UserMemmove(m, d, s, n) == IF s > d THEN CopyUp(m, d, s, n) ELSE CopyDown(m, d, s, n)

\* memcmp(): the first difference of n characters, NULs included.
Memcmp(p, q, n) ==
  LET differ == {k \in 0..n-1 : Char(p, k) # Char(q, k)} IN
  IF differ = {} THEN 0 ELSE Char(p, Min(differ)) - Char(q, Min(differ))

-----------------------------------------------------------------------------
(* Strings. *)

\* strncmp(): the place where the loop stops.
Strncmp(p, q, n) ==
  LET stop == Min({k \in 0..n : k = n \/ Char(p, k) = NUL \/ Char(p, k) # Char(q, k)}) IN
  IF stop = n THEN 0 ELSE Char(p, stop) - Char(q, stop)

Strcmp(p, q) == Strncmp(p, q, Len(p) + 1)

\* strlen() of the string at the start of a buffer of n characters.
Strlen(b, n) == Min({k \in 0..n : k = n \/ b[k] = NUL})

\* The string at the start of a buffer of n characters.
Text(b, n) == [k \in 1..Strlen(b, n) |-> b[k - 1]]

\* strncpy() into a buffer of n: the string, and NULs up to the end.
Strncpy(b, t, n) == [k \in 0..n-1 |-> Char(t, k)]

\* safestrcpy(): what fits in n - 1 places, and a NUL after it.
Safestrcpy(b, t, n) ==
  LET len == IF Len(t) < n - 1 THEN Len(t) ELSE n - 1 IN
  IF n <= 0 THEN b
  ELSE [k \in DOMAIN b |-> IF k < len THEN Char(t, k) ELSE IF k = len THEN NUL ELSE b[k]]

\* atoi() of a sequence of characters, '0' being 48.
Atoi(s) ==
  LET digits == Min({k \in 0..Len(s) : ~(Char(s, k) \in 48..57)})
      value[k \in 0..digits] == IF k = 0 THEN 0 ELSE value[k - 1] * 10 + Char(s, k - 1) - 48
  IN value[digits]

-----------------------------------------------------------------------------
(* Path elements and directory entries. *)

\* The name buffer gets the element of len characters at `from': cut off at
\* DIRSIZ, and with a NUL only if there is room for it.
CopyName(path, from, len, name) ==
  [k \in 0..DIRSIZ-1 |-> IF k < len THEN Char(path, from + k)
                         ELSE IF k = len THEN NUL ELSE name[k]]

\* skipelem() from place i of the path: where the next element starts, and the
\* name buffer; -1 if there is no element.
Skipelem(path, i, name) ==
  LET from == Min({k \in i..Len(path) : Char(path, k) # SLASH})
      to == Min({k \in from..Len(path) : Char(path, k) \in {SLASH, NUL}}) IN
  IF from = Len(path) THEN [next |-> -1, name |-> name]
  ELSE [next |-> Min({k \in to..Len(path) : Char(path, k) # SLASH}),
        name |-> CopyName(path, from, to - from, name)]

\* namex()'s loop: the names it looks up, one after the other, in one buffer.
Elements(path) ==
  LET walk[i \in 0..Len(path), name \in [0..DIRSIZ-1 -> Nat]] ==
        LET e == Skipelem(path, i, name) IN
        IF e.next = -1 THEN <<>> ELSE <<Text(e.name, DIRSIZ)>> \o walk[e.next, e.name]
  IN walk[0, [k \in 0..DIRSIZ-1 |-> NUL]]

\* dirlink() stores the name with strncpy(); dirlookup() compares it with
\* namecmp(), on whatever the entry's place and the name buffer held before.
Matches(name, stored) == Strncmp(Text(name, DIRSIZ), Text(stored, DIRSIZ), DIRSIZ) = 0

-----------------------------------------------------------------------------
(* What they are meant to do. *)

Take(s, n) == SubSeq(s, 1, IF Len(s) < n THEN Len(s) ELSE n)

\* The maximal runs of characters between slashes, cut off at DIRSIZ.
Components(path) ==
  LET starts == {i \in 1..Len(path) : path[i] # SLASH /\ (i = 1 \/ path[i - 1] = SLASH)}
      ends == {i \in 1..Len(path) : path[i] # SLASH /\ (i = Len(path) \/ path[i + 1] = SLASH)}
      s == SetToSortSeq(starts, <)
      e == SetToSortSeq(ends, <) IN
  [k \in 1..Len(s) |-> Take(SubSeq(path, s[k], e[k]), DIRSIZ)]

\* Lexicographic order of character sequences.
Before(p, q) == \E k \in 0..Len(q)-1 :
  /\ k <= Len(p) /\ \A j \in 0..k-1 : Char(p, j) = Char(q, j)
  /\ Char(p, k) < Char(q, k)
=============================================================================
