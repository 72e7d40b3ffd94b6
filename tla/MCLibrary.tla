------------------------------ MODULE MCLibrary ------------------------------
(***************************************************************************)
(* The parts that run one after the other: the content of a file, mkfs,    *)
(* the shell, malloc, the filters, and the functions of Strings, UserCopy  *)
(* and the shell's parser.  They share no variable, so a behaviour runs    *)
(* one of them; a function is one step from its arguments to its answer.   *)
(***************************************************************************)
EXTENDS Mkfs, Strings, Shell, Umalloc, Filters, UserCopy

VARIABLES
  part,  \* the part that runs
  job,   \* the function to call and its arguments
  ans    \* its answer, <<>> before the call

libvars == <<part, job, ans>>

Upto(n, S) == UNION {[1..k -> S] : k \in 0..n}

-----------------------------------------------------------------------------
(* Instances. *)

MCFilesOf == <<{1}, {1, 2}>>
MCHostFiles == {<<4, 9>>, <<9, 1>>, <<0, 3>>, <<2, 0, 7>>, <<>>}

MCInputs == Upto(3, {"a", "b", " ", "n"})
  \cup {<<"a", "b", "n", "b", "n", "a">>, <<"a", "a", "a", "a", "n", "a", "n">>,
        <<"a", "n", "a", "b", "n", "n">>, <<"b", "a", "b", "n", "a", "n">>}
MCPatterns == Upto(2, {"a", ".", "*", "^", "$"})
  \cup {<<"a", "*", "$">>, <<"^", "a", "*", "b">>, <<"a", "*", "*">>, <<".", "*", "b">>,
        <<"a", "^", "$">>, <<"^", "a", "b", "$">>}

\* Commands with the tokens they are written with, by the shell's grammar.
Simple1 == {[toks |-> <<"x">>, cmd |-> Exec(<<<<"x">>>>)],
            [toks |-> <<"x", "y">>, cmd |-> Exec(<<<<"x">>, <<"y">>>>)],
            [toks |-> <<"x", "<", "y">>, cmd |-> Redir(Exec(<<<<"x">>>>), <<"y">>, "<")],
            [toks |-> <<">", "y", "x", "y">>, cmd |-> Redir(Exec(<<<<"x">>, <<"y">>>>), <<"y">>, ">")],
            [toks |-> <<"x", ">>", "y", "<", "x">>,
             cmd |-> Redir(Redir(Exec(<<<<"x">>>>), <<"y">>, "+"), <<"x">>, "<")],
            [toks |-> <<>>, cmd |-> Exec(<<>>)]}
InBlock(c) == [toks |-> <<"(">> \o c.toks \o <<")", ">", "y">>, cmd |-> Redir(c.cmd, <<"y">>, ">")]
Piped(c, d) == [toks |-> c.toks \o <<"|">> \o d.toks, cmd |-> Pipe(c.cmd, d.cmd)]
Listed(c, d) == [toks |-> c.toks \o <<";">> \o d.toks, cmd |-> List(c.cmd, d.cmd)]
Background(c) == [toks |-> c.toks \o <<"&">>, cmd |-> Back(c.cmd)]

Pipes1 == {Piped(c, d) : c, d \in Simple1}
Units2 == {InBlock(c) : c \in Simple1 \cup Pipes1 \cup {Listed(c, d) : c, d \in Simple1}}
Written == Simple1 \cup Pipes1 \cup Units2
  \cup {Listed(Background(c), d) : c \in Simple1, d \in Pipes1}
  \cup {Listed(c, Background(Background(d))) : c \in Pipes1, d \in Simple1}
  \cup {Piped(u, Piped(c, d)) : u \in {InBlock(c) : c \in Simple1}, c, d \in Simple1}

\* Lines that are refused: one argument too many, parentheses that do not
\* match, a redirection without a file, a word after & or after a block.
Refuse == {<<"x", "y", "x">>, <<"(", "x">>, <<"x", ")">>, <<"x", ">">>, <<"<", "|", "x">>,
           <<"x", "&", "y">>, <<"(", "x", ")", "y">>, <<"x", "(", "y", ")">>, <<"x", ">", "<", "y">>}
Sources == {[toks |-> c.toks, cmd |-> c.cmd, bad |-> FALSE] : c \in Written}
  \cup {[toks |-> c.toks \o <<"|">> \o t, cmd |-> Exec(<<>>), bad |-> TRUE] : c \in Simple1, t \in Refuse}

\* The tokens as a line, blanks only between words or everywhere.
Letter == {"x", "y"}
Line(toks, wide) ==
  LET Chars(t) == IF t = ">>" THEN <<">", ">">> ELSE <<t>>
      Blanks(k) == IF wide \/ (k > 1 /\ toks[k] \in Letter /\ toks[k - 1] \in Letter)
                   THEN <<" ">> ELSE <<>> IN
  FoldLeft(LAMBDA s, k : s \o Blanks(k) \o Chars(toks[k]), <<>>, [k \in 1..Len(toks) |-> k])

\* Commands that runcmd() runs, and one line that parsecmd() refuses.
MCCommands == {Parsecmd(l) : l \in
  {<<"x", "|", "x", "|", "x">>, <<"(", "x", "|", "x", ")", ">", "y", ";", "x">>,
   <<"x", "&", ";", "x">>, <<"x", "|", "(", "x", ";", "x", ")">>, <<"x", "|", "|", "(">>,
   <<"x", "<", "y", "|", "x", ">", ">", "y", "&">>}}

-----------------------------------------------------------------------------
(* The calls of functions. *)

Cells == 0..4
Buffers == [0..DIRSIZ-1 -> {NUL, 1}]

\* Page tables of three pages, and memories with a NUL at most in one place.
PageTables == {[p \in D |-> p] : D \in SUBSET (0..2)}
Memories == {[f \in 0..2 |-> [k \in 0..PGSIZE-1 |-> IF f * PGSIZE + k = z THEN 0 ELSE 10 + f * PGSIZE + k]] :
               z \in 0..3*PGSIZE}

Jobs ==
  [call : {"path"}, path : Upto(5, {1, 2, SLASH})]
  \cup [call : {"name"}, p : Upto(3, {1, 2}), q : Upto(3, {1, 2}), old : Buffers, buf : Buffers]
  \cup {j \in [call : {"move"}, d : Cells, s : Cells, n : Cells] : j.d + j.n <= 5 /\ j.s + j.n <= 5}
  \cup [call : {"copy"}, pt : PageTables, mem : Memories, va : 0..3*PGSIZE, n : 0..5]
  \cup [call : {"string"}, p : Upto(3, {1, 2}), q : Upto(3, {1, 2}), n : 0..3]
  \cup [call : {"print"}, xx : -(UINT32 \div 2)..(UINT32 \div 2)-1, b : {10, 16}, sign : BOOLEAN]
  \cup [call : {"parse"}, src : Sources, wide : BOOLEAN]

Ask(call) == part = "call" /\ ans = <<>> /\ job.call = call

CallPath == Ask("path") /\ ans' = <<Elements(job.path)>>

CallName ==
  /\ Ask("name")
  /\ LET entry == Strncpy(job.old, job.p, DIRSIZ)
         name == CopyName(job.q, 0, Len(job.q), job.buf) IN
     ans' = <<Matches(name, entry)>>

CallMove ==
  /\ Ask("move")
  /\ LET m == [k \in Cells |-> k] IN
     ans' = <<Memmove(m, job.d, job.s, job.n), UserMemmove(m, job.d, job.s, job.n)>>

CallCopy ==
  /\ Ask("copy")
  /\ ans' = <<Copyin(job.pt, job.mem, job.va, job.n), Copyout(job.pt, job.va, job.n),
              Fetchstr(job.pt, job.mem, job.va, job.n),
              [a \in 0..ADDRMOD-1 |-> Fetchaddr(job.pt, job.mem, job.va, a)]>>

CallString ==
  /\ Ask("string")
  /\ ans' = <<Strncmp(job.p, job.q, job.n), Strcmp(job.p, job.q), Memcmp(job.p, job.q, job.n),
              Safestrcpy([k \in Cells |-> 9], job.p, job.n)>>

CallPrint == Ask("print") /\ ans' = <<Printint(job.xx, job.b, job.sign)>>

CallParse == Ask("parse") /\ ans' = <<Parsecmd(Line(job.src.toks, job.wide))>>

Call == /\ (CallPath \/ CallName \/ CallMove \/ CallCopy \/ CallString \/ CallPrint \/ CallParse)
        /\ UNCHANGED <<part, job>>

-----------------------------------------------------------------------------
(* The specification. *)

LibInit ==
  /\ part \in {"file", "mkfs", "shell", "malloc", "filter", "call"}
  /\ FInit /\ ShInit /\ MInit
  /\ MkInit /\ (part # "mkfs" => host = <<>>)
  /\ FlInit /\ (part # "filter" => prog = "cat" /\ input = <<>>)
  /\ job \in (IF part = "call" THEN Jobs ELSE {[call |-> "path", path |-> <<>>]})
  /\ ans = <<>>

LibNext ==
  \/ part = "file" /\ FNext /\ UNCHANGED <<mkvars, shvars, mvars, flvars, libvars>>
  \/ part = "mkfs" /\ MkNext /\ UNCHANGED <<fdvars, shvars, mvars, flvars, libvars>>
  \/ part = "shell" /\ ShNext /\ UNCHANGED <<fdvars, mkvars, mvars, flvars, libvars>>
  \/ part = "malloc" /\ MNext /\ UNCHANGED <<fdvars, mkvars, shvars, flvars, libvars>>
  \/ part = "filter" /\ FlNext /\ UNCHANGED <<fdvars, mkvars, shvars, mvars, libvars>>
  \/ Call /\ UNCHANGED <<fdvars, mkvars, shvars, mvars, flvars>>

LibSpec == LibInit /\ [][LibNext]_<<fdvars, mkvars, shvars, mvars, flvars, libvars>>

-----------------------------------------------------------------------------
(* Properties of the functions. *)

Answered(call) == ans # <<>> /\ job.call = call

\* namex() looks up the components of a path, each cut off at DIRSIZ, however
\* many slashes separate them and though skipelem() reuses one name buffer and
\* ends a name of DIRSIZ characters with no NUL.
PathsSplit == Answered("path") => ans[1] = Components(job.path)

\* A name finds the entry that dirlink() stored under another if and only if
\* they agree in their first DIRSIZ characters, whatever the entry and the name
\* buffer held before.
NamesMatchByPrefix ==
  Answered("name") => ans[1] = (Take(job.p, DIRSIZ) = Take(job.q, DIRSIZ))

\* Both memmove() copy as if through a second buffer, overlap or not.
MemmoveCopies ==
  Answered("move") =>
    \A k \in 1..2 : ans[k] = [c \in Cells |-> IF c >= job.d /\ c < job.d + job.n
                                              THEN c - job.d + job.s ELSE c]

\* strcmp() orders strings as a dictionary does, strncmp() and memcmp() by their
\* first n characters, also where one is the beginning of the other;
\* safestrcpy() leaves a string that ends within n, and nothing beyond.
StringsAgree ==
  Answered("string") =>
    LET Order(p, q) == IF Before(p, q) THEN -1 ELSE IF Before(q, p) THEN 1 ELSE 0
        Sign(x) == IF x < 0 THEN -1 ELSE IF x > 0 THEN 1 ELSE 0
        cut == Take(job.p, job.n - 1) IN
    /\ Sign(ans[2]) = Order(job.p, job.q)
    /\ Sign(ans[1]) = Order(Take(job.p, job.n), Take(job.q, job.n))
    /\ Sign(ans[3]) = Sign(ans[1])
    /\ ans[4] = [k \in Cells |-> IF job.n = 0 \/ k > Len(cut) THEN 9
                                 ELSE IF k = Len(cut) THEN NUL ELSE Char(cut, k)]

\* copyin() and copyout() touch exactly the bytes of the range, once and in
\* order, wherever it crosses pages; they fail if and only if a page of it is
\* not the user's, after the bytes before that page.
CopiesExact ==
  Answered("copy") =>
    LET reach == Reach(job.pt, job.va, job.n)
        in == ans[1]
        to == ans[2] IN
    /\ (in.ret = 0) = (reach = job.n) /\ to.ret = in.ret
    /\ in.bytes = [k \in 1..reach |-> ByteAt(job.pt, job.mem, job.va + k - 1)]
    /\ to.places = [k \in 1..reach |-> <<Frame(job.pt, job.va + k - 1), Offset(job.va + k - 1)>>]

\* A string argument is accepted if and only if its NUL is among the first max
\* bytes and everything up to it is mapped, and then has the length up to it; a
\* word argument if and only if all of it is below the size and mapped, also
\* where its address plus its length wraps around.
ArgumentsFetched ==
  Answered("copy") =>
    LET reach == Reach(job.pt, job.va, job.n)
        nuls == {k \in 0..reach-1 : ByteAt(job.pt, job.mem, job.va + k) = 0} IN
    /\ ans[3] = IF nuls = {} THEN -1 ELSE Min(nuls)
    /\ \A a \in 0..ADDRMOD-1 :
         (ans[4][a] = 0) = (a + WORD <= job.va /\ Reach(job.pt, a, WORD) = WORD)

\* printint() writes the digits of the number, without leading zeroes, and a
\* sign exactly for a negative one, and atoi() reads them back: also for the
\* least int, whose negation overflows, and for a negative number printed as
\* unsigned.
PrintedBack ==
  Answered("print") =>
    LET d == ans[1].digits
        value == FoldLeft(LAMBDA v, x : v * job.b + x, 0, d)
        signed == IF ans[1].neg THEN -value ELSE value IN
    /\ (Len(d) > 1 => d[1] # 0) /\ \A k \in 1..Len(d) : d[k] < job.b
    /\ job.b = 10 => Atoi([k \in 1..Len(d) |-> d[k] + 48]) = value
    /\ signed = IF job.sign \/ job.xx >= 0 THEN job.xx ELSE job.xx + UINT32

\* parsecmd() is the inverse of writing a command down: it finds the command's
\* pipes, lists, blocks, redirections and words again, with blanks or without
\* them, and refuses the lines that are no command.
ParseInverts ==
  Answered("parse") =>
    /\ ans[1].err = job.src.bad
    /\ ans[1].cmd = job.src.cmd

\* Every function answers as its reference definition says.
AnswersExact ==
  /\ PathsSplit /\ NamesMatchByPrefix /\ MemmoveCopies /\ StringsAgree
  /\ CopiesExact /\ ArgumentsFetched /\ PrintedBack
=============================================================================
