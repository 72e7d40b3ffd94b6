-------------------------------- MODULE Shell --------------------------------
(***************************************************************************)
(* The shell, user/sh.c: its parser, and the processes and descriptors     *)
(* that runcmd() makes of a command.                                       *)
(*                                                                         *)
(* A line is a sequence of one-character strings.  A place in it counts    *)
(* from 0, as ps does; a word is a pair [q, eq] of places, as in the code, *)
(* and becomes text once nulterminate() has written its NULs.  A parser    *)
(* function returns its command, the place it stopped at, and whether it   *)
(* called panic().                                                         *)
(***************************************************************************)
EXTENDS Integers, Sequences, FiniteSets, SequencesExt

CONSTANTS
  MAXARGS,
  NFDS,       \* descriptors of a process
  Commands,   \* what Parsecmd() makes of the lines that can be typed
  MAXLINES    \* bound: lines of a session

Symbols == {"<", "|", ">", "&", ";", "(", ")"}

-----------------------------------------------------------------------------
(* The parser. *)

\* The first place from i on with a character that is not white space.
Skip(s, i) == Min({k \in i..Len(s) : k = Len(s) \/ s[k + 1] # " "})

WordEnd(s, q) ==
  Min({k \in q+1..Len(s) : k = Len(s) \/ s[k + 1] = " " \/ s[k + 1] \in Symbols})

\* gettoken() where there is a token at q: ret is "" at the end of the line, "a"
\* for a word and "+" for >>.
TokenAt(s, q) ==
  IF q = Len(s) THEN [ret |-> "", q |-> q, eq |-> q]
  ELSE IF ~(s[q + 1] \in Symbols) THEN [ret |-> "a", q |-> q, eq |-> WordEnd(s, q)]
  ELSE IF s[q + 1] = ">" /\ q + 1 < Len(s) /\ s[q + 2] = ">" THEN [ret |-> "+", q |-> q, eq |-> q + 2]
  ELSE [ret |-> s[q + 1], q |-> q, eq |-> q + 1]

\* The tokens that gettoken() returns one after the other, the end included.
\* What it returns depends on the place only, so the parser below walks over
\* the tokens; peek() tests the first character of the next one.
Gettokens(s) ==
  LET from[i \in 0..Len(s)] ==
        LET t == TokenAt(s, Skip(s, i)) IN IF t.ret = "" THEN <<t>> ELSE <<t>> \o from[t.eq]
  IN from[0]

Peek(toks, i, set) == toks[i].ret \in set

Exec(args) == [type |-> "exec", argv |-> args]
Redir(cmd, file, tok) == [type |-> "redir", cmd |-> cmd, file |-> file, tok |-> tok]
Pipe(l, r) == [type |-> "pipe", left |-> l, right |-> r]
List(l, r) == [type |-> "list", left |-> l, right |-> r]
Back(cmd) == [type |-> "back", cmd |-> cmd]

Failed == [cmd |-> Exec(<<>>), pos |-> 0, err |-> TRUE]
Got(cmd, pos) == [cmd |-> cmd, pos |-> pos, err |-> FALSE]

WordOf(tok) == [q |-> tok.q, eq |-> tok.eq]
Redirection == {"<", ">", "+"}

\* parseredirs() puts one redircmd around the other.
Wrap(cmd, redirs) == FoldLeft(LAMBDA c, r : Redir(c, r.file, r.tok), cmd, redirs)

\* The loops of parseredirs() and, if words are allowed, of parseexec(): the
\* arguments and redirections from token i on, and where they end.
Collect(toks, start, words) ==
  LET Stop(i, err) == [args |-> <<>>, list |-> <<>>, pos |-> i, err |-> err]
      loop[i \in DOMAIN toks, argc \in 0..Len(toks)] ==
        IF Peek(toks, i, Redirection)
        THEN IF ~Peek(toks, i + 1, {"a"}) THEN Stop(i, TRUE)
             ELSE [loop[i + 2, argc] EXCEPT
                     !.list = <<[tok |-> toks[i].ret, file |-> WordOf(toks[i + 1])]>> \o @]
        ELSE IF ~words \/ Peek(toks, i, {"|", ")", "&", ";", ""}) THEN Stop(i, FALSE)
        ELSE IF ~Peek(toks, i, {"a"}) \/ argc + 1 >= MAXARGS THEN Stop(i, TRUE)
        ELSE [loop[i + 1, argc + 1] EXCEPT !.args = <<WordOf(toks[i])>> \o @]
  IN loop[start, 0]

\* A command with what is collected after it.
WithArgs(c) == IF c.err THEN Failed ELSE Got(Wrap(Exec(c.args), c.list), c.pos)
WithRedirs(cmd, c) == IF c.err THEN Failed ELSE Got(Wrap(cmd, c.list), c.pos)

\* The end of parseblock(), after the line inside.
BlockEnd(line, toks) ==
  IF line.err \/ ~Peek(toks, line.pos, {")"}) THEN Failed
  ELSE WithRedirs(line.cmd, Collect(toks, line.pos + 1, FALSE))

\* The & after a pipeline: one backcmd for each.
Backs(pipe, toks) ==
  LET n == Min({k \in 0..Len(toks) - pipe.pos : ~Peek(toks, pipe.pos + k, {"&"})}) IN
  IF pipe.err THEN Failed
  ELSE Got(FoldLeft(LAMBDA c, k : Back(c), pipe.cmd, [k \in 1..n |-> k]), pipe.pos + n)

\* pipecmd() or listcmd() of two parsed commands.
Joined(type, left, right) ==
  IF right.err THEN Failed
  ELSE Got(IF type = "pipe" THEN Pipe(left.cmd, right.cmd) ELSE List(left.cmd, right.cmd), right.pos)

\* parseline(), parsepipe() and parseexec() with parseblock(), at token i.
Parser(toks) ==
  LET parse[nt \in {"line", "pipe", "exec"}, i \in DOMAIN toks] ==
        LET first == IF nt = "line" THEN Backs(parse["pipe", i], toks)
                     ELSE IF nt = "pipe" THEN parse["exec", i]
                     ELSE IF Peek(toks, i, {"("}) THEN BlockEnd(parse["line", i + 1], toks)
                     ELSE WithArgs(Collect(toks, i, TRUE)) IN
        IF first.err \/ nt = "exec" THEN first
        ELSE IF nt = "pipe" /\ Peek(toks, first.pos, {"|"})
        THEN Joined("pipe", first, parse["pipe", first.pos + 1])
        ELSE IF nt = "line" /\ Peek(toks, first.pos, {";"})
        THEN Joined("list", first, parse["line", first.pos + 1])
        ELSE first
  IN parse["line", 1]

\* nulterminate(): the places that get a NUL.
RECURSIVE Nulterminate(_)
Nulterminate_Args(cmd) ==
  CASE cmd.type = "exec" -> {cmd.argv[k].eq : k \in DOMAIN cmd.argv}
    [] cmd.type = "redir" -> Nulterminate(cmd.cmd)
    [] cmd.type = "back" -> Nulterminate(cmd.cmd)
    [] cmd.type \in {"pipe", "list"} -> Nulterminate(cmd.left) \cup Nulterminate(cmd.right)

Nulterminate(cmd) ==
  CASE cmd.type = "exec" -> {cmd.argv[k].eq : k \in DOMAIN cmd.argv}
    [] cmd.type = "redir" -> Nulterminate(cmd.cmd) \cup {cmd.file.eq}
    [] cmd.type = "back" -> Nulterminate(cmd.cmd)
    [] cmd.type \in {"pipe", "list"} -> Nulterminate(cmd.left) \cup Nulterminate(cmd.right)

\* The command as runcmd() will read it: a word is the string at its place.
RECURSIVE Texts(_, _, _)
Texts(cmd, s, nuls) ==
  LET Text(w) == SubSeq(s, w.q + 1, Min({k \in w.q..Len(s) : k = Len(s) \/ k \in nuls})) IN
  CASE cmd.type = "exec" -> Exec([k \in DOMAIN cmd.argv |-> Text(cmd.argv[k])])
    [] cmd.type = "redir" -> Redir(Texts(cmd.cmd, s, nuls), Text(cmd.file), cmd.tok)
    [] cmd.type = "back" -> Back(Texts(cmd.cmd, s, nuls))
    [] cmd.type \in {"pipe", "list"} ->
         [cmd EXCEPT !.left = Texts(@, s, nuls), !.right = Texts(@, s, nuls)]

\* parsecmd(): all of the line must have been parsed.
Parsed(s, line, toks) ==
  IF line.err \/ line.pos # Len(toks) THEN Failed
  ELSE Got(Texts(line.cmd, s, Nulterminate(line.cmd)), line.pos)

Parsecmd(s) == Parsed(s, Parser(Gettokens(s)), Gettokens(s))

-----------------------------------------------------------------------------
(***************************************************************************)
(* main() and runcmd().  sh[p] is process p; 1 is the shell itself, and a  *)
(* process whose parent is 0 belongs to init, which reaps it.  A pipe is   *)
(* known by the process that made it, since runcmd() makes at most one.    *)
(* exec() puts a program in the place of the shell: one that reads its     *)
(* standard input to the end and writes more than a pipe holds, which      *)
(* needs most of the descriptors it was given.                             *)
(***************************************************************************)
VARIABLES
  sh,          \* sequence of processes
  typed,       \* number of lines read
  forkFailed   \* bound: one fork1() fails

shvars == <<sh, typed, forkFailed>>

Closed == <<"closed">>
Console == <<"console">>
ReadSide(k) == <<"read", k>>
WriteSide(k) == <<"write", k>>

Close(fds, d) == [fds EXCEPT ![d] = Closed]

\* open(), dup() and pipe() take the lowest descriptor that is free.
Lowest(fds) == Min({d \in DOMAIN fds : fds[d] = Closed})
Open(fds, object) == [fds EXCEPT ![Lowest(fds)] = object]

At(p, pc) == sh[p].pc = pc
AtCmd(p, type) == At(p, "run") /\ sh[p].cmd.type = type
Alive(p) == ~(sh[p].pc \in {"zombie", "gone"})
Holds(p, object) == \E d \in DOMAIN sh[p].fds : sh[p].fds[d] = object

\* exit(): close the descriptors, give the children to init.
Exit(p) ==
  [k \in DOMAIN sh |->
     IF k = p THEN [sh[p] EXCEPT !.pc = IF sh[p].parent # 0 THEN "zombie" ELSE "gone",
                                 !.fds = [d \in DOMAIN @ |-> Closed]]
     ELSE IF sh[k].parent # p THEN sh[k]
     ELSE [sh[k] EXCEPT !.parent = 0, !.pc = IF @ = "zombie" THEN "gone" ELSE @]]

\* fork1(): p goes on as `me', its child differs by `place' and `cmd'; or p
\* panics and leaves its children (cut, history).
Fork1(p, me, place, cmd) ==
  \/ /\ sh' = Append([sh EXCEPT ![p] = me],
                     [me EXCEPT !.pc = place, !.cmd = cmd, !.parent = p,
                                !.bg = @ \/ me.pc = "exit"])
     /\ UNCHANGED forkFailed
  \/ /\ ~forkFailed /\ forkFailed' = TRUE
     /\ sh' = [k \in DOMAIN sh |-> [Exit(p)[k] EXCEPT !.cut = @ \/ sh[k].parent = p]]

Go(p, pc) == [sh[p] EXCEPT !.pc = pc]

ShInit ==
  /\ sh = <<[pc |-> "main", cmd |-> Exec(<<>>), parent |-> 0, bg |-> FALSE, cut |-> FALSE,
             ends |-> [r |-> 0, w |-> 0],
             fds |-> [d \in 0..NFDS-1 |-> IF d < 3 THEN Console ELSE Closed]]>>
  /\ typed = 0 /\ forkFailed = FALSE

\* main(): getcmd(), and a process that parses and runs the line.
Main ==
  /\ At(1, "main")
  /\ \/ typed = MAXLINES /\ sh' = Exit(1) /\ UNCHANGED <<typed, forkFailed>>
     \/ /\ typed < MAXLINES /\ typed' = typed + 1
        /\ \E c \in Commands : Fork1(1, Go(1, "wait"), "parse", c)

Parse(p) ==
  /\ At(p, "parse")
  /\ sh' = IF sh[p].cmd.err THEN Exit(p)
           ELSE [sh EXCEPT ![p].pc = "run", ![p].cmd = sh[p].cmd.cmd]
  /\ UNCHANGED <<typed, forkFailed>>

RunExec(p) ==
  /\ AtCmd(p, "exec")
  /\ \/ sh' = Exit(p)                  \* nothing to run, or exec() failed
     \/ sh[p].cmd.argv # <<>> /\ sh' = [sh EXCEPT ![p].pc = "program"]
  /\ UNCHANGED <<typed, forkFailed>>

\* The file takes the place of descriptor 0 for <, of 1 for > and >>.
RunRedir(p) ==
  LET c == sh[p].cmd
      fd == IF c.tok = "<" THEN 0 ELSE 1 IN
  /\ AtCmd(p, "redir")
  /\ \/ sh' = Exit(p)                  \* open() failed
     \/ sh' = [sh EXCEPT ![p].cmd = c.cmd,
                         ![p].fds = Open(Close(@, fd), <<"file", c.file, c.tok>>)]
  /\ UNCHANGED <<typed, forkFailed>>

RunList(p) ==
  /\ AtCmd(p, "list")
  /\ Fork1(p, Go(p, "listwait"), "run", sh[p].cmd.left)
  /\ UNCHANGED typed

RunBack(p) ==
  /\ AtCmd(p, "back")
  /\ Fork1(p, Go(p, "exit"), "run", sh[p].cmd.cmd)
  /\ UNCHANGED typed

RunPipe(p) ==
  LET r == Lowest(sh[p].fds)
      fds == Open(sh[p].fds, ReadSide(p))
      w == Lowest(fds) IN
  /\ AtCmd(p, "pipe")
  /\ Fork1(p, [Go(p, "second") EXCEPT !.fds = Open(fds, WriteSide(p)), !.ends = [r |-> r, w |-> w]],
           "left", sh[p].cmd.left)
  /\ UNCHANGED typed

SecondChild(p) ==
  /\ At(p, "second")
  /\ Fork1(p, Go(p, "close"), "right", sh[p].cmd.right)
  /\ UNCHANGED typed

\* close(p[0]); close(p[1])
BothClosed(fds, ends) == Close(Close(fds, ends.r), ends.w)

CloseBoth_Not(p) ==
  At(p, "close") /\ sh' = [sh EXCEPT ![p].pc = "wait2"] /\ UNCHANGED <<typed, forkFailed>>

CloseBoth(p) ==
  /\ At(p, "close")
  /\ sh' = [sh EXCEPT ![p].pc = "wait2", ![p].fds = BothClosed(@, sh[p].ends)]
  /\ UNCHANGED <<typed, forkFailed>>

\* A child of a pipe puts its end in the place of descriptor 1 or 0.
PipeChild(p) ==
  LET fd == IF At(p, "left") THEN 1 ELSE 0
      end == IF At(p, "left") THEN sh[p].ends.w ELSE sh[p].ends.r IN
  /\ sh[p].pc \in {"left", "right"}
  /\ sh' = [sh EXCEPT ![p].pc = "run",
                      ![p].fds = BothClosed(Open(Close(@, fd), @[end]), sh[p].ends)]
  /\ UNCHANGED <<typed, forkFailed>>

\* wait(0): any child that has exited; -1 at once if there is none.
Children(p) == {k \in DOMAIN sh : sh[k].parent = p /\ sh[k].pc # "gone"}
CanReap(p) == Children(p) = {} \/ \E k \in Children(p) : At(k, "zombie")

AfterWait_Once == [wait |-> "main", listwait |-> "run", wait2 |-> "exit", wait1 |-> "exit"]
AfterWait == [wait |-> "main", listwait |-> "run", wait2 |-> "wait1", wait1 |-> "exit"]

Wait(p) ==
  LET me == [Go(p, AfterWait[sh[p].pc]) EXCEPT
               !.cmd = IF At(p, "listwait") THEN @.right ELSE @] IN
  /\ sh[p].pc \in DOMAIN AfterWait
  /\ \/ Children(p) = {} /\ sh' = [sh EXCEPT ![p] = me]
     \/ \E k \in Children(p) : At(k, "zombie") /\ sh' = [sh EXCEPT ![p] = me, ![k].pc = "gone"]
  /\ UNCHANGED <<typed, forkFailed>>

RunEnds(p) == At(p, "exit") /\ sh' = Exit(p) /\ UNCHANGED <<typed, forkFailed>>

\* A read ends when nobody can write any more.  A write ends when somebody
\* reads, or nobody can.
CanFinish(p) ==
  /\ \A k \in DOMAIN sh :
       sh[p].fds[0] = ReadSide(k) => ~\E q \in DOMAIN sh : Holds(q, WriteSide(k))
  /\ \A k \in DOMAIN sh :
       sh[p].fds[1] = WriteSide(k) =>
         \/ ~\E q \in DOMAIN sh : Holds(q, ReadSide(k))
         \/ \E q \in DOMAIN sh : At(q, "program") /\ sh[q].fds[0] = ReadSide(k)

ProgramEnds(p) ==
  At(p, "program") /\ CanFinish(p) /\ sh' = Exit(p) /\ UNCHANGED <<typed, forkFailed>>

ShNext ==
  \/ Main
  \/ \E p \in DOMAIN sh :
       \/ Parse(p) \/ RunExec(p) \/ RunRedir(p) \/ RunList(p) \/ RunBack(p) \/ RunPipe(p)
       \/ SecondChild(p) \/ CloseBoth(p) \/ PipeChild(p) \/ Wait(p) \/ RunEnds(p)
       \/ ProgramEnds(p)

-----------------------------------------------------------------------------
(* Properties. *)

\* Nothing hangs: as long as a process of the session lives, one can go on.  A
\* program at the end of a pipe gets its end of file, and a writer is told that
\* its reader is gone, whatever fails before it, because runcmd() leaves no end
\* of the pipe open in a process that does not use it.
NoHang ==
  LET waits == {p \in DOMAIN sh : sh[p].pc \in DOMAIN AfterWait}
      programs == {p \in DOMAIN sh : At(p, "program")}
      live == {p \in DOMAIN sh : Alive(p)} IN
  live # {} => \/ live \ (waits \cup programs) # {}
               \/ \E p \in waits : CanReap(p)
               \/ \E p \in programs : CanFinish(p)

\* A process that a failed fork1() left behind, or one started by such.
Left(p) ==
  LET left[q \in 0..p] == q # 0 /\ (sh[q].cut \/ left[sh[q].parent]) IN left[p]

\* When the shell prompts again the line is done: what is still there of it was
\* put in the background with &, or is the first half of a pipeline whose second
\* fork1() failed; and no zombie is left behind.
ForegroundDone ==
  At(1, "main") => \A p \in DOMAIN sh \ {1} : At(p, "gone") \/ sh[p].bg \/ Left(p)

\* A program starts with descriptors 0, 1 and 2 open and no other: runcmd()
\* puts a file or the end of a pipe exactly in the place it closed, and leaks
\* nothing into the program.
StdioOnly ==
  \A p \in DOMAIN sh : At(p, "program") =>
    \A d \in DOMAIN sh[p].fds : (sh[p].fds[d] # Closed) <=> d < 3

\* A pipeline's programs have the descriptors they should, and so none waits
\* for an end of file that cannot come.
PipelinesEnd == NoHang /\ StdioOnly
=============================================================================
