---------------------------- MODULE MCFileSystem ----------------------------
(***************************************************************************)
(* Two processes, two names and MAXCALLS calls from four start states,     *)
(* each one the initial state after a few calls of one process: mkdir("a") *)
(* and fork(), the child in the directory; the same with a file b in the   *)
(* directory; the same with a directory b in it and the child there; a     *)
(* file with the two names a and b, which parent and child share open.     *)
(***************************************************************************)
EXTENDS FileSystem

CONSTANT MAXCALLS
VARIABLE left

Abs(e) == [abs |-> TRUE, elems |-> e]
Rel(e) == [abs |-> FALSE, elems |-> e]

On(op, what, paths) == [op : {op}, what : {what}, path : paths, new : {NoPath}]

MCCalls ==
  LET a == Abs(<<"a">>)
      ab == Abs(<<"a", "b">>)
      b == Rel(<<"b">>)
      up == Rel(<<"..", "b">>) IN
  UNION {On("open", "rdonly", {a, ab, up}), On("open", "trunc", {a, ab}),
         On("create", "rdonly", {ab, up}), On("create", "trunc", {b}),
         On("create", "dir", {a}), On("create", "dev", {b}), On("create", "nodev", {b}),
         On("chdir", "none", {a, Rel(<<"..">>)}), On("exec", "none", {ab}),
         On("unlink", "none", {a, ab, b, Abs(<<>>)}),
         [op : {"link"}, what : {"none"}, path : {a, ab, b}, new : {ab, b, Abs(<<>>)}]}

Dir(self, up, a, b) == [n \in DOMAIN NoEnts |->
  CASE n = "." -> self [] n = ".." -> up [] n = "a" -> a [] n = "b" -> b]
Ino(t, n) == [type |-> t, nlink |-> n]
Slot(i, ref, ino) == [FreeSlot EXCEPT !.inum = i, !.ref = ref, !.valid = TRUE,
                                      !.type = ino.type, !.nlink = ino.nlink]

Upto(f, n, rest) == [i \in 1..n |-> IF i \in DOMAIN f THEN f[i] ELSE rest]

Start(inodes, dirs, slots, cwd2, file) ==
  /\ di = Upto(inodes, NINODES - 1, FreeInode)
  /\ ents = Upto(dirs, NINODES - 1, NoEnts)
  /\ itable = Upto(slots, NINODE, FreeSlot)
  /\ ftable = Upto(file, NFILE, FreeFile)
  /\ proc = [p \in Procs |-> [Fresh("user", IF p = InitProc THEN 1 ELSE cwd2)
                                EXCEPT !.ofile[0] = Len(file)]]
  /\ blocks = {} /\ panic = "none" /\ lost = [i \in Inums |-> 0] /\ orphans = {}

MCInit ==
  /\ left = MAXCALLS
  /\ \/ Start(<<Ino("dir", 2), Ino("dir", 1)>>, <<Dir(1, 1, 2, 0), Dir(2, 1, 0, 0)>>,
              <<Slot(1, 1, Ino("dir", 2)), Slot(2, 1, Ino("dir", 1))>>, 2, <<>>)
     \/ Start(<<Ino("dir", 2), Ino("dir", 1), Ino("file", 1)>>,
              <<Dir(1, 1, 2, 0), Dir(2, 1, 0, 3)>>,
              <<Slot(1, 1, Ino("dir", 2)), Slot(2, 1, Ino("dir", 1))>>, 2, <<>>)
     \/ Start(<<Ino("dir", 2), Ino("dir", 2), Ino("dir", 1)>>,
              <<Dir(1, 1, 2, 0), Dir(2, 1, 0, 3), Dir(3, 2, 0, 0)>>,
              <<Slot(1, 1, Ino("dir", 2)), Slot(3, 1, Ino("dir", 1))>>, 2, <<>>)
     \/ Start(<<Ino("dir", 1), Ino("file", 2)>>, <<Dir(1, 1, 2, 2)>>,
              <<Slot(1, 2, Ino("dir", 1)), Slot(2, 1, Ino("file", 2))>>, 1,
              <<[ref |-> 2, type |-> "inode", ip |-> 2, writable |-> TRUE]>>)

MCNext ==
  \/ \E p \in Procs : \/ Step(p) /\ left' = left
                      \/ left > 0 /\ left' = left - 1 /\ Call(p)
  \/ Halted /\ left' = left

MCSpec == MCInit /\ [][MCNext]_<<vars, left>>
=============================================================================
