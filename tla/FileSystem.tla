----------------------------- MODULE FileSystem -----------------------------
(***************************************************************************)
(* Inodes, directories, path names, the file table and the system calls on *)
(* them: kernel/fs.c (from ialloc on), kernel/file.c, kernel/sysfile.c and *)
(* the descriptor side of fork() and exit().                               *)
(*                                                                         *)
(* A step of the model is what one process does between two points where   *)
(* another can be seen: it starts by waiting for a sleep-lock, or by       *)
(* taking a spin-lock, and ends by giving it back.  A section             *)
(* ilock(); work; iunlock() is therefore one step; where a call keeps one  *)
(* inode locked while it locks another (unlink, create, open) the lock is  *)
(* held from step to step.  Every iput() is made of the steps of the code: *)
(* calls leave the inodes they drop in `puts' and IputTest .. IputDrop     *)
(* work the list off before the process does anything else.               *)
(*                                                                         *)
(* A name is a member of Names, a path a sequence of names.  The content   *)
(* of a directory is a function from names to inode numbers (0: no entry), *)
(* the content of a file only whether it owns data blocks; offsets and     *)
(* block maps are in FileData.  begin_op() and end_op() are in Log.       *)
(***************************************************************************)
EXTENDS Integers, Sequences, FiniteSets, FiniteSetsExt

CONSTANTS Procs, InitProc, None,
          Names,        \* path elements other than "." and ".."
          Calls,        \* the calls on paths: [op, what, path, new]
          Modes,        \* open modes, of {"rdonly", "rdwr", "trunc"}
          NINODES,      \* sb.ninodes: inode numbers 1 .. NINODES-1
          NINODE,       \* slots of itable
          NFILE,        \* slots of ftable
          NOFILE        \* descriptors per process

ROOTINO == 1
Inums == 1..(NINODES - 1)
Slots == 1..NINODE
Files == 1..NFILE
Fds == 0..(NOFILE - 1)
Dots == {".", ".."}
NoEnts == [n \in Names \cup Dots |-> 0]

\* The call a process is in: what to do with the inode namex() finds, the open
\* mode or the type of the inode to create, and link()'s second path.
NoPath == [abs |-> FALSE, elems |-> <<>>]
NoCall == [op |-> "none", what |-> "none", path |-> NoPath, new |-> NoPath]

VARIABLES
  di,       \* on disk: inode number -> [type, nlink]
  ents,     \* on disk: content of the directories
  blocks,   \* on disk: the inodes that own data blocks
  itable,   \* slot -> [inum, ref, valid, lock, type, nlink]
  ftable,   \* file -> [ref, type, ip, writable]
  proc,     \* process -> its program counter, locals, cwd and ofile
  panic,    \* what stopped the kernel, or "none"
  lost,     \* history: names of an inode dropped with a freed directory
  orphans   \* history: inodes whose last reference iput() dropped untested

vars == <<di, ents, blocks, itable, ftable, proc, panic, lost, orphans>>
disk == <<di, ents, blocks, lost, orphans>>

FreeInode == [type |-> "free", nlink |-> 0]
FreeSlot == [inum |-> 0, ref |-> 0, valid |-> FALSE, lock |-> None,
             type |-> "free", nlink |-> 0]
FreeFile == [ref |-> 0, type |-> "none", ip |-> 0, writable |-> FALSE]
\* via is history: the name that led to cur.
Fresh(pc, cwd) ==
  [pc |-> pc, call |-> NoCall, rest |-> <<>>, via |-> ".", cur |-> 0, ip |-> 0, f |-> 0,
   puts |-> <<>>, freeing |-> 0, cwd |-> cwd, ofile |-> [fd \in Fds |-> 0]]

\* mkfs leaves a root directory; userinit() makes it the first cwd.
Init ==
  /\ di = [i \in Inums |-> IF i = ROOTINO THEN [type |-> "dir", nlink |-> 1]
                                          ELSE FreeInode]
  /\ ents = [i \in Inums |-> IF i = ROOTINO
                               THEN [n \in DOMAIN NoEnts |->
                                       IF n \in Dots THEN ROOTINO ELSE 0]
                               ELSE NoEnts]
  /\ blocks = {}
  /\ itable = [s \in Slots |-> IF s = 1 THEN [FreeSlot EXCEPT !.inum = ROOTINO,
                                                              !.ref = 1]
                                        ELSE FreeSlot]
  /\ ftable = [f \in Files |-> FreeFile]
  /\ proc = [p \in Procs |-> IF p = InitProc THEN Fresh("user", 1)
                                             ELSE Fresh("unused", 0)]
  /\ panic = "none"
  /\ lost = [i \in Inums |-> 0] /\ orphans = {}

-----------------------------------------------------------------------------
(* The inode table. *)

\* iget()'s search: the slots in use for inode i, and the empty ones.
Found(i) == {s \in Slots : itable[s].ref > 0 /\ itable[s].inum = i}
EmptySlots == {s \in Slots : itable[s].ref = 0}

\* iget(): the slot of inode i, or the first empty one.
NoSlot(i) == Found(i) = {} /\ EmptySlots = {}
IgetSlot(i) == IF Found(i) # {} THEN Min(Found(i)) ELSE Min(EmptySlots)

Iget(i) ==
  LET s == IgetSlot(i) IN
  IF Found(i) # {} THEN [itable EXCEPT ![s].ref = @ + 1]
                   ELSE [itable EXCEPT ![s] = [FreeSlot EXCEPT
                           !.inum = i, !.ref = 1, !.lock = itable[s].lock]]

\* panic() stops the kernel as it is.
Panic(why) == panic' = why /\ UNCHANGED <<itable, proc>>

\* A step that calls iget(i) leaves the table and the processes as given, or
\* ends in the call.
IgetThen(i, table, procs) ==
  IF NoSlot(i) THEN Panic("iget: no inodes")
  ELSE itable' = table /\ proc' = procs /\ UNCHANGED panic

Idup(s) == [itable EXCEPT ![s].ref = @ + 1]

\* ilock(): what slot s holds once the inode has been read from the disk.
Load(s) ==
  IF itable[s].valid THEN itable[s]
  ELSE [itable[s] EXCEPT !.valid = TRUE, !.type = di[itable[s].inum].type,
                         !.nlink = di[itable[s].inum].nlink]

\* Table t once slot s has been locked and its inode read.
Read(t, s) == [t EXCEPT ![s].valid = TRUE, ![s].type = Load(s).type,
                        ![s].nlink = Load(s).nlink]
Held(t, s, p) == [Read(t, s) EXCEPT ![s].lock = p]
Unlocked(t, s) == [t EXCEPT ![s].lock = None]

\* The lock is free and ilock() will not panic.
Ilockable(s) == itable[s].lock = None /\ itable[s].ref > 0 /\ Load(s).type # "free"

\* ip->nlink += k; iupdate(ip), on the disk's side.
AddLinks(d, s, k) == [d EXCEPT ![itable[s].inum].nlink = @ + k]

\* Look name n up in the directory of slot s; 0 if it is not there.
Dirlookup(s, n) == ents[itable[s].inum][n]

\* A process is at pc and has dropped what it had to drop.
At(p, pc) == proc[p].pc = pc /\ proc[p].puts = <<>> /\ panic = "none"

\* The call is over; ps are the inodes it drops on the way out.
Return(p, ps) == [proc EXCEPT ![p] = [@ EXCEPT !.pc = "user", !.call = NoCall,
                    !.rest = <<>>, !.via = ".", !.cur = 0, !.ip = 0, !.f = 0, !.puts = ps]]

\* namex() returned 0: link() undoes its nlink++, the others return -1.
Fail(p, ps) == IF proc[p].call.op = "link2"
                 THEN [proc EXCEPT ![p] = [@ EXCEPT !.pc = "linkbad", !.rest = <<>>,
                                                    !.via = ".", !.cur = 0, !.puts = ps]]
                 ELSE Return(p, ps)

-----------------------------------------------------------------------------
(* iput(), on the first inode of proc[p].puts. *)

Dropping(p, stage) == panic = "none" /\ proc[p].puts # <<>> /\ proc[p].freeing = stage

LastRef(s) == itable[s].ref = 1 /\ itable[s].valid /\ itable[s].nlink = 0

IputTest(p) ==
  /\ Dropping(p, 0)
  /\ LET s == Head(proc[p].puts) IN
     IF LastRef(s)
       THEN /\ itable[s].lock = None
            /\ itable' = [itable EXCEPT ![s].lock = p]
            /\ proc' = [proc EXCEPT ![p].freeing = 1]
       ELSE /\ itable' = [itable EXCEPT ![s].ref = @ - 1]
            /\ proc' = [proc EXCEPT ![p].puts = Tail(@)]
  /\ UNCHANGED <<disk, ftable, panic>>

\* itrunc(); ip->type = 0; iupdate().  From here ialloc() may take the inode.
IputFree(p) ==
  /\ Dropping(p, 1)
  /\ LET s == Head(proc[p].puts)
         i == itable[s].inum IN
     /\ itable' = [itable EXCEPT ![s].type = "free"]
     /\ di' = [di EXCEPT ![i].type = "free"]
     /\ ents' = [ents EXCEPT ![i] = NoEnts]
     /\ blocks' = blocks \ {i}
     /\ lost' = [j \in Inums |-> lost[j] + Cardinality({n \in Names : ents[i][n] = j})]
  /\ proc' = [proc EXCEPT ![p].freeing = 2]
  /\ UNCHANGED <<ftable, panic, orphans>>

IputRelease_KeepValid(p) ==
  /\ Dropping(p, 2)
  /\ LET s == Head(proc[p].puts) IN
     itable' = [itable EXCEPT ![s] = [FreeSlot EXCEPT !.inum = itable[s].inum,
                                                      !.ref = itable[s].ref,
                                                      !.valid = TRUE]]
  /\ proc' = [proc EXCEPT ![p].freeing = 3]
  /\ UNCHANGED <<disk, ftable, panic>>

\* ip->valid = 0; releasesleep().  (type and nlink mean nothing from here.)
IputRelease(p) ==
  /\ Dropping(p, 2)
  /\ LET s == Head(proc[p].puts) IN
     itable' = [itable EXCEPT ![s] = [FreeSlot EXCEPT !.inum = itable[s].inum,
                                                      !.ref = itable[s].ref]]
  /\ proc' = [proc EXCEPT ![p].freeing = 3]
  /\ UNCHANGED <<disk, ftable, panic>>

\* ip->ref--, without a second look at ip->nlink: ialloc() may have reused the
\* inode, and its new owner unlinked and dropped it while this reference lasted.
IputDrop(p) ==
  /\ Dropping(p, 3)
  /\ LET s == Head(proc[p].puts) IN
     /\ itable' = [itable EXCEPT ![s].ref = @ - 1]
     /\ orphans' = IF LastRef(s) THEN orphans \cup {itable[s].inum} ELSE orphans
  /\ proc' = [proc EXCEPT ![p].puts = Tail(@), ![p].freeing = 0]
  /\ UNCHANGED <<di, ents, blocks, lost, ftable, panic>>

Iput(p) == IputTest(p) \/ IputFree(p) \/ IputRelease(p) \/ IputDrop(p)

-----------------------------------------------------------------------------
(* Path names. *)

WantsParent(op) == op \in {"create", "unlink", "link2"}

\* The first lines of namex(): the root or the current directory, referenced.
StartSlot(p, path) == IF path.abs THEN IgetSlot(ROOTINO) ELSE proc[p].cwd

\* Process p, in call c, looks for path; it keeps a reference to ip (0: none).
StartWalk(p, c, path, ip) ==
  LET s == StartSlot(p, path)
      procs == [proc EXCEPT ![p] = [@ EXCEPT !.call = c, !.ip = ip, !.rest = path.elems,
        !.cur = IF path.elems = <<>> /\ WantsParent(c.op) THEN 0 ELSE s,
        !.puts = IF path.elems = <<>> /\ WantsParent(c.op) THEN <<s>> ELSE <<>>,
        !.pc = IF path.elems # <<>> THEN "namex"
               ELSE IF ~WantsParent(c.op) THEN c.op
               ELSE IF c.op = "link2" THEN "linkbad" ELSE "user"]] IN
  IF path.abs THEN IgetThen(ROOTINO, Iget(ROOTINO), procs)
  ELSE itable' = Idup(proc[p].cwd) /\ proc' = procs /\ UNCHANGED panic

\* nameiparent() stops at the last name.
StopEarly(r) == WantsParent(r.call.op) /\ Len(r.rest) = 1

\* One turn of namex()'s loop.
Namex(p) ==
  /\ At(p, "namex")
  /\ LET r == proc[p]
         s == r.cur
         next == Dirlookup(s, Head(r.rest)) IN
     /\ Ilockable(s)
     /\ \/ /\ Load(s).type # "dir" \/ (~StopEarly(r) /\ next = 0)
           /\ itable' = Read(itable, s)
           /\ proc' = Fail(p, <<s>>)
           /\ UNCHANGED panic
        \/ /\ Load(s).type = "dir" /\ StopEarly(r)
           /\ itable' = Read(itable, s)
           /\ proc' = [proc EXCEPT ![p].pc = r.call.op]
           /\ UNCHANGED panic
        \/ /\ Load(s).type = "dir" /\ ~StopEarly(r) /\ next # 0
           /\ IgetThen(next, Read(Iget(next), s), [proc EXCEPT ![p] = [@ EXCEPT
                !.cur = IgetSlot(next), !.via = Head(r.rest), !.rest = Tail(@), !.puts = <<s>>,
                !.pc = IF Len(r.rest) = 1 THEN r.call.op ELSE "namex"]])
  /\ UNCHANGED <<disk, ftable>>

-----------------------------------------------------------------------------
(* create(): mkdir, mknod and open with O_CREATE. *)

TypeToCreate(what) == IF what \in Modes THEN "file" ELSE what
FreeInums == {i \in Inums : di[i].type = "free"}

\* The name is there already.
CreateFound(p) ==
  /\ At(p, "create")
  /\ LET dp == proc[p].cur
         i == Dirlookup(dp, Head(proc[p].rest)) IN
     /\ Ilockable(dp) /\ i # 0
     /\ IgetThen(i, Read(Iget(i), dp),
                 [proc EXCEPT ![p] = [@ EXCEPT !.pc = "exists", !.via = Head(proc[p].rest),
                                               !.cur = IgetSlot(i), !.puts = <<dp>>]])
  /\ UNCHANGED <<disk, ftable>>

CreateExists(p) ==
  /\ At(p, "exists")
  /\ LET ip == proc[p].cur IN
     /\ Ilockable(ip)
     /\ IF proc[p].call.what \in Modes /\ Load(ip).type # "dir"
          THEN /\ itable' = Held(itable, ip, p)
               /\ proc' = [proc EXCEPT ![p].pc = "openfd"]
          ELSE /\ itable' = Read(itable, ip)
               /\ proc' = Return(p, <<ip>>)
  /\ UNCHANGED <<disk, ftable, panic>>

\* ialloc(): the first free inode, with the directory locked.
CreateAlloc(p) ==
  /\ At(p, "create")
  /\ LET dp == proc[p].cur
         i == Min(FreeInums) IN
     /\ Ilockable(dp) /\ Dirlookup(dp, Head(proc[p].rest)) = 0
     /\ IF FreeInums = {}
        THEN Panic("ialloc: no inodes") /\ UNCHANGED di
        ELSE /\ di' = [di EXCEPT ![i] = [type |-> TypeToCreate(proc[p].call.what), nlink |-> 0]]
             /\ IgetThen(i, Held(Iget(i), dp, p),
                         [proc EXCEPT ![p] = [@ EXCEPT !.pc = "fill", !.ip = IgetSlot(i)]])
  /\ UNCHANGED <<ents, blocks, ftable, lost, orphans>>

\* The new inode's link count, its dots, its name; the directory is released.
CreateFill(p) ==
  /\ At(p, "fill")
  /\ LET r == proc[p]
         dp == r.cur
         ip == r.ip
         d == itable[dp].inum
         i == itable[ip].inum
         up == IF Load(ip).type = "dir" THEN 1 ELSE 0 IN
     /\ Ilockable(ip)
     /\ di' = [di EXCEPT ![i].nlink = 1, ![d].nlink = @ + up]
     /\ ents' = [ents EXCEPT
          ![i] = IF up = 1 THEN [@ EXCEPT !["."] = i, ![".."] = d] ELSE @,
          ![d] = [@ EXCEPT ![Head(r.rest)] = i]]
     /\ itable' = [Unlocked(Held(itable, ip, p), dp) EXCEPT ![ip].nlink = 1,
                                                            ![dp].nlink = @ + up]
     /\ proc' = [proc EXCEPT ![p] = [@ EXCEPT !.cur = ip, !.ip = 0, !.puts = <<dp>>,
          !.pc = IF r.call.what \in Modes THEN "openfd" ELSE "made"]]
  /\ UNCHANGED <<blocks, ftable, panic, lost, orphans>>

\* mkdir() and mknod() only drop what create() returned.
MkdirEnd(p) ==
  /\ At(p, "made")
  /\ itable' = Unlocked(itable, proc[p].cur)
  /\ proc' = Return(p, <<proc[p].cur>>)
  /\ UNCHANGED <<disk, ftable, panic>>

Create(p) == \/ CreateFound(p) \/ CreateExists(p) \/ CreateAlloc(p)
             \/ CreateFill(p) \/ MkdirEnd(p)

-----------------------------------------------------------------------------
(* open(), chdir(), exec()'s use of its file, link() and unlink(). *)

OpenLock(p) ==
  /\ At(p, "open")
  /\ LET ip == proc[p].cur IN
     /\ Ilockable(ip)
     /\ IF Load(ip).type = "dir" /\ proc[p].call.what # "rdonly"
          THEN itable' = Read(itable, ip) /\ proc' = Return(p, <<ip>>)
          ELSE itable' = Held(itable, ip, p) /\ proc' = [proc EXCEPT ![p].pc = "openfd"]
  /\ UNCHANGED <<disk, ftable, panic>>

FreeFiles == {f \in Files : ftable[f].ref = 0}
FreeFds(p) == {fd \in Fds : proc[p].ofile[fd] = 0}

\* What fileclose(f) of the last reference hands to iput().
Closed(f) == IF ftable[f].type \in {"inode", "device"} THEN <<ftable[f].ip>> ELSE <<>>

\* A device whose major number is out of range, or no file, or no descriptor.
OpenFails(p) ==
  /\ At(p, "openfd")
  /\ LET ip == proc[p].cur
         nofile == itable[ip].type = "nodev" \/ FreeFiles = {} IN
     /\ nofile \/ FreeFds(p) = {}
     /\ itable' = Unlocked(itable, ip)
     /\ proc' = Return(p, IF nofile THEN <<ip>> ELSE Closed(Min(FreeFiles)) \o <<ip>>)
     /\ ftable' = IF nofile THEN ftable ELSE [ftable EXCEPT ![Min(FreeFiles)].type = "none"]
  /\ UNCHANGED <<disk, panic>>

OpenFile(p) ==
  /\ At(p, "openfd")
  /\ LET ip == proc[p].cur
         i == itable[ip].inum
         f == Min(FreeFiles)
         mode == proc[p].call.what IN
     /\ itable[ip].type # "nodev" /\ FreeFiles # {} /\ FreeFds(p) # {}
     /\ ftable' = [ftable EXCEPT ![f] = [ref |-> 1, ip |-> ip, writable |-> mode # "rdonly",
                      type |-> IF itable[ip].type = "dev" THEN "device" ELSE "inode"]]
     /\ blocks' = IF mode = "trunc" /\ itable[ip].type = "file" THEN blocks \ {i} ELSE blocks
     /\ itable' = Unlocked(itable, ip)
     /\ proc' = [Return(p, <<>>) EXCEPT ![p].ofile[Min(FreeFds(p))] = f]
  /\ UNCHANGED <<di, ents, lost, orphans, panic>>

Chdir_KeepOld(p) ==
  /\ At(p, "chdir")
  /\ LET ip == proc[p].cur IN
     /\ Ilockable(ip)
     /\ itable' = Read(itable, ip)
     /\ proc' = IF Load(ip).type # "dir" THEN Return(p, <<ip>>)
                ELSE [Return(p, <<>>) EXCEPT ![p].cwd = ip]
  /\ UNCHANGED <<disk, ftable, panic>>

Chdir(p) ==
  /\ At(p, "chdir")
  /\ LET ip == proc[p].cur IN
     /\ Ilockable(ip)
     /\ itable' = Read(itable, ip)
     /\ proc' = IF Load(ip).type # "dir" THEN Return(p, <<ip>>)
                ELSE [Return(p, <<proc[p].cwd>>) EXCEPT ![p].cwd = ip]
  /\ UNCHANGED <<disk, ftable, panic>>

\* exec() reads the file under its lock, then drops it.
ExecFile(p) ==
  /\ At(p, "exec")
  /\ Ilockable(proc[p].cur)
  /\ itable' = Read(itable, proc[p].cur)
  /\ proc' = Return(p, <<proc[p].cur>>)
  /\ UNCHANGED <<disk, ftable, panic>>

\* link(): nlink++ first, then the walk to the new name's directory.
LinkOld(p) ==
  /\ At(p, "link")
  /\ LET ip == proc[p].cur IN
     /\ Ilockable(ip)
     /\ IF Load(ip).type = "dir"
          THEN itable' = Read(itable, ip) /\ proc' = Return(p, <<ip>>) /\ di' = di
          ELSE /\ di' = AddLinks(di, ip, 1)
               /\ itable' = [Read(itable, ip) EXCEPT ![ip].nlink = @ + 1]
               /\ proc' = [proc EXCEPT ![p] = [@ EXCEPT !.pc = "linknew", !.ip = ip, !.cur = 0]]
  /\ UNCHANGED <<ents, blocks, lost, orphans, ftable, panic>>

LinkNew(p) ==
  /\ At(p, "linknew")
  /\ StartWalk(p, [NoCall EXCEPT !.op = "link2"], proc[p].call.new, proc[p].ip)
  /\ UNCHANGED <<disk, ftable>>

\* dirlink(): fails when the name is taken (and drops the inode it found).
LinkName(p) ==
  /\ At(p, "link2")
  /\ LET r == proc[p]
         dp == r.cur
         i == Dirlookup(dp, Head(r.rest)) IN
     /\ Ilockable(dp)
     /\ IF i # 0
          THEN /\ IgetThen(i, Held(Iget(i), dp, p),
                    [proc EXCEPT ![p].pc = "linkdup", ![p].puts = <<IgetSlot(i)>>])
               /\ ents' = ents
          ELSE /\ itable' = Read(itable, dp) /\ UNCHANGED panic
               /\ proc' = Return(p, <<dp, r.ip>>)
               /\ ents' = [ents EXCEPT ![itable[dp].inum][Head(r.rest)] = itable[r.ip].inum]
  /\ UNCHANGED <<di, blocks, lost, orphans, ftable>>

LinkDup(p) ==
  /\ At(p, "linkdup")
  /\ itable' = Unlocked(itable, proc[p].cur)
  /\ proc' = Fail(p, <<proc[p].cur>>)
  /\ UNCHANGED <<disk, ftable, panic>>

LinkBad_NoUndo(p) ==
  /\ At(p, "linkbad")
  /\ LET ip == proc[p].ip IN
     /\ Ilockable(ip)
     /\ di' = di
     /\ itable' = Read(itable, ip)
     /\ proc' = Return(p, <<ip>>)
  /\ UNCHANGED <<ents, blocks, lost, orphans, ftable, panic>>

\* bad: take the link back.
LinkBad(p) ==
  /\ At(p, "linkbad")
  /\ LET ip == proc[p].ip IN
     /\ Ilockable(ip)
     /\ di' = AddLinks(di, ip, -1)
     /\ itable' = [Read(itable, ip) EXCEPT ![ip].nlink = @ - 1]
     /\ proc' = Return(p, <<ip>>)
  /\ UNCHANGED <<ents, blocks, lost, orphans, ftable, panic>>

Link(p) == LinkOld(p) \/ LinkNew(p) \/ LinkName(p) \/ LinkDup(p) \/ LinkBad(p)

\* unlink(): the directory stays locked while the inode is locked.
UnlinkLookup(p) ==
  /\ At(p, "unlink")
  /\ LET dp == proc[p].cur
         n == Head(proc[p].rest)
         i == Dirlookup(dp, n) IN
     /\ Ilockable(dp)
     /\ IF n \in Dots \/ i = 0
          THEN itable' = Read(itable, dp) /\ proc' = Return(p, <<dp>>) /\ UNCHANGED panic
          ELSE IgetThen(i, Held(Iget(i), dp, p),
                 [proc EXCEPT ![p].pc = "remove", ![p].ip = IgetSlot(i)])
  /\ UNCHANGED <<disk, ftable>>

Isdirempty(i) == \A n \in Names : ents[i][n] = 0

UnlinkRemove(p) ==
  /\ At(p, "remove")
  /\ LET r == proc[p]
         dp == r.cur
         ip == r.ip
         dir == Load(ip).type = "dir" IN
     /\ Ilockable(ip)
     /\ \/ /\ dir /\ ~Isdirempty(itable[ip].inum)
           /\ itable' = Read(itable, ip)
           /\ proc' = [proc EXCEPT ![p] = [@ EXCEPT !.pc = "notempty", !.ip = 0, !.puts = <<ip>>]]
           /\ UNCHANGED <<disk, ftable, panic>>
        \/ /\ dir => Isdirempty(itable[ip].inum)
           /\ ents' = [ents EXCEPT ![itable[dp].inum][Head(r.rest)] = 0]
           /\ di' = IF dir THEN AddLinks(di, dp, -1) ELSE di
           /\ itable' = [Unlocked(Held(itable, ip, p), dp) EXCEPT
                           ![dp].nlink = IF dir THEN @ - 1 ELSE @]
           /\ proc' = [proc EXCEPT ![p] = [@ EXCEPT !.pc = "unlinked", !.cur = 0, !.puts = <<dp>>]]
           /\ UNCHANGED <<blocks, lost, orphans, ftable, panic>>

UnlinkNotEmpty(p) ==
  /\ At(p, "notempty")
  /\ itable' = Unlocked(itable, proc[p].cur)
  /\ proc' = Return(p, <<proc[p].cur>>)
  /\ UNCHANGED <<disk, ftable, panic>>

UnlinkDone_PutFirst(p) ==
  /\ At(p, "unlinked")
  /\ LET ip == proc[p].ip IN
     /\ di' = AddLinks(di, ip, -1)
     /\ itable' = [itable EXCEPT ![ip].nlink = @ - 1]
     /\ proc' = Return(p, <<ip>>)
  /\ UNCHANGED <<ents, blocks, lost, orphans, ftable, panic>>

UnlinkDone(p) ==
  /\ At(p, "unlinked")
  /\ LET ip == proc[p].ip IN
     /\ di' = AddLinks(di, ip, -1)
     /\ itable' = [Unlocked(itable, ip) EXCEPT ![ip].nlink = @ - 1]
     /\ proc' = Return(p, <<ip>>)
  /\ UNCHANGED <<ents, blocks, lost, orphans, ftable, panic>>

Unlink(p) == UnlinkLookup(p) \/ UnlinkRemove(p) \/ UnlinkNotEmpty(p) \/ UnlinkDone(p)

-----------------------------------------------------------------------------
(* The file table and the descriptors. *)

\* filedup() and fileclose() of descriptor fd; ps: what iput() gets.
CloseFd(p, fd, pc) ==
  LET f == proc[p].ofile[fd]
      last == ftable[f].ref = 1 IN
  /\ ftable' = [ftable EXCEPT ![f] = IF last THEN FreeFile ELSE [@ EXCEPT !.ref = @ - 1]]
  /\ proc' = [proc EXCEPT ![p].ofile[fd] = 0, ![p].pc = pc,
                          ![p].puts = IF last THEN Closed(f) ELSE <<>>]
  /\ UNCHANGED <<disk, itable, panic>>

OpenFds(p) == {fd \in Fds : proc[p].ofile[fd] # 0}

Close(p) ==
  /\ At(p, "user")
  /\ \E fd \in OpenFds(p) : CloseFd(p, fd, "user")

\* fdalloc() comes before filedup().
Dup(p) ==
  /\ At(p, "user") /\ FreeFds(p) # {}
  /\ \E fd \in OpenFds(p) :
       /\ proc' = [proc EXCEPT ![p].ofile[Min(FreeFds(p))] = proc[p].ofile[fd]]
       /\ ftable' = [ftable EXCEPT ![proc[p].ofile[fd]].ref = @ + 1]
  /\ UNCHANGED <<disk, itable, panic>>

\* pipealloc(): two files and a page; sys_pipe(): two descriptors and copyout().
PipeFirst(p) ==
  /\ At(p, "user") /\ FreeFiles # {}
  /\ ftable' = [ftable EXCEPT ![Min(FreeFiles)].ref = 1]
  /\ proc' = [proc EXCEPT ![p].pc = "pipe", ![p].f = Min(FreeFiles)]
  /\ UNCHANGED <<disk, itable, panic>>

PipeSecond(p) ==
  /\ At(p, "pipe")
  /\ LET f0 == proc[p].f IN
     \/ \* no second file, no page, too few descriptors or a bad address
        /\ ftable' = [ftable EXCEPT ![f0] = FreeFile]
        /\ proc' = Return(p, Closed(f0))
     \/ /\ FreeFiles # {} /\ Cardinality(FreeFds(p)) >= 2
        /\ LET f1 == Min(FreeFiles)
               fd0 == Min(FreeFds(p))
               fd1 == Min(FreeFds(p) \ {fd0}) IN
           /\ ftable' = [ftable EXCEPT
                ![f0] = [@ EXCEPT !.type = "pipe"],
                ![f1] = [@ EXCEPT !.ref = 1, !.type = "pipe", !.writable = TRUE]]
           /\ proc' = [Return(p, <<>>) EXCEPT ![p].ofile[fd0] = f0, ![p].ofile[fd1] = f1]
  /\ UNCHANGED <<disk, itable, panic>>

\* read(), write() and fstat() on a descriptor.
FileUse(p) ==
  /\ At(p, "user")
  /\ \E fd \in OpenFds(p) :
       LET f == ftable[proc[p].ofile[fd]] IN
       /\ f.type \in {"inode", "device"} /\ Ilockable(f.ip)
       /\ itable' = Read(itable, f.ip)
       /\ \/ blocks' = blocks
          \/ f.type = "inode" /\ f.writable /\ blocks' = blocks \cup {itable[f.ip].inum}
  /\ UNCHANGED <<di, ents, lost, orphans, ftable, proc, panic>>

\* fork() shares the open files and the current directory with the child.
Fork(p) ==
  /\ At(p, "user")
  /\ \E q \in Procs :
       /\ proc[q].pc = "unused" /\ proc[q].puts = <<>>
       /\ ftable' = [f \in Files |-> [ftable[f] EXCEPT
                       !.ref = @ + Cardinality({fd \in Fds : proc[p].ofile[fd] = f})]]
       /\ itable' = Idup(proc[p].cwd)
       /\ proc' = [proc EXCEPT ![q] = [Fresh("user", proc[p].cwd) EXCEPT
                                         !.ofile = proc[p].ofile]]
  /\ UNCHANGED <<disk, panic>>

\* exit() closes the files one by one, then drops the current directory.
Exit(p) ==
  /\ p # InitProc
  /\ At(p, "user") \/ At(p, "exit")
  /\ IF OpenFds(p) # {} THEN CloseFd(p, Min(OpenFds(p)), "exit")
     ELSE /\ proc' = [proc EXCEPT ![p] = [Fresh("unused", 0) EXCEPT !.puts = <<proc[p].cwd>>]]
          /\ UNCHANGED <<disk, itable, ftable, panic>>

-----------------------------------------------------------------------------
(* The calls. *)

\* op: "open", "create" (open with O_CREATE, mkdir and mknod, by `what'), "chdir",
\* "exec", "unlink" or "link".
Enter(p) ==
  /\ At(p, "user")
  /\ \E c \in Calls : StartWalk(p, [c EXCEPT !.path = NoPath], c.path, 0)
  /\ UNCHANGED <<disk, ftable>>

\* The slot process p waits to lock (0: none).
WaitsFor(p) ==
  LET r == proc[p] IN
  IF r.puts # <<>> THEN IF r.freeing = 0 /\ LastRef(Head(r.puts)) THEN Head(r.puts) ELSE 0
  ELSE IF r.pc \in {"namex", "create", "exists", "open", "chdir", "exec", "link", "link2",
                    "unlink"} THEN r.cur
  ELSE IF r.pc \in {"fill", "remove", "linkbad"} THEN r.ip ELSE 0

\* Process p gets the lock of an inode that is free.
LocksFree(p) ==
  /\ proc[p].puts = <<>> /\ WaitsFor(p) # 0
  /\ itable[WaitsFor(p)].lock = None /\ Load(WaitsFor(p)).type = "free"

IlockPanic(p) ==
  /\ panic = "none" /\ LocksFree(p)
  /\ Panic("ilock: no type")
  /\ UNCHANGED <<disk, ftable>>

\* panic() never returns.
Halted == panic # "none" /\ UNCHANGED vars

Step(p) == \/ Iput(p) \/ IlockPanic(p) \/ Namex(p) \/ Create(p) \/ OpenLock(p) \/ OpenFails(p)
           \/ OpenFile(p) \/ Chdir(p) \/ ExecFile(p) \/ Link(p) \/ Unlink(p) \/ PipeSecond(p)
Call(p) == Enter(p) \/ Close(p) \/ Dup(p) \/ PipeFirst(p) \/ FileUse(p) \/ Fork(p) \/ Exit(p)

Next == (\E p \in Procs : Step(p) \/ Call(p)) \/ Halted
Spec == Init /\ [][Next]_vars

-----------------------------------------------------------------------------
(* Properties. *)

Types == {"free", "file", "dir", "dev", "nodev"}

\* Every variable has its type.
TypeOK ==
  /\ di \in [Inums -> [type : Types, nlink : Nat]]
  /\ \A i \in Inums : ents[i] \in [Names \cup Dots -> Inums \cup {0}]
  /\ blocks \subseteq Inums
  /\ itable \in [Slots -> [inum : Inums \cup {0}, ref : Nat, valid : BOOLEAN,
                          lock : Procs \cup {None}, type : Types, nlink : Nat]]
  /\ ftable \in [Files -> [ref : Nat, type : {"none", "inode", "device", "pipe"},
                          ip : Slots \cup {0}, writable : BOOLEAN]]
  /\ \A p \in Procs : /\ proc[p].cwd \in Slots \cup {0}
                      /\ proc[p].ofile \in [Fds -> Files \cup {0}]
                      /\ proc[p].puts \in Seq(Slots)

\* The pointers to slot s: current directories, open files, and the locals of
\* the calls in progress.
Pointers(s) ==
  LET held(p) == {k \in {"cwd", "cur", "ip"} : proc[p][k] = s}
      drop(p) == {k \in DOMAIN proc[p].puts : proc[p].puts[k] = s} IN
  Cardinality({f \in Files : ftable[f].ref > 0 /\ ftable[f].ip = s
                             /\ ftable[f].type \in {"inode", "device"}})
  + MapThenSumSet(LAMBDA p : Cardinality(held(p)) + Cardinality(drop(p)), Procs)

\* fs.c, comment before itable: "ip->ref tracks the number of in-memory
\* pointers to the entry".  No path through a system call, failing ones
\* included, drops a reference twice or keeps one.
RefsExact == \A s \in Slots : itable[s].ref = Pointers(s)

NamesOf(i) == {<<d, n>> \in Inums \X Names : ents[d][n] = i}
SlotsOf(i) == {s \in Slots : itable[s].ref > 0 /\ itable[s].inum = i}

\* Two slots in use never stand for the same inode: there is one lock and one
\* cached copy of it.
OneSlotPerInode == \A i \in Inums : Cardinality(SlotsOf(i)) <= 1

\* A valid slot that nobody has locked is what the disk holds, whoever freed and
\* reallocated the inode number meanwhile; iput() trusts it without the lock.
CacheIsDisk ==
  \A s \in Slots : itable[s].ref > 0 /\ itable[s].valid /\ itable[s].lock = None =>
    /\ itable[s].type = di[itable[s].inum].type
    /\ itable[s].nlink = di[itable[s].inum].nlink

\* iput(), comment: "ip->ref == 1 means no other process can have ip locked, so
\* this acquiresleep() won't block (or deadlock)".  It holds itable.lock, a
\* spin-lock: waiting there would stop every process.
IputNeverBlocks ==
  \A p \in Procs : Dropping(p, 0) /\ LastRef(Head(proc[p].puts)) =>
                      itable[Head(proc[p].puts)].lock = None

\* What stops the kernel: iget() only when calls, open files and current
\* directories really refer to NINODE inodes; ilock() only at the ".." of a
\* removed directory, whose parent is removed as well.  No call runs into
\* another panic, but for ialloc()'s on a full disk: ilock() finds a reference,
\* dirlookup() a directory, unlink() a link count of at least 1; and a
\* descriptor stands for a referenced, typed file whose inode is allocated.
KnownPanics ==
  /\ panic = "iget: no inodes" =>
       \A s \in Slots : Pointers(s) > 0 /\ SlotsOf(itable[s].inum) = {s}
  /\ \A p \in Procs :
       /\ LocksFree(p) => /\ proc[p].via = ".." /\ WaitsFor(p) = proc[p].cur
                          /\ NamesOf(itable[proc[p].cur].inum) = {}
       /\ proc[p].puts = <<>> /\ WaitsFor(p) # 0 /\ itable[WaitsFor(p)].lock = None =>
            /\ itable[WaitsFor(p)].ref > 0
            /\ proc[p].pc \in {"create", "unlink", "link2"} => Load(proc[p].cur).type = "dir"
            /\ proc[p].pc = "remove" => Load(proc[p].ip).nlink >= 1
       /\ \A fd \in OpenFds(p) :
            LET f == ftable[proc[p].ofile[fd]] IN
            /\ f.ref >= 1 /\ f.type # "none"
            /\ f.type \in {"inode", "device"} =>
                 itable[f.ip].ref >= 1 /\ (itable[f.ip].lock = None => Load(f.ip).type # "free")

Blocked(p) == WaitsFor(p) # 0 /\ itable[WaitsFor(p)].lock # None

\* A process that holds an inode's lock is inside a call that will release it,
\* and some holder of a lock can always move: parent-before-child is the only
\* order in which two inodes are locked.
NoDeadlock ==
  /\ \A s \in Slots : itable[s].lock # None =>
       LET r == proc[itable[s].lock] IN
       r.pc \in {"openfd", "fill", "made", "remove", "notempty", "unlinked", "linkdup"}
         \/ r.puts # <<>>
  /\ (\E p \in Procs : Blocked(p)) =>
       \E q \in Procs : ~Blocked(q) /\ \E s \in Slots : itable[s].lock = q

\* f->ref is the number of descriptors on f, plus the file a pipe() in progress
\* has allocated; a free file has no type left that fileclose() could act on.
FileRefsExact ==
  \A f \in Files :
    /\ ftable[f].ref = Cardinality({<<p, fd>> \in Procs \X Fds : proc[p].ofile[fd] = f})
                       + Cardinality({p \in Procs : proc[p].f = f})
    /\ ftable[f].ref = 0 => ftable[f].type = "none"

\* Reference counts are exact, of inodes and of open files, so that neither is
\* freed in use or kept for ever; and an inode in use has one slot.
CountsExact == TypeOK /\ RefsExact /\ FileRefsExact /\ OneSlotPerInode

\* Every call gets on: the locks of inodes are taken in an order, iput() does not
\* wait with a spin-lock held, and no panic stops the kernel but the known ones.
CallsGetOn == NoDeadlock /\ IputNeverBlocks /\ KnownPanics

\* No operation is outstanding: what the log may commit, and a crash leave.
Quiet == \A p \in Procs : proc[p].pc \in {"user", "unused", "exit", "pipe"}
                          /\ proc[p].puts = <<>>

Subdirs(i) == {n \in Names : ents[i][n] # 0 /\ di[ents[i][n]].type = "dir"}

\* Whenever no operation is outstanding, the disk holds a file tree: every name
\* leads to an allocated inode; a link count is the number of names, plus one
\* for the ".." of every subdirectory, plus the names that vanished with a
\* removed directory in which a process still created files; a directory has
\* one name and ".." leads back; an inode without links is allocated only while
\* something in memory refers to it, or when iput() missed it (IputDrop); a free
\* inode owns no blocks.
DiskIsTree == Quiet =>
  \A i \in Inums :
    /\ di[i].type = "free" => NamesOf(i) = {} /\ i \notin blocks
    /\ di[i].type # "free" =>
         di[i].nlink = Cardinality(NamesOf(i)) + Cardinality(Subdirs(i)) + lost[i]
                       + (IF i = ROOTINO THEN 1 ELSE 0)
    /\ di[i].type = "dir" => /\ Cardinality(NamesOf(i)) <= 1
                             /\ \A dn \in NamesOf(i) : ents[i][".."] = dn[1]
    /\ di[i].type # "free" /\ di[i].nlink = 0 => SlotsOf(i) # {} \/ i \in orphans

\* fs.c, comment before itable: "iput() frees if the reference and link counts
\* have fallen to zero".  When no operation is outstanding, an allocated inode
\* has a link or a reference.
FreedWhenUnused == Quiet =>
  \A i \in Inums : di[i].type # "free" => di[i].nlink > 0 \/ SlotsOf(i) # {}
=============================================================================
