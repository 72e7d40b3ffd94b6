-------------------------------- MODULE Mkfs --------------------------------
(***************************************************************************)
(* mkfs/mkfs.c, the program that makes the file system image on the host,  *)
(* read with the kernel's readi() of FileData.                             *)
(*                                                                         *)
(* A directory entry takes one place of a block and is the inode number it *)
(* names; a byte of host file k is 100 + k.  Blocks 0..NMETA-1 are the     *)
(* boot block, the superblock, the log, the inodes and the bitmap.         *)
(***************************************************************************)
EXTENDS FileData

CONSTANTS
  NMETA,
  HostFiles   \* set of sequences of file sizes

ROOTINO == 1

VARIABLES
  img,   \* inodes, blocks, bitmap, freeblock
  todo,  \* appends that main() will still make: [inum, n, v]
  app,   \* the iappend() that is running: [inum, off, n, v], inum 0: none
  host   \* the sizes of the host files

mkvars == <<img, todo, app, host>>

NoAppend == [inum |-> 0, off |-> 0, n |-> 0, v |-> 0]
FreshInode(t) == [type |-> t, addrs |-> [k \in 0..NDIRECT |-> 0], size |-> 0]

\* What main() does for host file k: ialloc(), the entry, one iappend() for
\* each buffer of BSIZE that read() fills.
Appends(k, size) ==
  LET inum == k + 1
      full == size \div BSIZE
      rest == size % BSIZE IN
  <<[inum |-> ROOTINO, n |-> 1, v |-> inum]>>
  \o [j \in 1..full |-> [inum |-> inum, n |-> BSIZE, v |-> 100 + k]]
  \o (IF rest = 0 THEN <<>> ELSE <<[inum |-> inum, n |-> rest, v |-> 100 + k]>>)

AllAppends(sizes) ==
  LET upto[k \in 0..Len(sizes)] ==
        IF k = 0 THEN [j \in 1..2 |-> [inum |-> ROOTINO, n |-> 1, v |-> ROOTINO]]
        ELSE upto[k - 1] \o Appends(k, sizes[k])
  IN upto[Len(sizes)]

MkInit ==
  /\ host \in HostFiles
  /\ img = [ino |-> <<FreshInode("dir")>>,
            blk |-> [b \in Blocks |-> [k \in 0..BSIZE-1 |-> 0]],
            freeblock |-> NMETA, bitmap |-> {}]
  /\ todo = AllAppends(host) /\ app = NoAppend

\* The next append; ialloc() comes before a file's entry.
MkNextAppend ==
  /\ app = NoAppend /\ todo # <<>>
  /\ app' = [inum |-> todo[1].inum, off |-> img.ino[todo[1].inum].size, n |-> todo[1].n, v |-> todo[1].v]
  /\ todo' = Tail(todo)
  /\ img' = IF todo[1].inum = ROOTINO /\ todo[1].v # ROOTINO
            THEN [img EXCEPT !.ino = Append(@, FreshInode("file"))] ELSE img
  /\ UNCHANGED host

\* freeblock++
NewBlock(g) == [g EXCEPT !.freeblock = @ + 1]

\* The block of the inode that holds block fbn of the file, new if need be.
FileBlock(g, inum, fbn) ==
  LET ind == g.ino[inum].addrs[NDIRECT]
      h == IF fbn < NDIRECT \/ ind # 0 THEN g
           ELSE [NewBlock(g) EXCEPT !.ino[inum].addrs[NDIRECT] = g.freeblock]
      a == h.ino[inum].addrs[NDIRECT]
      k == fbn - NDIRECT IN
  IF fbn < NDIRECT
  THEN IF g.ino[inum].addrs[fbn] # 0 THEN [g |-> g, x |-> g.ino[inum].addrs[fbn]]
       ELSE [g |-> [NewBlock(g) EXCEPT !.ino[inum].addrs[fbn] = g.freeblock], x |-> g.freeblock]
  ELSE IF h.blk[a][k] # 0 THEN [g |-> h, x |-> h.blk[a][k]]
  ELSE [g |-> [NewBlock(h) EXCEPT !.blk[a][k] = h.freeblock], x |-> h.freeblock]

\* A turn of iappend()'s loop.
MkTurn ==
  /\ app # NoAppend /\ app.n > 0
  /\ LET fbn == app.off \div BSIZE
         n1 == Least(app.n, (fbn + 1) * BSIZE - app.off)
         r == FileBlock(img, app.inum, fbn)
         at == app.off - fbn * BSIZE IN
     /\ img' = [r.g EXCEPT !.blk[r.x] = [k \in 0..BSIZE-1 |-> IF k >= at /\ k < at + n1 THEN app.v ELSE @[k]]]
     /\ app' = [app EXCEPT !.off = @ + n1, !.n = @ - n1]
  /\ UNCHANGED <<todo, host>>

MkAppended ==
  /\ app # NoAppend /\ app.n = 0
  /\ img' = [img EXCEPT !.ino[app.inum].size = app.off]
  /\ app' = NoAppend
  /\ UNCHANGED <<todo, host>>

\* The end of main(): the root directory's size goes up to the end of its last
\* block, and balloc() marks the blocks in use.
RoundUp_More(size) == ((size \div BSIZE) + 2) * BSIZE
RoundUp(size) == ((size \div BSIZE) + 1) * BSIZE

MkFinish ==
  /\ app = NoAppend /\ todo = <<>> /\ img.bitmap = {}
  /\ img' = [img EXCEPT !.ino[ROOTINO].size = RoundUp(@), !.bitmap = 0..(img.freeblock - 1)]
  /\ UNCHANGED <<todo, app, host>>

MkNext == MkNextAppend \/ MkTurn \/ MkAppended \/ MkFinish

-----------------------------------------------------------------------------
(* Properties. *)

\* Inode i of the image as the kernel sees it.
Kernel(i) == [addrs |-> img.ino[i].addrs, size |-> img.ino[i].size, used |-> img.bitmap \cap Blocks,
              blk |-> img.blk, log |-> {}, ret |-> 0]

Leads(i) == LET s == Kernel(i) IN Direct(s) \cup Indirect(s) \cup ({s.addrs[NDIRECT]} \ {0})

\* The kernel reads from a finished image what mkfs put in: each host file's
\* bytes, and in the root directory one entry for each file and zeroes; the
\* bitmap marks the metadata and the blocks that inodes lead to, no block
\* belongs to two of them, and no block below a size is missing, so that
\* reading allocates nothing.  (The last part needs a root directory that does
\* not end exactly at the end of a block; the Makefile's does not.)
ImageReadable ==
  img.bitmap # {} =>
    /\ \A k \in 1..Len(host) :
         Readi(Kernel(k + 1), 0, host[k]) = [j \in 1..host[k] |-> 100 + k]
    /\ Readi(Kernel(ROOTINO), 0, img.ino[ROOTINO].size) =
         [j \in 1..img.ino[ROOTINO].size |->
            IF j <= 2 THEN ROOTINO ELSE IF j <= Len(host) + 2 THEN j - 1 ELSE 0]
    /\ img.bitmap = 0..NMETA-1 \cup UNION {Leads(i) : i \in DOMAIN img.ino}
    /\ \A i, j \in DOMAIN img.ino : i # j => Leads(i) \cap Leads(j) = {}
    /\ \A i \in DOMAIN img.ino : \A o \in 0..img.ino[i].size-1 :
         Bmap(Kernel(i), o \div BSIZE).used = img.bitmap \cap Blocks
=============================================================================
