------------------------------ MODULE FileData ------------------------------
(***************************************************************************)
(* The content of one file: bmap(), balloc(), bfree(), itrunc(), readi()   *)
(* and writei() of kernel/fs.c under fileread() and filewrite() of         *)
(* kernel/file.c.  Two processes use it, through one struct file that they *)
(* share since a fork() and another one of the second process's own.       *)
(*                                                                         *)
(* What a process does under the inode's lock is one step (a read, a       *)
(* truncation) or, for a chunk of a write, WriteBegin, one WriteTurn per   *)
(* block and WriteEnd.  A write carries its number as its bytes, so that   *)
(* bytes of different writes, and bytes left in a block from before it was *)
(* freed, can be told apart.  A block is a function on 0..BSIZE-1; an      *)
(* indirect block holds one block number per place.                        *)
(***************************************************************************)
EXTENDS Integers, Sequences, FiniteSets, FiniteSetsExt

CONSTANTS Procs, Files,
          FilesOf,      \* process -> the files it has descriptors for
          BSIZE, NDIRECT, NBLOCKS, MAXOPBLOCKS,
          UINTMOD,      \* a uint is a number modulo this
          WriteSizes, ReadSizes,
          MAXWRITES     \* bound: write() and truncating open() calls

NINDIRECT == BSIZE
MAXFILE == NDIRECT + NINDIRECT
Blocks == 1..NBLOCKS
Inode == -1
Bitmap == -2

VARIABLES
  st,       \* the inode (addrs, size), the blocks, the bitmap (used), and the
            \* blocks logged by the current operation; ret: what a call returned
  off,      \* f->off
  w,        \* process -> the write() it is in
  lock,     \* the process that is in writei(), 0: none
  turn,     \* writei()'s off, and n - tot
  calls,    \* history: writes and truncations so far
  content,  \* history: the bytes the file should hold
  unsure    \* history: positions under a copy from user memory that failed

fdvars == <<st, off, w, lock, turn, calls, content, unsure>>

NoWrite == [f |-> 0, n |-> 0, i |-> 0, ok |-> 0, byte |-> 0]

FInit ==
  /\ st = [addrs |-> [k \in 0..NDIRECT |-> 0], size |-> 0, used |-> {}, log |-> {}, ret |-> 0,
           blk |-> [b \in Blocks |-> [k \in 0..BSIZE-1 |-> 0]]]
  /\ off = [f \in Files |-> 0]
  /\ w = [p \in Procs |-> NoWrite]
  /\ lock = 0 /\ turn = [o |-> 0, n |-> 0]
  /\ calls = 0 /\ content = <<>> /\ unsure = {}

-----------------------------------------------------------------------------
(* Blocks. Each operator takes the state s and returns the next one.       *)

\* balloc(): the first free block, zeroed; the bitmap and the block are logged.
Balloc(s) == LET b == Min(Blocks \ s.used) IN
  [s EXCEPT !.used = @ \cup {b}, !.blk[b] = [k \in 0..BSIZE-1 |-> 0],
            !.log = @ \cup {Bitmap, b}, !.ret = b]

Bfree(s, bs) == [s EXCEPT !.used = @ \ bs, !.log = @ \cup {Bitmap}]

\* The address in place k of ip->addrs, allocated if it is 0.
Addr(s, k) == IF s.addrs[k] # 0 THEN [s EXCEPT !.ret = s.addrs[k]]
              ELSE LET t == Balloc(s) IN [t EXCEPT !.addrs[k] = t.ret]

Bmap(s, bn) ==
  IF bn < NDIRECT THEN Addr(s, bn)
  ELSE LET t == Addr(s, NDIRECT)
           a == t.ret
           k == bn - NDIRECT IN
       IF t.blk[a][k] # 0 THEN [t EXCEPT !.ret = t.blk[a][k]]
       ELSE LET u == Balloc(t) IN [u EXCEPT !.blk[a][k] = u.ret, !.log = @ \cup {a}]

Direct(s) == {s.addrs[k] : k \in 0..NDIRECT-1} \ {0}
Indirect(s) == IF s.addrs[NDIRECT] = 0 THEN {}
               ELSE {s.blk[s.addrs[NDIRECT]][k] : k \in 0..BSIZE-1} \ {0}

Itrunc_KeepIndirect(s) ==
  [Bfree(s, Direct(s) \cup Indirect(s)) EXCEPT
     !.addrs = [k \in 0..NDIRECT |-> 0], !.size = 0, !.log = @ \cup {Inode}]

Itrunc(s) ==
  [Bfree(s, Direct(s) \cup Indirect(s) \cup ({s.addrs[NDIRECT]} \ {0})) EXCEPT
     !.addrs = [k \in 0..NDIRECT |-> 0], !.size = 0, !.log = @ \cup {Inode}]

-----------------------------------------------------------------------------
(* readi() and writei(). *)

Least(a, b) == IF a < b THEN a ELSE b
Uint(x) == x % UINTMOD

\* The loop of readi(): n bytes from offset o on, block by block.
ReadLoop(s, o, n) ==
  LET left[k \in 0..n] ==
        IF k = 0 THEN <<>>
        ELSE LET at == o + n - k
                 m == Least(k, BSIZE - (at % BSIZE))
                 b == Bmap(s, at \div BSIZE).ret IN
             [j \in 1..m |-> s.blk[b][(at % BSIZE) + j - 1]] \o left[k - m]
  IN left[n]

Readi(s, o, n) ==
  LET u == Uint(n) IN
  IF o > s.size \/ Uint(o + u) < o THEN <<>>
  ELSE ReadLoop(s, o, IF Uint(o + u) > s.size THEN s.size - o ELSE u)

Refused(s, o, n) == o > s.size \/ Uint(o + n) < o \/ Uint(o + n) > MAXFILE * BSIZE

-----------------------------------------------------------------------------
(* fileread(), filewrite(), and open() with O_TRUNC. *)

\* The bytes a transaction may write: MAXOPBLOCKS less the inode, the indirect
\* block and two for a write that is not aligned, half of it for the bitmap.
MaxChunk_Whole == MAXOPBLOCKS * BSIZE

MaxChunk == ((MAXOPBLOCKS - 1 - 1 - 2) \div 2) * BSIZE

\* The user's buffer is good, or its second half is not mapped.
Mapped(n) == {n, n \div 2}

WriteCall(p) ==
  /\ w[p] = NoWrite /\ calls < MAXWRITES
  /\ calls' = calls + 1
  /\ \E f \in FilesOf[p], n \in WriteSizes : \E ok \in Mapped(n) :
       w' = [w EXCEPT ![p] = [f |-> f, n |-> n, i |-> 0, ok |-> ok, byte |-> calls']]
  /\ UNCHANGED <<st, off, lock, turn, content, unsure>>

Overwrite(c, o, n, v) ==
  [k \in 1..(IF o + n > Len(c) THEN o + n ELSE Len(c)) |->
     IF k > o /\ k <= o + n THEN v ELSE c[k]]

Chunk(c) == Least(c.n - c.i, MaxChunk)

\* A chunk starts: begin_op(), ilock(), the tests of writei().
WriteBegin(p) ==
  /\ w[p] # NoWrite /\ lock = 0
  /\ LET c == w[p] IN
     IF Refused(st, off[c.f], Chunk(c))
       THEN /\ w' = [w EXCEPT ![p] = NoWrite]
            /\ UNCHANGED <<st, lock, turn>>
       ELSE /\ lock' = p /\ turn' = [o |-> off[c.f], n |-> Chunk(c)]
            /\ st' = [st EXCEPT !.log = {}]
            /\ w' = w
  /\ UNCHANGED <<off, calls, content, unsure>>

\* A turn of writei()'s loop.  The block under a failing copy keeps what was
\* copied, unlogged, and the loop ends.
WriteTurn(p) ==
  /\ lock = p /\ turn.n > 0
  /\ LET c == w[p]
         at == turn.o % BSIZE
         m == Least(turn.n, BSIZE - at)
         good == Least(m, c.ok)
         t == Bmap(st, turn.o \div BSIZE)
         u == [t EXCEPT !.blk[t.ret] = [k \in 0..BSIZE-1 |->
                 IF k >= at /\ k < at + good THEN c.byte ELSE @[k]]] IN
     IF good = m
       THEN /\ st' = [u EXCEPT !.log = @ \cup {t.ret}, !.ret = 0]
            /\ turn' = [o |-> turn.o + m, n |-> turn.n - m]
            /\ w' = [w EXCEPT ![p].ok = @ - m]
            /\ unsure' = {k \in unsure : k < turn.o \/ k >= turn.o + m}
       ELSE /\ st' = [u EXCEPT !.ret = 0]
            /\ turn' = [turn EXCEPT !.n = 0]
            /\ w' = w
            /\ unsure' = unsure \cup {k \in turn.o .. turn.o + good - 1 : k < st.size}
  /\ UNCHANGED <<off, lock, calls, content>>

\* The size after a write of chunk c that got to turn.o.
NewSize_Asked(size, c) == IF off[c.f] + Chunk(c) > size THEN off[c.f] + Chunk(c) ELSE size
NewSize(size, c) == IF turn.o > size THEN turn.o ELSE size

\* The rest of writei() and of filewrite()'s loop: the size, iupdate() in any
\* case, f->off, iunlock(), end_op(); a short count ends the call.
WriteEnd(p) ==
  /\ lock = p /\ turn.n = 0
  /\ LET c == w[p]
         r == turn.o - off[c.f] IN
     /\ st' = [st EXCEPT !.size = NewSize(@, c), !.log = @ \cup {Inode}]
     /\ off' = [off EXCEPT ![c.f] = turn.o]
     /\ w' = [w EXCEPT ![p] = IF r # Chunk(c) \/ c.i + r = c.n THEN NoWrite
                              ELSE [c EXCEPT !.i = @ + r]]
     /\ content' = Overwrite(content, off[c.f], r, c.byte)
  /\ lock' = 0 /\ turn' = [o |-> 0, n |-> 0]
  /\ UNCHANGED <<calls, unsure>>

FileRead(p) ==
  /\ w[p] = NoWrite /\ lock = 0
  /\ \E f \in FilesOf[p], n \in ReadSizes :
       off' = [off EXCEPT ![f] = @ + Len(Readi(st, off[f], n))]
  /\ UNCHANGED <<st, w, lock, turn, calls, content, unsure>>

OpenTrunc(p) ==
  /\ w[p] = NoWrite /\ lock = 0 /\ calls < MAXWRITES
  /\ calls' = calls + 1
  /\ st' = Itrunc([st EXCEPT !.log = {}])
  /\ content' = <<>> /\ unsure' = {}
  /\ UNCHANGED <<off, w, lock, turn>>

FNext ==
  \E p \in Procs :
    WriteCall(p) \/ WriteBegin(p) \/ WriteTurn(p) \/ WriteEnd(p) \/ FileRead(p) \/ OpenTrunc(p)

-----------------------------------------------------------------------------
(* Properties. *)

\* readi() returns the bytes that writei() said it wrote, at the places the
\* shared and the private offset had then, wherever they lie in direct and
\* indirect blocks; only under a copy that failed may it return something else.
ReadsAreWrites == lock = 0 =>
  /\ st.size = Len(content)
  /\ \A o \in 0..st.size-1 : LET got == Readi(st, o, st.size - o) IN
       /\ Len(got) = st.size - o
       /\ \A k \in 1..Len(got) : o + k - 1 \notin unsure => got[k] = content[o + k]

\* The bitmap marks exactly the blocks the inode leads to, no block has two
\* places, and every block below the size is there, so that readi() never
\* allocates: whatever failed, nothing leaks and nothing is shared.
BlocksExact ==
  LET ind == st.addrs[NDIRECT]
      places == {<<"d", k>> : k \in {k \in 0..NDIRECT : st.addrs[k] # 0}}
        \cup {<<"i", k>> : k \in {k \in 0..BSIZE-1 : ind # 0 /\ st.blk[ind][k] # 0}} IN
  /\ st.used = Direct(st) \cup Indirect(st) \cup ({ind} \ {0})
  /\ Cardinality(places) = Cardinality(st.used)
  /\ \A o \in 0..st.size-1 : Bmap(st, o \div BSIZE).used = st.used

\* Every transaction of filewrite() logs fewer blocks than the MAXOPBLOCKS that
\* begin_op() reserved for it; log_write() needs the one that is left over.
ChunkFitsLog == Cardinality(st.log) < MAXOPBLOCKS
=============================================================================
