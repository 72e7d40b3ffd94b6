---------------------------- MODULE BufferCache ----------------------------
(***************************************************************************)
(* The buffer cache of kernel/bio.c with the sleep-locks of                *)
(* kernel/sleeplock.c: bget, bread, bwrite, brelse, bpin and bunpin, one   *)
(* action for each stretch of code under one spin-lock.                    *)
(*                                                                         *)
(* A process uses up to two buffers at a time, as the callers of bread()   *)
(* do: install_trans() and write_log() hold a block of the log with its    *)
(* home block, bmap() and itrunc() an indirect block with what balloc()    *)
(* and bfree() read.  A changed buffer is written, pinned or neither: what *)
(* writei() copied before a failing either_copyin() is just released.      *)
(*                                                                         *)
(* A definition X_Y is a faulty variant of X, kept to see that a property  *)
(* notices the fault; no specification uses it.                            *)
(***************************************************************************)
EXTENDS Integers, FiniteSets, Functions

CONSTANTS Procs,    \* processes that use the cache
          Blocks,   \* disk blocks
          Values,   \* contents a block can have
          InitVal,  \* their contents at boot
          NBUF,     \* number of buffers
          MAXPIN,   \* most blocks the log pins at a time (LOGSIZE in param.h)
          Under,    \* pairs of blocks: the second is taken with the first in use
          NoProc,   \* "the sleep-lock is free"
          NoBlock   \* block number of a buffer that was never used

(* The uses of buffers: each process has two. *)
Uses == Procs \X {1, 2}
Other(u) == <<u[1], 3 - u[2]>>

CacheConstants ==
  /\ IsFiniteSet(Procs)
  /\ NBUF \in Nat \ {0}
  /\ MAXPIN \in Nat
  /\ InitVal \in Values
  /\ NoProc \notin Uses
  /\ NoBlock \notin Blocks

VARIABLES
  disk,      \* [Blocks -> Values]
  lru,       \* the list bcache.head, most recently used first
  blockno,   \* [Bufs -> Blocks or NoBlock]
  valid,     \* [Bufs -> BOOLEAN], has data been read from disk?
  refcnt,    \* [Bufs -> Nat]
  holder,    \* [Bufs -> Uses or NoProc], b->lock.locked and its pid
  data,      \* [Bufs -> Values]
  pinned,    \* blocks the log has pinned
  pc,        \* [Uses -> PCs]
  cur,       \* [Uses -> Bufs], local b of bread() and its caller
  want       \* [Uses -> Blocks or NoBlock], the block bread() was called for

Bufs == 1..NBUF
cachevars == <<lru, blockno, refcnt>>
vars == <<disk, lru, blockno, valid, refcnt, holder, data, pinned, pc, cur, want>>

(* A process is in one function of the cache at a time: when it is in one  *)
(* for the use u, its other buffer is released or lies in its hands.       *)
Turn(u) == pc[Other(u)] \in {"idle", "use"}

(* A process calls bread() for its first buffer, or for one that is taken  *)
(* with the other in use.                                                  *)
Takes(u, n) ==
  /\ pc[u] = "idle"
  /\ IF pc[Other(u)] = "use" THEN <<want[Other(u)], n>> \in Under ELSE u[2] = 1

(* "lock": in acquiresleep(); "asleep": in its sleep(); "fill": in bread() *)
(* with the lock; "use": bread() has returned; "rel": in brelse(), between *)
(* releasesleep() and acquire(&bcache.lock).                               *)
PCs == {"idle", "lock", "asleep", "fill", "use", "rel"}

(* binit() *)
Init ==
  /\ disk = [n \in Blocks |-> InitVal]
  /\ lru = [i \in Bufs |-> NBUF + 1 - i]
  /\ blockno = [b \in Bufs |-> NoBlock]
  /\ valid = [b \in Bufs |-> FALSE]
  /\ refcnt = [b \in Bufs |-> 0]
  /\ holder = [b \in Bufs |-> NoProc]
  /\ data = [b \in Bufs |-> InitVal]
  /\ pinned = {}
  /\ pc = [u \in Uses |-> "idle"]
  /\ cur = [u \in Uses |-> 1]
  /\ want = [u \in Uses |-> NoBlock]

-----------------------------------------------------------------------------
(* bget() *)

Cached(n) == \E b \in Bufs : blockno[b] = n

(* The least recently used buffer that nobody refers to: the first with    *)
(* refcnt 0 on the way from head.prev.                                     *)
Unused == {i \in DOMAIN lru : refcnt[lru[i]] = 0}
Victim == lru[CHOOSE i \in Unused : \A j \in Unused : j <= i]

(* Is the block already cached? *)
BgetCached(u, n) ==
  /\ Takes(u, n)
  /\ \E b \in Bufs :
       /\ blockno[b] = n
       /\ refcnt' = [refcnt EXCEPT ![b] = @ + 1]
       /\ cur' = [cur EXCEPT ![u] = b]
  /\ want' = [want EXCEPT ![u] = n]
  /\ pc' = [pc EXCEPT ![u] = "lock"]
  /\ UNCHANGED <<disk, lru, blockno, valid, holder, data, pinned>>

(* Not cached: recycle the least recently used unused buffer.  With none,  *)
(* bget() panics and the process stops.                                    *)
BgetRecycle_KeepsValid(u, n) ==
  /\ Takes(u, n)
  /\ ~Cached(n)
  /\ Unused # {}
  /\ LET b == Victim IN
       /\ blockno' = [blockno EXCEPT ![b] = n]
       /\ refcnt' = [refcnt EXCEPT ![b] = 1]
       /\ cur' = [cur EXCEPT ![u] = b]
  /\ want' = [want EXCEPT ![u] = n]
  /\ pc' = [pc EXCEPT ![u] = "lock"]
  /\ UNCHANGED <<disk, lru, valid, holder, data, pinned>>
BgetRecycle(u, n) ==
  /\ Takes(u, n)
  /\ ~Cached(n)
  /\ Unused # {}
  /\ LET b == Victim IN
       /\ blockno' = [blockno EXCEPT ![b] = n]
       /\ valid' = [valid EXCEPT ![b] = FALSE]
       /\ refcnt' = [refcnt EXCEPT ![b] = 1]
       /\ cur' = [cur EXCEPT ![u] = b]
  /\ want' = [want EXCEPT ![u] = n]
  /\ pc' = [pc EXCEPT ![u] = "lock"]
  /\ UNCHANGED <<disk, lru, holder, data, pinned>>

(* One turn of the loop of acquiresleep(&b->lock), under its spin-lock. *)
AcquireSleep_NoTest(u) ==
  /\ pc[u] = "lock"
  /\ holder' = [holder EXCEPT ![cur[u]] = u]
  /\ pc' = [pc EXCEPT ![u] = "fill"]
  /\ UNCHANGED <<disk, cachevars, valid, data, pinned, cur, want>>
AcquireSleep(u) ==
  /\ pc[u] = "lock"
  /\ \/ /\ holder[cur[u]] # NoProc
        /\ pc' = [pc EXCEPT ![u] = "asleep"]
        /\ UNCHANGED holder
     \/ /\ holder[cur[u]] = NoProc
        /\ holder' = [holder EXCEPT ![cur[u]] = u]
        /\ pc' = [pc EXCEPT ![u] = "fill"]
  /\ UNCHANGED <<disk, cachevars, valid, data, pinned, cur, want>>

(* The rest of bread(): read the disk unless the buffer is valid. *)
Fill(u) ==
  /\ pc[u] = "fill"
  /\ data' = [data EXCEPT ![cur[u]] = IF valid[cur[u]] THEN @ ELSE disk[blockno[cur[u]]]]
  /\ valid' = [valid EXCEPT ![cur[u]] = TRUE]
  /\ pc' = [pc EXCEPT ![u] = "use"]
  /\ UNCHANGED <<disk, cachevars, holder, pinned, cur, want>>

-----------------------------------------------------------------------------
(* What the caller of bread() does with its buffer. *)

Modify(u, v) ==
  /\ pc[u] = "use"
  /\ data' = [data EXCEPT ![cur[u]] = v]
  /\ UNCHANGED <<disk, cachevars, valid, holder, pinned, pc, cur, want>>

Bwrite(u) ==
  /\ pc[u] = "use"
  /\ disk' = [disk EXCEPT ![blockno[cur[u]]] = data[cur[u]]]
  /\ UNCHANGED <<cachevars, valid, holder, data, pinned, pc, cur, want>>

(* log_write(): bpin() unless the block is in the transaction already. *)
Bpin(u) ==
  /\ pc[u] = "use"
  /\ Cardinality(pinned \cup {want[u]}) <= MAXPIN
  /\ refcnt' = [refcnt EXCEPT ![cur[u]] = IF want[u] \in pinned THEN @ ELSE @ + 1]
  /\ pinned' = pinned \cup {want[u]}
  /\ UNCHANGED <<disk, lru, blockno, valid, holder, data, pc, cur, want>>

(* install_trans(): bwrite() and bunpin() of a block of the transaction. *)
BwriteBunpin(u) ==
  /\ pc[u] = "use"
  /\ want[u] \in pinned
  /\ disk' = [disk EXCEPT ![blockno[cur[u]]] = data[cur[u]]]
  /\ refcnt' = [refcnt EXCEPT ![cur[u]] = @ - 1]
  /\ pinned' = pinned \ {want[u]}
  /\ UNCHANGED <<lru, blockno, valid, holder, data, pc, cur, want>>

(* releasesleep(&b->lock) frees the lock and wakes up all that wait for it. *)
Woken(b) == [w \in Uses |-> IF pc[w] = "asleep" /\ cur[w] = b THEN "lock" ELSE pc[w]]

BrelseUnlock(u) ==
  /\ pc[u] = "use"
  /\ holder' = [holder EXCEPT ![cur[u]] = NoProc]
  /\ pc' = [Woken(cur[u]) EXCEPT ![u] = "rel"]
  /\ UNCHANGED <<disk, cachevars, valid, data, pinned, cur, want>>

(* The rest of brelse(), under bcache.lock: the last reference gone, the   *)
(* buffer moves to the front of the list.  The caller's locals are dead.   *)
MoveToFront(b) ==
  LET k == CHOOSE i \in Bufs : lru[i] = b
  IN  [i \in Bufs |-> IF i = 1 THEN b ELSE IF i <= k THEN lru[i - 1] ELSE lru[i]]

BrelseUnref(u) ==
  /\ pc[u] = "rel"
  /\ refcnt' = [refcnt EXCEPT ![cur[u]] = @ - 1]
  /\ lru' = IF refcnt[cur[u]] = 1 THEN MoveToFront(cur[u]) ELSE lru
  /\ pc' = [pc EXCEPT ![u] = "idle"]
  /\ cur' = [cur EXCEPT ![u] = 1]
  /\ want' = [want EXCEPT ![u] = NoBlock]
  /\ UNCHANGED <<disk, blockno, valid, holder, data, pinned>>

-----------------------------------------------------------------------------
Step(u) ==
  \/ \E n \in Blocks : BgetCached(u, n) \/ BgetRecycle(u, n)
  \/ AcquireSleep(u) \/ Fill(u)
  \/ Bwrite(u) \/ Bpin(u) \/ BwriteBunpin(u) \/ BrelseUnlock(u) \/ BrelseUnref(u)
  \/ \E v \in Values : Modify(u, v)

Next == \E u \in Uses : Turn(u) /\ Step(u)

Spec == Init /\ [][Next]_vars

-----------------------------------------------------------------------------
(* The types of the buffers and of the list, which holds every buffer. *)
TypeOK ==
  /\ disk \in [Blocks -> Values]
  /\ lru \in [Bufs -> Bufs] /\ IsInjective(lru)
  /\ blockno \in [Bufs -> Blocks \cup {NoBlock}]
  /\ valid \in [Bufs -> BOOLEAN]
  /\ refcnt \in [Bufs -> Nat]
  /\ holder \in [Bufs -> Uses \cup {NoProc}]
  /\ data \in [Bufs -> Values]
  /\ pinned \in SUBSET Blocks
  /\ pc \in [Uses -> PCs]
  /\ cur \in [Uses -> Bufs]
  /\ want \in [Uses -> Blocks \cup {NoBlock}]

(* Only one process at a time can use a block, although bget() hands out   *)
(* buffers before their sleep-locks are taken and recycles them for other  *)
(* blocks: no block is in use twice, and the buffer is that block's.       *)
ExclusiveUse ==
  \A u \in Uses : pc[u] = "use" =>
    /\ blockno[cur[u]] = want[u] /\ valid[cur[u]] /\ holder[cur[u]] = u
    /\ \A w \in Uses \ {u} : pc[w] = "use" => want[w] # want[u]

(* A reference count is exactly what refers to the buffer: the processes   *)
(* on their way from bget() to the end of brelse() and the log's pin.      *)
RefcntExact ==
  \A b \in Bufs :
    refcnt[b] = Cardinality({u \in Uses : pc[u] # "idle" /\ cur[u] = b})
                + (IF blockno[b] \in pinned THEN 1 ELSE 0)

(* No lost wakeup: a process sleeps for a buffer only while it is locked. *)
NoLostWakeup == \A u \in Uses : pc[u] = "asleep" => holder[cur[u]] # NoProc

(* bget() finds a buffer, and does not panic with "no buffers", as long as *)
(* the buffers the processes use, up to two each, and the pins of the log  *)
(* are, together, fewer than the buffers: no use costs more than one.      *)
BufferLeft ==
  Cardinality({u \in Uses : pc[u] # "idle"}) + Cardinality(pinned) < NBUF => Unused # {}

(* The buffers in every state: one process at a time uses a block, a       *)
(* reference count is exact, no wakeup is lost and a buffer is left.       *)
BuffersSound == TypeOK /\ ExclusiveUse /\ RefcntExact /\ NoLostWakeup /\ BufferLeft

(* The cache implements a store of blocks without buffers: whatever is     *)
(* recycled in between, a reader gets what the last user left, unless that *)
(* one neither wrote nor pinned it: then it may get what the disk holds.   *)
Owner(n) ==
  IF \E u \in Uses : pc[u] = "use" /\ want[u] = n
  THEN CHOOSE u \in Uses : pc[u] = "use" /\ want[u] = n
  ELSE NoProc
Contents(n) ==
  IF \E b \in Bufs : blockno[b] = n /\ valid[b]
  THEN data[CHOOSE b \in Bufs : blockno[b] = n /\ valid[b]]
  ELSE disk[n]

Store == INSTANCE BlockStore WITH
  Users <- Uses,
  owner <- [n \in Blocks |-> Owner(n)],
  view <- [n \in Blocks |-> Contents(n)],
  home <- disk,
  kept <- pinned

(* The cache is a block store (see the comment at Owner). *)
StoresBlocks == Store!Spec
=============================================================================
