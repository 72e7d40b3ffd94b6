------------------------------- MODULE Umalloc -------------------------------
(***************************************************************************)
(* malloc() and free(), user/umalloc.c: a circular list of free blocks in  *)
(* address order, in a heap that grows by sbrk().                          *)
(*                                                                         *)
(* An address counts units of one Header.  Address 0 is `base', which is   *)
(* below the heap.  A block is known by the address of its header; only    *)
(* headers of blocks have a value, the rest of the heap is the program's.  *)
(***************************************************************************)
EXTENDS Integers, FiniteSets, FiniteSetsExt, Functions, TLC

CONSTANTS
  HEADER,      \* sizeof(Header)
  NALLOC,      \* least number of units that morecore() asks for (4096)
  HEAPEND,     \* address at which sbrk() fails
  MallocSizes, \* requests of the program, in bytes
  MAXHELD      \* bound: blocks the program holds

VARIABLES
  list,    \* free block -> its size and ptr; base is always one
  freep,   \* -1 until the first call
  used,    \* block of the program -> its size, and the bytes asked for
  brk,     \* end of the heap
  own      \* units the program got with sbrk() itself

mvars == <<list, freep, used, brk, own>>

base == 0

MInit ==
  /\ list = (base :> [size |-> 0, ptr |-> base])
  /\ freep = -1 /\ used = <<>> /\ brk = 1 /\ own = {}

\* The block k steps after `from' on list l.
Along(l, from, k) ==
  LET at[j \in 0..k] == IF j = 0 THEN from ELSE l[at[j - 1]].ptr IN at[k]

\* Where the loop of free() stops: the block after which bp goes.
Stops(l, p, bp) ==
  \/ bp > p /\ bp < l[p].ptr
  \/ p >= l[p].ptr /\ (bp > p \/ bp < l[p].ptr)

Predecessor(l, from, bp) ==
  Along(l, from, Min({k \in 0..Cardinality(DOMAIN l) : Stops(l, Along(l, from, k), bp)}))

\* The end of free(): join bp, of n units, to the block after it and to p.
JoinUp_Not(l, p, bp, n) == (bp :> [size |-> n, ptr |-> l[p].ptr]) @@ l

JoinUp(l, p, bp, n) ==
  LET next == l[p].ptr IN
  IF bp + n = next
  THEN (bp :> [size |-> n + l[next].size, ptr |-> l[next].ptr]) @@ Restrict(l, DOMAIN l \ {next})
  ELSE (bp :> [size |-> n, ptr |-> next]) @@ l

JoinDown(l, p, bp) ==
  IF p + l[p].size = bp
  THEN [Restrict(l, DOMAIN l \ {bp}) EXCEPT ![p] = [size |-> @.size + l[bp].size, ptr |-> l[bp].ptr]]
  ELSE [l EXCEPT ![p].ptr = bp]

Freed(h, bp, n) ==
  LET p == Predecessor(h.list, h.freep, bp) IN
  [list |-> JoinDown(JoinUp(h.list, p, bp, n), p, bp), freep |-> p]

\* The number of steps after which the loop of malloc() finds n units.
Fits(h, n) == {k \in 1..Cardinality(DOMAIN h.list) : h.list[Along(h.list, h.freep, k)].size >= n}

\* Take n units: the whole block, or its tail.
Taken(h, n) ==
  LET k == Min(Fits(h, n))
      prev == Along(h.list, h.freep, k - 1)
      p == h.list[prev].ptr
      left == h.list[p].size - n IN
  [at |-> p + left, freep |-> prev,
   list |-> IF left = 0 THEN [Restrict(h.list, DOMAIN h.list \ {p}) EXCEPT ![prev].ptr = h.list[p].ptr]
            ELSE [h.list EXCEPT ![p].size = left]]

Units(nbytes) == (nbytes + HEADER - 1) \div HEADER + 1

TakeUnits(h, n, nbytes) ==
  LET t == Taken(h, n) IN
  /\ list' = t.list /\ freep' = t.freep
  /\ used' = (t.at :> [size |-> n, bytes |-> nbytes]) @@ used

\* malloc(), with morecore() if no block is large enough.
Malloc(nbytes) ==
  LET n == Units(nbytes)
      h == [list |-> list, freep |-> IF freep = -1 THEN base ELSE freep]
      nu == IF n < NALLOC THEN NALLOC ELSE n IN
  /\ Cardinality(DOMAIN used) < MAXHELD /\ UNCHANGED own
  /\ \/ Fits(h, n) # {} /\ TakeUnits(h, n, nbytes) /\ UNCHANGED brk
     \/ /\ Fits(h, n) = {} /\ brk + nu <= HEAPEND
        /\ brk' = brk + nu
        /\ TakeUnits(Freed(h, brk, nu), n, nbytes)
     \/ /\ Fits(h, n) = {} /\ brk + nu > HEAPEND           \* returns 0
        /\ freep' = h.freep /\ UNCHANGED <<list, used, brk>>

Free(bp) ==
  LET h == Freed([list |-> list, freep |-> freep], bp, used[bp].size) IN
  /\ list' = h.list /\ freep' = h.freep
  /\ used' = Restrict(used, DOMAIN used \ {bp})
  /\ UNCHANGED <<brk, own>>

\* The program may move the break itself, so that the heap has gaps.
Sbrk == brk < HEAPEND /\ brk' = brk + 1 /\ own' = own \cup {brk} /\ UNCHANGED <<list, freep, used>>

MNext ==
  \/ \E b \in MallocSizes : Malloc(b)
  \/ \E bp \in DOMAIN used : Free(bp)
  \/ Sbrk

-----------------------------------------------------------------------------
(* Properties. *)

Block(a, n) == a..a+n-1

\* Every unit of the heap belongs to exactly one block, free or in use, or to
\* the program's own sbrk(); a block in use has room for what was asked for
\* beside its header.  A double use would be silent corruption in any program.
HeapTiled ==
  /\ \A u \in 1..brk-1 :
       Cardinality({a \in DOMAIN list : u \in Block(a, list[a].size)})
       + Cardinality({a \in DOMAIN used : u \in Block(a, used[a].size)})
       + (IF u \in own THEN 1 ELSE 0) = 1
  /\ \A a \in DOMAIN used : (used[a].size - 1) * HEADER >= used[a].bytes

\* The free list is one circle through every free block in address order, and
\* no two neighbours touch: free() merges on both sides, whatever the order of
\* the frees and wherever freep was left.
FreeListSorted ==
  LET n == Cardinality(DOMAIN list) IN
  /\ \A k \in 1..n-1 : Along(list, base, k - 1) < Along(list, base, k)
  /\ Along(list, base, n) = base
  /\ freep \in DOMAIN list \cup {-1}
  /\ \A a \in DOMAIN list \ {base} : a + list[a].size # list[a].ptr

\* malloc() and free() keep the heap: no unit is lost or used twice, and the
\* free list is a sorted circle of blocks that do not touch.
HeapSound == HeapTiled /\ FreeListSorted
=============================================================================
