------------------------------ MODULE MCKernel ------------------------------
(***************************************************************************)
(* Memory with two processes competing for a few pages, and the buffer     *)
(* cache.  The two share no variable, so a behaviour runs one of them.     *)
(***************************************************************************)
EXTENDS BufferCache, Sequences, TLC

CONSTANTS p1, p2, Slots, initproc, NPAGES, PGSIZE, NPTE, UINTMOD, SbrkArgs, Images, MAXARG,
          None, n1, n2, n3

VARIABLES
  part,  \* the part that runs
  free, st, tf, pt, sz, at, l, panic

memoryVars == <<free, st, tf, pt, sz, at, l, panic>>

M == INSTANCE Memory WITH Procs <- Slots, pc <- at

ASSUME CacheAssumption == CacheConstants

ASSUME MemoryAssumption == M!MemoryConstants

Seg(kind, end) == [kind |-> kind, end |-> end]

(* A small program; one with a header to skip, a second segment that ends  *)
(* below the first and a bad one; and one that is rejected after its       *)
(* memory was allocated.                                                   *)
const_Images == {<<Seg("ok", 3)>>,
                 <<Seg("skip", 0), Seg("ok", 5), Seg("ok", 1), Seg("early", 6)>>,
                 <<Seg("ok", 1), Seg("late", 3)>>}

const_SbrkArgs == {-3, 1}

(* With n1, a block of the log, say, in use, another block is taken; never *)
(* the other way round, or two processes could wait for each other.        *)
const_Under == {<<n1, n2>>, <<n1, n3>>}

(* The processes that use the cache are interchangeable. *)
Sym == Permutations(Procs)

MCInit == part \in {"memory", "cache"} /\ Init /\ M!Init

MCNext ==
  \/ part = "memory" /\ M!Next /\ UNCHANGED <<part, vars>>
  \/ part = "cache" /\ Next /\ UNCHANGED <<part, memoryVars>>

MCSpec == MCInit /\ [][MCNext]_<<part, vars, memoryVars>>

(* The memory in every state, whatever allocation failed before: the pages *)
(* add up, p->sz says what is mapped, and nothing in vm.c has panicked.    *)
MemorySound == M!MemorySound

(* A process starts, and goes on, with a whole image, after fork() and     *)
(* after exec(), also when they fail.                                      *)
WholeImages == M!WholeImages

=============================================================================
