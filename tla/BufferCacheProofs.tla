------------------------- MODULE BufferCacheProofs -------------------------
(***************************************************************************)
(* Proofs about the buffer cache of module BufferCache, for any number of  *)
(* processes, blocks and buffers: the buffers are sound in every state,    *)
(* and the cache implements the block store of module BlockStore.  A       *)
(* process uses up to two buffers at a time.                               *)
(***************************************************************************)
EXTENDS BufferCache, FiniteSetTheorems, WellFoundedInduction, TLAPS

(* The uses that refer to a buffer. *)
Users(b) == {u \in Uses : pc[u] # "idle" /\ cur[u] = b}

(* No block has two buffers, and what is pinned has one. *)
OneBuffer ==
  /\ \A b, c \in Bufs : blockno[b] = blockno[c] /\ blockno[b] # NoBlock => b = c
  /\ \A n \in pinned : \E b \in Bufs : blockno[b] = n
  /\ \A b \in Bufs : valid[b] => blockno[b] # NoBlock

(* A process refers to the buffer of the block it wants, and holds its     *)
(* sleep-lock from acquiresleep() to brelse().                             *)
Referring ==
  \A u \in Uses :
    /\ pc[u] # "idle" => want[u] \in Blocks /\ blockno[cur[u]] = want[u]
    /\ pc[u] \in {"fill", "use"} => holder[cur[u]] = u
    /\ pc[u] = "use" => valid[cur[u]]

(* The inductive invariant. *)
CInv == TypeOK /\ OneBuffer /\ Referring /\ RefcntExact /\ NoLostWakeup

-----------------------------------------------------------------------------
(* The processes' uses of buffers are finitely many. *)
LEMMA FiniteUses ==
  ASSUME CacheConstants
  PROVE  IsFiniteSet(Uses)
<1>1. IsFiniteSet({1, 2})
  <2>1. IsFiniteSet({1} \cup {2})
    BY FS_Singleton, FS_AddElement, Zenon
  <2>2. {1, 2} = {1} \cup {2}
    OBVIOUS
  <2> QED
    BY <2>1, <2>2, Zenon
<1> QED
  BY <1>1, FS_Product DEF Uses, CacheConstants

(* What a reference count says of the processes that refer to a buffer. *)
LEMMA Counted ==
  ASSUME CacheConstants, CInv
  PROVE  \A b \in Bufs :
           /\ IsFiniteSet(Users(b))
           /\ Cardinality(Users(b)) \in Nat
           /\ refcnt[b] = Cardinality(Users(b)) + (IF blockno[b] \in pinned THEN 1 ELSE 0)
<1> TAKE b \in Bufs
<1>1. IsFiniteSet(Users(b))
  BY FiniteUses, FS_Subset DEF Users
<1>2. Cardinality(Users(b)) \in Nat
  BY <1>1, FS_CardinalityType
<1> QED
  BY <1>1, <1>2 DEF CInv, RefcntExact, Users

(* A buffer with no references is nobody's, and not pinned. *)
LEMMA Unreferenced ==
  ASSUME CacheConstants, CInv, NEW b \in Bufs, refcnt[b] = 0
  PROVE  /\ blockno[b] \notin pinned
         /\ Users(b) = {}
         /\ \A u \in Uses : cur[u] = b => pc[u] = "idle"
<1>1. Cardinality(Users(b)) = 0 /\ blockno[b] \notin pinned
  BY Counted
<1>2. Users(b) = {}
  BY <1>1, Counted, FS_EmptySet
<1> QED
  BY <1>1, <1>2 DEF Users

(* A nonempty set of positions in the list has a last one. *)
LEMMA LastPosition ==
  ASSUME CacheConstants, NEW S \in SUBSET Bufs, S # {}
  PROVE  \E i \in S : \A j \in S : j <= i
<1> DEFINE T == {NBUF - i : i \in S}
           R == OpToRel(<, Nat)
<1>1. T \subseteq Nat /\ T # {}
  <2>1. PICK i \in S : TRUE
    OBVIOUS
  <2>2. NBUF - i \in T
    BY <2>1
  <2>3. \A j \in S : NBUF - j \in Nat
    BY DEF Bufs, CacheConstants
  <2> QED
    BY <2>2, <2>3
<1>2. \E x \in T : \A y \in T : ~(<<y, x>> \in R)
  <2> HIDE DEF T, R
  <2>1. IsWellFoundedOn(R, Nat)
    BY NatLessThanWellFounded DEF R
  <2> QED
    BY <1>1, <2>1, WFMin, Zenon
<1>3. PICK x \in T : \A y \in T : ~(<<y, x>> \in R)
  BY <1>2
<1>4. PICK i \in S : x = NBUF - i
  BY <1>3
<1>5. ASSUME NEW j \in S PROVE j <= i
  <2>1. NBUF - j \in T /\ ~(<<NBUF - j, x>> \in R)
    BY <1>3
  <2>2. ~(NBUF - j < x)
    BY <1>1, <2>1 DEF OpToRel
  <2> QED
    BY <1>4, <2>2 DEF Bufs, CacheConstants
<1> QED
  BY <1>5

(* bget() recycles a buffer without references. *)
LEMMA VictimIsFree ==
  ASSUME CacheConstants, TypeOK, Unused # {}
  PROVE  Victim \in Bufs /\ refcnt[Victim] = 0
<1>1. Unused \in SUBSET Bufs
  BY DEF Unused, TypeOK
<1>2. \E i \in Unused : \A j \in Unused : j <= i
  BY <1>1, LastPosition
<1>3. (CHOOSE i \in Unused : \A j \in Unused : j <= i) \in Unused
  BY <1>2
<1> QED
  BY <1>3 DEF Victim, Unused, TypeOK

(* Every buffer is in the list. *)
LEMMA EveryBufferListed ==
  ASSUME CacheConstants, TypeOK, NEW b \in Bufs
  PROVE  \E i \in Bufs : lru[i] = b
<1>1. IsFiniteSet(Bufs)
  BY FS_Interval DEF Bufs, CacheConstants
<1>2. lru \in Injection(Bufs, Bufs)
  BY DEF TypeOK, Injection
<1>3. lru \in Surjection(Bufs, Bufs)
  BY <1>1, <1>2, FS_Injection
<1> QED
  BY <1>3 DEF Surjection

(* brelse() permutes the list. *)
LEMMA MoveToFrontPermutes ==
  ASSUME CacheConstants, TypeOK, NEW b \in Bufs
  PROVE  MoveToFront(b) \in [Bufs -> Bufs] /\ IsInjective(MoveToFront(b))
<1> DEFINE k == CHOOSE i \in Bufs : lru[i] = b
<1>1. k \in Bufs /\ lru[k] = b
  BY EveryBufferListed
<1>2. lru \in [Bufs -> Bufs] /\ \A i, j \in Bufs : lru[i] = lru[j] => i = j
  BY DEF TypeOK, IsInjective
<1>3. MoveToFront(b) =
        [i \in Bufs |-> IF i = 1 THEN b ELSE IF i <= k THEN lru[i - 1] ELSE lru[i]]
  BY DEF MoveToFront
<1> DEFINE m == MoveToFront(b)
<1> HIDE DEF k, m
<1>4. \A i \in Bufs : i \in Nat /\ i >= 1 /\ (i # 1 => i - 1 \in Bufs)
  BY DEF Bufs, CacheConstants
<1>5. /\ DOMAIN m = Bufs
      /\ \A i \in Bufs : /\ i = 1 => m[i] = b
                         /\ i # 1 /\ i <= k => m[i] = lru[i - 1]
                         /\ i # 1 /\ i > k => m[i] = lru[i]
  BY <1>1, <1>3, <1>4 DEF m
<1>6. ASSUME NEW i \in Bufs PROVE m[i] \in Bufs
  <2>1. i \in Nat /\ k \in Nat /\ lru[i] \in Bufs /\ (i # 1 => lru[i - 1] \in Bufs)
    BY <1>1, <1>2, <1>4
  <2>2. m[i] \in {b, lru[i - 1], lru[i]} /\ (i = 1 => m[i] = b)
    BY <1>5, <2>1
  <2> QED
    BY <2>1, <2>2
<1>7. m \in [Bufs -> Bufs]
  <2>1. m = [i \in Bufs |-> m[i]]
    BY <1>3 DEF m
  <2> QED
    BY <1>6, <2>1
<1>8. ASSUME NEW i \in Bufs, NEW j \in Bufs, m[i] = m[j], i < j
      PROVE  FALSE
  <2> DEFINE f(x) == IF x <= k THEN x - 1 ELSE x
  <2>1. i # 1 => m[i] = lru[f(i)]
    BY <1>1, <1>4, <1>5
  <2>2. j # 1 /\ m[j] = lru[f(j)]
    <3>1. i \in Nat /\ j \in Nat /\ k \in Nat /\ i >= 1
      BY <1>1, <1>4
    <3> QED
      BY <1>5, <1>8, <3>1
  <2>3. f(j) \in Bufs /\ (i # 1 => f(i) \in Bufs)
    BY <1>4, <2>2
  <2> HIDE DEF f
  <2>4. i = 1 => f(j) = k
    BY <1>1, <1>2, <1>5, <1>8, <2>2, <2>3 DEF f
  <2>5. i # 1 => f(j) = f(i)
    BY <1>2, <1>8, <2>1, <2>2, <2>3 DEF f
  <2> USE DEF f
  <2> QED
    BY <1>1, <1>4, <1>8, <2>2, <2>4, <2>5
<1>9. \A i, j \in Bufs : m[i] = m[j] => i = j
  BY <1>4, <1>8
<1> QED
  BY <1>5, <1>7, <1>9 DEF IsInjective, m

-----------------------------------------------------------------------------
(* The invariant holds at boot. *)
LEMMA InitCInv ==
  ASSUME CacheConstants, Init
  PROVE  CInv
<1>1. lru \in [Bufs -> Bufs] /\ IsInjective(lru)
  BY DEF Init, Bufs, CacheConstants, IsInjective
<1>2. TypeOK
  BY <1>1 DEF TypeOK, Init, PCs, CacheConstants, Bufs
<1>3. RefcntExact
  <2>1. \A b \in Bufs : Users(b) = {}
    BY DEF Users, Init
  <2> QED
    BY <2>1, FS_EmptySet DEF RefcntExact, Users, Init
<1>4. OneBuffer /\ Referring /\ NoLostWakeup
  BY DEF OneBuffer, Referring, NoLostWakeup, Init
<1> QED
  BY <1>2, <1>3, <1>4 DEF CInv

(* A hit in the cache takes one more reference. *)
LEMMA BgetCachedInv ==
  ASSUME CacheConstants, CInv, NEW u \in Uses, NEW n \in Blocks, BgetCached(u, n)
  PROVE  CInv'
<1>1. PICK b \in Bufs : /\ blockno[b] = n
                        /\ refcnt' = [refcnt EXCEPT ![b] = @ + 1]
                        /\ cur' = [cur EXCEPT ![u] = b]
  BY Zenon DEF BgetCached
<1>2. TypeOK /\ pc[u] = "idle" /\ pc' = [pc EXCEPT ![u] = "lock"]
      /\ want' = [want EXCEPT ![u] = n]
      /\ UNCHANGED <<disk, lru, blockno, valid, holder, data, pinned>>
  BY DEF BgetCached, Takes, CInv
<1>3. TypeOK'
  BY <1>1, <1>2 DEF TypeOK, PCs
<1>4. OneBuffer'
  BY <1>2 DEF CInv, OneBuffer
<1>5. Referring' /\ NoLostWakeup'
  BY <1>1, <1>2 DEF CInv, Referring, NoLostWakeup, TypeOK
<1>6. RefcntExact'
  <2>1. Users(b)' = Users(b) \cup {u} /\ u \notin Users(b)
    BY <1>1, <1>2 DEF Users, TypeOK
  <2>2. \A c \in Bufs \ {b} : Users(c)' = Users(c)
    BY <1>1, <1>2 DEF Users, TypeOK
  <2>3. Cardinality(Users(b)') = Cardinality(Users(b)) + 1
    BY <2>1, Counted, FS_AddElement, Zenon
  <2>4. \A c \in Bufs : refcnt'[c] = Cardinality(Users(c)') + (IF blockno'[c] \in pinned' THEN 1 ELSE 0)
    BY <1>1, <1>2, <2>2, <2>3, Counted DEF TypeOK
  <2> QED
    BY <2>4 DEF RefcntExact, Users
<1> QED
  BY <1>3, <1>4, <1>5, <1>6 DEF CInv

(* A miss recycles a buffer that nobody refers to. *)
LEMMA BgetRecycleInv ==
  ASSUME CacheConstants, CInv, NEW u \in Uses, NEW n \in Blocks, BgetRecycle(u, n)
  PROVE  CInv'
<1>1. PICK b \in Bufs : b = Victim /\ refcnt[b] = 0
  BY VictimIsFree DEF CInv, BgetRecycle
<1>2. TypeOK /\ pc[u] = "idle" /\ pc' = [pc EXCEPT ![u] = "lock"]
      /\ want' = [want EXCEPT ![u] = n] /\ cur' = [cur EXCEPT ![u] = b]
      /\ blockno' = [blockno EXCEPT ![b] = n] /\ valid' = [valid EXCEPT ![b] = FALSE]
      /\ refcnt' = [refcnt EXCEPT ![b] = 1]
      /\ UNCHANGED <<disk, lru, holder, data, pinned>>
  BY <1>1 DEF BgetRecycle, Takes, CInv
<1>3. Users(b) = {} /\ blockno[b] \notin pinned /\ \A w \in Uses : cur[w] = b => pc[w] = "idle"
  BY <1>1, Unreferenced
<1>4. n \notin pinned /\ n # NoBlock /\ \A c \in Bufs : blockno[c] # n
  BY DEF BgetRecycle, Cached, CInv, OneBuffer, CacheConstants
<1>5. TypeOK'
  BY <1>2 DEF TypeOK, PCs
<1>6. OneBuffer'
  BY <1>2, <1>3, <1>4 DEF CInv, OneBuffer, TypeOK
<1>7. Referring' /\ NoLostWakeup'
  BY <1>2, <1>3 DEF CInv, Referring, NoLostWakeup, TypeOK
<1>8. RefcntExact'
  <2>1. Users(b)' = {u}
    BY <1>2, <1>3 DEF Users, TypeOK
  <2>2. \A c \in Bufs \ {b} : Users(c)' = Users(c)
    BY <1>2 DEF Users, TypeOK
  <2>3. Cardinality(Users(b)') = 1
    BY <2>1, FS_Singleton
  <2>4. \A c \in Bufs : refcnt'[c] = Cardinality(Users(c)') + (IF blockno'[c] \in pinned' THEN 1 ELSE 0)
    BY <1>2, <1>4, <2>2, <2>3, Counted DEF TypeOK
  <2> QED
    BY <2>4 DEF RefcntExact, Users
<1> QED
  BY <1>5, <1>6, <1>7, <1>8 DEF CInv

(* A step that leaves references, pins and blocks alone keeps the counts. *)
LEMMA SameUsers ==
  ASSUME CInv, UNCHANGED <<blockno, refcnt, pinned, cur>>,
         pc' \in [Uses -> PCs], \A w \in Uses : pc'[w] = "idle" <=> pc[w] = "idle"
  PROVE  RefcntExact'
<1>1. \A b \in Bufs : Users(b)' = Users(b)
  BY DEF Users
<1> QED
  BY <1>1 DEF CInv, RefcntExact, Users

(* One turn of acquiresleep(). *)
LEMMA AcquireSleepInv ==
  ASSUME CacheConstants, CInv, NEW u \in Uses, AcquireSleep(u)
  PROVE  CInv'
<1>1. TypeOK /\ pc[u] = "lock"
      /\ UNCHANGED <<disk, lru, blockno, refcnt, valid, data, pinned, cur, want>>
  BY DEF AcquireSleep, CInv, cachevars
<1>2. \/ holder[cur[u]] # NoProc /\ pc' = [pc EXCEPT ![u] = "asleep"] /\ holder' = holder
      \/ /\ holder[cur[u]] = NoProc /\ pc' = [pc EXCEPT ![u] = "fill"]
         /\ holder' = [holder EXCEPT ![cur[u]] = u]
  BY DEF AcquireSleep
<1>3. TypeOK'
  BY <1>1, <1>2 DEF TypeOK, PCs
<1>4. RefcntExact'
  BY <1>1, <1>2, <1>3, SameUsers DEF TypeOK
<1>5. Referring' /\ NoLostWakeup'
  BY <1>1, <1>2 DEF CInv, Referring, NoLostWakeup, TypeOK, CacheConstants
<1>6. OneBuffer'
  BY <1>1 DEF CInv, OneBuffer
<1> QED
  BY <1>3, <1>4, <1>5, <1>6 DEF CInv

(* bread() fills a buffer that is not valid. *)
LEMMA FillInv ==
  ASSUME CacheConstants, CInv, NEW u \in Uses, Fill(u)
  PROVE  CInv'
<1> DEFINE b == cur[u]
<1>1. TypeOK /\ pc[u] = "fill" /\ pc' = [pc EXCEPT ![u] = "use"]
      /\ data' = [data EXCEPT ![b] = IF valid[b] THEN @ ELSE disk[blockno[b]]]
      /\ valid' = [valid EXCEPT ![b] = TRUE]
      /\ UNCHANGED <<disk, lru, blockno, refcnt, holder, pinned, cur, want>>
  BY DEF Fill, CInv, cachevars
<1>2. b \in Bufs /\ blockno[b] \in Blocks
  BY <1>1 DEF CInv, Referring, TypeOK
<1>3. TypeOK'
  BY <1>1, <1>2 DEF TypeOK, PCs
<1>4. RefcntExact'
  BY <1>1, <1>3, SameUsers DEF TypeOK
<1>5. Referring' /\ NoLostWakeup'
  BY <1>1, <1>2 DEF CInv, Referring, NoLostWakeup, TypeOK
<1>6. OneBuffer'
  BY <1>1, <1>2 DEF CInv, OneBuffer, TypeOK, CacheConstants
<1> QED
  BY <1>3, <1>4, <1>5, <1>6 DEF CInv

(* The user of a buffer refers to the one buffer of its block. *)
LEMMA InUse ==
  ASSUME CacheConstants, CInv, NEW u \in Uses, pc[u] = "use"
  PROVE  /\ cur[u] \in Bufs /\ want[u] \in Blocks /\ want[u] # NoBlock
         /\ blockno[cur[u]] = want[u] /\ valid[cur[u]] /\ holder[cur[u]] = u
         /\ \A c \in Bufs : blockno[c] = want[u] => c = cur[u]
BY DEF CInv, TypeOK, Referring, OneBuffer, CacheConstants

(* The user of a buffer changes it. *)
LEMMA ModifyInv ==
  ASSUME CacheConstants, CInv, NEW u \in Uses, NEW v \in Values, Modify(u, v)
  PROVE  CInv'
<1>1. TypeOK /\ pc[u] = "use"
      /\ data' = [data EXCEPT ![cur[u]] = v]
      /\ UNCHANGED <<disk, lru, blockno, refcnt, valid, holder, pinned, pc, cur, want>>
  BY DEF Modify, CInv, cachevars
<1>2. TypeOK'
  BY <1>1 DEF TypeOK
<1>3. RefcntExact'
  BY <1>1, <1>2, SameUsers DEF TypeOK
<1>4. OneBuffer' /\ Referring' /\ NoLostWakeup'
  BY <1>1 DEF CInv, OneBuffer, Referring, NoLostWakeup
<1> QED
  BY <1>2, <1>3, <1>4 DEF CInv

(* The user of a buffer writes it to the disk. *)
LEMMA BwriteInv ==
  ASSUME CacheConstants, CInv, NEW u \in Uses, Bwrite(u)
  PROVE  CInv'
<1>1. TypeOK /\ pc[u] = "use"
      /\ disk' = [disk EXCEPT ![blockno[cur[u]]] = data[cur[u]]]
      /\ UNCHANGED <<lru, blockno, refcnt, valid, holder, data, pinned, pc, cur, want>>
  BY DEF Bwrite, CInv, cachevars
<1>2. TypeOK'
  BY <1>1, Zenon DEF TypeOK
<1>3. RefcntExact'
  BY <1>1, <1>2, SameUsers DEF TypeOK
<1>4. OneBuffer' /\ Referring' /\ NoLostWakeup'
  BY <1>1 DEF CInv, OneBuffer, Referring, NoLostWakeup
<1> QED
  BY <1>2, <1>3, <1>4 DEF CInv

(* log_write() pins the buffer of a block that is not pinned yet. *)
LEMMA BpinInv ==
  ASSUME CacheConstants, CInv, NEW u \in Uses, Bpin(u)
  PROVE  CInv'
<1> DEFINE b == cur[u]
<1>1. TypeOK /\ pc[u] = "use"
      /\ refcnt' = [refcnt EXCEPT ![b] = IF want[u] \in pinned THEN @ ELSE @ + 1]
      /\ pinned' = pinned \cup {want[u]}
      /\ UNCHANGED <<disk, lru, blockno, valid, holder, data, pc, cur, want>>
  BY DEF Bpin, CInv
<1>2. TypeOK'
  BY <1>1, InUse DEF TypeOK
<1>3. RefcntExact'
  <2>1. \A c \in Bufs : Users(c)' = Users(c)
    BY <1>1 DEF Users
  <2>2. \A c \in Bufs : refcnt'[c] = Cardinality(Users(c)') + (IF blockno'[c] \in pinned' THEN 1 ELSE 0)
    BY <1>1, <2>1, InUse, Counted DEF TypeOK
  <2> QED
    BY <2>2 DEF RefcntExact, Users
<1>4. OneBuffer' /\ Referring' /\ NoLostWakeup'
  BY <1>1, InUse DEF CInv, OneBuffer, Referring, NoLostWakeup
<1> QED
  BY <1>2, <1>3, <1>4 DEF CInv

(* install_trans() writes a pinned block and gives up its pin. *)
LEMMA BwriteBunpinInv ==
  ASSUME CacheConstants, CInv, NEW u \in Uses, BwriteBunpin(u)
  PROVE  CInv'
<1> DEFINE b == cur[u]
<1>1. TypeOK /\ pc[u] = "use" /\ want[u] \in pinned
      /\ disk' = [disk EXCEPT ![blockno[b]] = data[b]]
      /\ refcnt' = [refcnt EXCEPT ![b] = @ - 1]
      /\ pinned' = pinned \ {want[u]}
      /\ UNCHANGED <<lru, blockno, valid, holder, data, pc, cur, want>>
  BY DEF BwriteBunpin, CInv
<1>2. \A c \in Bufs : Users(c)' = Users(c)
  BY <1>1 DEF Users
<1>3. \A c \in Bufs : refcnt'[c] = Cardinality(Users(c)') + (IF blockno'[c] \in pinned' THEN 1 ELSE 0)
  BY <1>1, <1>2, InUse, Counted DEF TypeOK
<1>4. RefcntExact'
  BY <1>3 DEF RefcntExact, Users
<1>5. TypeOK'
  <2>1. refcnt[b] - 1 \in Nat
    BY <1>1, InUse, Counted
  <2> QED
    BY <1>1, <2>1, Zenon DEF TypeOK
<1>6. OneBuffer' /\ Referring' /\ NoLostWakeup'
  BY <1>1 DEF CInv, OneBuffer, Referring, NoLostWakeup
<1> QED
  BY <1>4, <1>5, <1>6 DEF CInv

(* brelse() unlocks the buffer and wakes up those that wait for it. *)
LEMMA BrelseUnlockInv ==
  ASSUME CacheConstants, CInv, NEW u \in Uses, BrelseUnlock(u)
  PROVE  CInv'
<1> DEFINE b == cur[u]
<1>1. TypeOK /\ pc[u] = "use"
      /\ holder' = [holder EXCEPT ![b] = NoProc]
      /\ pc' = [Woken(b) EXCEPT ![u] = "rel"]
      /\ UNCHANGED <<disk, lru, blockno, refcnt, valid, data, pinned, cur, want>>
  BY Zenon DEF BrelseUnlock, CInv, cachevars
<1>2. \A w \in Uses :
        pc'[w] = IF w = u THEN "rel" ELSE IF pc[w] = "asleep" /\ cur[w] = b THEN "lock" ELSE pc[w]
  BY <1>1 DEF Woken
<1>3. TypeOK'
  BY <1>1 DEF TypeOK, PCs, Woken
<1>4. RefcntExact'
  BY <1>1, <1>2, <1>3, SameUsers DEF TypeOK
<1>5. Referring'
  <2>1. \A w \in Uses : /\ pc'[w] # "idle" => pc[w] # "idle"
                        /\ pc'[w] \in {"fill", "use"} => w # u /\ pc'[w] = pc[w]
    BY <1>1, <1>2 DEF CInv, Referring
  <2>2. \A w \in Uses : w # u /\ holder[cur[w]] = w => holder'[cur[w]] = w
    BY <1>1, InUse DEF TypeOK
  <2> QED
    BY <1>1, <2>1, <2>2 DEF CInv, Referring
<1>6. NoLostWakeup'
  BY <1>1, <1>2 DEF CInv, NoLostWakeup, TypeOK
<1>7. OneBuffer'
  BY <1>1 DEF CInv, OneBuffer
<1> QED
  BY <1>3, <1>4, <1>5, <1>6, <1>7 DEF CInv

(* The rest of brelse() gives up the reference. *)
LEMMA BrelseUnrefInv ==
  ASSUME CacheConstants, CInv, NEW u \in Uses, BrelseUnref(u)
  PROVE  CInv'
<1>0. PICK b \in Bufs : b = cur[u]
  BY DEF CInv, TypeOK
<1>1. TypeOK /\ pc[u] = "rel" /\ pc' = [pc EXCEPT ![u] = "idle"]
      /\ refcnt' = [refcnt EXCEPT ![b] = @ - 1]
      /\ lru' = (IF refcnt[b] = 1 THEN MoveToFront(b) ELSE lru)
      /\ cur' = [cur EXCEPT ![u] = 1] /\ want' = [want EXCEPT ![u] = NoBlock]
      /\ UNCHANGED <<disk, blockno, valid, holder, data, pinned>>
  BY <1>0 DEF BrelseUnref, CInv
<1>2. b \in Bufs /\ u \in Users(b) /\ Users(b)' = Users(b) \ {u}
  BY <1>0, <1>1 DEF Users, TypeOK
<1>3. \A c \in Bufs \ {b} : Users(c)' = Users(c)
  BY <1>0, <1>1 DEF Users, TypeOK
<1>4. Cardinality(Users(b)') = Cardinality(Users(b)) - 1 /\ Cardinality(Users(b)') \in Nat
  <2>1. IsFiniteSet(Users(b)')
    BY <1>2, Counted, FS_RemoveElement
  <2> QED
    BY <1>2, <2>1, Counted, FS_RemoveElement, FS_CardinalityType
<1>5. ASSUME NEW c \in Bufs
      PROVE  refcnt'[c] = Cardinality(Users(c)') + (IF blockno'[c] \in pinned' THEN 1 ELSE 0)
  <2>1. refcnt[c] = Cardinality(Users(c)) + (IF blockno[c] \in pinned THEN 1 ELSE 0)
        /\ Cardinality(Users(c)) \in Nat /\ refcnt[c] \in Nat
    BY <1>1, Counted DEF TypeOK
  <2>2. CASE c = b
    <3>1. refcnt'[c] = refcnt[c] - 1
      BY <1>1, <2>2 DEF TypeOK
    <3> QED
      BY <1>1, <1>4, <2>1, <2>2, <3>1
  <2>3. CASE c # b
    <3>1. refcnt'[c] = refcnt[c]
      BY <1>1, <2>3 DEF TypeOK
    <3> QED
      BY <1>1, <1>3, <2>1, <2>3, <3>1
  <2> QED
    BY <2>2, <2>3
<1>6. RefcntExact'
  BY <1>5 DEF RefcntExact, Users
<1>7. TypeOK'
  <2>1. refcnt[b] - 1 \in Nat
    BY <1>2, <1>4, Counted
  <2>2. lru' \in [Bufs -> Bufs] /\ IsInjective(lru')
    BY <1>1, <1>2, MoveToFrontPermutes DEF TypeOK
  <2>3. 1 \in Bufs
    BY DEF Bufs, CacheConstants
  <2> QED
    BY <1>1, <2>1, <2>2, <2>3 DEF TypeOK, PCs
<1>8. Referring' /\ NoLostWakeup'
  BY <1>1 DEF CInv, Referring, NoLostWakeup, TypeOK
<1>9. OneBuffer'
  BY <1>1 DEF CInv, OneBuffer
<1> QED
  BY <1>6, <1>7, <1>8, <1>9 DEF CInv

-----------------------------------------------------------------------------
(* Every step keeps the invariant. *)
LEMMA NextCInv ==
  ASSUME CacheConstants, CInv, [Next]_vars
  PROVE  CInv'
<1>1. CASE UNCHANGED vars
  BY <1>1 DEF vars, CInv, TypeOK, OneBuffer, Referring, RefcntExact, NoLostWakeup
<1>2. CASE Next
  <2>1. PICK u \in Uses : Step(u)
    BY <1>2 DEF Next
  <2> QED
    BY <2>1, BgetCachedInv, BgetRecycleInv, AcquireSleepInv, FillInv, ModifyInv, BwriteInv,
       BpinInv, BwriteBunpinInv, BrelseUnlockInv, BrelseUnrefInv DEF Step
<1> QED
  BY <1>1, <1>2

(* The invariant of the cache, in every state. *)
LEMMA CacheInv ==
  ASSUME CacheConstants
  PROVE  Spec => []CInv
<1>1. Init => CInv
  BY InitCInv
<1>2. CInv /\ [Next]_vars => CInv'
  BY NextCInv
<1> QED
  BY <1>1, <1>2, PTL DEF Spec

(* No reader finds the cache used up while its users and the log's pins    *)
(* are fewer than the buffers: each of them accounts for at most one.      *)
LEMMA BufferIsLeft ==
  ASSUME CacheConstants, CInv
  PROVE  BufferLeft
<1> DEFINE active == {u \in Uses : pc[u] # "idle"}
           A == {b \in Bufs : Users(b) # {}}
           B == {b \in Bufs : blockno[b] \in pinned}
<1> HIDE DEF active, A, B
<1>1. IsFiniteSet(Bufs) /\ Cardinality(Bufs) = NBUF /\ NBUF \in Nat
  BY FS_Interval DEF Bufs, CacheConstants
<1>2. IsFiniteSet(active) /\ IsFiniteSet(A) /\ IsFiniteSet(B)
  BY <1>1, FiniteUses, FS_Subset DEF active, A, B
<1>3. Cardinality(A) <= Cardinality(active)
  <2> DEFINE f == [u \in active |-> cur[u]]
  <2>1. f \in Surjection(active, A)
    BY DEF f, active, A, Users, Surjection, CInv, TypeOK
  <2> HIDE DEF f
  <2> QED
    BY <1>2, <2>1, FS_Surjection
<1>4. IsFiniteSet(pinned) /\ Cardinality(B) <= Cardinality(pinned)
  <2> DEFINE g == [b \in B |-> blockno[b]]
  <2>1. g \in Surjection(B, pinned)
    BY DEF g, B, Surjection, CInv, OneBuffer
  <2>2. g \in Injection(B, pinned)
    BY <2>1 DEF g, B, Injection, Surjection, IsInjective, CInv, OneBuffer, TypeOK, CacheConstants
  <2> HIDE DEF g
  <2>3. IsFiniteSet(pinned)
    BY <1>2, <2>1, FS_Surjection
  <2> QED
    BY <2>2, <2>3, FS_Injection
<1>5. ASSUME Unused = {} PROVE Bufs = A \cup B
  <2>1. ASSUME NEW b \in Bufs PROVE b \in A \cup B
    <3>1. refcnt[b] # 0
      BY <1>5, EveryBufferListed DEF Unused, CInv, TypeOK
    <3>2. Users(b) = {} => Cardinality(Users(b)) = 0
      BY FS_EmptySet
    <3> QED
      BY <3>1, <3>2, Counted DEF A, B
  <2> QED
    BY <2>1 DEF A, B
<1>6. ASSUME Unused = {} PROVE NBUF <= Cardinality(A) + Cardinality(B)
  <2>1. IsFiniteSet(A \cap B)
    BY <1>2, FS_Intersection
  <2>2. Cardinality(A) \in Nat /\ Cardinality(B) \in Nat /\ Cardinality(A \cap B) \in Nat
    BY <1>2, <2>1, FS_CardinalityType
  <2>3. Cardinality(A \cup B) = Cardinality(A) + Cardinality(B) - Cardinality(A \cap B)
    BY <1>2, FS_Union
  <2>4. Cardinality(A \cup B) = NBUF
    BY <1>1, <1>5, <1>6
  <2> QED
    BY <2>2, <2>3, <2>4
<1>7. \A n \in {Cardinality(active), Cardinality(pinned), Cardinality(A), Cardinality(B)} : n \in Nat
  BY <1>2, <1>4, FS_CardinalityType
<1> QED
  BY <1>1, <1>3, <1>4, <1>6, <1>7 DEF BufferLeft, active

(* In every state, one process at a time uses a block, reference counts    *)
(* are exact, no wakeup is lost, and bget() does not panic while the users *)
(* and the pins are fewer than the buffers: for every number of processes, *)
(* blocks and buffers.                                                     *)
THEOREM BuffersAreSound ==
  ASSUME CacheConstants
  PROVE  Spec => []BuffersSound
<1>1. ASSUME CInv PROVE ExclusiveUse
  BY <1>1, InUse DEF ExclusiveUse
<1>2. CInv => BuffersSound
  BY <1>1, BufferIsLeft DEF CInv, BuffersSound
<1> QED
  BY <1>2, CacheInv, PTL

-----------------------------------------------------------------------------
(* The store's view of a state: who uses a block, and what it holds. *)
StoreView ==
  /\ \A n \in Blocks, u \in Uses : pc[u] = "use" /\ want[u] = n => Owner(n) = u
  /\ \A n \in Blocks : (\A u \in Uses : pc[u] = "use" => want[u] # n) => Owner(n) = NoProc
  /\ \A n \in Blocks, b \in Bufs : valid[b] /\ blockno[b] = n => Contents(n) = data[b]
  /\ \A n \in Blocks : (\A b \in Bufs : valid[b] => blockno[b] # n) => Contents(n) = disk[n]

(* Users and valid buffers determine the store's view of a state. *)
LEMMA ViewIs ==
  ASSUME CacheConstants
  PROVE  CInv => StoreView
<1> SUFFICES ASSUME CInv PROVE StoreView
  OBVIOUS
<1>1. \A u, w \in Uses : pc[u] = "use" /\ pc[w] = "use" /\ want[u] = want[w] => u = w
  BY InUse
<1>2. \A b, c \in Bufs : valid[b] /\ valid[c] /\ blockno[b] = blockno[c] => b = c
  BY DEF CInv, OneBuffer
<1> QED
  BY <1>1, <1>2 DEF Owner, Contents, StoreView

(* The same in the next state. *)
LEMMA ViewIsNext ==
  ASSUME CacheConstants
  PROVE  CInv' => StoreView'
BY ViewIs, PTL

(* The cache is an initial store at boot. *)
LEMMA InitStores ==
  ASSUME CacheConstants, Init
  PROVE  Store!Init
BY InitCInv, ViewIs DEF Init, StoreView, Store!Init

(* A block whose users stay the same keeps its owner. *)
LEMMA OwnerKept ==
  ASSUME CacheConstants, CInv, CInv', NEW n \in Blocks,
         \A w \in Uses : pc'[w] = "use" /\ want'[w] = n <=> pc[w] = "use" /\ want[w] = n
  PROVE  Owner(n)' = Owner(n)
<1>1. CASE \E w \in Uses : pc[w] = "use" /\ want[w] = n
  <2>1. PICK w \in Uses : pc[w] = "use" /\ want[w] = n
    BY <1>1
  <2> QED
    BY <2>1, ViewIs, ViewIsNext DEF StoreView
<1>2. CASE \A w \in Uses : pc[w] = "use" => want[w] # n
  BY <1>2, ViewIs, ViewIsNext DEF StoreView
<1> QED
  BY <1>1, <1>2

(* A block keeps its contents while its valid buffer does, or the disk.    *)
LEMMA ContentsKept ==
  ASSUME StoreView, StoreView', NEW n \in Blocks, UNCHANGED <<blockno, valid>>,
         \A c \in Bufs : valid[c] /\ blockno[c] = n => data'[c] = data[c],
         (\A c \in Bufs : valid[c] => blockno[c] # n) => disk'[n] = disk[n]
  PROVE  Contents(n)' = Contents(n)
<1>1. CASE \E c \in Bufs : valid[c] /\ blockno[c] = n
  <2>1. PICK c \in Bufs : valid[c] /\ blockno[c] = n
    BY <1>1
  <2>2. Contents(n) = data[c]
    BY <2>1 DEF StoreView
  <2>3. Contents(n)' = data'[c]
    BY <2>1 DEF StoreView
  <2> QED
    BY <2>1, <2>2, <2>3
<1>2. CASE \A c \in Bufs : valid[c] => blockno[c] # n
  <2>1. Contents(n) = disk[n]
    BY <1>2 DEF StoreView
  <2>2. Contents(n)' = disk'[n]
    BY <1>2 DEF StoreView
  <2> QED
    BY <1>2, <2>1, <2>2
<1> QED
  BY <1>1, <1>2

(* A step that the store does not see. *)
LEMMA Unseen ==
  ASSUME CacheConstants, CInv, CInv', UNCHANGED <<disk, pinned>>,
         \A n \in Blocks : Contents(n)' = Contents(n),
         \A n \in Blocks, w \in Uses :
           pc'[w] = "use" /\ want'[w] = n <=> pc[w] = "use" /\ want[w] = n
  PROVE  [Store!Next]_(Store!absvars)
<1>1. \A n \in Blocks : Owner(n)' = Owner(n)
  BY OwnerKept
<1> QED
  BY <1>1 DEF Store!absvars

(* Steps on the way to a buffer, and back, are not the store's. *)
LEMMA BgetCachedStores ==
  ASSUME CacheConstants, CInv, NEW u \in Uses, NEW n \in Blocks, BgetCached(u, n)
  PROVE  [Store!Next]_(Store!absvars)
<1>1. CInv' /\ TypeOK /\ UNCHANGED <<disk, blockno, valid, data, pinned>>
  <2>1. CInv'
    BY BgetCachedInv
  <2>2. TypeOK
    BY DEF CInv
  <2> QED
    BY <2>1, <2>2 DEF BgetCached
<1>2. pc[u] = "idle" /\ pc' = [pc EXCEPT ![u] = "lock"] /\ want' = [want EXCEPT ![u] = n]
  BY DEF BgetCached, Takes
<1>3. \A m \in Blocks : Contents(m)' = Contents(m)
  BY <1>1 DEF Contents
<1>4. \A m \in Blocks, w \in Uses :
        pc'[w] = "use" /\ want'[w] = m <=> pc[w] = "use" /\ want[w] = m
  BY <1>1, <1>2 DEF TypeOK
<1> QED
  BY <1>1, <1>3, <1>4, Unseen

(* A recycled buffer takes with it at most what was neither written nor    *)
(* pinned: the store forgets it.                                           *)
LEMMA BgetRecycleStores ==
  ASSUME CacheConstants, CInv, NEW u \in Uses, NEW n \in Blocks, BgetRecycle(u, n)
  PROVE  [Store!Next]_(Store!absvars)
<1>1. PICK b \in Bufs : b = Victim /\ refcnt[b] = 0
  BY VictimIsFree DEF CInv, BgetRecycle
<1>2. TypeOK /\ pc[u] = "idle" /\ pc' = [pc EXCEPT ![u] = "lock"]
      /\ want' = [want EXCEPT ![u] = n]
      /\ blockno' = [blockno EXCEPT ![b] = n] /\ valid' = [valid EXCEPT ![b] = FALSE]
      /\ UNCHANGED <<disk, data, pinned>>
  BY <1>1 DEF BgetRecycle, Takes, CInv
<1>3. CInv'
  BY BgetRecycleInv
<1>4. blockno[b] \notin pinned /\ \A w \in Uses : cur[w] = b => pc[w] = "idle"
  BY <1>1, Unreferenced
<1>5. \A m \in Blocks, w \in Uses :
        pc'[w] = "use" /\ want'[w] = m <=> pc[w] = "use" /\ want[w] = m
  BY <1>2 DEF TypeOK
<1>6. ASSUME NEW m \in Blocks, valid[b] => blockno[b] # m
      PROVE  Contents(m)' = Contents(m)
  <2>1. CASE \E c \in Bufs \ {b} : valid[c] /\ blockno[c] = m
    BY <1>2, <1>3, <2>1, ViewIs, ViewIsNext DEF StoreView, TypeOK
  <2>2. CASE \A c \in Bufs \ {b} : valid[c] => blockno[c] # m
    <3>1. Contents(m)' = disk[m]
      BY <1>2, <1>3, <2>2, ViewIsNext DEF StoreView, TypeOK
    <3>2. Contents(m) = disk[m]
      BY <1>6, <2>2, ViewIs DEF StoreView
    <3> QED
      BY <3>1, <3>2
  <2> QED
    BY <2>1, <2>2, Zenon
<1>7. CASE ~valid[b]
  BY <1>2, <1>3, <1>5, <1>6, <1>7, Unseen
<1>8. CASE valid[b]
  <2>1. PICK m \in Blocks : m = blockno[b]
    BY <1>8 DEF CInv, OneBuffer, TypeOK
  <2>2. \A c \in Bufs : blockno[c] = m => c = b
    BY <2>1 DEF CInv, OneBuffer, CacheConstants
  <2>3. Owner(m) = NoProc
    <3>1. \A w \in Uses : pc[w] = "use" => want[w] # m
      BY <1>4, <2>2, InUse
    <3> QED
      BY <3>1, ViewIs DEF StoreView
  <2>4. \A k \in Blocks : Owner(k)' = Owner(k)
    BY <1>3, <1>5, OwnerKept
  <2>5. Contents(m)' = disk[m]
    <3>1. \A c \in Bufs : valid'[c] => blockno'[c] # m
      BY <1>2, <2>2 DEF TypeOK
    <3> QED
      BY <1>2, <1>3, <3>1, ViewIsNext DEF StoreView
  <2>6. \A k \in Blocks : k # m => Contents(k)' = Contents(k)
    BY <1>6, <2>1
  <2>7. Store!Forget(m)
    <3> DEFINE x == [k \in Blocks |-> Contents(k)]
               x2 == [k \in Blocks |-> Contents(k)']
    <3>1. x2 = [x EXCEPT ![m] = disk[m]]
      BY <2>5, <2>6, Zenon
    <3> QED
      BY <1>2, <1>4, <2>1, <2>3, <2>4, <3>1 DEF Store!Forget, Store!Held
  <2> QED
    BY <2>7 DEF Store!Next
<1> QED
  BY <1>7, <1>8

(* The rest of bread() makes the process the owner of its block, and what  *)
(* the block holds does not depend on whether the buffer was valid.        *)
LEMMA FillStores ==
  ASSUME CacheConstants, CInv, NEW u \in Uses, Fill(u)
  PROVE  [Store!Next]_(Store!absvars)
<1> DEFINE b == cur[u]
<1>0. PICK n \in Blocks : n = want[u]
  BY DEF CInv, Referring, Fill
<1>1. TypeOK /\ pc[u] = "fill" /\ pc' = [pc EXCEPT ![u] = "use"]
      /\ data' = [data EXCEPT ![b] = IF valid[b] THEN @ ELSE disk[blockno[b]]]
      /\ valid' = [valid EXCEPT ![b] = TRUE]
      /\ UNCHANGED <<disk, blockno, pinned, cur, want>>
  BY DEF Fill, CInv, cachevars
<1>2. CInv'
  BY FillInv
<1>3. b \in Bufs /\ blockno[b] = n /\ holder[b] = u
  BY <1>0, <1>1, Zenon DEF CInv, Referring, TypeOK
<1>4. \A w \in Uses : pc[w] = "use" => want[w] # n
  <2> SUFFICES ASSUME NEW w \in Uses, pc[w] = "use", want[w] = n PROVE FALSE
    OBVIOUS
  <2>1. b = cur[w]
    BY <1>3, InUse
  <2> QED
    BY <1>1, <1>3, <2>1, InUse
<1>5. Owner(n) = NoProc /\ Owner(n)' = u
  <2>1. Owner(n) = NoProc
    BY <1>4, ViewIs DEF StoreView
  <2>2. pc'[u] = "use" /\ want'[u] = n
    BY <1>0, <1>1 DEF TypeOK
  <2> QED
    BY <1>2, <2>1, <2>2, ViewIsNext DEF StoreView
<1>6. \A m \in Blocks : m # n => Owner(m)' = Owner(m)
  BY <1>0, <1>1, <1>2, OwnerKept DEF TypeOK
<1>7. ASSUME NEW m \in Blocks PROVE Contents(m)' = Contents(m)
  <2>1. StoreView /\ StoreView'
    BY <1>2, ViewIs, ViewIsNext
  <2>2. \A c \in Bufs : c # b => valid'[c] = valid[c] /\ data'[c] = data[c] /\ blockno'[c] = blockno[c]
    BY <1>1 DEF TypeOK
  <2>3. /\ valid'[b] /\ blockno'[b] = n
        /\ data'[b] = IF valid[b] THEN data[b] ELSE disk[n]
    BY <1>1, <1>3 DEF TypeOK
  <2>4. CASE m = n
    <3>1. Contents(n)' = data'[b]
      BY <1>3, <2>1, <2>3, Zenon DEF StoreView
    <3>2. valid[b] => Contents(n) = data[b]
      BY <1>3, <2>1, Zenon DEF StoreView
    <3>3. \A c \in Bufs : blockno[c] = n => c = b
      BY <1>3 DEF CInv, OneBuffer, CacheConstants
    <3>4. ~valid[b] => Contents(n) = disk[n]
      BY <2>1, <3>3, Zenon DEF StoreView
    <3> QED
      BY <2>3, <2>4, <3>1, <3>2, <3>4, Zenon
  <2>5. CASE m # n /\ \E c \in Bufs : valid[c] /\ blockno[c] = m
    <3>1. PICK c \in Bufs : valid[c] /\ blockno[c] = m
      BY <2>5
    <3>2. valid'[c] /\ blockno'[c] = m /\ data'[c] = data[c]
      BY <1>3, <2>2, <2>5, <3>1, Zenon
    <3>3. Contents(m) = data[c]
      BY <2>1, <3>1, Zenon DEF StoreView
    <3>4. Contents(m)' = data'[c]
      BY <2>1, <3>2, Zenon DEF StoreView
    <3> QED
      BY <3>2, <3>3, <3>4
  <2>6. CASE m # n /\ \A c \in Bufs : valid[c] => blockno[c] # m
    <3>1. \A c \in Bufs : valid'[c] => blockno'[c] # m
      BY <2>2, <2>3, <2>6
    <3> QED
      BY <1>1, <2>1, <2>6, <3>1 DEF StoreView
  <2> QED
    BY <2>4, <2>5, <2>6
<1>8. Store!Get(n)
  <2> DEFINE x == [m \in Blocks |-> Owner(m)]
             x2 == [m \in Blocks |-> Owner(m)']
  <2>1. x2 = [x EXCEPT ![n] = u]
    BY <1>5, <1>6, Zenon
  <2> QED
    BY <1>1, <1>5, <1>7, <2>1, Zenon DEF Store!Get, Store!Held
<1> QED
  BY <1>8 DEF Store!Next

(* Steps that leave buffers and disk alone, and users too, go unseen. *)
LEMMA OtherSteps ==
  ASSUME CacheConstants, CInv, NEW u \in Uses, AcquireSleep(u) \/ BrelseUnref(u)
  PROVE  [Store!Next]_(Store!absvars)
<1>1. CInv'
  BY AcquireSleepInv, BrelseUnrefInv
<1>2. TypeOK /\ UNCHANGED <<disk, blockno, valid, data, pinned>>
  BY DEF CInv, AcquireSleep, BrelseUnref, cachevars
<1>3. \A m \in Blocks, w \in Uses :
        pc'[w] = "use" /\ want'[w] = m <=> pc[w] = "use" /\ want[w] = m
  BY <1>2 DEF AcquireSleep, BrelseUnref, TypeOK
<1>4. \A m \in Blocks : Contents(m)' = Contents(m)
  BY <1>2 DEF Contents
<1> QED
  BY <1>1, <1>2, <1>3, <1>4, Unseen, Zenon

(* log_write() has the store keep the block. *)
LEMMA BpinStores ==
  ASSUME CacheConstants, CInv, NEW u \in Uses, Bpin(u)
  PROVE  [Store!Next]_(Store!absvars)
<1>1. pc[u] = "use" /\ pinned' = pinned \cup {want[u]}
      /\ UNCHANGED <<disk, blockno, valid, data, pc, want>>
  BY DEF Bpin
<1>2. PICK n \in Blocks : n = want[u]
  BY <1>1, InUse
<1>3. Owner(n) = u /\ u # NoProc
  BY <1>1, <1>2, ViewIs DEF StoreView, CacheConstants
<1>4. \A m \in Blocks : Owner(m)' = Owner(m) /\ Contents(m)' = Contents(m)
  BY <1>1 DEF Owner, Contents
<1>5. Store!Pin(n)
  BY <1>1, <1>2, <1>3, <1>4, Zenon DEF Store!Pin, Store!Held
<1> QED
  BY <1>5 DEF Store!Next

(* The user of a buffer changes its block, and no other. *)
LEMMA ModifyStores ==
  ASSUME CacheConstants, CInv, NEW u \in Uses, NEW v \in Values, Modify(u, v)
  PROVE  [Store!Next]_(Store!absvars)
<1>1. pc[u] = "use" /\ data' = [data EXCEPT ![cur[u]] = v]
      /\ UNCHANGED <<disk, blockno, valid, pinned, pc, want>>
  BY DEF Modify, cachevars
<1>2. data \in [Bufs -> Values] /\ u # NoProc
  BY DEF CInv, TypeOK, CacheConstants
<1>3. StoreView /\ StoreView'
  BY ModifyInv, ViewIs, ViewIsNext
<1>4. PICK n \in Blocks, b \in Bufs : /\ n = want[u] /\ b = cur[u] /\ blockno[b] = n /\ valid[b]
                                      /\ \A c \in Bufs : blockno[c] = n => c = b
  BY <1>1, InUse
<1>5. \A m \in Blocks : Owner(m)' = Owner(m)
  BY <1>1 DEF Owner
<1>6. Owner(n) = u
  BY <1>1, <1>3, <1>4, Zenon DEF StoreView
<1>7. Contents(n)' = v
  <2>1. data'[b] = v /\ valid'[b] /\ blockno'[b] = n
    BY <1>1, <1>2, <1>4, Zenon
  <2> QED
    BY <1>3, <2>1 DEF StoreView
<1>8. ASSUME NEW m \in Blocks, m # n PROVE Contents(m)' = Contents(m)
  <2>1. \A c \in Bufs : valid[c] /\ blockno[c] = m => data'[c] = data[c]
    BY <1>1, <1>2, <1>4, <1>8
  <2> QED
    BY <1>1, <1>3, <2>1, ContentsKept, Zenon
<1>9. Store!Change(n)
  <2> DEFINE x == [m \in Blocks |-> Contents(m)]
             x2 == [m \in Blocks |-> Contents(m)']
  <2>1. x2 = [x EXCEPT ![n] = v]
    BY <1>7, <1>8, Zenon
  <2> QED
    BY <1>1, <1>2, <1>5, <1>6, <2>1, Zenon DEF Store!Change, Store!Held
<1> QED
  BY <1>9 DEF Store!Next

(* bwrite() makes the contents of a block the disk's, with or without the  *)
(* pin of the log.                                                         *)
LEMMA BwriteStores ==
  ASSUME CacheConstants, CInv, NEW u \in Uses, Bwrite(u) \/ BwriteBunpin(u)
  PROVE  [Store!Next]_(Store!absvars)
<1>1. pc[u] = "use" /\ disk' = [disk EXCEPT ![blockno[cur[u]]] = data[cur[u]]]
      /\ UNCHANGED <<blockno, valid, data, pc, want>>
  BY DEF Bwrite, BwriteBunpin, cachevars
<1>2. disk \in [Blocks -> Values] /\ u # NoProc
  BY DEF CInv, TypeOK, CacheConstants
<1>3. StoreView /\ StoreView'
  BY BwriteInv, BwriteBunpinInv, ViewIs, ViewIsNext
<1>4. PICK n \in Blocks, b \in Bufs : n = want[u] /\ b = cur[u] /\ blockno[b] = n /\ valid[b]
  BY <1>1, InUse
<1>5. \A m \in Blocks : Owner(m)' = Owner(m)
  BY <1>1 DEF Owner
<1>6. Owner(n) = u /\ Contents(n) = data[b]
  BY <1>1, <1>3, <1>4, Zenon DEF StoreView
<1>7. disk' = [disk EXCEPT ![n] = Contents(n)]
  BY <1>1, <1>4, <1>6, Zenon
<1>8. ASSUME NEW m \in Blocks PROVE Contents(m)' = Contents(m)
  <2>1. (\A c \in Bufs : valid[c] => blockno[c] # m) => disk'[m] = disk[m]
    BY <1>2, <1>4, <1>7, Zenon
  <2> QED
    BY <1>1, <1>3, <2>1, ContentsKept, Zenon
<1>9. pinned' \in {pinned, pinned \ {n}}
  BY <1>4 DEF Bwrite, BwriteBunpin
<1>10. Store!Flush(n)
  BY <1>2, <1>5, <1>6, <1>7, <1>8, <1>9, Zenon DEF Store!Flush, Store!Held
<1> QED
  BY <1>10 DEF Store!Next

(* releasesleep() gives the block back. *)
LEMMA BrelseStores ==
  ASSUME CacheConstants, CInv, NEW u \in Uses, BrelseUnlock(u)
  PROVE  [Store!Next]_(Store!absvars)
<1>1. pc[u] = "use" /\ pc' = [Woken(cur[u]) EXCEPT ![u] = "rel"]
      /\ UNCHANGED <<disk, blockno, valid, data, pinned, want>>
  BY DEF BrelseUnlock, cachevars
<1>2. CInv' /\ StoreView /\ StoreView'
  BY BrelseUnlockInv, ViewIs, ViewIsNext
<1>3. PICK n \in Blocks : n = want[u]
  BY <1>1, InUse
<1>4. \A w \in Uses : pc'[w] = "use" <=> w # u /\ pc[w] = "use"
  BY <1>1 DEF Woken
<1>5. \A w \in Uses : w # u /\ pc[w] = "use" => want[w] # n
  <2> SUFFICES ASSUME NEW w \in Uses, pc[w] = "use", want[w] = n PROVE w = u
    OBVIOUS
  <2>1. Owner(n) = w
    BY <1>2, Zenon DEF StoreView
  <2>2. Owner(n) = u
    BY <1>1, <1>2, <1>3, Zenon DEF StoreView
  <2> QED
    BY <2>1, <2>2
<1>6. Owner(n) = u
  BY <1>1, <1>2, <1>3, Zenon DEF StoreView
<1>7. Owner(n)' = NoProc
  BY <1>1, <1>2, <1>4, <1>5, Zenon DEF StoreView
<1>8. ASSUME NEW m \in Blocks, m # n PROVE Owner(m)' = Owner(m)
  <2>1. \A w \in Uses : pc'[w] = "use" /\ want'[w] = m <=> pc[w] = "use" /\ want[w] = m
    BY <1>1, <1>3, <1>4, <1>8, Zenon
  <2> QED
    BY <1>2, <2>1, OwnerKept
<1>9. \A m \in Blocks : Contents(m)' = Contents(m)
  BY <1>1 DEF Contents
<1>10. Store!Put(n)
  <2> DEFINE x == [m \in Blocks |-> Owner(m)]
             x2 == [m \in Blocks |-> Owner(m)']
  <2>1. x2 = [x EXCEPT ![n] = NoProc]
    BY <1>7, <1>8, Zenon
  <2>2. u # NoProc
    BY DEF CacheConstants
  <2> QED
    BY <1>1, <1>6, <1>9, <2>1, <2>2, Zenon DEF Store!Put, Store!Held
<1> QED
  BY <1>10 DEF Store!Next

(* The cache implements a store of blocks that one process at a time can   *)
(* hold: whatever bget() recycles, a reader gets what the last user left,  *)
(* or what is on the disk when that was neither written nor pinned, and    *)
(* bwrite() writes just what the user has: for every number of processes,  *)
(* blocks and buffers, and every order in which a process takes two.       *)
THEOREM CacheStoresBlocks ==
  ASSUME CacheConstants
  PROVE  Spec => StoresBlocks
<1>1. Init => Store!Init
  BY InitStores
<1>2. CInv /\ [Next]_vars => [Store!Next]_(Store!absvars)
  <2> SUFFICES ASSUME CInv, [Next]_vars PROVE [Store!Next]_(Store!absvars)
    OBVIOUS
  <2>1. CASE UNCHANGED vars
    BY <2>1 DEF vars, Store!absvars, Owner, Contents
  <2>2. CASE Next
    <3>1. PICK u \in Uses : Step(u)
      BY <2>2 DEF Next
    <3> QED
      BY <3>1, BgetCachedStores, BgetRecycleStores, FillStores, OtherSteps, BpinStores, ModifyStores,
         BwriteStores, BrelseStores DEF Step
  <2> QED
    BY <2>1, <2>2
<1> QED
  BY <1>1, <1>2, CacheInv, PTL DEF Spec, StoresBlocks, Store!Spec

=============================================================================
