-------------------------- MODULE VirtioDiskProofs --------------------------
(***************************************************************************)
(* Proofs about the disk driver and its device, module VirtioDisk, for any *)
(* number of processes and descriptors and any range of the ring indices   *)
(* that NUM divides.                                                       *)
(***************************************************************************)
EXTENDS VirtioDisk, FiniteSetTheorems, TLAPS

(* The first of its three descriptors, which stands for a request. *)
Head(p) == idx[p][1]

(* The descriptors of a process. *)
Mine(p) == IF pc[p] \in {"idle", "alloc"} THEN {} ELSE {idx[p][1], idx[p][2], idx[p][3]}

(* A request that is not carried out yet. *)
Busy(p) == Submitted(p) /\ bdisk[p]

(* What the device knows of a request it works on. *)
Work(p) == [head |-> Head(p), req |-> [write |-> p \in Writers, sector |-> p], buf |-> p,
            status |-> Head(p)]

(* How far index j is ahead of index i. *)
Dist(i, j) == IF i <= j THEN j - i ELSE j - i + IDXMOD

(* The slots from index i up to index j. *)
Slot(i) == i % NUM
Span(i, j) == {Slot(i + k) : k \in 0..(Dist(i, j) - 1)}

Index == 0..(IDXMOD - 1)
Rings == [ring : [Desc -> Desc \cup {None}], idx : Index]

Works == [head : Desc, req : [write : BOOLEAN, sector : Procs], buf : Procs, status : Desc]

(* The types of all variables. *)
Types ==
  /\ vdisk_lock \in Procs \cup {None, "intr"}
  /\ pc \in [Procs -> {"idle", "alloc", "format", "notify", "wait"}]
  /\ chan \in [Procs -> {None, "free", "buf"}]
  /\ idx \in [Procs -> {<<>>} \cup (Desc \X Desc \X Desc)]
  /\ free \in SUBSET Desc /\ DOMAIN desc = Desc
  /\ info \in [Desc -> [b : Procs \cup {None}, status : {0, 255}]]
  /\ avail \in Rings /\ used \in Rings /\ used_idx \in Index
  /\ bdisk \in [Procs -> BOOLEAN]
  /\ data \in [Procs -> 0..2] /\ blocks \in [Procs -> 0..1]
  /\ \A p \in Writers : data[p] \in 0..1
  /\ dev \in [idx : Index, work : SUBSET Works]
  /\ panic = FALSE

(* Who has the lock, and who is asleep. *)
Locking ==
  \A p \in Procs :
    /\ pc[p] \in {"format", "notify"} => vdisk_lock = p
    /\ vdisk_lock = p => pc[p] \in {"format", "notify", "wait"} /\ chan[p] = None
    /\ chan[p] = "free" => pc[p] = "alloc" /\ Cardinality(free) < 3
    /\ chan[p] = "buf" => pc[p] = "wait" /\ bdisk[p]

(* Every descriptor is free or has one owner. *)
Owned ==
  /\ \A p \in Procs :
       /\ pc[p] \in {"idle", "alloc"} => idx[p] = <<>>
       /\ pc[p] \notin {"idle", "alloc"} =>
            /\ idx[p] \in Desc \X Desc \X Desc
            /\ idx[p][1] # idx[p][2] /\ idx[p][1] # idx[p][3] /\ idx[p][2] # idx[p][3]
       /\ Mine(p) \cap free = {}
       /\ \A q \in Procs : p # q => Mine(p) \cap Mine(q) = {}
  /\ \A i \in Desc : i \in free \/ \E p \in Procs : i \in Mine(p)

(* The descriptors of a request describe it. *)
Described ==
  \A p \in Procs : Submitted(p) =>
    /\ desc[idx[p][1]] = [addr |-> [write |-> p \in Writers, sector |-> p], next |-> idx[p][2]]
    /\ desc[idx[p][2]] = [addr |-> p, next |-> idx[p][3]]
    /\ desc[idx[p][3]] = [addr |-> idx[p][1], next |-> None]
    /\ info[idx[p][1]].b = p

(* Has a request been put in the avail ring that the device can not see yet? *)
Notifying == \E p \in Procs : pc[p] = "notify"

(* The rings are where their indices say, with room to spare. *)
Filling ==
  /\ \A s \in Desc :
       /\ avail.ring[s] # None
            <=> s \in Span(dev.idx, avail.idx) \/ (Notifying /\ s = Slot(avail.idx))
       /\ used.ring[s] # None <=> s \in Span(used_idx, used.idx)
  /\ Dist(dev.idx, avail.idx) <= NUM - 2 /\ Dist(used_idx, used.idx) <= NUM - 2
  /\ Notifying => Dist(dev.idx, avail.idx) <= NUM - 3

(* What is in the rings and in the device are requests that are not carried out yet; one in the
   used ring is done. *)
AvailHeads ==
  \A i \in Desc : avail.ring[i] # None => \E p \in Procs : Busy(p) /\ avail.ring[i] = Head(p)
UsedHeads ==
  \A i \in Desc : used.ring[i] # None =>
    \E p \in Procs : /\ Busy(p) /\ used.ring[i] = Head(p) /\ info[Head(p)].status = 0
                     /\ data[p] = blocks[p]
WorkHeads ==
  \A v \in dev.work : \E p \in Procs : Busy(p) /\ v = Work(p)

(* Each of them is there once. *)
Distinct ==
  \A i, j \in Desc : /\ avail.ring[i] = avail.ring[j] /\ avail.ring[i] # None => i = j
                     /\ used.ring[i] = used.ring[j] /\ used.ring[i] # None => i = j
                     /\ avail.ring[i] = used.ring[j] => avail.ring[i] = None
Apart ==
  \A v \in dev.work, i \in Desc : avail.ring[i] # v.head /\ used.ring[i] # v.head

Places == AvailHeads /\ UsedHeads /\ WorkHeads /\ Distinct /\ Apart

(* Every request that is not carried out yet is in one of them. *)
Somewhere ==
  \A p \in Procs :
    /\ Busy(p) => \/ \E i \in Desc : avail.ring[i] = Head(p)
                  \/ Work(p) \in dev.work
                  \/ \E i \in Desc : used.ring[i] = Head(p)
    /\ Submitted(p) /\ ~bdisk[p] => data[p] = blocks[p]

(* The inductive invariant. *)
DInv == /\ Types /\ Locking /\ Owned /\ Described /\ Filling /\ Places /\ Somewhere
        /\ InterruptNotLost

-----------------------------------------------------------------------------
(* Quotient and remainder. *)
LEMMA ModDiv ==
  ASSUME NEW m \in Nat \ {0}, NEW a \in Int
  PROVE  a \div m \in Int /\ a % m \in 0..(m - 1) /\ a = (a \div m) * m + (a % m)
OBVIOUS

(* The remainder of a multiple and less. *)
LEMMA ModUnique ==
  ASSUME NEW m \in Nat \ {0}, NEW q \in Int, NEW d \in 0..(m - 1)
  PROVE  (q * m + d) % m = d
OBVIOUS

(* What the constants are. *)
LEMMA Constants ==
  /\ NUM \in Nat /\ NUM >= 3 /\ IDXMOD \in Nat /\ NUM <= IDXMOD
  /\ None \notin Procs /\ None \notin Desc /\ None # "intr" /\ None # "free" /\ None # "buf"
  /\ "intr" \notin Procs /\ Writers \in SUBSET Procs
<1>1. /\ NUM \in Nat /\ NUM >= 3 /\ IDXMOD \in Nat \ {0} /\ IDXMOD % NUM = 0
      /\ None \notin Procs /\ None \notin Desc /\ None # "intr" /\ None # "free" /\ None # "buf"
      /\ "intr" \notin Procs /\ Writers \in SUBSET Procs
  BY Zenon, VirtioAssumption DEF Desc
<1> DEFINE q == IDXMOD \div NUM
<1>2. q \in Int /\ IDXMOD = q * NUM
  BY <1>1, ModDiv
<1> HIDE DEF q
<1>3. q >= 1
  BY <1>1, <1>2
<1>4. q * NUM >= NUM
  BY <1>1, <1>2, <1>3
<1> QED
  BY Zenon, <1>1, <1>2, <1>4

(* An index that has wrapped around names the same slot. *)
LEMMA SlotWraps ==
  ASSUME NEW i \in Int
  PROVE  Slot(i + IDXMOD) = Slot(i) /\ Slot(i) \in Desc
<1> DEFINE q == i \div NUM
           d == i % NUM
           k == IDXMOD \div NUM
<1>1. NUM \in Nat \ {0} /\ IDXMOD \in Nat /\ IDXMOD % NUM = 0
  BY VirtioAssumption
<1>2. q \in Int /\ d \in 0..(NUM - 1) /\ i = q * NUM + d
  BY Zenon, <1>1, ModDiv
<1>3. k \in Int /\ IDXMOD = k * NUM
  BY <1>1, ModDiv
<1> HIDE DEF q, d, k
<1>4. i + IDXMOD = (q + k) * NUM + d
  BY <1>1, <1>2, <1>3
<1>5. (i + IDXMOD) % NUM = d
  BY <1>1, <1>2, <1>3, <1>4, ModUnique
<1> QED
  BY Zenon, <1>2, <1>5 DEF Slot, Desc, d

(* Indices less than a ring apart name different slots. *)
LEMMA SlotsDiffer ==
  ASSUME NEW i \in Int, NEW j \in Int, i < j, j < i + NUM
  PROVE  Slot(i) # Slot(j)
<1> DEFINE q == i \div NUM
           k == j \div NUM
           d == i % NUM
<1>0. NUM \in Nat \ {0}
  BY VirtioAssumption
<1> SUFFICES ASSUME i % NUM = j % NUM PROVE FALSE
  BY Zenon DEF Slot
<1>1. q \in Int /\ k \in Int /\ d \in Int /\ i = q * NUM + d /\ j = k * NUM + d
  BY <1>0, ModDiv
<1> HIDE DEF q, k, d
<1>2. j - i = (k - q) * NUM
  BY <1>0, <1>1
<1>3. CASE k - q >= 1
  <2>1. (k - q) * NUM >= NUM
    BY <1>0, <1>1, <1>3
  <2> QED
    BY <1>0, <1>2, <2>1
<1>4. CASE k - q <= 0
  <2>1. (k - q) * NUM <= 0
    BY <1>0, <1>1, <1>4
  <2> QED
    BY <1>2, <2>1
<1> QED
  BY <1>1, <1>3, <1>4

(* The next index. *)
LEMMA IncIs ==
  ASSUME NEW i \in Index
  PROVE  Inc(i) \in Index /\ Inc(i) = IF i + 1 = IDXMOD THEN 0 ELSE i + 1
<1>1. IDXMOD \in Nat \ {0}
  BY Zenon, VirtioAssumption
<1>2. \A a \in 0..(IDXMOD - 1) : a % IDXMOD = a
  BY <1>1
<1>3. IDXMOD % IDXMOD = 0
  BY <1>1
<1> QED
  BY <1>1, <1>2, <1>3 DEF Inc, Index

(* How far apart indices are. *)
LEMMA DistIs ==
  ASSUME NEW i \in Index, NEW j \in Index
  PROVE  /\ Dist(i, j) \in Nat /\ (Dist(i, j) = 0 <=> i = j)
         /\ i + Dist(i, j) = j \/ i + Dist(i, j) = j + IDXMOD
         /\ Slot(i + Dist(i, j)) = Slot(j) /\ Slot(j) \in Desc
<1>1. /\ Dist(i, j) \in Nat /\ (Dist(i, j) = 0 <=> i = j) /\ j \in Int /\ i \in Int
      /\ i + Dist(i, j) = j \/ i + Dist(i, j) = j + IDXMOD
  BY Constants DEF Dist, Index
<1> QED
  BY Zenon, <1>1, SlotWraps

(* What is in a span. *)
LEMMA InSpan ==
  ASSUME NEW i, NEW j, NEW s
  PROVE  s \in Span(i, j) <=> \E k \in 0..(Dist(i, j) - 1) : s = Slot(i + k)
BY Zenon DEF Span

(* An index moves on at the far end of a span. *)
LEMMA SpanPush ==
  ASSUME NEW i \in Index, NEW j \in Index, Dist(i, j) <= NUM - 3
  PROVE  /\ Inc(j) \in Index /\ Dist(i, Inc(j)) = Dist(i, j) + 1
         /\ Slot(j) \in Desc /\ Slot(j) \notin Span(i, j)
         /\ \A s : s \in Span(i, Inc(j)) <=> s \in Span(i, j) \/ s = Slot(j)
<1> DEFINE d == Dist(i, j)
           f == Inc(j)
<1>1. f \in Index /\ f = IF j + 1 = IDXMOD THEN 0 ELSE j + 1
  BY Zenon, IncIs
<1>2. d \in Nat /\ d <= NUM - 3 /\ Slot(i + d) = Slot(j) /\ Slot(j) \in Desc /\ i \in Int
  BY DistIs DEF Index
<1>3. Dist(i, f) = d + 1
  <2> HIDE DEF f
  <2> QED
    BY <1>1, Constants DEF Index, Dist
<1> HIDE DEF d, f
<1>4. ASSUME NEW k \in 0..(d - 1) PROVE Slot(i + k) # Slot(j)
  <2>1. i + k \in Int /\ i + d \in Int /\ i + k < i + d /\ i + d < (i + k) + NUM
    BY <1>2, Constants
  <2> QED
    BY Zenon, <1>2, <2>1, SlotsDiffer
<1>5. Slot(j) \notin Span(i, j)
  BY <1>4, InSpan DEF d
<1>6. ASSUME NEW s PROVE s \in Span(i, f) <=> s \in Span(i, j) \/ s = Slot(j)
  <2>1. s \in Span(i, f) <=> \E k \in 0..d : s = Slot(i + k)
    <3>1. (d + 1) - 1 = d
      BY <1>2
    <3> QED
      BY <1>3, <3>1, InSpan
  <2>2. s \in Span(i, j) <=> \E k \in 0..(d - 1) : s = Slot(i + k)
    BY InSpan DEF d
  <2>3. d \in 0..d /\ \A k \in 0..d : k = d \/ k \in 0..(d - 1)
    BY <1>2
  <2>4. \A k \in 0..(d - 1) : k \in 0..d
    BY <1>2
  <2> QED
    BY <1>2, <2>1, <2>2, <2>3, <2>4, Zenon
<1> QED
  BY Zenon, <1>1, <1>2, <1>3, <1>5, <1>6 DEF d, f

(* An index moves on at the near end of a span. *)
LEMMA SpanPop ==
  ASSUME NEW i \in Index, NEW j \in Index, i # j, Dist(i, j) <= NUM - 2
  PROVE  /\ Inc(i) \in Index /\ Dist(Inc(i), j) = Dist(i, j) - 1
         /\ Slot(i) \in Desc /\ Slot(i) \in Span(i, j) /\ Slot(i) # Slot(j)
         /\ \A s : s \in Span(Inc(i), j) <=> s \in Span(i, j) /\ s # Slot(i)
<1> DEFINE d == Dist(i, j)
           f == Inc(i)
<1>1. f \in Index /\ f = IF i + 1 = IDXMOD THEN 0 ELSE i + 1
  BY Zenon, IncIs
<1>2. d \in Nat /\ d # 0 /\ d <= NUM - 2 /\ Slot(i + d) = Slot(j) /\ i \in Int /\ Slot(i) \in Desc
  BY DistIs, SlotWraps DEF Index
<1>3. Dist(f, j) = d - 1
  <2> HIDE DEF f
  <2> QED
    BY <1>1, <1>2, Constants DEF Index, Dist
<1>4. ASSUME NEW k \in Int PROVE Slot(f + k) = Slot(i + (k + 1))
  <2>1. f + k \in Int /\ (i + (k + 1) = f + k \/ i + (k + 1) = (f + k) + IDXMOD)
    <3> HIDE DEF f
    <3> QED
      BY <1>1, Constants DEF Index
  <2> QED
    BY Zenon, <2>1, SlotWraps
<1> HIDE DEF d, f
<1>5. ASSUME NEW k \in 1..d PROVE Slot(i + k) # Slot(i)
  <2>1. i + k \in Int /\ i < i + k /\ i + k < i + NUM
    BY <1>2, Constants
  <2> QED
    BY Zenon, <1>2, <2>1, SlotsDiffer
<1>6. Slot(i) \in Span(i, j)
  <2>1. 0 \in 0..(d - 1) /\ i + 0 = i
    BY <1>2
  <2> QED
    BY Zenon, <2>1, InSpan DEF d
<1>7. Slot(i) # Slot(j)
  <2>1. d \in 1..d
    BY <1>2
  <2> QED
    BY Zenon, <1>2, <1>5, <2>1
<1>8. ASSUME NEW s PROVE s \in Span(f, j) <=> s \in Span(i, j) /\ s # Slot(i)
  <2>1. s \in Span(f, j) <=> \E k \in 0..(d - 2) : s = Slot(i + (k + 1))
    <3>1. (d - 1) - 1 = d - 2 /\ \A k \in 0..(d - 2) : k \in Int
      BY <1>2
    <3>2. s \in Span(f, j) <=> \E k \in 0..(d - 2) : s = Slot(f + k)
      BY <1>3, <3>1, InSpan
    <3> QED
      BY Zenon, <1>4, <3>1, <3>2
  <2>2. s \in Span(i, j) <=> \E k \in 0..(d - 1) : s = Slot(i + k)
    BY InSpan DEF d
  <2>3. ASSUME NEW k \in 0..(d - 2) PROVE k + 1 \in 0..(d - 1) /\ k + 1 \in 1..d
    BY <1>2
  <2>4. ASSUME NEW k \in 0..(d - 1), Slot(i + k) # Slot(i)
        PROVE  k - 1 \in 0..(d - 2) /\ i + ((k - 1) + 1) = i + k
    <3>1. k # 0
      <4>1. i + 0 = i
        BY <1>2
      <4> QED
        BY Zenon, <2>4, <4>1
    <3> QED
      BY <1>2, <3>1
  <2>5. s \in Span(f, j) => s \in Span(i, j) /\ s # Slot(i)
    BY Zenon, <1>5, <2>1, <2>2, <2>3
  <2>6. s \in Span(i, j) /\ s # Slot(i) => s \in Span(f, j)
    BY Zenon, <2>1, <2>2, <2>4
  <2> QED
    BY Zenon, <2>5, <2>6
<1> QED
  BY Zenon, <1>1, <1>2, <1>3, <1>6, <1>7, <1>8 DEF d, f

(* A ring of requests leaves out the descriptors of a process that has     *)
(* none in it, so it is not full.                                          *)
LEMMA RoomLeft ==
  ASSUME NEW i \in Index, NEW j \in Index, Dist(i, j) <= NUM - 2,
         NEW a \in Desc, NEW b \in Desc, NEW c \in Desc, a # b, a # c, b # c,
         NEW ring, \A s \in Span(i, j) : ring[s] \in Desc /\ ring[s] \notin {a, b, c},
         \A s, t \in Desc : ring[s] = ring[t] /\ ring[s] # None => s = t
  PROVE  Dist(i, j) <= NUM - 3
<1> DEFINE d == Dist(i, j)
           D == 0..(d - 1)
           T == ((Desc \ {a}) \ {b}) \ {c}
           f == [k \in D |-> ring[Slot(i + k)]]
<1>1. d \in Nat /\ d <= NUM - 2 /\ i \in Int
  BY DistIs DEF Index
<1>2. ASSUME NEW k \in D PROVE f[k] \in T /\ i + k \in Int /\ Slot(i + k) \in Desc
  <2>1. Slot(i + k) \in Span(i, j)
    BY Zenon, InSpan
  <2>2. i + k \in Int
    BY <1>1
  <2> QED
    BY Zenon, <2>1, <2>2, SlotWraps
<1>3. f \in [D -> T]
  BY Zenon, <1>2
<1>4. ASSUME NEW k \in D, NEW l \in D, f[k] = f[l] PROVE k = l
  <2>1. Slot(i + k) = Slot(i + l)
    <3>1. ring[Slot(i + k)] = ring[Slot(i + l)] /\ ring[Slot(i + k)] # None
      BY <1>2, <1>4, Constants
    <3> QED
      BY Zenon, <1>2, <3>1
  <2>2. ASSUME NEW x \in D, NEW y \in D, x < y PROVE Slot(i + x) # Slot(i + y)
    <3>1. i + x \in Int /\ i + y \in Int /\ i + x < i + y /\ i + y < (i + x) + NUM
      <4> HIDE DEF d
      <4> QED
        BY <1>1, <2>2, Constants
    <3> QED
      BY Zenon, <3>1, SlotsDiffer
  <2>3. k < l \/ l < k \/ k = l
    BY <1>1
  <2> QED
    BY Zenon, <2>1, <2>2, <2>3
<1>5. f \in Injection(D, T)
  <2> HIDE DEF f, D, T
  <2> QED
    BY Zenon, <1>3, <1>4 DEF Injection, IsInjective
<1>6. IsFiniteSet(T) /\ Cardinality(T) = NUM - 3
  <2>1. IsFiniteSet(Desc) /\ Cardinality(Desc) = NUM
    BY FS_Interval, Constants DEF Desc
  <2>2. IsFiniteSet(Desc \ {a}) /\ Cardinality(Desc \ {a}) = NUM - 1
    BY Zenon, <2>1, FS_RemoveElement
  <2>3. IsFiniteSet((Desc \ {a}) \ {b}) /\ Cardinality((Desc \ {a}) \ {b}) = NUM - 2
    <3> DEFINE A == Desc \ {a}
    <3>1. b \in A
      OBVIOUS
    <3> HIDE DEF A
    <3>2. IsFiniteSet(A \ {b}) /\ Cardinality(A \ {b}) = Cardinality(A) - 1
      BY Zenon, <2>2, <3>1, FS_RemoveElement DEF A
    <3> QED
      BY <2>2, <3>2, Constants DEF A
  <2> DEFINE B == (Desc \ {a}) \ {b}
  <2>4. c \in B
    OBVIOUS
  <2> HIDE DEF B
  <2>5. IsFiniteSet(B \ {c}) /\ Cardinality(B \ {c}) = Cardinality(B) - 1
    BY Zenon, <2>3, <2>4, FS_RemoveElement DEF B
  <2> QED
    BY <2>3, <2>5, Constants DEF B
<1>7. Cardinality(D) = d
  <2> HIDE DEF d
  <2> QED
    BY <1>1, FS_Interval
<1> HIDE DEF f, D, T, d
<1>8. Cardinality(D) <= Cardinality(T)
  BY Zenon, <1>5, <1>6, FS_Injection
<1> QED
  BY Zenon, <1>6, <1>7, <1>8 DEF d

-----------------------------------------------------------------------------
(* The invariant at boot. *)
LEMMA Initially ==
  ASSUME Init
  PROVE  DInv
<1>1. 0 \in Index /\ Dist(0, 0) = 0
  BY Constants DEF Index, Dist
<1>2. avail = Ring /\ used = Ring /\ used_idx = 0 /\ dev = [idx |-> 0, work |-> {}]
      /\ Ring.ring = [i \in Desc |-> None] /\ Ring.idx = 0 /\ Ring \in Rings
  BY Zenon, <1>1 DEF Init, Ring, Rings
<1>3. Types
  BY <1>1, <1>2, Constants DEF Init, Types, Works
<1>4. Locking /\ Owned /\ Described /\ Somewhere /\ InterruptNotLost
  <2>1. \A p \in Procs : Mine(p) = {} /\ ~Submitted(p) /\ chan[p] = None /\ vdisk_lock = None
                         /\ pc[p] = "idle" /\ idx[p] = <<>>
    BY Zenon DEF Init, Mine, Submitted
  <2>2. Locking /\ Described /\ Somewhere
    BY Zenon, <2>1, Constants DEF Locking, Described, Somewhere, Busy
  <2>3. Owned
    BY Zenon, <2>1 DEF Init, Owned
  <2> QED
    BY Zenon, <1>2, <2>2, <2>3 DEF InterruptNotLost
<1>5. Filling
  <2>1. ~Notifying
    BY Zenon DEF Init, Notifying
  <2>2. \A s : s \notin Span(0, 0)
    BY <1>1, InSpan
  <2> QED
    BY <1>1, <1>2, <2>1, <2>2, Constants DEF Filling
<1>6. Places
  BY Zenon, <1>2 DEF Places, AvailHeads, UsedHeads, WorkHeads, Distinct, Apart
<1> QED
  BY Zenon, <1>3, <1>4, <1>5, <1>6 DEF DInv

(* The descriptors of a process that has some. *)
LEMMA MineIs ==
  ASSUME Owned, NEW p \in Procs, pc[p] \notin {"idle", "alloc"}
  PROVE  /\ Mine(p) = {idx[p][1], idx[p][2], idx[p][3]} /\ Head(p) = idx[p][1] /\ Head(p) \in Mine(p)
         /\ idx[p][1] \in Desc /\ idx[p][2] \in Desc /\ idx[p][3] \in Desc
         /\ idx[p][1] # idx[p][2] /\ idx[p][1] # idx[p][3] /\ idx[p][2] # idx[p][3]
<1>1. idx[p] \in Desc \X Desc \X Desc
  BY Zenon DEF Owned
<1> QED
  BY Zenon, <1>1 DEF Owned, Mine, Head

(* A descriptor has one owner, a request one head. *)
LEMMA OneOwner ==
  ASSUME Owned, NEW p \in Procs, NEW q \in Procs, NEW i, i \in Mine(p), i \in Mine(q)
  PROVE  p = q
BY Zenon DEF Owned

LEMMA OneHead ==
  ASSUME Owned, NEW p \in Procs, NEW q \in Procs,
         pc[p] \notin {"idle", "alloc"}, pc[q] \notin {"idle", "alloc"}, Head(p) = Head(q)
  PROVE  p = q
BY Zenon, MineIs, OneOwner

(* Steps that leave the descriptors with their owners. *)
LEMMA OwnedFrame ==
  ASSUME Owned, idx' = idx, free' = free,
         \A q \in Procs : /\ Mine(q)' = Mine(q)
                          /\ pc'[q] \in {"idle", "alloc"} <=> pc[q] \in {"idle", "alloc"}
  PROVE  Owned'
BY DEF Owned

(* Steps that leave the descriptors of every request alone. *)
LEMMA DescribedFrame ==
  ASSUME Described,
         \A q \in Procs : Submitted(q)' =>
           /\ Submitted(q) /\ idx'[q] = idx[q] /\ info'[idx[q][1]].b = info[idx[q][1]].b
           /\ desc'[idx[q][1]] = desc[idx[q][1]] /\ desc'[idx[q][2]] = desc[idx[q][2]]
           /\ desc'[idx[q][3]] = desc[idx[q][3]]
  PROVE  Described'
<1>1. SUFFICES ASSUME NEW p \in Procs, Submitted(p)'
      PROVE  /\ desc'[idx'[p][1]] = [addr |-> [write |-> p \in Writers, sector |-> p],
                                     next |-> idx'[p][2]]
             /\ desc'[idx'[p][2]] = [addr |-> p, next |-> idx'[p][3]]
             /\ desc'[idx'[p][3]] = [addr |-> idx'[p][1], next |-> None]
             /\ info'[idx'[p][1]].b = p
  BY Zenon DEF Described
<1>2. /\ desc[idx[p][1]] = [addr |-> [write |-> p \in Writers, sector |-> p], next |-> idx[p][2]]
      /\ desc[idx[p][2]] = [addr |-> p, next |-> idx[p][3]]
      /\ desc[idx[p][3]] = [addr |-> idx[p][1], next |-> None]
      /\ info[idx[p][1]].b = p
  BY Zenon, <1>1 DEF Described
<1> QED
  BY Zenon, <1>1, <1>2

(* Steps that do not touch a request. *)
LEMMA PlacesFrame ==
  ASSUME Places, Somewhere,
         avail'.ring = avail.ring, used'.ring = used.ring, dev'.work = dev.work,
         \A q \in Procs :
           /\ Busy(q)' <=> Busy(q)
           /\ Submitted(q)' => Submitted(q) /\ idx'[q] = idx[q] /\ bdisk'[q] = bdisk[q]
                               /\ data'[q] = data[q] /\ blocks'[q] = blocks[q]
           /\ Busy(q) => info'[Head(q)].status = info[Head(q)].status
  PROVE  Places' /\ Somewhere'
<1>1. \A q \in Procs : Busy(q)' => Head(q)' = Head(q) /\ Work(q)' = Work(q) /\ data'[q] = data[q]
                                    /\ blocks'[q] = blocks[q]
  BY Zenon DEF Busy, Head, Work
<1>2. Places'
  <2>1. \A i \in Desc : avail'.ring[i] # None => \E p \in Procs : Busy(p)' /\ avail'.ring[i] = Head(p)'
    BY <1>1 DEF Places, AvailHeads, UsedHeads, WorkHeads, Distinct, Apart
  <2>2. \A i \in Desc : used'.ring[i] # None =>
          \E p \in Procs : /\ Busy(p)' /\ used'.ring[i] = Head(p)' /\ info'[Head(p)'].status = 0
                           /\ data'[p] = blocks'[p]
    BY <1>1 DEF Places, AvailHeads, UsedHeads, WorkHeads, Distinct, Apart
  <2>3. \A v \in dev'.work : \E p \in Procs : Busy(p)' /\ v = Work(p)'
    BY <1>1 DEF Places, AvailHeads, UsedHeads, WorkHeads, Distinct, Apart
  <2> QED
    BY <2>1, <2>2, <2>3 DEF Places, AvailHeads, UsedHeads, WorkHeads, Distinct, Apart
<1>3. Somewhere'
  <2>1. ASSUME NEW p \in Procs, Busy(p)'
        PROVE  \/ \E i \in Desc : avail'.ring[i] = Head(p)'
               \/ Work(p)' \in dev'.work
               \/ \E i \in Desc : used'.ring[i] = Head(p)'
    BY <1>1, <2>1 DEF Somewhere
  <2>2. ASSUME NEW p \in Procs, Submitted(p)', ~bdisk'[p] PROVE data'[p] = blocks'[p]
    BY Zenon, <2>2 DEF Somewhere
  <2> QED
    BY Zenon, <2>1, <2>2 DEF Somewhere
<1> QED
  BY Zenon, <1>2, <1>3

-----------------------------------------------------------------------------
(* A call. *)
LEMMA CallInv ==
  ASSUME DInv, NEW p \in Procs, Call(p)
  PROVE  DInv'
<1>1. /\ pc[p] = "idle" /\ pc' = [pc EXCEPT ![p] = "alloc"]
      /\ data' = [data EXCEPT ![p] = IF p \in Writers THEN 1 - blocks[p] ELSE 2]
      /\ UNCHANGED <<vdisk_lock, chan, idx, free, desc, info, avail, used, used_idx, bdisk,
                     dev, blocks, irq, panic>>
  BY Zenon DEF Call, Goto, Junk
<1>2. \A q \in Procs : /\ Mine(q)' = Mine(q) /\ (Submitted(q)' <=> Submitted(q))
                       /\ (Busy(q)' <=> Busy(q)) /\ (Submitted(q) => q # p)
                       /\ (pc'[q] = "notify" <=> pc[q] = "notify")
  BY Zenon, <1>1 DEF DInv, Types, Mine, Submitted, Busy
<1>3. Types'
  <2>1. 1 - blocks[p] \in 0..1
    BY DEF DInv, Types
  <2>2. data' \in [Procs -> 0..2] /\ \A q \in Writers : data'[q] \in 0..1
    BY <1>1, <2>1, Constants DEF DInv, Types
  <2> QED
    BY Zenon, <1>1, <2>2 DEF DInv, Types
<1>4. Locking'
  BY <1>1 DEF DInv, Types, Locking
<1>5. Owned'
  BY <1>1, <1>2 DEF DInv, Types, Owned
<1>6. Described'
  BY Zenon, <1>1, <1>2 DEF DInv, Described
<1>7. Filling'
  BY Zenon, <1>1, <1>2 DEF DInv, Filling, Notifying
<1>8. Places' /\ Somewhere'
  <2>1. \A q \in Procs : q # p => data'[q] = data[q]
    BY Zenon, <1>1 DEF DInv, Types
  <2> QED
    BY Zenon, <1>1, <1>2, <2>1, PlacesFrame DEF DInv
<1>9. InterruptNotLost'
  BY Zenon, <1>1 DEF DInv, InterruptNotLost
<1> QED
  BY Zenon, <1>3, <1>4, <1>5, <1>6, <1>7, <1>8, <1>9 DEF DInv

(* The lowest descriptor of a set is in it. *)
LEMMA Lowest ==
  ASSUME NEW S \in SUBSET Desc, S # {}
  PROVE  Min(S) \in S
<1> DEFINE R == OpToRel(<, Nat)
<1>1. S \in SUBSET Nat
  BY DEF Desc
<1>2. \E x \in S : \A y \in S : ~(<<y, x>> \in R)
  <2> HIDE DEF R
  <2>1. IsWellFoundedOn(R, Nat)
    BY Zenon, NatLessThanWellFounded DEF R
  <2> QED
    BY <1>1, <2>1, WFMin, Zenon
<1>3. PICK x \in S : \A y \in S : ~(<<y, x>> \in R)
  BY Zenon, <1>2
<1>4. ASSUME NEW y \in S PROVE x <= y
  <2>1. ~(<<y, x>> \in R) /\ x \in Nat /\ y \in Nat
    BY Zenon, <1>1, <1>3
  <2> QED
    BY <2>1 DEF OpToRel
<1> QED
  BY Zenon, <1>4 DEF Min

(* Three of at least three descriptors. *)
LEMMA Lowest3 ==
  ASSUME NEW S \in SUBSET Desc, Cardinality(S) >= 3
  PROVE  LET a == Min(S)
             b == Min(S \ {a})
             c == Min(S \ {a, b}) IN
         a \in S /\ b \in S /\ c \in S /\ a # b /\ a # c /\ b # c
<1> DEFINE a == Min(S)
           b == Min(S \ {a})
           c == Min(S \ {a, b})
<1>1. IsFiniteSet(S) /\ Cardinality(S) \in Nat
  <2>1. IsFiniteSet(Desc)
    BY FS_Interval, Constants DEF Desc
  <2> QED
    BY Zenon, <2>1, FS_Subset, FS_CardinalityType
<1>2. a \in S
  <2>1. S # {}
    BY <1>1, FS_EmptySet
  <2> QED
    BY Zenon, <2>1, Lowest
<1> HIDE DEF a
<1> DEFINE A == S \ {a}
<1>3. IsFiniteSet(A) /\ Cardinality(A) = Cardinality(S) - 1 /\ A \in SUBSET Desc
  BY Zenon, <1>1, <1>2, FS_RemoveElement
<1>4. b \in A
  <2>1. A # {}
    <3> HIDE DEF A
    <3> QED
      BY <1>1, <1>3, FS_EmptySet
  <2> QED
    BY Zenon, <1>3, <2>1, Lowest
<1> HIDE DEF b
<1>5. c \in S \ {a, b}
  <2>1. IsFiniteSet(A \ {b}) /\ Cardinality(A \ {b}) = Cardinality(A) - 1
    <3> HIDE DEF A
    <3> QED
      BY Zenon, <1>3, <1>4, FS_RemoveElement
  <2>2. A \ {b} = S \ {a, b}
    OBVIOUS
  <2>3. S \ {a, b} # {}
    <3> HIDE DEF A
    <3>1. Cardinality(A \ {b}) # 0
      BY <1>1, <1>3, <2>1
    <3> QED
      BY Zenon, <2>1, <2>2, <3>1, FS_EmptySet
  <2> QED
    BY Zenon, <2>3, Lowest
<1> HIDE DEF c
<1> QED
  BY Zenon, <1>2, <1>4, <1>5 DEF a, b, c

(* How many are free. *)
LEMMA FreeCount ==
  ASSUME DInv
  PROVE  Cardinality(free) \in Nat
<1>1. IsFiniteSet(Desc)
  BY FS_Interval, Constants DEF Desc
<1> QED
  BY Zenon, <1>1, FS_Subset, FS_CardinalityType DEF DInv, Types

(* Three descriptors are taken. *)
LEMMA AllocInv ==
  ASSUME DInv, NEW p \in Procs, Alloc3Desc(p)
  PROVE  DInv'
<1>1. CASE Cardinality(free) >= 3
  <2>1. PICK a, b, c \in free :
          /\ a # b /\ a # c /\ b # c
          /\ idx' = [idx EXCEPT ![p] = <<a, b, c>>] /\ free' = free \ {a, b, c}
    <3> DEFINE a == Min(free)
               b == Min(free \ {a})
               c == Min(free \ {a, b})
    <3>1. a \in free /\ b \in free /\ c \in free /\ a # b /\ a # c /\ b # c
      BY Zenon, <1>1, Lowest3 DEF DInv, Types
    <3>2. Cardinality(free) \in Nat
      BY Zenon, FreeCount
    <3>3. ~(Cardinality(free) < 3)
      BY <1>1, <3>2
    <3>4. idx' = [idx EXCEPT ![p] = <<a, b, c>>] /\ free' = free \ {a, b, c}
      BY Zenon, <3>3 DEF Alloc3Desc
    <3> QED
      BY Zenon, <3>1, <3>4
  <2>2. /\ pc[p] = "alloc" /\ vdisk_lock = None /\ chan[p] = None /\ vdisk_lock' = p
        /\ pc' = [pc EXCEPT ![p] = "format"]
        /\ UNCHANGED <<chan, desc, info, avail, used, used_idx, bdisk, data, dev, blocks, irq, panic>>
    <3>1. Cardinality(free) \in Nat
      BY Zenon, FreeCount
    <3> QED
      BY <1>1, <3>1 DEF Alloc3Desc, Goto
  <2>3. a \in Desc /\ b \in Desc /\ c \in Desc /\ <<a, b, c>> \in Desc \X Desc \X Desc
    BY Zenon, <2>1 DEF DInv, Types
  <2>4. \A q \in Procs : (Submitted(q)' <=> Submitted(q)) /\ (Busy(q)' <=> Busy(q))
                         /\ (Submitted(q) => q # p) /\ (pc'[q] = "notify" <=> pc[q] = "notify")
    BY <2>2 DEF DInv, Types, Submitted, Busy
  <2>5. \A q \in Procs : q # p => idx'[q] = idx[q] /\ pc'[q] = pc[q] /\ Mine(q)' = Mine(q)
    BY Zenon, <2>1, <2>2 DEF DInv, Types, Mine
  <2>6. /\ idx'[p] = <<a, b, c>> /\ pc'[p] = "format" /\ Mine(p)' = {a, b, c} /\ Mine(p) = {}
        /\ idx'[p][1] = a /\ idx'[p][2] = b /\ idx'[p][3] = c
    BY <2>1, <2>2 DEF DInv, Types, Mine
  <2>7. Types'
    BY Zenon, <2>1, <2>2, <2>3 DEF DInv, Types
  <2>8. Locking'
    <3>1. Cardinality(free) < 3 => FALSE
      <4>1. Cardinality(free) \in Nat
        BY Zenon, FreeCount
      <4> QED
        BY <1>1, <4>1
    <3>2. \A q \in Procs : chan[q] # "free"
      BY Zenon, <3>1 DEF DInv, Locking
    <3>3. \A q \in Procs : pc[q] \notin {"format", "notify"}
      BY Zenon, <2>2, Constants DEF DInv, Locking
    <3> QED
      BY <2>2, <2>5, <2>6, <3>2, <3>3, Constants DEF DInv, Types, Locking
  <2>9. Owned'
    <3>1. ASSUME NEW q \in Procs
          PROVE  /\ pc'[q] \in {"idle", "alloc"} => idx'[q] = <<>>
                 /\ pc'[q] \notin {"idle", "alloc"} =>
                      /\ idx'[q] \in Desc \X Desc \X Desc
                      /\ idx'[q][1] # idx'[q][2] /\ idx'[q][1] # idx'[q][3] /\ idx'[q][2] # idx'[q][3]
      BY <2>1, <2>3, <2>5, <2>6 DEF DInv, Owned
    <3>2. ASSUME NEW q \in Procs
          PROVE  /\ Mine(q)' \cap free' = {}
                 /\ \A o \in Procs : q # o => Mine(q)' \cap Mine(o)' = {}
      BY <2>1, <2>5, <2>6 DEF DInv, Owned
    <3>3. ASSUME NEW i \in Desc PROVE i \in free' \/ \E q \in Procs : i \in Mine(q)'
      BY <2>1, <2>5, <2>6 DEF DInv, Owned
    <3> QED
      BY Zenon, <3>1, <3>2, <3>3 DEF Owned
  <2>10. Described'
    BY Zenon, <2>2, <2>4, <2>5, DescribedFrame DEF DInv
  <2>11. Filling'
    BY Zenon, <2>2, <2>4 DEF DInv, Filling, Notifying
  <2>12. Places' /\ Somewhere'
    BY Zenon, <2>2, <2>4, <2>5, PlacesFrame DEF DInv
  <2>13. InterruptNotLost'
    BY Zenon, <2>2, Constants DEF DInv, InterruptNotLost
  <2> QED
    BY Zenon, <2>7, <2>8, <2>9, <2>10, <2>11, <2>12, <2>13 DEF DInv
<1>2. CASE ~(Cardinality(free) >= 3)
  <2>1. /\ pc[p] = "alloc" /\ vdisk_lock = None /\ Cardinality(free) < 3
        /\ chan' = [(IF free = {} THEN chan ELSE WokenFree) EXCEPT ![p] = "free"]
        /\ UNCHANGED <<vdisk_lock, pc, idx, free, desc, info, avail, used, used_idx, bdisk, data, dev,
                       blocks, irq, panic>>
    BY Zenon, <1>2 DEF Alloc3Desc
  <2>2. /\ chan' \in [Procs -> {None, "free", "buf"}] /\ chan'[p] = "free"
        /\ \A q \in Procs : q # p => chan'[q] = chan[q] \/ (chan'[q] = None /\ chan[q] = "free")
    BY Zenon, <2>1 DEF DInv, Types, WokenFree
  <2>3. Types'
    BY Zenon, <2>1, <2>2 DEF DInv, Types
  <2>4. Locking'
    BY <2>1, <2>2, Constants DEF DInv, Types, Locking
  <2>5. \A q \in Procs : Mine(q)' = Mine(q) /\ (Submitted(q)' <=> Submitted(q)) /\ (Busy(q)' <=> Busy(q))
    BY Zenon, <2>1 DEF Mine, Submitted, Busy
  <2>6. Owned' /\ Described' /\ Filling' /\ InterruptNotLost'
    <3>1. Owned' /\ Described'
      BY Zenon, <2>1, <2>5, OwnedFrame, DescribedFrame DEF DInv
    <3>2. Filling' /\ InterruptNotLost'
      BY Zenon, <2>1 DEF DInv, Filling, Notifying, InterruptNotLost
    <3> QED
      BY Zenon, <3>1, <3>2
  <2>7. Places' /\ Somewhere'
    BY Zenon, <2>1, <2>5, PlacesFrame DEF DInv
  <2> QED
    BY Zenon, <2>3, <2>4, <2>6, <2>7 DEF DInv
<1> QED
  BY Zenon, <1>1, <1>2

(* Steps that only move a process and the lock. *)
LEMMA MoveInv ==
  ASSUME DInv, Intr \/ \E p \in Procs : Sleep(p) \/ Wake(p)
  PROVE  DInv'
<1>1. UNCHANGED <<pc, idx, free, desc, info, avail, used, used_idx, bdisk, data, dev, blocks, panic>>
  BY Zenon DEF Sleep, Wake, Intr
<1>2. \A q \in Procs : Mine(q)' = Mine(q) /\ (Submitted(q)' <=> Submitted(q)) /\ (Busy(q)' <=> Busy(q))
  BY Zenon, <1>1 DEF Mine, Submitted, Busy
<1>3. Types'
  BY <1>1 DEF DInv, Types, Sleep, Wake, Intr
<1>4. Locking'
  <2>1. ASSUME NEW p \in Procs, Sleep(p) PROVE Locking'
    BY <1>1, <2>1, Constants DEF DInv, Types, Locking, Sleep
  <2>2. ASSUME NEW p \in Procs, Wake(p) PROVE Locking'
    BY <1>1, <2>2, Constants DEF DInv, Types, Locking, Wake
  <2>3. CASE Intr
    BY <1>1, <2>3, Constants DEF DInv, Types, Locking, Intr
  <2> QED
    BY Zenon, <2>1, <2>2, <2>3
<1>5. Owned' /\ Described' /\ Filling'
  <2>1. Owned' /\ Described'
    BY Zenon, <1>1, <1>2, OwnedFrame, DescribedFrame DEF DInv
  <2>2. Filling'
    BY Zenon, <1>1 DEF DInv, Filling, Notifying
  <2> QED
    BY Zenon, <2>1, <2>2
<1>6. Places' /\ Somewhere'
  BY Zenon, <1>1, <1>2, PlacesFrame DEF DInv
<1>7. InterruptNotLost'
  BY Zenon, <1>1, Constants DEF DInv, InterruptNotLost, Sleep, Wake, Intr
<1> QED
  BY Zenon, <1>3, <1>4, <1>5, <1>6, <1>7 DEF DInv

(* The index that makes a request visible. *)
LEMMA NotifyInv ==
  ASSUME DInv, NEW p \in Procs, Notify(p)
  PROVE  DInv'
<1>1. /\ pc[p] = "notify" /\ pc' = [pc EXCEPT ![p] = "wait"] /\ vdisk_lock = p
      /\ UNCHANGED <<vdisk_lock, chan, idx, free, desc, info, used, used_idx, bdisk, data,
                     dev, blocks, irq, panic>>
  BY Zenon DEF Notify, Goto, DInv, Locking
<1>2. avail'.ring = avail.ring /\ avail'.idx = Inc(avail.idx) /\ avail.idx \in Index /\ dev.idx \in Index
  BY Zenon DEF Notify, DInv, Types, Rings
<1>3. Dist(dev.idx, avail.idx) <= NUM - 3 /\ Notifying
  BY Zenon, <1>1 DEF DInv, Filling, Notifying
<1>4. /\ Inc(avail.idx) \in Index /\ Dist(dev.idx, Inc(avail.idx)) = Dist(dev.idx, avail.idx) + 1
      /\ Dist(dev.idx, avail.idx) \in Nat
      /\ \A s : s \in Span(dev.idx, Inc(avail.idx))
                  <=> s \in Span(dev.idx, avail.idx) \/ s = Slot(avail.idx)
  BY Zenon, <1>2, <1>3, SpanPush, DistIs
<1>5. \A q \in Procs : Mine(q)' = Mine(q) /\ (Submitted(q)' <=> Submitted(q)) /\ (Busy(q)' <=> Busy(q))
  BY <1>1 DEF DInv, Types, Mine, Submitted, Busy
<1>6. ~Notifying'
  <2>1. \A q \in Procs : pc[q] = "notify" => q = p
    BY Zenon, <1>1 DEF DInv, Locking
  <2> QED
    BY <1>1, <2>1 DEF DInv, Types, Notifying
<1>7. Types'
  <2>1. avail' \in Rings
    BY Zenon, <1>4 DEF Notify, DInv, Types, Rings
  <2> QED
    BY Zenon, <1>1, <2>1 DEF DInv, Types
<1>8. Locking'
  BY <1>1 DEF DInv, Types, Locking
<1>9. Owned' /\ Described'
  <2>1. \A q \in Procs : pc'[q] \in {"idle", "alloc"} <=> pc[q] \in {"idle", "alloc"}
    BY <1>1 DEF DInv, Types
  <2> QED
    BY Zenon, <1>1, <1>5, <2>1, OwnedFrame, DescribedFrame DEF DInv
<1>10. Filling'
  <2>1. Dist(dev.idx, Inc(avail.idx)) <= NUM - 2
    BY <1>3, <1>4, Constants
  <2> QED
    BY Zenon, <1>1, <1>2, <1>3, <1>4, <1>6, <2>1 DEF DInv, Filling
<1>11. Places' /\ Somewhere'
  BY Zenon, <1>1, <1>2, <1>5, PlacesFrame DEF DInv
<1>12. InterruptNotLost'
  BY Zenon, <1>1 DEF DInv, InterruptNotLost
<1> QED
  BY Zenon, <1>7, <1>8, <1>9, <1>10, <1>11, <1>12 DEF DInv

(* The process returns its descriptors. *)
LEMMA DoneInv ==
  ASSUME DInv, NEW p \in Procs, Done(p)
  PROVE  DInv'
<1> DEFINE a == idx[p][1]
           b == idx[p][2]
           c == idx[p][3]
<1>1. pc[p] = "wait" /\ vdisk_lock = p /\ ~bdisk[p] /\ Submitted(p)
  BY Zenon DEF Done, Submitted
<1>2. /\ a \in Desc /\ b \in Desc /\ c \in Desc /\ Mine(p) = {a, b, c}
  BY Zenon, <1>1, MineIs DEF DInv
<1>3. Chain(a) = {a, b, c}
  <2>1. /\ desc[a] = [addr |-> [write |-> p \in Writers, sector |-> p], next |-> b]
        /\ desc[b] = [addr |-> p, next |-> c]
    BY <1>1, Zenon DEF DInv, Described
  <2> HIDE DEF a, b, c
  <2>2. desc[a].next = b /\ desc[b].next = c
    BY <2>1
  <2> QED
    BY Zenon, <2>2 DEF Chain
<1>4. {a, b, c} \cap free = {}
  BY Zenon, <1>2 DEF DInv, Owned
<1>5. /\ info' = [info EXCEPT ![a].b = None] /\ panic' = FALSE /\ free' = free \cup {a, b, c}
      /\ desc' = [i \in Desc |-> IF i \in {a, b, c} THEN Unused ELSE desc[i]]
      /\ chan' = WokenFree /\ idx' = [idx EXCEPT ![p] = <<>>] /\ vdisk_lock' = None
      /\ pc' = [pc EXCEPT ![p] = "idle"]
      /\ UNCHANGED <<avail, used, used_idx, bdisk, data, dev, blocks, irq>>
  BY Zenon, <1>3, <1>4 DEF Done, Goto, DInv, Types
<1> HIDE DEF a, b, c
<1>6. \A q \in Procs : q # p => idx'[q] = idx[q] /\ pc'[q] = pc[q] /\ Mine(q)' = Mine(q)
                                /\ (Submitted(q)' <=> Submitted(q)) /\ (Busy(q)' <=> Busy(q))
  BY <1>5 DEF DInv, Types, Mine, Submitted, Busy
<1>7. idx'[p] = <<>> /\ pc'[p] = "idle" /\ Mine(p)' = {} /\ ~Submitted(p)' /\ ~Busy(p)' /\ ~Busy(p)
  BY <1>1, <1>5 DEF DInv, Types, Mine, Submitted, Busy
<1>8. /\ chan' \in [Procs -> {None, "free", "buf"}]
      /\ \A q \in Procs : chan'[q] # "free" /\ (chan'[q] = chan[q] \/ chan'[q] = None)
  BY Zenon, <1>5, Constants DEF DInv, Types, WokenFree
<1>9. /\ info' \in [Desc -> [b : Procs \cup {None}, status : {0, 255}]]
      /\ \A i \in Desc : info'[i].status = info[i].status /\ (i # a => info'[i] = info[i])
  BY <1>2, <1>5 DEF DInv, Types
<1>10. Types'
  <2>1. free' \in SUBSET Desc /\ DOMAIN desc' = Desc
    BY <1>2, <1>5 DEF DInv, Types
  <2>2. /\ idx' \in [Procs -> {<<>>} \cup (Desc \X Desc \X Desc)]
        /\ pc' \in [Procs -> {"idle", "alloc", "format", "notify", "wait"}]
    BY Zenon, <1>5 DEF DInv, Types
  <2> QED
    BY Zenon, <1>5, <1>8, <1>9, <2>1, <2>2 DEF DInv, Types
<1>11. Locking'
  <2>1. \A q \in Procs : q # p => pc[q] \notin {"format", "notify"}
    BY Zenon, <1>1 DEF DInv, Locking
  <2>2. chan[p] = None
    BY Zenon, <1>1 DEF DInv, Locking
  <2> QED
    BY <1>5, <1>6, <1>7, <1>8, <2>1, <2>2, Constants DEF DInv, Types, Locking
<1>12. Owned'
  <2>1. ASSUME NEW q \in Procs
        PROVE  /\ pc'[q] \in {"idle", "alloc"} => idx'[q] = <<>>
               /\ pc'[q] \notin {"idle", "alloc"} =>
                    /\ idx'[q] \in Desc \X Desc \X Desc
                    /\ idx'[q][1] # idx'[q][2] /\ idx'[q][1] # idx'[q][3] /\ idx'[q][2] # idx'[q][3]
    BY Zenon, <1>6, <1>7 DEF DInv, Owned
  <2>2. ASSUME NEW q \in Procs
        PROVE  /\ Mine(q)' \cap free' = {}
               /\ \A o \in Procs : q # o => Mine(q)' \cap Mine(o)' = {}
    BY <1>2, <1>5, <1>6, <1>7 DEF DInv, Owned
  <2>3. ASSUME NEW i \in Desc PROVE i \in free' \/ \E q \in Procs : i \in Mine(q)'
    BY <1>2, <1>5, <1>6, <1>7 DEF DInv, Owned
  <2> QED
    BY Zenon, <2>1, <2>2, <2>3 DEF Owned
<1>13. Described'
  <2>1. ASSUME NEW q \in Procs, Submitted(q)'
        PROVE  /\ q # p /\ idx'[q] = idx[q] /\ Submitted(q)
               /\ \A i \in {idx[q][1], idx[q][2], idx[q][3]} : desc'[i] = desc[i] /\ info'[i] = info[i]
    <3>1. q # p /\ idx'[q] = idx[q] /\ Submitted(q)
      BY Zenon, <1>6, <1>7, <2>1
    <3>2. Mine(q) = {idx[q][1], idx[q][2], idx[q][3]} /\ Mine(q) \subseteq Desc
      BY Zenon, <3>1, MineIs DEF DInv, Submitted
    <3>3. a \notin Mine(q) /\ b \notin Mine(q) /\ c \notin Mine(q)
      BY Zenon, <1>2, <3>1, OneOwner DEF DInv
    <3> QED
      BY Zenon, <1>5, <1>9, <3>1, <3>2, <3>3
  <2> QED
    BY Zenon, <2>1, DescribedFrame DEF DInv
<1>14. Filling'
  <2>1. Notifying' <=> Notifying
    BY Zenon, <1>1, <1>6, <1>7 DEF Notifying
  <2> QED
    BY Zenon, <1>5, <2>1 DEF DInv, Filling
<1>15. Places' /\ Somewhere'
  <2>1. \A q \in Procs : Busy(q) => Head(q) \in Desc
    BY Zenon, MineIs DEF DInv, Busy, Submitted
  <2> QED
    BY Zenon, <1>5, <1>6, <1>7, <1>9, <2>1, PlacesFrame DEF DInv
<1>16. InterruptNotLost'
  BY Zenon, <1>1, <1>5, Constants DEF DInv, InterruptNotLost
<1> QED
  BY Zenon, <1>10, <1>11, <1>12, <1>13, <1>14, <1>15, <1>16 DEF DInv

(* Where a request is put in the avail ring. *)
LEMMA FormatInv ==
  ASSUME DInv, NEW p \in Procs, Format(p)
  PROVE  DInv'
<1> DEFINE a == idx[p][1]
           b == idx[p][2]
           c == idx[p][3]
           s == Slot(avail.idx)
<1>1. pc[p] = "format" /\ vdisk_lock = p /\ ~Submitted(p) /\ ~Busy(p)
  BY Zenon DEF Format, DInv, Locking, Submitted, Busy
<1>2. \A q \in Procs : q # p => pc[q] \notin {"format", "notify"}
  BY Zenon, <1>1 DEF DInv, Locking
<1>3. /\ a \in Desc /\ b \in Desc /\ c \in Desc /\ a # b /\ a # c /\ b # c
      /\ Mine(p) = {a, b, c} /\ Head(p) = a
  BY Zenon, <1>1, MineIs DEF DInv
<1>4. avail.idx \in Index /\ dev.idx \in Index /\ s \in Desc
  BY SlotWraps DEF DInv, Types, Rings, Index
<1>5. /\ desc' = [desc EXCEPT ![a] = [addr |-> [write |-> p \in Writers, sector |-> p], next |-> b],
                              ![b] = [addr |-> p, next |-> c],
                              ![c] = [addr |-> a, next |-> None]]
      /\ info' = [info EXCEPT ![a] = [b |-> p, status |-> 255]]
      /\ bdisk' = [bdisk EXCEPT ![p] = TRUE]
      /\ pc' = [pc EXCEPT ![p] = "notify"]
      /\ UNCHANGED <<vdisk_lock, chan, idx, free, used, used_idx, data, dev, blocks, irq, panic>>
  BY Zenon DEF Format, Formatted, MarkBusy, Goto
<1>6. /\ avail'.ring = [avail.ring EXCEPT ![s] = a] /\ avail'.idx = avail.idx
      /\ avail' \in Rings /\ DOMAIN avail.ring = Desc
  BY Zenon, <1>3, <1>4 DEF Format, DInv, Types, Rings, Slot
<1> HIDE DEF a, b, c, s
<1>7. \A q \in Procs : Busy(q) => q # p /\ Head(q) \in Desc /\ Head(q) \notin {a, b, c}
  <2>1. ASSUME NEW q \in Procs, Busy(q) PROVE q # p /\ Head(q) \in Desc /\ Head(q) \notin {a, b, c}
    <3>1. q # p /\ pc[q] \notin {"idle", "alloc"}
      BY Zenon, <1>1, <2>1 DEF Busy, Submitted
    <3>2. Head(q) \in Mine(q) /\ Head(q) \in Desc
      BY Zenon, <3>1, MineIs DEF DInv
    <3> QED
      BY Zenon, <1>3, <3>1, <3>2, OneOwner DEF DInv
  <2> QED
    BY Zenon, <2>1
<1>8. \A q \in Procs : /\ idx'[q] = idx[q] /\ Mine(q)' = Mine(q) /\ Head(q)' = Head(q) /\ Work(q)' = Work(q)
                       /\ (q # p => (Submitted(q)' <=> Submitted(q)) /\ (Busy(q)' <=> Busy(q)))
  BY ZenonT(30), <1>1, <1>5 DEF DInv, Types, Mine, Head, Work, Submitted, Busy
<1>9. Submitted(p)' /\ Busy(p)' /\ Head(p)' = a /\ bdisk'[p] /\ pc'[p] = "notify" /\ Notifying'
  BY ZenonT(30), <1>3, <1>5, <1>8 DEF DInv, Types, Submitted, Busy, Notifying
<1>10. ~Notifying
  BY Zenon, <1>1, <1>2 DEF Notifying
<1>11. \A i \in Desc : avail.ring[i] # a /\ used.ring[i] # a
  BY <1>3, <1>7, Constants DEF DInv, Places, AvailHeads, UsedHeads
<1>12. /\ Dist(dev.idx, avail.idx) <= NUM - 3 /\ s \notin Span(dev.idx, avail.idx)
       /\ avail.ring[s] = None
  <2>1. Dist(dev.idx, avail.idx) <= NUM - 2
    BY Zenon DEF DInv, Filling
  <2>2. ASSUME NEW t \in Span(dev.idx, avail.idx)
        PROVE  avail.ring[t] \in Desc /\ avail.ring[t] \notin {a, b, c}
    <3>1. t \in Desc
      <4>1. PICK k \in 0..(Dist(dev.idx, avail.idx) - 1) : t = Slot(dev.idx + k)
        BY InSpan
      <4>2. dev.idx + k \in Int
        BY <1>4 DEF Index
      <4> QED
        BY Zenon, <4>1, <4>2, SlotWraps
    <3> QED
      BY <1>7, <3>1 DEF DInv, Filling, Places, AvailHeads
  <2>3. \A i, j \in Desc : avail.ring[i] = avail.ring[j] /\ avail.ring[i] # None => i = j
    BY Zenon DEF DInv, Places, Distinct
  <2>4. Dist(dev.idx, avail.idx) <= NUM - 3
    BY Zenon, <1>3, <1>4, <2>1, <2>2, <2>3, RoomLeft
  <2>5. s \notin Span(dev.idx, avail.idx)
    BY Zenon, <1>4, <2>4, SpanPush DEF s
  <2> QED
    BY Zenon, <1>4, <1>10, <2>4, <2>5 DEF DInv, Filling
<1>13. Types'
  <2>1. /\ DOMAIN desc' = Desc
        /\ info' \in [Desc -> [b : Procs \cup {None}, status : {0, 255}]]
    BY Zenon, <1>3, <1>5 DEF DInv, Types
  <2>2. bdisk' \in [Procs -> BOOLEAN]
        /\ pc' \in [Procs -> {"idle", "alloc", "format", "notify", "wait"}]
    BY Zenon, <1>5 DEF DInv, Types
  <2> QED
    BY Zenon, <1>5, <1>6, <2>1, <2>2 DEF DInv, Types
<1>14. Locking'
  BY <1>1, <1>2, <1>5 DEF DInv, Types, Locking
<1>15. Owned'
  <2>1. \A q \in Procs : pc'[q] \in {"idle", "alloc"} <=> pc[q] \in {"idle", "alloc"}
    BY ZenonT(30), <1>1, <1>5 DEF DInv, Types
  <2> QED
    BY Zenon, <1>5, <1>8, <2>1, OwnedFrame DEF DInv
<1>16. Described'
  <2>1. /\ desc'[a] = [addr |-> [write |-> p \in Writers, sector |-> p], next |-> b]
        /\ desc'[b] = [addr |-> p, next |-> c]
        /\ desc'[c] = [addr |-> a, next |-> None]
        /\ info'[a].b = p
    BY Zenon, <1>3, <1>5 DEF DInv, Types
  <2>2. ASSUME NEW q \in Procs, Submitted(q)', q # p
        PROVE  /\ Submitted(q)
               /\ \A i \in {idx[q][1], idx[q][2], idx[q][3]} : desc'[i] = desc[i] /\ info'[i] = info[i]
    <3>1. Submitted(q)
      BY Zenon, <1>8, <2>2
    <3>2. Mine(q) = {idx[q][1], idx[q][2], idx[q][3]} /\ Mine(q) \subseteq Desc
      BY Zenon, <3>1, MineIs DEF DInv, Submitted
    <3>3. a \notin Mine(q) /\ b \notin Mine(q) /\ c \notin Mine(q)
      BY Zenon, <1>3, <2>2, OneOwner DEF DInv
    <3> QED
      BY ZenonT(30), <1>5, <3>1, <3>2, <3>3 DEF DInv, Types
  <2>3. ASSUME NEW q \in Procs, Submitted(q)'
        PROVE  /\ desc'[idx'[q][1]] = [addr |-> [write |-> q \in Writers, sector |-> q], next |-> idx'[q][2]]
               /\ desc'[idx'[q][2]] = [addr |-> q, next |-> idx'[q][3]]
               /\ desc'[idx'[q][3]] = [addr |-> idx'[q][1], next |-> None]
               /\ info'[idx'[q][1]].b = q
    <3>1. CASE q = p
      BY <1>5, <2>1, <3>1, Zenon DEF a, b, c
    <3>2. CASE q # p
      <4>1. /\ idx' = idx /\ Submitted(q) /\ info'[idx[q][1]] = info[idx[q][1]]
            /\ desc'[idx[q][1]] = desc[idx[q][1]] /\ desc'[idx[q][2]] = desc[idx[q][2]]
            /\ desc'[idx[q][3]] = desc[idx[q][3]]
        BY Zenon, <1>5, <2>2, <2>3, <3>2
      <4>2. /\ desc[idx[q][1]] = [addr |-> [write |-> q \in Writers, sector |-> q], next |-> idx[q][2]]
            /\ desc[idx[q][2]] = [addr |-> q, next |-> idx[q][3]]
            /\ desc[idx[q][3]] = [addr |-> idx[q][1], next |-> None]
            /\ info[idx[q][1]].b = q
        BY <4>1, Zenon DEF DInv, Described
      <4> QED
        BY <4>1, <4>2, Zenon
    <3> QED
      BY Zenon, <3>1, <3>2
  <2> QED
    BY Zenon, <2>3 DEF Described
<1>17. Filling'
  <2>1. ASSUME NEW t \in Desc
        PROVE  avail'.ring[t] # None <=> t \in Span(dev.idx, avail.idx) \/ t = s
    BY ZenonT(30), <1>3, <1>4, <1>6, <1>10, Constants DEF DInv, Filling
  <2>2. ASSUME NEW t \in Desc
        PROVE  avail'.ring[t] # None
                 <=> t \in Span(dev'.idx, avail'.idx) \/ (Notifying' /\ t = Slot(avail'.idx))
    BY Zenon, <1>5, <1>6, <1>9, <2>1 DEF s
  <2> QED
    BY Zenon, <1>5, <1>6, <1>12, <2>2 DEF DInv, Filling
<1>18. Places'
  <2>1. ASSUME NEW i \in Desc, avail'.ring[i] # None
        PROVE  \E q \in Procs : Busy(q)' /\ avail'.ring[i] = Head(q)'
    <3>1. CASE i = s
      BY Zenon, <1>4, <1>6, <1>9, <3>1
    <3>2. CASE i # s
      <4>1. PICK q \in Procs : Busy(q) /\ avail.ring[i] = Head(q)
        BY ZenonT(30), <1>6, <2>1, <3>2 DEF DInv, Places, AvailHeads
      <4> QED
        BY Zenon, <1>6, <1>7, <1>8, <3>2, <4>1
    <3> QED
      BY Zenon, <3>1, <3>2
  <2>2. ASSUME NEW i \in Desc, used'.ring[i] # None
        PROVE  \E q \in Procs : /\ Busy(q)' /\ used'.ring[i] = Head(q)' /\ info'[Head(q)'].status = 0
                                /\ data'[q] = blocks'[q]
    <3>1. PICK q \in Procs : /\ Busy(q) /\ used.ring[i] = Head(q) /\ info[Head(q)].status = 0
                             /\ data[q] = blocks[q]
      BY Zenon, <1>5, <2>2 DEF DInv, Places, UsedHeads
    <3>2. info'[Head(q)] = info[Head(q)]
      BY ZenonT(30), <1>5, <1>7, <3>1 DEF DInv, Types
    <3> QED
      BY ZenonT(30), <1>5, <1>7, <1>8, <3>1, <3>2
  <2>3. ASSUME NEW v \in dev'.work PROVE \E q \in Procs : Busy(q)' /\ v = Work(q)'
    <3>1. PICK q \in Procs : Busy(q) /\ v = Work(q)
      BY Zenon, <1>5 DEF DInv, Places, AvailHeads, UsedHeads, WorkHeads, Distinct, Apart
    <3> QED
      BY Zenon, <1>7, <1>8, <3>1
  <2>4. ASSUME NEW i \in Desc, NEW j \in Desc
        PROVE  /\ avail'.ring[i] = avail'.ring[j] /\ avail'.ring[i] # None => i = j
               /\ used'.ring[i] = used'.ring[j] /\ used'.ring[i] # None => i = j
               /\ avail'.ring[i] = used'.ring[j] => avail'.ring[i] = None
    BY ZenonT(30), <1>4, <1>5, <1>6, <1>11 DEF DInv, Places, Distinct
  <2>5. ASSUME NEW v \in dev'.work, NEW i \in Desc PROVE avail'.ring[i] # v.head /\ used'.ring[i] # v.head
    <3>1. PICK q \in Procs : Busy(q) /\ v = Work(q)
      BY Zenon, <1>5 DEF DInv, Places, AvailHeads, UsedHeads, WorkHeads, Distinct, Apart
    <3>2. v.head # a
      BY Zenon, <1>7, <3>1 DEF Work
    <3> QED
      BY ZenonT(30), <1>4, <1>5, <1>6, <3>2 DEF DInv, Places, Apart
  <2> QED
    BY Zenon, <2>1, <2>2, <2>3, <2>4, <2>5 DEF Places, AvailHeads, UsedHeads, WorkHeads,
       Distinct, Apart
<1>19. Somewhere'
  <2>1. ASSUME NEW q \in Procs, Busy(q)'
        PROVE  \/ \E i \in Desc : avail'.ring[i] = Head(q)'
               \/ Work(q)' \in dev'.work
               \/ \E i \in Desc : used'.ring[i] = Head(q)'
    <3>1. CASE q = p
      BY Zenon, <1>4, <1>6, <1>9, <3>1
    <3>2. CASE q # p
      <4>1. Busy(q) /\ Head(q) \in Desc
        BY Zenon, <1>7, <1>8, <2>1, <3>2
      <4>2. \A i \in Desc : avail.ring[i] = Head(q) => avail'.ring[i] = Head(q)
        BY Zenon, <1>6, <1>12, <4>1, Constants
      <4>3. \/ \E i \in Desc : avail.ring[i] = Head(q)
            \/ Work(q) \in dev.work
            \/ \E i \in Desc : used.ring[i] = Head(q)
        BY Zenon, <4>1 DEF DInv, Somewhere
      <4> QED
        BY Zenon, <1>5, <1>8, <4>2, <4>3
    <3> QED
      BY Zenon, <3>1, <3>2
  <2>2. ASSUME NEW q \in Procs, Submitted(q)', ~bdisk'[q] PROVE data'[q] = blocks'[q]
    <3>1. q # p
      BY Zenon, <1>9, <2>2
    <3>2. Submitted(q) /\ ~bdisk[q]
      BY ZenonT(30), <1>5, <1>8, <2>2, <3>1 DEF DInv, Types
    <3> QED
      BY Zenon, <1>5, <3>2 DEF DInv, Somewhere
  <2> QED
    BY Zenon, <2>1, <2>2 DEF Somewhere
<1>20. InterruptNotLost'
  BY Zenon, <1>5 DEF DInv, InterruptNotLost
<1> QED
  BY Zenon, <1>13, <1>14, <1>15, <1>16, <1>17, <1>18, <1>19, <1>20 DEF DInv

(* The fields of a descriptor. *)
LEMMA Fields ==
  ASSUME NEW d, NEW a, NEW n, d = [addr |-> a, next |-> n]
  PROVE  d.addr = a /\ d.next = n
OBVIOUS

(* The device fetches a request. *)
LEMMA FetchInv ==
  ASSUME DInv, DevFetch
  PROVE  DInv'
<1> DEFINE s == Slot(dev.idx)
<1>1. /\ dev.idx # avail.idx /\ avail.idx \in Index /\ dev.idx \in Index
      /\ Dist(dev.idx, avail.idx) <= NUM - 2
  BY Zenon DEF DevFetch, DInv, Types, Rings, Filling
<1>2. /\ Inc(dev.idx) \in Index /\ Dist(Inc(dev.idx), avail.idx) = Dist(dev.idx, avail.idx) - 1
      /\ Dist(dev.idx, avail.idx) \in Nat
      /\ s \in Desc /\ s \in Span(dev.idx, avail.idx) /\ s # Slot(avail.idx)
      /\ \A t : t \in Span(Inc(dev.idx), avail.idx) <=> t \in Span(dev.idx, avail.idx) /\ t # s
  BY Zenon, <1>1, SpanPop, DistIs
<1>3. PICK p \in Procs : Busy(p) /\ avail.ring[s] = Head(p)
  BY Zenon, <1>2 DEF DInv, Filling, Places, AvailHeads
<1>4. pc[p] \notin {"idle", "alloc"} /\ Submitted(p) /\ Head(p) \in Desc /\ Head(p) = idx[p][1]
  BY Zenon, <1>3, MineIs DEF DInv, Busy, Submitted
<1>5. /\ avail'.ring = [avail.ring EXCEPT ![s] = None] /\ avail'.idx = avail.idx
      /\ avail' \in Rings /\ DOMAIN avail.ring = Desc
  BY Zenon, <1>2 DEF DevFetch, DInv, Types, Rings, Slot
<1>6. dev' = [idx |-> Inc(dev.idx), work |-> dev.work \cup {Work(p)}]
  <2> DEFINE h == Head(p)
             n == desc[h].next
  <2>1. /\ desc[idx[p][1]] = [addr |-> [write |-> p \in Writers, sector |-> p], next |-> idx[p][2]]
        /\ desc[idx[p][2]] = [addr |-> p, next |-> idx[p][3]]
        /\ desc[idx[p][3]] = [addr |-> idx[p][1], next |-> None]
    BY <1>4, Zenon DEF DInv, Described
  <2>2. /\ n = idx[p][2] /\ desc[n].next = idx[p][3] /\ desc[h].addr = [write |-> p \in Writers, sector |-> p]
        /\ desc[n].addr = p /\ desc[desc[n].next].addr = Head(p)
    <3> DEFINE r == [write |-> p \in Writers, sector |-> p]
    <3>1. desc[h] = [addr |-> r, next |-> idx[p][2]]
      BY Zenon, <1>4, <2>1
    <3> HIDE DEF r, h
    <3>2. n = idx[p][2] /\ desc[h].addr = r
      BY <3>1, Fields
    <3> HIDE DEF n
    <3>3. desc[n] = [addr |-> p, next |-> idx[p][3]]
      BY Zenon, <2>1, <3>2
    <3>4. desc[n].next = idx[p][3] /\ desc[n].addr = p
      BY <3>3, Fields
    <3>5. desc[idx[p][3]].addr = idx[p][1]
      BY <2>1, Fields
    <3> QED
      BY Zenon, <1>4, <3>2, <3>4, <3>5 DEF r
  <2> HIDE DEF n
  <2>3. avail.ring[dev.idx % NUM] = h
    BY Zenon, <1>3 DEF Slot
  <2>4. dev' = [idx |-> Inc(dev.idx),
                work |-> dev.work \cup {[head |-> h, req |-> desc[h].addr, buf |-> desc[n].addr,
                                         status |-> desc[desc[n].next].addr]}]
    BY <2>3, Zenon DEF DevFetch, n
  <2> QED
    BY <2>2, <2>4, Zenon DEF Work
<1>7. dev'.idx = Inc(dev.idx) /\ dev'.work = dev.work \cup {Work(p)}
  BY Zenon, <1>6
<1>8. UNCHANGED <<vdisk_lock, pc, chan, idx, free, desc, info, used, used_idx, bdisk, data,
                  blocks, irq, panic>>
  BY Zenon DEF DevFetch
<1> HIDE DEF s
<1>9. Types'
  <2>1. Work(p) \in Works
    BY <1>4 DEF Work, Works
  <2>2. dev' \in [idx : Index, work : SUBSET Works]
    BY <1>2, <1>6, <2>1 DEF DInv, Types
  <2> QED
    BY Zenon, <1>5, <1>8, <2>2 DEF DInv, Types
<1>10. \A q \in Procs : /\ Mine(q)' = Mine(q) /\ (Submitted(q)' <=> Submitted(q)) /\ (Busy(q)' <=> Busy(q))
                        /\ Head(q)' = Head(q) /\ Work(q)' = Work(q)
  BY Zenon, <1>8 DEF Mine, Submitted, Busy, Head, Work
<1>11. Locking' /\ Owned' /\ Described' /\ InterruptNotLost'
  <2>1. Locking' /\ InterruptNotLost'
    BY Zenon, <1>8 DEF DInv, Locking, InterruptNotLost
  <2>2. Owned'
    BY Zenon, <1>8, <1>10, OwnedFrame DEF DInv
  <2>3. Described'
    BY Zenon, <1>8, <1>10 DEF DInv, Described
  <2> QED
    BY Zenon, <2>1, <2>2, <2>3
<1>12. Filling'
  <2>1. Notifying' <=> Notifying
    BY Zenon, <1>8 DEF Notifying
  <2>2. ASSUME NEW t \in Desc
        PROVE  avail'.ring[t] # None
                 <=> t \in Span(dev'.idx, avail'.idx) \/ (Notifying' /\ t = Slot(avail'.idx))
    <3>1. avail.ring[t] # None
            <=> t \in Span(dev.idx, avail.idx) \/ (Notifying /\ t = Slot(avail.idx))
      BY Zenon DEF DInv, Filling
    <3>2. avail'.ring[t] # None <=> avail.ring[t] # None /\ t # s
      BY Zenon, <1>5
    <3>3. t \in Span(dev'.idx, avail'.idx) <=> t \in Span(dev.idx, avail.idx) /\ t # s
      BY Zenon, <1>2, <1>5, <1>7
    <3> QED
      BY <1>2, <1>5, <2>1, <3>1, <3>2, <3>3
  <2>3. /\ Dist(dev'.idx, avail'.idx) <= NUM - 2
        /\ Notifying' => Dist(dev'.idx, avail'.idx) <= NUM - 3
    <3>1. Notifying => Dist(dev.idx, avail.idx) <= NUM - 3
      BY Zenon DEF DInv, Filling
    <3> QED
      BY <1>1, <1>2, <1>5, <1>7, <2>1, <3>1, Constants
  <2> QED
    BY Zenon, <1>8, <2>2, <2>3 DEF DInv, Filling
<1>13. Places'
  <2>1. ASSUME NEW i \in Desc, avail'.ring[i] # None
        PROVE  avail'.ring[i] = avail.ring[i] /\ i # s /\ avail.ring[i] # Head(p)
    <3>1. avail'.ring[i] = avail.ring[i] /\ i # s
      BY Zenon, <1>5, <2>1
    <3> QED
      BY Zenon, <1>2, <1>3, <2>1, <3>1 DEF DInv, Places, Distinct
  <2>2. \A i \in Desc : avail'.ring[i] # None => \E q \in Procs : Busy(q)' /\ avail'.ring[i] = Head(q)'
    BY ZenonT(30), <1>10, <2>1 DEF DInv, Places, AvailHeads
  <2>3. \A i \in Desc : used'.ring[i] # None =>
          \E q \in Procs : /\ Busy(q)' /\ used'.ring[i] = Head(q)' /\ info'[Head(q)'].status = 0
                           /\ data'[q] = blocks'[q]
    BY <1>8, <1>10 DEF DInv, Places, UsedHeads
  <2>4. \A v \in dev'.work : \E q \in Procs : Busy(q)' /\ v = Work(q)'
    BY ZenonT(30), <1>3, <1>7, <1>10 DEF DInv, Places, WorkHeads
  <2>5. ASSUME NEW i \in Desc, NEW j \in Desc
        PROVE  /\ avail'.ring[i] = avail'.ring[j] /\ avail'.ring[i] # None => i = j
               /\ used'.ring[i] = used'.ring[j] /\ used'.ring[i] # None => i = j
               /\ avail'.ring[i] = used'.ring[j] => avail'.ring[i] = None
    BY ZenonT(30), <1>8, <2>1 DEF DInv, Places, Distinct
  <2>6. ASSUME NEW v \in dev'.work, NEW i \in Desc PROVE avail'.ring[i] # v.head /\ used'.ring[i] # v.head
    <3>1. CASE v = Work(p)
      <4>1. v.head = Head(p)
        BY Zenon, <3>1 DEF Work
      <4>2. used.ring[i] # Head(p)
        BY <1>2, <1>3, <1>4, Constants DEF DInv, Places, Distinct
      <4> QED
        BY Zenon, <1>4, <1>8, <2>1, <4>1, <4>2, Constants
    <3>2. CASE v \in dev.work
      <4>1. v.head \in Desc /\ avail.ring[i] # v.head /\ used.ring[i] # v.head
        <5>1. v \in Works
          BY Zenon, <3>2 DEF DInv, Types
        <5>2. v.head \in Desc
          BY Zenon, <5>1 DEF Works
        <5> QED
          BY Zenon, <3>2, <5>2 DEF DInv, Places, Apart
      <4> QED
        BY Zenon, <1>8, <2>1, <4>1, Constants
    <3> QED
      BY Zenon, <1>7, <3>1, <3>2
  <2> QED
    BY Zenon, <2>2, <2>3, <2>4, <2>5, <2>6 DEF Places, AvailHeads, UsedHeads, WorkHeads,
       Distinct, Apart
<1>14. Somewhere'
  <2>1. ASSUME NEW q \in Procs, Busy(q)'
        PROVE  \/ \E i \in Desc : avail'.ring[i] = Head(q)'
               \/ Work(q)' \in dev'.work
               \/ \E i \in Desc : used'.ring[i] = Head(q)'
    <3>1. CASE q = p
      BY Zenon, <1>7, <1>10, <3>1
    <3>2. CASE q # p
      <4>1. Busy(q)
        BY Zenon, <1>10, <2>1
      <4>2. Head(q) # Head(p)
        BY Zenon, <1>4, <3>2, <4>1, OneHead DEF DInv, Busy, Submitted
      <4>3. \A i \in Desc : avail.ring[i] = Head(q) => avail'.ring[i] = Head(q)
        BY Zenon, <1>3, <1>5, <4>2
      <4> QED
        BY ZenonT(30), <1>7, <1>8, <1>10, <4>1, <4>3 DEF DInv, Somewhere
    <3> QED
      BY Zenon, <3>1, <3>2
  <2>2. ASSUME NEW q \in Procs, Submitted(q)', ~bdisk'[q] PROVE data'[q] = blocks'[q]
    BY Zenon, <1>8, <1>10, <2>2 DEF DInv, Somewhere
  <2> QED
    BY Zenon, <2>1, <2>2 DEF Somewhere
<1> QED
  BY Zenon, <1>9, <1>11, <1>12, <1>13, <1>14 DEF DInv

(* The device finishes a request. *)
LEMMA CompleteInv ==
  ASSUME DInv, NEW p \in Procs, DevComplete(p)
  PROVE  DInv'
<1> DEFINE s == Slot(used.idx)
<1>1. PICK v \in dev.work :
        /\ v.buf = p
        /\ IF v.req.write
           THEN blocks' = [blocks EXCEPT ![v.req.sector] = data[v.buf]] /\ UNCHANGED data
           ELSE data' = [data EXCEPT ![v.buf] = blocks[v.req.sector]] /\ UNCHANGED blocks
        /\ info' = [info EXCEPT ![v.status].status = 0]
        /\ used' = [ring |-> [used.ring EXCEPT ![s] = v.head], idx |-> Inc(used.idx)]
        /\ dev' = [dev EXCEPT !.work = @ \ {v}]
        /\ irq' = TRUE
  BY Zenon DEF DevComplete, Slot
<1>2. Busy(p) /\ v = Work(p)
  <2>1. PICK q \in Procs : Busy(q) /\ v = Work(q)
    BY Zenon DEF DInv, Places, WorkHeads
  <2>2. q = p
    BY Zenon, <1>1, <2>1 DEF Work
  <2> QED
    BY Zenon, <2>1, <2>2
<1>3. /\ v.head = Head(p) /\ v.status = Head(p) /\ v.req.sector = p /\ (v.req.write <=> p \in Writers)
  BY Zenon, <1>2 DEF Work
<1>4. /\ pc[p] \notin {"idle", "alloc"} /\ Submitted(p) /\ Head(p) \in Desc /\ Head(p) \in Mine(p)
      /\ Head(p) = idx[p][1] /\ Mine(p) = {idx[p][1], idx[p][2], idx[p][3]}
      /\ idx[p][2] \in Desc /\ idx[p][3] \in Desc
      /\ idx[p][1] # idx[p][2] /\ idx[p][1] # idx[p][3] /\ idx[p][2] # idx[p][3]
  BY Zenon, <1>2, MineIs DEF DInv, Busy, Submitted
<1>5. UNCHANGED <<vdisk_lock, pc, chan, idx, free, desc, avail, used_idx, bdisk, panic>>
  BY Zenon DEF DevComplete
<1>6. used.idx \in Index /\ used_idx \in Index /\ s \in Desc /\ DOMAIN used.ring = Desc
  BY SlotWraps DEF DInv, Types, Rings, Index
<1>7. /\ used'.ring = [used.ring EXCEPT ![s] = Head(p)] /\ used'.idx = Inc(used.idx)
      /\ dev'.idx = dev.idx /\ dev'.work = dev.work \ {Work(p)}
  BY Zenon, <1>1, <1>2, <1>3 DEF DInv, Types
<1>8. \A i \in Desc : used.ring[i] # Head(p) /\ avail.ring[i] # Head(p)
  BY <1>3 DEF DInv, Places, Apart
<1> HIDE DEF s
<1>9. /\ Dist(used_idx, used.idx) <= NUM - 3 /\ Dist(used_idx, used.idx) \in Nat
      /\ Inc(used.idx) \in Index /\ Dist(used_idx, Inc(used.idx)) = Dist(used_idx, used.idx) + 1
      /\ s \notin Span(used_idx, used.idx) /\ used.ring[s] = None
      /\ \A t : t \in Span(used_idx, Inc(used.idx)) <=> t \in Span(used_idx, used.idx) \/ t = s
  <2>1. Dist(used_idx, used.idx) <= NUM - 2
    BY Zenon DEF DInv, Filling
  <2>2. ASSUME NEW t \in Span(used_idx, used.idx)
        PROVE  used.ring[t] \in Desc /\ used.ring[t] \notin {idx[p][1], idx[p][2], idx[p][3]}
    <3>1. t \in Desc
      <4>1. PICK k \in 0..(Dist(used_idx, used.idx) - 1) : t = Slot(used_idx + k)
        BY InSpan
      <4>2. used_idx + k \in Int
        BY <1>6 DEF Index
      <4> QED
        BY Zenon, <4>1, <4>2, SlotWraps
    <3>2. PICK q \in Procs : Busy(q) /\ used.ring[t] = Head(q)
      BY Zenon, <3>1 DEF DInv, Filling, Places, UsedHeads
    <3>3. Head(q) \in Mine(q) /\ Head(q) \in Desc
      BY Zenon, <3>2, MineIs DEF DInv, Busy, Submitted
    <3>4. q # p
      BY Zenon, <1>8, <3>1, <3>2
    <3> QED
      BY Zenon, <1>4, <3>2, <3>3, <3>4, OneOwner DEF DInv
  <2>3. \A i, j \in Desc : used.ring[i] = used.ring[j] /\ used.ring[i] # None => i = j
    BY Zenon DEF DInv, Places, Distinct
  <2>4. Dist(used_idx, used.idx) <= NUM - 3
    <3>1. idx[p][1] \in Desc /\ idx[p][2] \in Desc /\ idx[p][3] \in Desc
      BY Zenon, <1>4
    <3> DEFINE a == idx[p][1]
               b == idx[p][2]
               c == idx[p][3]
    <3>2. a \in Desc /\ b \in Desc /\ c \in Desc /\ a # b /\ a # c /\ b # c
          /\ \A t \in Span(used_idx, used.idx) : used.ring[t] \in Desc /\ used.ring[t] \notin {a, b, c}
      BY Zenon, <1>4, <2>2, <3>1
    <3> HIDE DEF a, b, c
    <3> QED
      BY <1>6, <2>1, <2>3, <3>2, RoomLeft
  <2>5. /\ Inc(used.idx) \in Index /\ Dist(used_idx, Inc(used.idx)) = Dist(used_idx, used.idx) + 1
        /\ s \notin Span(used_idx, used.idx) /\ Dist(used_idx, used.idx) \in Nat
        /\ \A t : t \in Span(used_idx, Inc(used.idx)) <=> t \in Span(used_idx, used.idx) \/ t = s
    BY Zenon, <1>6, <2>4, SpanPush, DistIs DEF s
  <2>6. used.ring[s] = None
    BY Zenon, <1>6, <2>5 DEF DInv, Filling
  <2> QED
    BY Zenon, <2>4, <2>5, <2>6
<1>10. /\ info' \in [Desc -> [b : Procs \cup {None}, status : {0, 255}]]
       /\ info'[Head(p)].status = 0
       /\ \A i \in Desc : info'[i].b = info[i].b /\ (i # Head(p) => info'[i] = info[i])
  <2>1. info' = [info EXCEPT ![Head(p)].status = 0] /\ Head(p) \in Desc
    BY Zenon, <1>1, <1>3, <1>4
  <2> QED
    BY <2>1 DEF DInv, Types
<1>11. /\ data' \in [Procs -> 0..2] /\ blocks' \in [Procs -> 0..1]
       /\ \A q \in Writers : data'[q] \in 0..1
       /\ data'[p] = blocks'[p]
       /\ \A q \in Procs : q # p => data'[q] = data[q] /\ blocks'[q] = blocks[q]
  <2>1. CASE p \in Writers
    <3>1. blocks' = [blocks EXCEPT ![p] = data[p]] /\ data' = data /\ data[p] \in 0..1
      BY Zenon, <1>1, <1>3, <2>1 DEF DInv, Types
    <3> QED
      BY <3>1 DEF DInv, Types
  <2>2. CASE p \notin Writers
    <3>1. data' = [data EXCEPT ![p] = blocks[p]] /\ blocks' = blocks
      BY Zenon, <1>1, <1>3, <2>2
    <3>2. blocks[p] \in 0..1 /\ blocks[p] \in 0..2
      BY DEF DInv, Types
    <3> QED
      BY <2>2, <3>1, <3>2, Constants DEF DInv, Types
  <2> QED
    BY Zenon, <2>1, <2>2
<1>12. Types'
  <2>1. used' \in Rings
    BY <1>1, <1>3, <1>4, <1>6, <1>9 DEF DInv, Types, Rings
  <2>2. dev' \in [idx : Index, work : SUBSET Works]
    BY Zenon, <1>1 DEF DInv, Types
  <2> QED
    BY Zenon, <1>5, <1>10, <1>11, <2>1, <2>2 DEF DInv, Types
<1>13. \A q \in Procs : /\ Mine(q)' = Mine(q) /\ (Submitted(q)' <=> Submitted(q)) /\ (Busy(q)' <=> Busy(q))
                        /\ Head(q)' = Head(q) /\ Work(q)' = Work(q)
  BY Zenon, <1>5 DEF Mine, Submitted, Busy, Head, Work
<1>14. Locking' /\ InterruptNotLost'
  BY Zenon, <1>1, <1>5 DEF DInv, Locking, InterruptNotLost
<1>15. Owned'
  BY Zenon, <1>5, <1>13, OwnedFrame DEF DInv
<1>16. Described'
  <2>1. \A q \in Procs : Submitted(q) => idx[q][1] \in Desc
    BY Zenon, MineIs DEF DInv, Submitted
  <2> QED
    BY Zenon, <1>5, <1>10, <1>13, <2>1, DescribedFrame DEF DInv
<1>17. Filling'
  <2>1. Notifying' <=> Notifying
    BY Zenon, <1>5 DEF Notifying
  <2>2. ASSUME NEW t \in Desc PROVE used'.ring[t] # None <=> t \in Span(used_idx', used'.idx)
    <3>1. used.ring[t] # None <=> t \in Span(used_idx, used.idx)
      BY Zenon DEF DInv, Filling
    <3>2. used'.ring[t] # None <=> used.ring[t] # None \/ t = s
      BY ZenonT(30), <1>4, <1>6, <1>7, Constants
    <3> QED
      BY Zenon, <1>5, <1>7, <1>9, <3>1, <3>2
  <2>3. Dist(used_idx', used'.idx) <= NUM - 2
    BY <1>5, <1>7, <1>9, Constants
  <2> QED
    BY Zenon, <1>5, <1>7, <2>1, <2>2, <2>3 DEF DInv, Filling
<1>18. Places'
  <2>1. \A i \in Desc : avail'.ring[i] # None => \E q \in Procs : Busy(q)' /\ avail'.ring[i] = Head(q)'
    BY ZenonT(30), <1>5, <1>13 DEF DInv, Places, AvailHeads
  <2>2. ASSUME NEW i \in Desc, used'.ring[i] # None
        PROVE  \E q \in Procs : /\ Busy(q)' /\ used'.ring[i] = Head(q)' /\ info'[Head(q)'].status = 0
                                /\ data'[q] = blocks'[q]
    <3>1. CASE i = s
      BY ZenonT(30), <1>2, <1>6, <1>7, <1>10, <1>11, <1>13, <3>1
    <3>2. CASE i # s
      <4>1. PICK q \in Procs : /\ Busy(q) /\ used.ring[i] = Head(q) /\ info[Head(q)].status = 0
                               /\ data[q] = blocks[q]
        <5>1. used.ring[i] # None
          BY Zenon, <1>6, <1>7, <2>2, <3>2
        <5> QED
          BY Zenon, <5>1 DEF DInv, Places, UsedHeads
      <4>2. Head(q) # Head(p) /\ q # p /\ Head(q) \in Desc
        BY Zenon, <1>8, <4>1, MineIs DEF DInv, Busy, Submitted
      <4> QED
        <5>1. used'.ring[i] = used.ring[i]
          BY Zenon, <1>6, <1>7, <3>2
        <5>2. info'[Head(q)'].status = 0 /\ data'[q] = blocks'[q]
          BY Zenon, <1>10, <1>11, <1>13, <4>1, <4>2
        <5> QED
          BY Zenon, <1>13, <4>1, <5>1, <5>2
    <3> QED
      BY Zenon, <3>1, <3>2
  <2>3. \A u \in dev'.work : \E q \in Procs : Busy(q)' /\ u = Work(q)'
    BY <1>7, <1>13 DEF DInv, Places, WorkHeads
  <2>4. ASSUME NEW i \in Desc, NEW j \in Desc
        PROVE  /\ avail'.ring[i] = avail'.ring[j] /\ avail'.ring[i] # None => i = j
               /\ used'.ring[i] = used'.ring[j] /\ used'.ring[i] # None => i = j
               /\ avail'.ring[i] = used'.ring[j] => avail'.ring[i] = None
    BY ZenonT(30), <1>5, <1>6, <1>7, <1>8 DEF DInv, Places, Distinct
  <2>5. ASSUME NEW u \in dev'.work, NEW i \in Desc PROVE avail'.ring[i] # u.head /\ used'.ring[i] # u.head
    <3>1. PICK q \in Procs : Busy(q) /\ u = Work(q)
      BY Zenon, <1>7 DEF DInv, Places, AvailHeads, UsedHeads, WorkHeads, Distinct, Apart
    <3>2. q # p
      BY Zenon, <1>7, <3>1
    <3>3. u.head = Head(q) /\ Head(q) # Head(p)
      BY Zenon, <1>4, <3>1, <3>2, OneHead DEF DInv, Busy, Submitted, Work
    <3>4. avail.ring[i] # u.head /\ used.ring[i] # u.head
      BY Zenon, <1>7 DEF DInv, Places, AvailHeads, UsedHeads, WorkHeads, Distinct, Apart
    <3> QED
      BY Zenon, <1>5, <1>6, <1>7, <3>3, <3>4
  <2> QED
    BY Zenon, <2>1, <2>2, <2>3, <2>4, <2>5 DEF Places, AvailHeads, UsedHeads, WorkHeads,
       Distinct, Apart
<1>19. Somewhere'
  <2>1. ASSUME NEW q \in Procs, Busy(q)'
        PROVE  \/ \E i \in Desc : avail'.ring[i] = Head(q)'
               \/ Work(q)' \in dev'.work
               \/ \E i \in Desc : used'.ring[i] = Head(q)'
    <3>1. CASE q = p
      BY Zenon, <1>6, <1>7, <1>13, <3>1
    <3>2. CASE q # p
      <4>1. Busy(q)
        BY Zenon, <1>13, <2>1
      <4>2. Work(q) # Work(p)
        <5>1. Work(q).buf = q /\ Work(p).buf = p
          BY Zenon DEF Work
        <5> QED
          BY Zenon, <3>2, <5>1
      <4>3. Head(q) \in Desc
        BY Zenon, <4>1, MineIs DEF DInv, Busy, Submitted
      <4>4. \A i \in Desc : used.ring[i] = Head(q) => used'.ring[i] = Head(q)
        BY <1>7, <1>9, <4>3, Constants
      <4>5. \/ \E i \in Desc : avail.ring[i] = Head(q)
            \/ Work(q) \in dev.work
            \/ \E i \in Desc : used.ring[i] = Head(q)
        BY Zenon, <4>1 DEF DInv, Somewhere
      <4> QED
        BY Zenon, <1>5, <1>7, <1>13, <4>2, <4>4, <4>5
    <3> QED
      BY Zenon, <3>1, <3>2
  <2>2. ASSUME NEW q \in Procs, Submitted(q)', ~bdisk'[q] PROVE data'[q] = blocks'[q]
    BY Zenon, <1>5, <1>11, <1>13, <2>2 DEF DInv, Somewhere
  <2> QED
    BY Zenon, <2>1, <2>2 DEF Somewhere
<1> QED
  BY Zenon, <1>12, <1>14, <1>15, <1>16, <1>17, <1>18, <1>19 DEF DInv

(* The interrupt handler takes a completion, or leaves. *)
LEMMA IntrUsedInv ==
  ASSUME DInv, IntrUsed
  PROVE  DInv'
<1>1. /\ vdisk_lock = "intr"
      /\ UNCHANGED <<pc, idx, free, desc, info, avail, data, dev, blocks, irq>>
  BY Zenon DEF IntrUsed
<1>2. \A q \in Procs : /\ Mine(q)' = Mine(q) /\ (Submitted(q)' <=> Submitted(q))
                       /\ Head(q)' = Head(q) /\ Work(q)' = Work(q)
  BY Zenon, <1>1 DEF Mine, Submitted, Head, Work
<1>3. Owned' /\ Described'
  BY Zenon, <1>1, <1>2, OwnedFrame, DescribedFrame DEF DInv
<1>4. Notifying' <=> Notifying
  BY Zenon, <1>1 DEF Notifying
<1>5. CASE used_idx = used.idx
  <2>1. vdisk_lock' = None /\ UNCHANGED <<panic, bdisk, chan, used, used_idx>>
    BY Zenon, <1>5 DEF IntrUsed
  <2>2. \A q \in Procs : Busy(q)' <=> Busy(q)
    BY Zenon, <1>2, <2>1 DEF Busy
  <2>3. Types' /\ Locking' /\ Filling' /\ InterruptNotLost'
    <3>1. Types' /\ Locking'
      BY <1>1, <2>1, Constants DEF DInv, Types, Locking
    <3>2. Filling' /\ InterruptNotLost'
      BY Zenon, <1>1, <1>4, <1>5, <2>1 DEF DInv, Filling, InterruptNotLost
    <3> QED
      BY Zenon, <3>1, <3>2
  <2>4. Places' /\ Somewhere'
    BY Zenon, <1>1, <1>2, <2>1, <2>2, PlacesFrame DEF DInv
  <2> QED
    BY Zenon, <1>3, <2>3, <2>4 DEF DInv
<1>6. CASE used_idx # used.idx
  <2> DEFINE s == Slot(used_idx)
  <2>1. TakeUsed /\ vdisk_lock' = vdisk_lock
    BY Zenon, <1>6 DEF IntrUsed
  <2>2. used_idx \in Index /\ used.idx \in Index /\ Dist(used_idx, used.idx) <= NUM - 2
    BY Zenon DEF DInv, Types, Rings, Filling
  <2>3. /\ Inc(used_idx) \in Index /\ Dist(Inc(used_idx), used.idx) = Dist(used_idx, used.idx) - 1
        /\ Dist(used_idx, used.idx) \in Nat
        /\ s \in Desc /\ s \in Span(used_idx, used.idx)
        /\ \A t : t \in Span(Inc(used_idx), used.idx) <=> t \in Span(used_idx, used.idx) /\ t # s
    BY Zenon, <1>6, <2>2, SpanPop, DistIs
  <2>4. PICK p \in Procs : /\ Busy(p) /\ used.ring[s] = Head(p) /\ info[Head(p)].status = 0
                           /\ data[p] = blocks[p]
    BY Zenon, <2>3 DEF DInv, Filling, Places, AvailHeads, UsedHeads, WorkHeads, Distinct, Apart
  <2>5. pc[p] \notin {"idle", "alloc"} /\ Submitted(p) /\ Head(p) \in Desc /\ info[Head(p)].b = p
    <3>1. pc[p] \notin {"idle", "alloc"} /\ Submitted(p)
      BY Zenon, <2>4 DEF Busy, Submitted
    <3>2. Head(p) \in Desc /\ Head(p) = idx[p][1]
      BY Zenon, <3>1, MineIs DEF DInv
    <3>3. info[idx[p][1]].b = p
      BY <3>1, Zenon DEF DInv, Described
    <3> QED
      BY Zenon, <3>1, <3>2, <3>3
  <2>6. /\ panic' = FALSE /\ bdisk' = [bdisk EXCEPT ![p] = FALSE]
        /\ chan' = [chan EXCEPT ![p] = IF @ = "buf" THEN None ELSE @]
        /\ used_idx' = Inc(used_idx)
    <3>1. used.ring[used_idx % NUM] = Head(p) /\ panic = FALSE /\ p # None
      <4>1. panic = FALSE
        BY Zenon DEF DInv, Types
      <4> QED
        BY <2>4, <4>1, Constants DEF Slot
    <3>2. /\ panic' = (panic \/ info[Head(p)].status # 0 \/ info[Head(p)].b = None)
          /\ bdisk' = [bdisk EXCEPT ![info[Head(p)].b] = FALSE]
          /\ chan' = [chan EXCEPT ![info[Head(p)].b] = IF @ = "buf" THEN None ELSE @]
          /\ used_idx' = Inc(used_idx)
      BY Zenon, <2>1, <3>1 DEF TakeUsed
    <3> QED
      BY Zenon, <2>4, <2>5, <3>1, <3>2
  <2>7. /\ used'.ring = [used.ring EXCEPT ![s] = None] /\ used'.idx = used.idx
        /\ used' \in Rings /\ DOMAIN used.ring = Desc
    BY Zenon, <2>1, <2>3 DEF TakeUsed, DInv, Types, Rings, Slot
  <2> HIDE DEF s
  <2>8. ~bdisk'[p] /\ ~Busy(p)' /\ \A q \in Procs : q # p => bdisk'[q] = bdisk[q] /\ (Busy(q)' <=> Busy(q))
    BY <1>2, <2>6 DEF DInv, Types, Busy
  <2>9. /\ chan' \in [Procs -> {None, "free", "buf"}] /\ chan'[p] # "buf"
        /\ \A q \in Procs : (q # p => chan'[q] = chan[q]) /\ (chan'[q] = chan[q] \/ chan'[q] = None)
    BY <2>6, Constants DEF DInv, Types
  <2>10. Types'
    <3>1. bdisk' \in [Procs -> BOOLEAN]
      BY Zenon, <2>6 DEF DInv, Types
    <3> QED
      BY Zenon, <1>1, <2>1, <2>3, <2>6, <2>7, <2>9, <3>1 DEF DInv, Types
  <2>11. Locking'
    BY <1>1, <2>1, <2>8, <2>9, Constants DEF DInv, Types, Locking
  <2>12. InterruptNotLost'
    BY Zenon, <1>1, <2>1 DEF InterruptNotLost
  <2>13. Filling'
    <3>1. ASSUME NEW t \in Desc PROVE used'.ring[t] # None <=> t \in Span(used_idx', used'.idx)
      <4>1. used.ring[t] # None <=> t \in Span(used_idx, used.idx)
        BY Zenon DEF DInv, Filling
      <4>2. used'.ring[t] # None <=> used.ring[t] # None /\ t # s
        BY Zenon, <2>7
      <4> QED
        BY Zenon, <2>3, <2>6, <2>7, <4>1, <4>2
    <3>2. Dist(used_idx', used'.idx) <= NUM - 2
      BY <2>2, <2>3, <2>6, <2>7, Constants
    <3> QED
      BY Zenon, <1>1, <1>4, <3>1, <3>2 DEF DInv, Filling
  <2>14. Places'
    <3>1. ASSUME NEW i \in Desc, used'.ring[i] # None
          PROVE  used'.ring[i] = used.ring[i] /\ i # s /\ used.ring[i] # Head(p)
      <4>1. used'.ring[i] = used.ring[i] /\ i # s
        BY Zenon, <2>7, <3>1
      <4> QED
        BY Zenon, <2>3, <2>4, <3>1, <4>1 DEF DInv, Places, AvailHeads, UsedHeads, WorkHeads,
           Distinct, Apart
    <3>2. ASSUME NEW i \in Desc, avail'.ring[i] # None
          PROVE  \E q \in Procs : Busy(q)' /\ avail'.ring[i] = Head(q)'
      <4>1. PICK q \in Procs : Busy(q) /\ avail.ring[i] = Head(q)
        BY Zenon, <1>1, <3>2 DEF DInv, Places, AvailHeads, UsedHeads, WorkHeads, Distinct, Apart
      <4>2. q # p
        BY ZenonT(30), <1>1, <2>3, <2>4, <3>2, <4>1 DEF DInv, Places, AvailHeads, UsedHeads,
           WorkHeads, Distinct, Apart
      <4> QED
        BY Zenon, <1>1, <1>2, <2>8, <4>1, <4>2
    <3>3. ASSUME NEW i \in Desc, used'.ring[i] # None
          PROVE  \E q \in Procs : /\ Busy(q)' /\ used'.ring[i] = Head(q)' /\ info'[Head(q)'].status = 0
                                  /\ data'[q] = blocks'[q]
      <4>1. PICK q \in Procs : /\ Busy(q) /\ used.ring[i] = Head(q) /\ info[Head(q)].status = 0
                               /\ data[q] = blocks[q]
        BY Zenon, <3>1, <3>3 DEF DInv, Places, AvailHeads, UsedHeads, WorkHeads, Distinct, Apart
      <4>2. q # p
        BY Zenon, <3>1, <3>3, <4>1
      <4> QED
        BY Zenon, <1>1, <1>2, <2>8, <3>1, <3>3, <4>1, <4>2
    <3>4. ASSUME NEW v \in dev'.work PROVE \E q \in Procs : Busy(q)' /\ v = Work(q)'
      <4>1. PICK q \in Procs : Busy(q) /\ v = Work(q)
        BY Zenon, <1>1 DEF DInv, Places, AvailHeads, UsedHeads, WorkHeads, Distinct, Apart
      <4>2. v.head = Head(q) /\ v.head # Head(p)
        BY Zenon, <1>1, <2>3, <2>4, <4>1 DEF DInv, Places, AvailHeads, UsedHeads, WorkHeads,
           Distinct, Apart, Work
      <4> QED
        BY Zenon, <1>2, <2>8, <4>1, <4>2
    <3>5. ASSUME NEW i \in Desc, NEW j \in Desc
          PROVE  /\ avail'.ring[i] = avail'.ring[j] /\ avail'.ring[i] # None => i = j
                 /\ used'.ring[i] = used'.ring[j] /\ used'.ring[i] # None => i = j
                 /\ avail'.ring[i] = used'.ring[j] => avail'.ring[i] = None
      BY ZenonT(30), <1>1, <3>1 DEF DInv, Places, AvailHeads, UsedHeads, WorkHeads, Distinct, Apart
    <3>6. ASSUME NEW v \in dev'.work, NEW i \in Desc
          PROVE  avail'.ring[i] # v.head /\ used'.ring[i] # v.head
      <4>1. v.head \in Desc /\ avail.ring[i] # v.head /\ used.ring[i] # v.head
        BY ZenonT(30), <1>1 DEF DInv, Types, Works, Places, AvailHeads, UsedHeads,
           WorkHeads, Distinct, Apart
      <4> QED
        BY Zenon, <1>1, <3>1, <4>1, Constants
    <3> QED
      BY Zenon, <3>2, <3>3, <3>4, <3>5, <3>6 DEF Places, AvailHeads, UsedHeads, WorkHeads,
         Distinct, Apart
  <2>15. Somewhere'
    <3>1. ASSUME NEW q \in Procs, Busy(q)'
          PROVE  \/ \E i \in Desc : avail'.ring[i] = Head(q)'
                 \/ Work(q)' \in dev'.work
                 \/ \E i \in Desc : used'.ring[i] = Head(q)'
      <4>1. q # p /\ Busy(q)
        BY Zenon, <2>8, <3>1
      <4>2. Head(q) # Head(p)
        BY Zenon, <2>5, <4>1, OneHead DEF DInv, Busy, Submitted
      <4>3. \A i \in Desc : used.ring[i] = Head(q) => used'.ring[i] = Head(q)
        BY Zenon, <2>4, <2>7, <4>2
      <4> QED
        BY ZenonT(30), <1>1, <1>2, <4>1, <4>3 DEF DInv, Somewhere
    <3>2. ASSUME NEW q \in Procs, Submitted(q)', ~bdisk'[q] PROVE data'[q] = blocks'[q]
      BY Zenon, <1>1, <1>2, <2>4, <2>8, <3>2 DEF DInv, Somewhere
    <3> QED
      BY Zenon, <3>1, <3>2 DEF Somewhere
  <2> QED
    BY Zenon, <1>3, <2>10, <2>11, <2>12, <2>13, <2>14, <2>15 DEF DInv
<1> QED
  BY Zenon, <1>5, <1>6

-----------------------------------------------------------------------------
(* Every step keeps the invariant. *)
LEMMA StepInv ==
  ASSUME DInv, [Next]_vars
  PROVE  DInv'
<1>1. CASE UNCHANGED vars
  <2>1. \A q \in Procs : /\ Mine(q)' = Mine(q) /\ (Submitted(q)' <=> Submitted(q)) /\ (Busy(q)' <=> Busy(q))
    BY Zenon, <1>1 DEF vars, Mine, Submitted, Busy
  <2>2. Types' /\ Locking' /\ Filling' /\ InterruptNotLost'
    BY ZenonT(30), <1>1 DEF vars, DInv, Types, Locking, Filling, Notifying, InterruptNotLost
  <2>3. Owned' /\ Described'
    BY Zenon, <1>1, <2>1, OwnedFrame, DescribedFrame DEF vars, DInv
  <2>4. Places' /\ Somewhere'
    BY Zenon, <1>1, <2>1, PlacesFrame DEF vars, DInv
  <2> QED
    BY Zenon, <2>2, <2>3, <2>4 DEF DInv
<1> QED
  BY <1>1, CallInv, AllocInv, MoveInv, NotifyInv, DoneInv, FormatInv, FetchInv, CompleteInv,
     IntrUsedInv, Zenon DEF Next, LockHolder

(* The invariant in every state. *)
LEMMA DriverInv == Spec => []DInv
<1>1. Init => DInv
  BY Zenon, Initially
<1>2. DInv /\ [Next]_vars => DInv'
  BY Zenon, StepInv
<1> QED
  BY <1>1, <1>2, PTL DEF Spec

-----------------------------------------------------------------------------
(* The slots between two indices, as the driver's property counts them. *)
LEMMA SpanIsSlots ==
  ASSUME NEW i \in Index, NEW j \in Index
  PROVE  Slots(i, j) = Span(i, j)
<1> DEFINE d == Dist(i, j)
           e == IF i <= j THEN j ELSE j + IDXMOD
<1>1. d \in Nat /\ i \in Int /\ e = i + d
  BY Constants DEF Index, Dist
<1>2. Slots(i, j) = {Slot(x) : x \in i..(e - 1)}
  BY Zenon DEF Slots, Slot
<1> HIDE DEF d, e
<1>3. ASSUME NEW x \in i..(e - 1) PROVE x - i \in 0..(d - 1) /\ x = i + (x - i)
  BY <1>1
<1>4. ASSUME NEW k \in 0..(d - 1) PROVE i + k \in i..(e - 1)
  BY <1>1
<1>5. Span(i, j) = {Slot(i + k) : k \in 0..(d - 1)}
  BY Zenon DEF Span, d
<1> QED
  BY <1>2, <1>3, <1>4, <1>5

(* A set of slots that hold a head, or of requests the device works on. *)
LEMMA AtMostOne ==
  ASSUME NEW S, NEW x, x \in S, \A y \in S : y = x
  PROVE  Cardinality(S) = 1
<1>1. S = {x}
  OBVIOUS
<1> QED
  BY Zenon, <1>1, FS_Singleton

LEMMA None0 ==
  ASSUME NEW S, \A y \in S : FALSE
  PROVE  Cardinality(S) = 0
<1>1. S = {}
  OBVIOUS
<1> QED
  BY Zenon, <1>1, FS_EmptySet

(* Descriptors have one owner, the rings are exact also when their indices *)
(* wrap, every request is carried out once, no interrupt and no wakeup is  *)
(* lost and the driver does not panic, for any number of processes and     *)
(* descriptors.                                                            *)
THEOREM DriverIsSound == Spec => []DriverSound
<1>1. ASSUME DInv PROVE DriverSound
  <2>1. TypeOK /\ NoPanic /\ NoLostWakeup /\ InterruptNotLost
    <3>1. TypeOK
      BY <1>1 DEF DInv, Types, TypeOK, Rings, Index
    <3> QED
      BY Zenon, <1>1, <3>1 DEF DInv, Types, Locking, NoPanic, NoLostWakeup
  <2>2. DescriptorsOwned
    <3>1. ASSUME NEW p \in Procs PROVE Range(idx[p]) = Mine(p)
      <4>1. CASE pc[p] \in {"idle", "alloc"}
        BY <1>1, <4>1 DEF DInv, Owned, Mine, Range
      <4>2. CASE pc[p] \notin {"idle", "alloc"}
        <5>1. idx[p] \in Desc \X Desc \X Desc
          BY Zenon, <1>1, <4>2 DEF DInv, Owned
        <5>2. DOMAIN idx[p] = {1, 2, 3}
          BY <5>1
        <5> QED
          BY Zenon, <4>2, <5>2 DEF Mine, Range
      <4> QED
        BY Zenon, <4>1, <4>2
    <3>2. \A p \in Procs : Mine(p) \subseteq Desc
      BY Zenon, <1>1, MineIs DEF DInv, Mine
    <3>3. free \cup UNION {Range(idx[p]) : p \in Procs} = Desc
      <4>1. free \subseteq Desc
        BY Zenon, <1>1 DEF DInv, Types
      <4>2. \A i \in Desc : i \in free \/ \E p \in Procs : i \in Range(idx[p])
        BY <1>1, <3>1 DEF DInv, Owned
      <4> QED
        BY Zenon, <3>1, <3>2, <4>1, <4>2
    <3>4. \A p \in Procs : /\ Range(idx[p]) \cap free = {}
                           /\ \A q \in Procs \ {p} : Range(idx[p]) \cap Range(idx[q]) = {}
      BY <1>1, <3>1 DEF DInv, Owned
    <3> QED
      BY Zenon, <3>3, <3>4 DEF DescriptorsOwned
  <2>3. RingsExact
    <3>1. /\ Slots(dev.idx, avail.idx) = Span(dev.idx, avail.idx)
          /\ Slots(used_idx, used.idx) = Span(used_idx, used.idx)
          /\ Slot(avail.idx) \in Desc
      BY <1>1, SpanIsSlots, SlotWraps DEF DInv, Types, Rings, Index
    <3>2. ASSUME NEW i \in Index, NEW j \in Index PROVE Span(i, j) \subseteq Desc
      <4>1. \A k \in 0..(Dist(i, j) - 1) : i + k \in Int
        BY DEF Index
      <4> QED
        BY Zenon, <4>1, SlotWraps DEF Span
    <3>3. Span(dev.idx, avail.idx) \subseteq Desc /\ Span(used_idx, used.idx) \subseteq Desc
      BY Zenon, <1>1, <3>2 DEF DInv, Types, Rings
    <3>4. Filled(used.ring) = Span(used_idx, used.idx)
      BY Zenon, <1>1, <3>3 DEF DInv, Filling, Filled
    <3>5. Filled(avail.ring) = Span(dev.idx, avail.idx) \cup {Slot(avail.idx) : p \in {q \in Procs : pc[q] = "notify"}}
      BY Zenon, <1>1, <3>1, <3>3 DEF DInv, Filling, Filled, Notifying
    <3> QED
      BY Zenon, <3>1, <3>4, <3>5 DEF RingsExact, Slot
  <2>4. ServedOnce
    <3> SUFFICES ASSUME NEW p \in Procs, Submitted(p)
                 PROVE  LET head == idx[p][1]
                            places == Cardinality({i \in Desc : avail.ring[i] = head})
                                    + Cardinality({v \in dev.work : v.head = head})
                                    + Cardinality({i \in Desc : used.ring[i] = head}) IN
                        /\ info[head].b = p
                        /\ places = IF bdisk[p] THEN 1 ELSE 0
                        /\ ~bdisk[p] => data[p] = blocks[p]
      BY Zenon DEF ServedOnce
    <3> DEFINE h == idx[p][1]
               A == {i \in Desc : avail.ring[i] = h}
               W == {v \in dev.work : v.head = h}
               U == {i \in Desc : used.ring[i] = h}
    <3>1. info[h].b = p /\ (~bdisk[p] => data[p] = blocks[p])
      BY Zenon, <1>1 DEF DInv, Described, Somewhere
    <3>2. h \in Desc /\ h = Head(p) /\ h # None /\ pc[p] \notin {"idle", "alloc"}
      BY Zenon, <1>1, MineIs, Constants DEF DInv, Submitted
    <3>3. ASSUME NEW q \in Procs, Busy(q), Head(q) = h PROVE q = p
      BY Zenon, <1>1, <3>2, <3>3, OneHead DEF DInv, Busy, Submitted
    <3>4. /\ \A i, j \in Desc : i \in A /\ j \in A => i = j
          /\ \A i, j \in Desc : i \in U /\ j \in U => i = j
          /\ \A v, u : v \in W /\ u \in W => u = v
          /\ A = {} \/ U = {}
          /\ W = {} \/ (A = {} /\ U = {})
      <4>1. \A v \in W : v = Work(p)
        <5>1. ASSUME NEW v \in W PROVE v = Work(p)
          <6>1. PICK q \in Procs : Busy(q) /\ v = Work(q)
            BY Zenon, <1>1 DEF DInv, Places, AvailHeads, UsedHeads, WorkHeads, Distinct, Apart
          <6>2. Head(q) = h
            BY Zenon, <6>1 DEF Work
          <6> QED
            BY Zenon, <3>3, <6>1, <6>2
        <5> QED
          BY Zenon, <5>1
      <4>2. \A i, j \in Desc : /\ avail.ring[i] = avail.ring[j] /\ avail.ring[i] # None => i = j
                               /\ used.ring[i] = used.ring[j] /\ used.ring[i] # None => i = j
                               /\ avail.ring[i] = used.ring[j] => avail.ring[i] = None
        BY Zenon, <1>1 DEF DInv, Places, AvailHeads, UsedHeads, WorkHeads, Distinct, Apart
      <4>3. \A v \in dev.work, i \in Desc : avail.ring[i] # v.head /\ used.ring[i] # v.head
        BY Zenon, <1>1 DEF DInv, Places, AvailHeads, UsedHeads, WorkHeads, Distinct, Apart
      <4> HIDE DEF h
      <4>4. /\ \A i, j \in Desc : i \in A /\ j \in A => i = j
            /\ \A i, j \in Desc : i \in U /\ j \in U => i = j
        BY Zenon, <3>2, <4>2
      <4>5. \A v, u : v \in W /\ u \in W => u = v
        BY Zenon, <4>1
      <4>6. A = {} \/ U = {}
        BY Zenon, <3>2, <4>2
      <4>7. W = {} \/ (A = {} /\ U = {})
        BY Zenon, <4>3
      <4> QED
        BY Zenon, <4>4, <4>5, <4>6, <4>7
    <3>5. CASE bdisk[p]
      <4>1. A # {} \/ W # {} \/ U # {}
        <5>1. Busy(p)
          BY Zenon, <3>5 DEF Busy
        <5>2. Work(p).head = h
          BY Zenon, <3>2 DEF Work
        <5> QED
          <6>1. CASE \E i \in Desc : avail.ring[i] = Head(p)
            BY Zenon, <3>2, <6>1
          <6>2. CASE Work(p) \in dev.work
            BY Zenon, <5>2, <6>2
          <6>3. CASE \E i \in Desc : used.ring[i] = Head(p)
            BY Zenon, <3>2, <6>3
          <6> QED
            BY Zenon, <1>1, <5>1, <6>1, <6>2, <6>3 DEF DInv, Somewhere
      <4>2. /\ A # {} => Cardinality(A) = 1
            /\ W # {} => Cardinality(W) = 1
            /\ U # {} => Cardinality(U) = 1
        <5>1. A \subseteq Desc /\ U \subseteq Desc
          OBVIOUS
        <5> HIDE DEF A, W, U
        <5> QED
          BY <3>4, <5>1, AtMostOne
      <4>3. /\ A = {} => Cardinality(A) = 0
            /\ W = {} => Cardinality(W) = 0
            /\ U = {} => Cardinality(U) = 0
        <5> HIDE DEF A, W, U
        <5> QED
          BY Zenon, FS_EmptySet
      <4>4. Cardinality(A) + Cardinality(W) + Cardinality(U) = 1
        <5> HIDE DEF A, W, U
        <5> QED
          BY <3>4, <4>1, <4>2, <4>3
      <4> QED
        BY Zenon, <3>1, <3>5, <4>4
    <3>6. CASE ~bdisk[p]
      <4>1. \A q \in Procs : Busy(q) => Head(q) # h
        BY Zenon, <3>3, <3>6 DEF Busy
      <4>2. (\A i \in A : FALSE) /\ (\A v \in W : FALSE) /\ (\A i \in U : FALSE)
        <5>1. \A i \in Desc : avail.ring[i] # h /\ used.ring[i] # h
          BY Zenon, <1>1, <3>2, <4>1 DEF DInv, Places, AvailHeads, UsedHeads
        <5>2. ASSUME NEW v \in dev.work PROVE v.head # h
          <6>1. PICK q \in Procs : Busy(q) /\ v = Work(q)
            BY Zenon, <1>1 DEF DInv, Places, AvailHeads, UsedHeads, WorkHeads, Distinct, Apart
          <6>2. v.head = Head(q)
            BY Zenon, <6>1 DEF Work
          <6> QED
            BY Zenon, <4>1, <6>1, <6>2
        <5> QED
          BY Zenon, <5>1, <5>2
      <4>3. Cardinality(A) = 0 /\ Cardinality(W) = 0 /\ Cardinality(U) = 0
        <5> HIDE DEF A, W, U
        <5> QED
          BY Zenon, <4>2, None0
      <4> QED
        BY <3>1, <3>6, <4>3
    <3> QED
      BY Zenon, <3>5, <3>6
  <2> QED
    BY Zenon, <2>1, <2>2, <2>3, <2>4 DEF DriverSound
<1>2. DInv => DriverSound
  BY Zenon, <1>1
<1> QED
  BY <1>2, DriverInv, PTL
=============================================================================
