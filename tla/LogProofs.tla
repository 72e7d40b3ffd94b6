----------------------------- MODULE LogProofs ------------------------------
(***************************************************************************)
(* Proofs about the write-ahead log of module Log, for any number of       *)
(* processes and blocks and for any sizes of the log.                      *)
(*                                                                         *)
(* First the inductive invariant, then the steps that keep it: FS system   *)
(* calls, end_op() and commit(), crashes and recovery; what follows from   *)
(* it; and why the log never overflows.                                    *)
(***************************************************************************)
EXTENDS Log, TLAPS

(* Entries of a log header are distinct: log absorption keeps them so. *)
Distinct(h) == \A i, j \in DOMAIN h : h[i] = h[j] => i = j

(* n is the number of elements of S: they can be numbered 1 to n. *)
Numbering(f, n, S) ==
  /\ f \in [1..n -> S]
  /\ \A i, j \in 1..n : f[i] = f[j] => i = j
  /\ \A s \in S : \E i \in 1..n : f[i] = s
Counts(n, S) == n \in Nat /\ \E f : Numbering(f, n, S)

(* Who is where: the counters of struct log agree with the processes.      *)
(* Needed to know that no call modifies buffers while a commit runs.       *)
ControlInv ==
  /\ TypeOK
  /\ Counts(outstanding, Ops)
  /\ committing => outstanding = 0
  /\ committing <=> \E p \in Procs : pc[p] \in InCommit
  /\ \A p, q \in Procs : pc[p] \in InCommit /\ pc[q] \in InCommit => p = q
  /\ rec # "up" => \A p \in Procs : pc[p] = "out"

(* The headers: their sizes, their distinct entries, and when they are     *)
(* empty or equal.                                                         *)
HeadInv ==
  /\ Len(lh) <= NLOG - 1
  /\ Len(dhead) <= NLOG - 1
  /\ Distinct(lh)
  /\ Distinct(dhead)
  /\ rec = "read_head" => lh = <<>>
  /\ rec = "install" => dhead = lh
  /\ rec = "up" /\ outstanding = 0 /\ ~committing => lh = <<>>
  /\ rec = "up" /\ (\A p \in Procs : pc[p] # "install") => dhead = <<>>
  /\ \A p \in Procs :
       /\ pc[p] = "install" => dhead = lh
       /\ pc[p] = "done" => lh = <<>>
       /\ pc[p] \in {"write_log", "write_head", "install"} => lh # <<>>
       /\ pc[p] = "write_log" => tail <= Len(lh)

Installing == \E p \in Procs : pc[p] = "install"

(* b is in the current transaction and install_trans() has not reached it. *)
Pinned(b) == \E i \in DOMAIN lh : lh[i] = b /\ (Installing => i >= tail)

(* Buffer locks and reference counts: a buffer has one reference for the   *)
(* holder of its lock and one for its pin, and it stays cached while it    *)
(* has any.                                                                *)
LockInv ==
  /\ \A b \in Blocks : holder[b] # NoProc => pc[holder[b]] \in {"out", "op"}
  /\ rec # "up" => \A b \in Blocks : holder[b] = NoProc /\ refcnt[b] = 0
  /\ rec = "up" => \A b \in Blocks :
       /\ refcnt[b] = (IF holder[b] = NoProc THEN 0 ELSE 1) + (IF Pinned(b) THEN 1 ELSE 0)
       /\ refcnt[b] > 0 => buf[b] # NoBuf

(* Contents: a buffer differs from its home on disk only while its block   *)
(* is in the transaction or was changed without a log_write(); the log on  *)
(* disk agrees with the cache as far as write_log() got, and with the      *)
(* homes as far as install_trans() got; a torn block is always covered by  *)
(* the header.                                                             *)
DataInv ==
  /\ rec = "up" => \A b \in Blocks :
       /\ buf[b] \in Values \cup {NoBuf}
       /\ disk[b] \in Values
       /\ b \notin Range(lh) /\ b \notin loose => buf[b] \in {NoBuf, disk[b]}
  /\ rec # "up" => \A b \in Blocks :
       /\ b \notin Range(dhead) => disk[b] \in Values
       /\ buf[b] \in {NoBuf, disk[b]}
  /\ \A i \in DOMAIN dhead : dlog[i] \in Values
  /\ rec = "install" => \A i \in DOMAIN lh : i < tail => disk[lh[i]] = dlog[i]
  /\ \A p \in Procs, i \in DOMAIN lh :
       /\ pc[p] = "write_log" /\ i < tail => dlog[i] = buf[lh[i]]
       /\ pc[p] = "write_head" => dlog[i] = buf[lh[i]]
       /\ pc[p] = "install" /\ i >= tail => dlog[i] = buf[lh[i]]
       /\ pc[p] = "install" /\ i < tail =>
            dlog[i] = disk[lh[i]] /\ buf[lh[i]] \in {NoBuf, disk[lh[i]]}

(* The inductive invariant. *)
Inv == ControlInv /\ HeadInv /\ LockInv /\ DataInv /\ NoLostWakeup

-----------------------------------------------------------------------------
(* Only the empty set has no elements. *)
LEMMA CountsZero ==
  ASSUME NEW S
  PROVE  Counts(0, S) <=> S = {}
<1>1. ASSUME Counts(0, S) PROVE S = {}
  BY <1>1 DEF Counts, Numbering
<1>2. ASSUME S = {} PROVE Counts(0, S)
  <2> DEFINE f == [i \in 1..0 |-> i]
  <2>1. Numbering(f, 0, S)
    BY <1>2 DEF Numbering
  <2> QED
    BY Zenon, <2>1 DEF Counts
<1> QED
  BY Zenon, <1>1, <1>2

(* A new element is given the next number. *)
LEMMA CountsAdd ==
  ASSUME NEW S, NEW n, Counts(n, S), NEW p, p \notin S
  PROVE  Counts(n + 1, S \cup {p})
<1>1. n \in Nat
  BY Zenon DEF Counts
<1>2. PICK f : Numbering(f, n, S)
  BY Zenon DEF Counts
<1> DEFINE g == [i \in 1..(n + 1) |-> IF i = n + 1 THEN p ELSE f[i]]
<1>3. \A i \in 1..n : i \in 1..(n + 1) /\ i # n + 1 /\ g[i] = f[i] /\ f[i] \in S
  BY <1>1, <1>2 DEF Numbering
<1>4. n + 1 \in 1..(n + 1) /\ g[n + 1] = p
  BY <1>1
<1>5. \A i \in 1..(n + 1) : i = n + 1 \/ i \in 1..n
  BY <1>1
<1>6. Numbering(g, n + 1, S \cup {p})
  <2>1. g \in [1..(n + 1) -> S \cup {p}]
    BY <1>3, <1>5, Zenon
  <2>2. \A i, j \in 1..(n + 1) : g[i] = g[j] => i = j
    BY Zenon, <1>2, <1>3, <1>4, <1>5 DEF Numbering
  <2>3. \A s \in S \cup {p} : \E i \in 1..(n + 1) : g[i] = s
    BY <1>2, <1>3, <1>4, Zenon DEF Numbering
  <2> QED
    BY Zenon, <2>1, <2>2, <2>3 DEF Numbering
<1> QED
  BY <1>1, <1>6 DEF Counts

(* The last element takes over the number of one that leaves. *)
LEMMA CountsRemove ==
  ASSUME NEW S, NEW n, Counts(n, S), NEW p \in S
  PROVE  n > 0 /\ Counts(n - 1, S \ {p})
<1>1. n \in Nat
  BY Zenon DEF Counts
<1>2. PICK f : Numbering(f, n, S)
  BY Zenon DEF Counts
<1>3. PICK k \in 1..n : f[k] = p
  BY Zenon, <1>2 DEF Numbering
<1>4. n > 0 /\ n - 1 \in Nat /\ n \in 1..n
  BY <1>1, <1>3
<1> DEFINE g == [i \in 1..(n - 1) |-> IF i = k THEN f[n] ELSE f[i]]
<1>5. \A i \in 1..(n - 1) : i \in 1..n /\ i # n /\ g[i] = IF i = k THEN f[n] ELSE f[i]
  BY <1>4
<1>6. \A i \in 1..n : i = n \/ i \in 1..(n - 1)
  BY <1>4
<1>7. \A i, j \in 1..n : f[i] \in S /\ (f[i] = f[j] => i = j)
  BY Zenon, <1>2 DEF Numbering
<1>8. Numbering(g, n - 1, S \ {p})
  <2>1. \A i \in 1..(n - 1) : g[i] \in S \ {p}
    BY Zenon, <1>3, <1>4, <1>5, <1>7
  <2>2. \A i, j \in 1..(n - 1) : g[i] = g[j] => i = j
    BY Zenon, <1>3, <1>4, <1>5, <1>7
  <2>3. \A s \in S \ {p} : \E i \in 1..(n - 1) : g[i] = s
    <3> SUFFICES ASSUME NEW s \in S \ {p}
                 PROVE  \E i \in 1..(n - 1) : g[i] = s
      OBVIOUS
    <3>1. PICK i \in 1..n : f[i] = s
      BY Zenon, <1>2 DEF Numbering
    <3>2. i # k
      BY Zenon, <1>3, <3>1
    <3>3. CASE i = n
      BY Zenon, <1>3, <1>5, <1>6, <3>1, <3>2, <3>3
    <3>4. CASE i # n
      BY Zenon, <1>5, <1>6, <3>1, <3>2, <3>4
    <3> QED
      BY Zenon, <3>3, <3>4
  <2> QED
    BY Zenon, <2>1, <2>2, <2>3 DEF Numbering
<1> QED
  BY Zenon, <1>4, <1>8 DEF Counts

(* While a commit runs, or recovery does, no FS system call is running. *)
LEMMA NoOpInCommit ==
  ASSUME Inv
  PROVE  /\ outstanding = 0 => \A p \in Procs : pc[p] # "op"
         /\ (\E p \in Procs : pc[p] = "op") => outstanding > 0 /\ ~committing /\ rec = "up"
<1>1. outstanding = 0 => Ops = {}
  BY Zenon, CountsZero DEF Inv, ControlInv
<1>2. outstanding = 0 => \A p \in Procs : pc[p] # "op"
  BY Zenon, <1>1 DEF Ops
<1>3. outstanding \in Nat
  BY Zenon DEF Inv, ControlInv, TypeOK
<1> QED
  BY <1>2, <1>3 DEF Inv, ControlInv

(* What entering and leaving an FS system call does to their number. *)
LEMMA OpsCount ==
  ASSUME Inv, NEW p \in Procs
  PROVE  /\ pc[p] # "op" => Counts(outstanding + 1, Ops \cup {p})
         /\ pc[p] = "op" => Counts(outstanding - 1, Ops \ {p})
<1>1. Counts(outstanding, Ops)
  BY Zenon DEF Inv, ControlInv
<1> QED
  BY Zenon, <1>1, CountsAdd, CountsRemove DEF Ops

(* Every entry of the in-memory header has a log block. *)
LEMMA LogEntry ==
  ASSUME Inv, NEW i \in DOMAIN lh
  PROVE  i \in 1..Len(lh) /\ lh[i] \in Blocks /\ i \in Slots /\ dlog[i] \in Data /\ dlog[i] # NoBuf
<1>1. lh \in Seq(Blocks) /\ dlog \in [Slots -> Data] /\ Len(lh) <= NLOG - 1
  BY Zenon DEF Inv, ControlInv, TypeOK, HeadInv
<1>2. i \in 1..Len(lh) /\ lh[i] \in Blocks /\ i \in Slots
  BY <1>1, LogAssumption DEF Slots
<1> QED
  BY Zenon, <1>1, <1>2, LogAssumption DEF Data

(* What DataInv says changes only with the contents, the headers and the   *)
(* phase of the commit.                                                    *)
LEMMA DataInvFrame ==
  ASSUME DataInv,
         UNCHANGED <<disk, dlog, dhead, buf, lh, loose, tail, rec>>,
         \A q \in Procs, l \in {"write_log", "write_head", "install"} : pc'[q] = l <=> pc[q] = l
  PROVE  DataInv'
<1>1. \A q \in Procs : /\ pc'[q] = "write_log" <=> pc[q] = "write_log"
                       /\ pc'[q] = "write_head" <=> pc[q] = "write_head"
                       /\ pc'[q] = "install" <=> pc[q] = "install"
  BY Zenon
<1>2. DataInv!1'
  BY Zenon DEF DataInv
<1>3. DataInv!2' /\ DataInv!3' /\ DataInv!4'
  BY Zenon DEF DataInv
<1>4. DataInv!5'
  BY <1>1 DEF DataInv
<1> QED
  BY <1>2, <1>3, <1>4, Zenon DEF DataInv

(* After initlog() on a fresh disk the invariant holds. *)
LEMMA InitInv == Init => Inv
<1> SUFFICES ASSUME Init PROVE Inv
  OBVIOUS
<1> USE LogAssumption
<1>1. TypeOK
  <2>1. disk \in [Blocks -> Data] /\ dlog \in [Slots -> Data]
    BY Zenon DEF Init, Data
  <2>2. pc \in [Procs -> PCs] /\ wrote \in [Procs -> SUBSET Blocks]
    BY Zenon DEF Init, PCs
  <2>3. buf \in [Blocks -> Data \cup {NoBuf}]
    BY Zenon DEF Init
  <2>4. refcnt \in [Blocks -> Nat] /\ holder \in [Blocks -> Procs \cup {NoProc}]
    BY Zenon DEF Init
  <2>5. dhead \in Seq(Blocks) /\ lh \in Seq(Blocks) /\ tail \in Nat \ {0}
    BY DEF Init
  <2>6. outstanding \in Nat /\ committing \in BOOLEAN
    BY Zenon DEF Init
  <2> QED
    BY Zenon, <2>1, <2>2, <2>3, <2>4, <2>5, <2>6 DEF Init, TypeOK
<1>2. Ops = {}
  BY Zenon DEF Init, Ops
<1>3. ControlInv
  BY Zenon, <1>1, <1>2, CountsZero DEF Init, ControlInv, InCommit
<1>4. HeadInv
  BY DEF Init, HeadInv, Distinct
<1>5. LockInv
  BY Zenon DEF Init, LockInv
<1>6. DataInv
  BY DEF Init, DataInv, Range
<1>7. NoLostWakeup
  BY Zenon DEF Init, NoLostWakeup
<1> QED
  BY Zenon, <1>3, <1>4, <1>5, <1>6, <1>7 DEF Inv

(* bread() keeps the invariant. *)
LEMMA BreadInv ==
  ASSUME Inv, NEW p \in Procs, NEW b \in Blocks, Bread(p, b)
  PROVE  Inv'
<1> USE LogAssumption DEF Bread, diskvars, logvars
<1>0. TypeOK
  BY Zenon DEF Inv, ControlInv
<1>1. TypeOK'
  BY <1>0 DEF TypeOK, View, Data
<1>2. ControlInv'
  BY Zenon, <1>1 DEF Inv, ControlInv, Ops
<1>3. HeadInv'
  BY Zenon DEF Inv, HeadInv
<1>4. LockInv'
  <2>1. \A c \in Blocks : Pinned(c)' <=> Pinned(c)
    BY Zenon DEF Pinned, Installing
  <2>2. buf'[b] # NoBuf
    BY <1>0 DEF TypeOK, View, Data
  <2> QED
    BY <1>0, <2>1, <2>2 DEF Inv, TypeOK, LockInv, HoldsNothing, Holds
<1>5. DataInv'
  <2>2. View(b) \in Values
    BY Zenon DEF Inv, DataInv, View
  <2>3. \A c \in Blocks : buf'[c] = buf[c] \/ (buf[c] = NoBuf /\ buf'[c] = disk[c])
    BY Zenon, <1>0 DEF TypeOK, View
  <2>4. \A c \in Blocks : buf'[c] \in Values \cup {NoBuf}
    BY Zenon, <1>0, <2>2 DEF Inv, TypeOK, DataInv
  <2>5. \A q \in Procs, i \in DOMAIN lh' : DataInv!5!(q, i)'
    BY <2>3, LogEntry DEF Inv, DataInv
  <2> QED
    BY <2>3, <2>4, <2>5 DEF Inv, DataInv
<1>6. NoLostWakeup'
  BY Zenon DEF Inv, NoLostWakeup
<1> QED
  BY Zenon, <1>2, <1>3, <1>4, <1>5, <1>6 DEF Inv

(* A change of a locked buffer keeps the invariant. *)
LEMMA ModifyInv ==
  ASSUME Inv, NEW p \in Procs, NEW b \in Blocks, NEW v \in Values, Modify(p, b, v)
  PROVE  Inv'
<1> USE LogAssumption DEF Modify, diskvars, logvars
<1>0. TypeOK
  BY Zenon DEF Inv, ControlInv
<1>1. TypeOK'
  <2>1. pc' \in [Procs -> PCs] /\ wrote' \in [Procs -> SUBSET Blocks]
    BY Zenon, <1>0 DEF TypeOK, PCs
  <2>2. buf' \in [Blocks -> Data \cup {NoBuf}]
    BY Zenon, <1>0 DEF TypeOK, Data
  <2> QED
    BY Zenon, <1>0, <2>1, <2>2 DEF TypeOK
<1>2. \A q \in Procs : pc[q] \notin InCommit /\ pc'[q] \notin InCommit
  BY Zenon, <1>0, NoOpInCommit DEF Inv, ControlInv, TypeOK, InCommit
<1>3. rec = "up"
  BY Zenon, NoOpInCommit
<1>4. ControlInv'
  <2>1. Ops' = Ops
    BY Zenon, <1>0 DEF TypeOK, Ops
  <2> QED
    BY Zenon, <1>1, <1>2, <1>3, <2>1 DEF Inv, ControlInv
<1>5. HeadInv'
  BY Zenon, <1>0, <1>2, <1>3 DEF Inv, HeadInv, InCommit
<1>6. LockInv'
  <2>1. \A c \in Blocks : Pinned(c)' <=> Pinned(c)
    BY Zenon, <1>2 DEF Pinned, Installing, InCommit
  <2> QED
    BY <1>0, <1>3, <2>1 DEF Inv, TypeOK, LockInv
<1>7. DataInv'
  <2>1. (b \notin Range(lh) => b \in loose') /\ \A c \in Blocks \ {b} : c \in loose' <=> c \in loose
    BY Zenon
  <2>2. \A c \in Blocks : buf'[c] = IF c = b THEN v ELSE buf[c]
    BY Zenon, <1>0 DEF TypeOK
  <2> QED
    BY <1>2, <1>3, <2>1, <2>2 DEF Inv, DataInv, InCommit
<1>8. NoLostWakeup'
  BY Zenon, <1>0 DEF Inv, NoLostWakeup, TypeOK
<1> QED
  BY Zenon, <1>4, <1>5, <1>6, <1>7, <1>8 DEF Inv

(* brelse() keeps the invariant. *)
LEMMA BrelseInv ==
  ASSUME Inv, NEW p \in Procs, NEW b \in Blocks, Brelse(p, b)
  PROVE  Inv'
<1> USE LogAssumption DEF Brelse, diskvars, logvars
<1>0. TypeOK
  BY Zenon DEF Inv, ControlInv
<1>1. rec = "up" /\ refcnt[b] >= 1
  <2>1. holder[b] # NoProc /\ rec = "up"
    BY Zenon DEF Inv, LockInv
  <2> QED
    BY <2>1 DEF Inv, LockInv
<1>2. TypeOK'
  <2>1. refcnt' \in [Blocks -> Nat]
    BY <1>0, <1>1 DEF TypeOK
  <2> QED
    BY Zenon, <1>0, <2>1 DEF TypeOK
<1>3. ControlInv'
  BY Zenon, <1>2 DEF Inv, ControlInv, Ops
<1>4. HeadInv'
  BY Zenon DEF Inv, HeadInv
<1>5. LockInv'
  <2>1. \A c \in Blocks : Pinned(c)' <=> Pinned(c)
    BY Zenon DEF Pinned, Installing
  <2>2. \A c \in Blocks : /\ refcnt'[c] = IF c = b THEN refcnt[b] - 1 ELSE refcnt[c]
                          /\ holder'[c] = IF c = b THEN NoProc ELSE holder[c]
    BY Zenon, <1>0 DEF TypeOK
  <2>3. \A c \in Blocks : refcnt[c] \in Nat
    BY Zenon, <1>0 DEF TypeOK
  <2> QED
    BY <1>1, <2>1, <2>2, <2>3 DEF Inv, LockInv
<1>6. DataInv'
  BY <1>1 DEF Inv, DataInv
<1>7. NoLostWakeup'
  BY Zenon DEF Inv, NoLostWakeup
<1> QED
  BY Zenon, <1>3, <1>4, <1>5, <1>6, <1>7 DEF Inv

(* bget() recycling an unpinned buffer keeps the invariant. *)
LEMMA RecycleInv ==
  ASSUME Inv, NEW b \in Blocks, Recycle(b)
  PROVE  Inv'
<1> USE LogAssumption DEF Recycle, diskvars, logvars
<1>0. TypeOK
  BY Zenon DEF Inv, ControlInv
<1>1. TypeOK'
  BY Zenon, <1>0 DEF TypeOK
<1>2. ControlInv'
  BY Zenon, <1>1 DEF Inv, ControlInv, Ops
<1>3. HeadInv'
  BY Zenon DEF Inv, HeadInv
<1>4. ~Pinned(b)
  BY DEF Inv, LockInv
<1>5. \A c \in Blocks : buf'[c] = IF c = b THEN NoBuf ELSE buf[c]
  BY Zenon, <1>0 DEF TypeOK
<1>6. LockInv'
  <2>1. \A c \in Blocks : Pinned(c)' <=> Pinned(c)
    BY Zenon DEF Pinned, Installing
  <2> QED
    BY <1>5, <2>1 DEF Inv, LockInv
<1>7. DataInv'
  <2>1. \A c \in Blocks \ {b} : c \in loose' <=> c \in loose
    BY Zenon
  <2>2. \A q \in Procs, i \in DOMAIN lh :
           lh[i] = b => /\ pc[q] \notin {"write_log", "write_head"}
                        /\ pc[q] = "install" => i < tail
    BY <1>0, <1>4, LogEntry DEF Pinned, Installing, Inv, ControlInv, InCommit, TypeOK
  <2>3. \A i \in DOMAIN lh : lh[i] \in Blocks
    BY Zenon, LogEntry
  <2>4. \A i \in DOMAIN lh : i \in Nat /\ tail \in Nat
    BY <1>0, LogEntry DEF TypeOK
  <2> QED
    BY <1>5, <2>1, <2>2, <2>3, <2>4 DEF Inv, DataInv
<1>8. NoLostWakeup'
  BY Zenon DEF Inv, NoLostWakeup
<1> QED
  BY Zenon, <1>2, <1>3, <1>6, <1>7, <1>8 DEF Inv

(* A call of begin_op() keeps the invariant. *)
LEMMA CallBeginOpInv ==
  ASSUME Inv, NEW p \in Procs, CallBeginOp(p)
  PROVE  Inv'
<1> USE LogAssumption DEF CallBeginOp, diskvars, cachevars, logvars
<1>0. TypeOK
  BY Zenon DEF Inv, ControlInv
<1>1. TypeOK'
  BY Zenon, <1>0 DEF TypeOK, PCs
<1>2. \A q \in Procs : pc'[q] = IF q = p THEN "begin" ELSE pc[q]
  BY Zenon, <1>0 DEF TypeOK
<1>3. ControlInv'
  <2>1. Ops' = Ops
    BY <1>2 DEF Ops
  <2> QED
    BY <1>1, <1>2, <2>1 DEF Inv, ControlInv, InCommit
<1>4. HeadInv'
  BY <1>2 DEF Inv, HeadInv
<1>5. Installing' <=> Installing
  BY <1>2 DEF Installing
<1>6. LockInv'
  <2>1. \A c \in Blocks : Pinned(c)' <=> Pinned(c)
    BY <1>5, Zenon DEF Pinned
  <2>2. \A c \in Blocks : holder[c] # NoProc => holder[c] \in Procs /\ holder[c] # p
    BY Zenon, <1>0 DEF TypeOK, HoldsNothing, Holds
  <2> QED
    BY <1>2, <2>1, <2>2 DEF Inv, LockInv
<1>7. DataInv'
  <2>1. \A q \in Procs, l \in {"write_log", "write_head", "install"} : pc'[q] = l <=> pc[q] = l
    BY <1>2
  <2>2. DataInv
    BY Zenon DEF Inv
  <2>3. UNCHANGED <<disk, dlog, dhead, buf, lh, loose, tail, rec>>
    OBVIOUS
  <2> QED
    BY <2>1, <2>2, <2>3, DataInvFrame, Zenon
<1>8. NoLostWakeup'
  BY <1>2 DEF Inv, NoLostWakeup
<1> QED
  BY Zenon, <1>3, <1>4, <1>6, <1>7, <1>8 DEF Inv

(* A turn of the loop of begin_op() keeps the invariant. *)
LEMMA BeginOpInv ==
  ASSUME Inv, NEW p \in Procs, BeginOp(p)
  PROVE  Inv'
<1> USE LogAssumption DEF BeginOp, diskvars, cachevars
<1>0. TypeOK
  BY Zenon DEF Inv, ControlInv
<1>1. rec = "up" /\ pc[p] = "begin"
  BY Zenon DEF Inv, ControlInv
<1>2. /\ pc'[p] \in {"asleep", "op"}
      /\ \A q \in Procs : q # p => pc'[q] = pc[q]
  BY Zenon, <1>0 DEF TypeOK
<1>3. TypeOK'
  <2>1. pc' \in [Procs -> PCs]
    BY <1>0, Zenon DEF TypeOK, PCs
  <2>2. outstanding' \in Nat
    BY <1>0 DEF TypeOK
  <2> QED
    BY Zenon, <1>0, <2>1, <2>2 DEF TypeOK
<1>4. ControlInv'
  <2>1. Counts(outstanding', Ops') /\ (committing => outstanding' = 0)
    <3>1. CASE MustWait
      <4>1. Ops' = Ops
        BY Zenon, <1>0, <1>1, <3>1 DEF Ops, TypeOK
      <4> QED
        BY Zenon, <3>1, <4>1 DEF Inv, ControlInv
    <3>2. CASE ~MustWait
      <4>1. Ops' = Ops \cup {p}
        BY Zenon, <1>0, <3>2 DEF Ops, TypeOK
      <4>2. outstanding' = outstanding + 1 /\ ~committing
        BY Zenon, <3>2 DEF MustWait
      <4>3. Counts(outstanding + 1, Ops \cup {p})
        BY <1>1, OpsCount, Zenon
      <4> QED
        BY Zenon, <4>1, <4>2, <4>3
    <3> QED
      BY Zenon, <3>1, <3>2
  <2>2. \A q \in Procs : pc'[q] \in InCommit <=> pc[q] \in InCommit
    BY Zenon, <1>1, <1>2 DEF InCommit
  <2> QED
    BY Zenon, <1>1, <1>3, <2>1, <2>2 DEF Inv, ControlInv
<1>5. HeadInv'
  <2>1. outstanding' = 0 => outstanding = 0
    BY <1>0 DEF TypeOK
  <2> QED
    BY Zenon, <1>1, <1>2, <2>1 DEF Inv, HeadInv
<1>6. Installing' <=> Installing
  BY Zenon, <1>1, <1>2 DEF Installing
<1>7. LockInv'
  <2>1. \A c \in Blocks : Pinned(c)' <=> Pinned(c)
    BY Zenon, <1>6 DEF Pinned
  <2>2. \A c \in Blocks : holder[c] # NoProc => holder[c] \in Procs /\ holder[c] # p
    BY <1>0, <1>1, Zenon DEF TypeOK, Inv, LockInv
  <2> QED
    BY Zenon, <1>2, <2>1, <2>2 DEF Inv, LockInv
<1>8. DataInv'
  <2>1. \A q \in Procs, l \in {"write_log", "write_head", "install"} : pc'[q] = l <=> pc[q] = l
    BY Zenon, <1>1, <1>2
  <2>2. DataInv
    BY Zenon DEF Inv
  <2>3. UNCHANGED <<disk, dlog, dhead, buf, lh, loose, tail, rec>>
    OBVIOUS
  <2> QED
    BY <2>1, <2>2, <2>3, DataInvFrame, Zenon
<1>9. NoLostWakeup'
  <2>1. MustWait => outstanding > 0 \/ committing
    <3>1. SUFFICES ASSUME MustWait, outstanding = 0, ~committing PROVE FALSE
      BY <1>0 DEF TypeOK
    <3>2. lh = <<>>
      BY Zenon, <1>1, <3>1 DEF Inv, HeadInv
    <3> QED
      BY <3>1, <3>2 DEF MustWait
  <2>2. outstanding \in Nat
    BY Zenon, <1>0 DEF TypeOK
  <2> QED
    BY <1>2, <2>1, <2>2 DEF Inv, NoLostWakeup
<1> QED
  BY Zenon, <1>4, <1>5, <1>7, <1>8, <1>9 DEF Inv

(* log_write() keeps the invariant. *)
LEMMA LogWriteInv ==
  ASSUME Inv, NEW p \in Procs, NEW b \in Blocks, LogWrite(p, b)
  PROVE  Inv'
<1> USE LogAssumption DEF LogWrite, diskvars
<1>0. TypeOK
  BY Zenon DEF Inv, ControlInv
<1>1. rec = "up" /\ outstanding > 0 /\ ~committing
  BY Zenon, NoOpInCommit
<1>2. \A c \in Blocks \ {b} : c \in loose' <=> c \in loose
  BY Zenon
<1>3. \A q \in Procs : pc[q] \notin InCommit /\ pc'[q] \notin InCommit
  BY Zenon, <1>1 DEF Inv, ControlInv
<1>4. ~Installing /\ ~Installing'
  BY Zenon, <1>3 DEF Installing, InCommit
(* Absorption leaves the header alone; otherwise one entry is appended. *)
<1>5. lh' \in Seq(Blocks) /\ Len(lh') <= NLOG - 1 /\ Distinct(lh')
  <2>1. CASE b \in Range(lh)
    BY Zenon, <1>0, <2>1 DEF Inv, HeadInv, TypeOK
  <2>2. CASE b \notin Range(lh)
    <3>1. lh' = Append(lh, b) /\ Len(lh) < NLOG - 1
      BY <1>0, <2>2 DEF LogWritePanics, TypeOK
    <3>2. lh' \in Seq(Blocks) /\ Len(lh') <= NLOG - 1
      BY <1>0, <3>1 DEF TypeOK
    <3>3. ASSUME NEW i \in DOMAIN lh', NEW j \in DOMAIN lh', lh'[i] = lh'[j]
          PROVE  i = j
      <4>1. \A k \in DOMAIN lh : lh[k] # b
        BY Zenon, <2>2 DEF Range
      <4>2. lh \in Seq(Blocks) /\ \A k, l \in DOMAIN lh : lh[k] = lh[l] => k = l
        BY Zenon, <1>0 DEF Inv, HeadInv, Distinct, TypeOK
      <4> HIDE DEF LogWrite
      <4> QED
        BY <3>1, <3>3, <4>1, <4>2
    <3> QED
      BY Zenon, <3>2, <3>3 DEF Distinct
  <2> QED
    BY Zenon, <2>1, <2>2
<1>6. \A c \in Blocks : c \in Range(lh') <=> c \in Range(lh) \/ c = b
  <2>1. CASE b \in Range(lh)
    BY Zenon, <2>1
  <2>2. CASE b \notin Range(lh)
    <3>1. lh' = Append(lh, b)
      BY Zenon, <2>2
    <3>2. DOMAIN lh' = 1..(Len(lh) + 1) /\ DOMAIN lh = 1..Len(lh) /\ Len(lh) \in Nat
      BY <1>0, <3>1 DEF TypeOK
    <3>3. lh'[Len(lh) + 1] = b /\ \A i \in 1..Len(lh) : lh'[i] = lh[i]
      BY <1>0, <3>1 DEF TypeOK
    <3> QED
      BY <3>2, <3>3 DEF Range
  <2> QED
    BY Zenon, <2>1, <2>2
<1>7. \A c \in Blocks : (Pinned(c) <=> c \in Range(lh)) /\ (Pinned(c)' <=> c \in Range(lh'))
  BY Zenon, <1>4 DEF Pinned, Range
<1>8. \A c \in Blocks : refcnt'[c] = IF c = b /\ b \notin Range(lh) THEN refcnt[c] + 1 ELSE refcnt[c]
  BY <1>0 DEF TypeOK, Bpin
<1>9. TypeOK'
  <2>1. refcnt' \in [Blocks -> Nat]
    <3>1. refcnt \in [Blocks -> Nat] /\ (refcnt' = refcnt \/ refcnt' = Bpin(b))
      BY Zenon, <1>0 DEF TypeOK
    <3> HIDE DEF LogWrite
    <3> QED
      BY <3>1 DEF Bpin
  <2> QED
    BY Zenon, <1>0, <1>5, <2>1 DEF TypeOK
<1>10. ControlInv'
  <2>1. Ops' = Ops
    BY Zenon DEF Ops
  <2> QED
    BY Zenon, <1>1, <1>3, <1>9, <2>1 DEF Inv, ControlInv
<1>11. HeadInv'
  <2>1. HeadInv /\ UNCHANGED <<dhead, outstanding, committing, tail, rec>>
    BY Zenon DEF Inv
  <2>2. \A q \in Procs : pc[q] # "install" /\ pc'[q] \notin {"write_log", "write_head", "install", "done"}
    BY Zenon, <1>3 DEF InCommit
  <2> HIDE DEF LogWrite
  <2> QED
    BY <1>1, <1>5, <2>1, <2>2 DEF HeadInv
<1>12. LockInv'
  <2>1. buf[b] # NoBuf /\ \A c \in Blocks : refcnt[c] \in Nat
    <3>1. holder[b] # NoProc
      BY Zenon
    <3>2. refcnt[b] > 0
      BY <1>1, <3>1 DEF Inv, LockInv
    <3>3. buf[b] # NoBuf
      BY Zenon, <1>1, <3>2 DEF Inv, LockInv
    <3> QED
      BY Zenon, <1>0, <3>3 DEF TypeOK
  <2>2. \A c \in Blocks : holder[c] # NoProc => holder[c] \in Procs
    BY Zenon, <1>0 DEF TypeOK
  <2> QED
    BY <1>1, <1>6, <1>7, <1>8, <2>1, <2>2 DEF Inv, LockInv
<1>13. DataInv'
  BY <1>1, <1>2, <1>3, <1>6, ZenonT(30) DEF Inv, DataInv, InCommit
<1>14. NoLostWakeup'
  BY Zenon, <1>1 DEF NoLostWakeup
<1> QED
  BY Zenon, <1>10, <1>11, <1>12, <1>13, <1>14 DEF Inv

-----------------------------------------------------------------------------
(* end_op() and commit(). *)

(* end_op() up to commit() keeps the invariant. *)
LEMMA EndOpInv ==
  ASSUME Inv, NEW p \in Procs, EndOp(p)
  PROVE  Inv'
<1> USE LogAssumption DEF EndOp, diskvars, cachevars
<1>0. TypeOK
  BY Zenon DEF Inv, ControlInv
<1>1. rec = "up" /\ outstanding > 0 /\ outstanding \in Nat /\ ~committing /\ pc[p] = "op"
  BY Zenon, <1>0, NoOpInCommit DEF TypeOK
<1>2. \A q \in Procs : pc[q] \notin InCommit
  BY Zenon, <1>1 DEF Inv, ControlInv
<1>3. \A q \in Procs \ {p} : pc'[q] = pc[q] \/ (outstanding' # 0 /\ pc[q] = "asleep" /\ pc'[q] = "begin")
  BY Zenon, <1>0 DEF TypeOK, WakeLog
<1>4. /\ pc'[p] = IF outstanding' = 0 THEN CommitEntry ELSE "out"
      /\ committing' <=> outstanding' = 0
      /\ tail' = IF outstanding' = 0 THEN 1 ELSE tail
  BY <1>0, <1>1 DEF TypeOK, WakeLog
<1>5. TypeOK'
  <2>1. CommitEntry \in {"done", "write_log"}
    BY Zenon DEF CommitEntry
  <2>2. DOMAIN pc' = Procs /\ pc' = [q \in Procs |-> pc'[q]]
    BY Zenon, <1>0 DEF TypeOK, WakeLog
  <2>3. \A q \in Procs : pc'[q] \in PCs
    BY <1>0, <1>3, <1>4, <2>1, Zenon DEF TypeOK, PCs, InCommit
  <2>4. pc' \in [Procs -> PCs]
    BY Zenon, <2>2, <2>3
  <2>5. outstanding' \in Nat /\ tail' \in Nat \ {0}
    BY <1>0, <1>1, <1>4 DEF TypeOK
  <2>7. committing' \in BOOLEAN
    BY <1>0, Zenon DEF TypeOK
  <2>6. wrote' \in [Procs -> SUBSET Blocks]
    BY Zenon, <1>0 DEF TypeOK
  <2> QED
    BY Zenon, <1>0, <2>4, <2>5, <2>6, <2>7 DEF TypeOK
<1>6. ControlInv'
  <2>1. Ops' = Ops \ {p}
    BY Zenon, <1>3, <1>4 DEF Ops, CommitEntry
  <2>2. Counts(outstanding', Ops')
    BY <1>1, <2>1, OpsCount, Zenon
  <2>3. \A q \in Procs : pc'[q] \in InCommit <=> q = p /\ committing'
    BY Zenon, <1>2, <1>3, <1>4 DEF InCommit, CommitEntry
  <2> QED
    BY Zenon, <1>1, <1>4, <1>5, <2>2, <2>3 DEF ControlInv
<1>7. \A q \in Procs : pc'[q] \in InCommit => q = p /\ pc'[p] = CommitEntry /\ tail' = 1
  BY Zenon, <1>2, <1>3, <1>4 DEF InCommit
<1>8. ~Installing /\ ~Installing'
  BY Zenon, <1>1, <1>2, <1>3, <1>4, <1>7 DEF Installing, InCommit, CommitEntry
<1>9. HeadInv'
  <2>1. lh # <<>> => 1 <= Len(lh)
    BY <1>0 DEF TypeOK
  <2> QED
    BY Zenon, <1>1, <1>2, <1>4, <1>7, <2>1 DEF Inv, HeadInv, InCommit, CommitEntry
<1>10. LockInv'
  <2>1. \A c \in Blocks : Pinned(c)' <=> Pinned(c)
    BY Zenon, <1>8 DEF Pinned
  <2>2. \A c \in Blocks : holder[c] # NoProc => holder[c] \in Procs /\ holder[c] # p
    BY Zenon, <1>0 DEF TypeOK, HoldsNothing, Holds
  <2> QED
    BY Zenon, <1>1, <1>3, <2>1, <2>2 DEF Inv, LockInv
<1>11. DataInv'
  <2>1. \A i \in DOMAIN lh : ~(i < 1)
    BY LogEntry
  <2> QED
    BY <1>1, <1>7, <1>8, <2>1 DEF Inv, DataInv, InCommit, CommitEntry
<1>12. NoLostWakeup'
  <2>1. outstanding' = 0 \/ outstanding' > 0
    BY <1>1
  <2>2. outstanding' = 0 => committing'
    BY Zenon, <1>1
  <2> QED
    BY Zenon, <2>1, <2>2 DEF NoLostWakeup
<1> QED
  BY Zenon, <1>6, <1>9, <1>10, <1>11, <1>12 DEF Inv

(* write_log() keeps the invariant. *)
LEMMA WriteLogInv ==
  ASSUME Inv, NEW p \in Procs, WriteLog(p)
  PROVE  Inv'
<1> USE LogAssumption DEF WriteLog, logvars
<1>0. TypeOK
  BY Zenon DEF Inv, ControlInv
<1>1. rec = "up" /\ committing /\ outstanding = 0
  BY Zenon DEF Inv, ControlInv, InCommit
<1>2. /\ \A q \in Procs : pc[q] \in InCommit => q = p
      /\ \A q \in Procs : pc[q] # "op"
  BY Zenon, <1>1, NoOpInCommit DEF Inv, ControlInv, InCommit
<1>3. tail \in DOMAIN lh /\ lh[tail] \in Blocks /\ tail \in Slots
  <2>1. tail \in DOMAIN lh
    BY <1>0 DEF Inv, HeadInv, TypeOK
  <2> QED
    BY Zenon, <2>1, LogEntry
<1>4. \A q \in Procs : pc'[q] = IF q # p THEN pc[q] ELSE IF tail < Len(lh) THEN "write_log" ELSE "write_head"
  BY Zenon, <1>0 DEF TypeOK
<1>5. ~Installing /\ ~Installing'
  BY <1>2, <1>4 DEF Installing, InCommit
(* The block is pinned, so bread() finds it in the cache. *)
<1>6. buf[lh[tail]] # NoBuf /\ buf' = buf
  <2>1. Pinned(lh[tail])
    BY Zenon, <1>3, <1>5 DEF Pinned
  <2>2. refcnt[lh[tail]] > 0
    BY <1>1, <1>3, <2>1 DEF Inv, LockInv
  <2>3. buf[lh[tail]] # NoBuf
    BY Zenon, <1>1, <1>3, <2>2 DEF Inv, LockInv
  <2> QED
    BY Zenon, <1>0, <1>3, <2>3 DEF View, TypeOK
<1>7. \A i \in Slots : dlog'[i] = IF i = tail THEN buf[lh[tail]] ELSE dlog[i]
  BY Zenon, <1>0, <1>6 DEF View, TypeOK
<1>8. TypeOK'
  <2>1. pc' \in [Procs -> PCs]
    BY Zenon, <1>0 DEF TypeOK, PCs, InCommit
  <2>2. dlog' \in [Slots -> Data]
    BY <1>0, <1>3, <1>6 DEF TypeOK, View
  <2>3. tail' \in Nat \ {0}
    BY <1>0 DEF TypeOK
  <2> QED
    BY <1>0, <1>6, <2>1, <2>2, <2>3, Zenon DEF TypeOK
<1>9. ControlInv'
  <2>1. Ops' = Ops
    BY <1>4 DEF Ops
  <2>2. \A q \in Procs : pc'[q] \in InCommit <=> pc[q] \in InCommit
    BY Zenon, <1>4 DEF InCommit
  <2> QED
    BY <1>1, <1>8, <2>1, <2>2, Zenon DEF Inv, ControlInv
<1>10. HeadInv'
  <2>1. tail \in Nat /\ Len(lh) \in Nat
    BY <1>0 DEF TypeOK
  <2>2. dhead = <<>>
    BY Zenon, <1>1, <1>5 DEF Inv, HeadInv, Installing
  <2> QED
    BY <1>1, <1>2, <1>4, <1>5, <2>1, <2>2 DEF Inv, HeadInv, Installing, InCommit
<1>11. LockInv'
  <2>1. \A c \in Blocks : Pinned(c)' <=> Pinned(c)
    BY Zenon, <1>5 DEF Pinned
  <2>2. \A c \in Blocks : holder[c] # NoProc => holder[c] \in Procs /\ holder[c] # p
    BY <1>0, ZenonT(30) DEF TypeOK, Inv, LockInv
  <2> QED
    BY <1>1, <1>4, <1>6, <2>1, <2>2 DEF Inv, LockInv
<1>12. DataInv'
  <2>1. dhead = <<>>
    BY Zenon, <1>1, <1>5 DEF Inv, HeadInv, Installing
  <2>3. \A i \in DOMAIN lh : i \in 1..Len(lh) /\ i \in Slots
    BY Zenon, LogEntry
  <2>4. \A i \in DOMAIN lh : i < tail => dlog[i] = buf[lh[i]]
    BY Zenon DEF Inv, DataInv
  <2>t. tail \in Nat /\ Len(lh) \in Nat
    BY <1>0 DEF TypeOK
  <2>5. \A i \in DOMAIN lh : i < tail' => dlog'[i] = buf[lh[i]]
    <3> SUFFICES ASSUME NEW i \in DOMAIN lh, i < tail + 1
                 PROVE  dlog'[i] = buf[lh[i]]
      OBVIOUS
    <3>1. i \in Slots /\ (i = tail \/ i < tail)
      BY <2>3, <2>t
    <3>2. dlog'[i] = IF i = tail THEN buf[lh[tail]] ELSE dlog[i]
      BY Zenon, <1>7, <3>1
    <3> QED
      BY Zenon, <2>4, <3>1, <3>2
  <2>6. \A i \in DOMAIN lh : pc'[p] = "write_head" => dlog'[i] = buf[lh[i]]
    <3> SUFFICES ASSUME NEW i \in DOMAIN lh, pc'[p] = "write_head"
                 PROVE  i < tail'
      BY Zenon, <2>5
    <3>1. ~(tail < Len(lh))
      BY Zenon, <1>4
    <3> QED
      BY <2>3, <2>t, <3>1
  <2>7. \A q \in Procs : pc'[q] \in InCommit => q = p
    BY Zenon, <1>2, <1>4 DEF InCommit
  <2> QED
    BY <1>1, <1>4, <1>6, <2>1, <2>5, <2>6, <2>7 DEF Inv, DataInv, InCommit
<1>13. NoLostWakeup'
  BY Zenon, <1>1 DEF NoLostWakeup
<1> QED
  BY Zenon, <1>9, <1>10, <1>11, <1>12, <1>13 DEF Inv

(* write_head(), the commit point, keeps the invariant. *)
LEMMA WriteHeadInv ==
  ASSUME Inv, NEW p \in Procs, WriteHead(p)
  PROVE  Inv'
<1> USE LogAssumption DEF WriteHead, logvars, cachevars
<1>0. TypeOK
  BY Zenon DEF Inv, ControlInv
<1>1. rec = "up" /\ committing /\ outstanding = 0
  BY Zenon DEF Inv, ControlInv, InCommit
<1>2. /\ \A q \in Procs : pc[q] \in InCommit => q = p
      /\ \A q \in Procs : pc[q] # "op"
  BY Zenon, <1>1, NoOpInCommit DEF Inv, ControlInv, InCommit
<1>3. \A q \in Procs : pc'[q] = IF q = p THEN "install" ELSE pc[q]
  BY Zenon, <1>0 DEF TypeOK
<1>4. ~Installing /\ Installing'
  BY Zenon, <1>2, <1>3 DEF Installing, InCommit
<1>5. TypeOK'
  <2>1. pc' \in [Procs -> PCs]
    BY Zenon, <1>0 DEF TypeOK, PCs, InCommit
  <2> QED
    BY <1>0, <2>1 DEF TypeOK
<1>6. ControlInv'
  <2>1. Ops' = Ops
    BY <1>3 DEF Ops
  <2>2. \A q \in Procs : pc'[q] \in InCommit <=> pc[q] \in InCommit
    BY Zenon, <1>3 DEF InCommit
  <2> QED
    BY <1>1, <1>5, <2>1, <2>2, Zenon DEF Inv, ControlInv
<1>7. HeadInv'
  BY <1>1, <1>2, <1>3 DEF Inv, HeadInv, InCommit
<1>8. LockInv'
  <2>1. \A i \in DOMAIN lh : i >= 1
    BY LogEntry
  <2>2. \A c \in Blocks : Pinned(c)' <=> Pinned(c)
    BY Zenon, <1>4, <2>1 DEF Pinned
  <2>3. \A c \in Blocks : holder[c] # NoProc => holder[c] \in Procs /\ holder[c] # p
    BY <1>0, ZenonT(30) DEF TypeOK, Inv, LockInv
  <2> QED
    BY <1>1, <1>3, <2>2, <2>3 DEF Inv, LockInv
<1>9. DataInv'
  <2>2. \A i \in DOMAIN lh : i >= 1 /\ ~(i < 1) /\ dlog[i] = buf[lh[i]] /\ dlog[i] \in Values
    BY <1>1, LogEntry DEF Inv, DataInv
  <2>3. \A q \in Procs : pc'[q] \in InCommit => q = p
    BY Zenon, <1>2, <1>3 DEF InCommit
  <2> QED
    BY Zenon, <1>1, <1>3, <2>2, <2>3 DEF Inv, DataInv, InCommit
<1>10. NoLostWakeup'
  BY Zenon, <1>1 DEF NoLostWakeup
<1> QED
  BY Zenon, <1>6, <1>7, <1>8, <1>9, <1>10 DEF Inv

(* install_trans() in a commit keeps the invariant. *)
LEMMA InstallTransInv ==
  ASSUME Inv, NEW p \in Procs, InstallTrans(p)
  PROVE  Inv'
<1> USE LogAssumption DEF InstallTrans, logvars
<1>0. TypeOK
  BY Zenon DEF Inv, ControlInv
<1>1. rec = "up" /\ committing /\ outstanding = 0 /\ Installing /\ Installing'
  BY Zenon DEF Inv, ControlInv, InCommit, Installing
<1>2. /\ \A q \in Procs : pc[q] \in InCommit => q = p
      /\ \A q \in Procs : pc[q] # "op"
  BY Zenon, <1>1, NoOpInCommit DEF Inv, ControlInv, InCommit
<1>t. tail \in Nat \ {0} /\ Len(lh) \in Nat
  BY <1>0 DEF TypeOK
<1>3. tail \in DOMAIN lh /\ lh[tail] \in Blocks /\ tail \in Slots
  <2>1. tail \in DOMAIN lh
    BY <1>0 DEF TypeOK
  <2> QED
    BY Zenon, <2>1, LogEntry
<1>4. dlog[tail] \in Values /\ dlog[tail] # NoBuf
  BY <1>3 DEF Inv, HeadInv, DataInv
<1>5. \A c \in Blocks :
        /\ buf'[c] = IF c = lh[tail] THEN dlog[tail] ELSE buf[c]
        /\ disk'[c] = IF c = lh[tail] THEN dlog[tail] ELSE disk[c]
        /\ refcnt'[c] = IF c = lh[tail] THEN refcnt[c] - 1 ELSE refcnt[c]
        /\ refcnt[c] \in Nat
  BY Zenon, <1>0 DEF TypeOK, Bunpin
<1>6. \A i \in DOMAIN lh : i \in Nat /\ lh[i] \in Blocks /\ (lh[i] = lh[tail] => i = tail)
  BY <1>3, LogEntry DEF Inv, HeadInv, Distinct
<1>7. \A c \in Blocks : Pinned(c)' <=> Pinned(c) /\ c # lh[tail]
  <2> SUFFICES ASSUME NEW c \in Blocks
               PROVE  Pinned(c)' <=> Pinned(c) /\ c # lh[tail]
    OBVIOUS
  <2>1. ASSUME Pinned(c)' PROVE Pinned(c) /\ c # lh[tail]
    <3>1. PICK i \in DOMAIN lh : lh[i] = c /\ i >= tail + 1
      BY Zenon, <1>1, <2>1 DEF Pinned
    <3>2. i # tail /\ i >= tail
      BY <1>6, <1>t, <3>1
    <3> QED
      BY Zenon, <1>6, <3>1, <3>2 DEF Pinned
  <2>2. ASSUME Pinned(c), c # lh[tail] PROVE Pinned(c)'
    <3>1. PICK i \in DOMAIN lh : lh[i] = c /\ i >= tail
      BY Zenon, <1>1, <2>2 DEF Pinned
    <3>2. i >= tail'
      BY <1>6, <1>t, <2>2, <3>1
    <3> QED
      BY Zenon, <3>1, <3>2 DEF Pinned
  <2> QED
    BY Zenon, <2>1, <2>2
<1>8. Pinned(lh[tail]) /\ refcnt[lh[tail]] = 1
  <2>1. Pinned(lh[tail])
    BY <1>3, <1>t DEF Pinned
  <2> QED
    BY <1>1, <1>3, <2>1 DEF Inv, LockInv
<1>9. TypeOK'
  <2>1. refcnt' \in [Blocks -> Nat]
    BY <1>0, <1>8 DEF TypeOK, Bunpin
  <2>2. buf' \in [Blocks -> Data \cup {NoBuf}] /\ disk' \in [Blocks -> Data]
    BY Zenon, <1>0, <1>4 DEF TypeOK, Data
  <2>3. tail' \in Nat \ {0}
    BY <1>t
  <2> QED
    BY Zenon, <1>0, <2>1, <2>2, <2>3 DEF TypeOK
<1>10. ControlInv'
  BY Zenon, <1>9 DEF Inv, ControlInv, Ops
<1>11. HeadInv'
  BY Zenon, <1>2 DEF Inv, HeadInv, InCommit
<1>12. LockInv'
  <2>0. LockInv /\ UNCHANGED <<holder, rec, pc, lh>> /\ holder[lh[tail]] = NoProc
    BY Zenon DEF Inv
  <2> HIDE DEF InstallTrans
  <2>1. \A c \in Blocks :
          refcnt'[c] = (IF holder[c] = NoProc THEN 0 ELSE 1) + (IF Pinned(c)' THEN 1 ELSE 0)
    <3> SUFFICES ASSUME NEW c \in Blocks
                 PROVE  refcnt'[c] = (IF holder[c] = NoProc THEN 0 ELSE 1) + (IF Pinned(c)' THEN 1 ELSE 0)
      OBVIOUS
    <3>1. CASE c = lh[tail]
      BY <1>5, <1>7, <1>8, <2>0, <3>1
    <3>2. CASE c # lh[tail]
      BY <1>1, <1>5, <1>7, <2>0, <3>2 DEF LockInv
    <3> QED
      BY Zenon, <3>1, <3>2
  <2>2. \A c \in Blocks : refcnt'[c] > 0 => buf'[c] # NoBuf
    BY Zenon, <1>1, <1>4, <1>5, <2>0 DEF LockInv
  <2> QED
    BY Zenon, <1>1, <2>0, <2>1, <2>2 DEF LockInv
<1>13. DataInv'
  <2>2. \A q \in Procs : pc[q] \in {"write_log", "write_head", "install"} => q = p
    BY Zenon, <1>2 DEF InCommit
  <2>6. /\ DataInv /\ UNCHANGED <<dlog, dhead, lh, loose, rec, pc>> /\ tail' = tail + 1
        /\ pc[p] = "install" /\ rec = "up"
    BY Zenon, <1>1 DEF Inv
  <2> HIDE DEF InstallTrans
  <2>3. lh[tail] \in Range(lh)
    BY Zenon, <1>3 DEF Range
  <2>0. \A i \in DOMAIN lh :
          /\ i >= tail => dlog[i] = buf[lh[i]]
          /\ i < tail => dlog[i] = disk[lh[i]] /\ buf[lh[i]] \in {NoBuf, disk[lh[i]]}
    BY Zenon, <2>6 DEF DataInv
  <2>7. \A c \in Blocks :
          /\ buf[c] \in Values \cup {NoBuf} /\ disk[c] \in Values
          /\ c \notin Range(lh) /\ c \notin loose => buf[c] \in {NoBuf, disk[c]}
    BY Zenon, <2>6 DEF DataInv
  <2>4. \A c \in Blocks :
          /\ buf'[c] \in Values \cup {NoBuf} /\ disk'[c] \in Values
          /\ c \notin Range(lh) /\ c \notin loose => buf'[c] \in {NoBuf, disk'[c]}
    BY Zenon, <1>4, <1>5, <2>3, <2>7
  <2>5. \A i \in DOMAIN lh :
          /\ i >= tail + 1 => dlog[i] = buf'[lh[i]]
          /\ i < tail + 1 => dlog[i] = disk'[lh[i]] /\ buf'[lh[i]] \in {NoBuf, disk'[lh[i]]}
    <3> SUFFICES ASSUME NEW i \in DOMAIN lh
                 PROVE  /\ i >= tail + 1 => dlog[i] = buf'[lh[i]]
                        /\ i < tail + 1 => dlog[i] = disk'[lh[i]] /\ buf'[lh[i]] \in {NoBuf, disk'[lh[i]]}
      OBVIOUS
    <3>1. CASE i = tail
      BY Zenon, <1>3, <1>5, <1>t, <3>1
    <3>2. CASE i # tail
      <4>1. buf'[lh[i]] = buf[lh[i]] /\ disk'[lh[i]] = disk[lh[i]]
        BY Zenon, <1>5, <1>6, <3>2
      <4>2. i \in Nat
        BY Zenon, <1>6
      <4> QED
        BY <1>t, <2>0, <3>2, <4>1, <4>2
    <3> QED
      BY <3>1, <3>2, ZenonT(30)
  <2> QED
    BY Zenon, <2>2, <2>4, <2>5, <2>6 DEF DataInv
<1>14. NoLostWakeup'
  BY Zenon, <1>1 DEF NoLostWakeup
<1> QED
  BY Zenon, <1>10, <1>11, <1>12, <1>13, <1>14 DEF Inv

(* Erasing the transaction from the log keeps the invariant. *)
LEMMA EraseHeadInv ==
  ASSUME Inv, NEW p \in Procs, EraseHead(p)
  PROVE  Inv'
<1> USE LogAssumption DEF EraseHead, cachevars
<1>0. TypeOK
  BY Zenon DEF Inv, ControlInv
<1>1. rec = "up" /\ committing /\ outstanding = 0 /\ Installing
  BY Zenon DEF Inv, ControlInv, InCommit, Installing
<1>2. /\ \A q \in Procs : pc[q] \in InCommit => q = p
      /\ \A q \in Procs : pc[q] # "op"
  BY Zenon, <1>1, NoOpInCommit DEF Inv, ControlInv, InCommit
<1>3. \A q \in Procs : pc'[q] = IF q = p THEN "done" ELSE pc[q]
  BY Zenon, <1>0 DEF TypeOK
<1>4. \A i \in DOMAIN lh : i < tail
  BY <1>0 DEF TypeOK
<1>5. \A c \in Blocks : ~Pinned(c) /\ ~Pinned(c)'
  <2>1. \A i \in DOMAIN lh : ~(i >= tail)
    BY <1>0, <1>4 DEF TypeOK
  <2> QED
    BY <1>1, <2>1 DEF Pinned
<1>6. TypeOK'
  <2>1. pc' \in [Procs -> PCs]
    BY Zenon, <1>0 DEF TypeOK, PCs, InCommit
  <2>2. lh' \in Seq(Blocks) /\ dhead' \in Seq(Blocks)
    OBVIOUS
  <2> QED
    BY Zenon, <1>0, <2>1, <2>2 DEF TypeOK
<1>7. ControlInv'
  <2>1. Ops' = Ops
    BY <1>3 DEF Ops
  <2>2. \A q \in Procs : pc'[q] \in InCommit <=> pc[q] \in InCommit
    BY Zenon, <1>3 DEF InCommit
  <2> QED
    BY <1>1, <1>6, <2>1, <2>2, Zenon DEF Inv, ControlInv
<1>8. HeadInv'
  <2>1. Len(lh') = 0 /\ Len(dhead') = 0 /\ Distinct(lh') /\ Distinct(dhead')
    BY DEF Distinct
  <2>2. \A q \in Procs : pc'[q] \notin {"write_log", "write_head", "install"}
    BY <1>2, <1>3 DEF InCommit
  <2> QED
    BY <1>1, <2>1, <2>2 DEF HeadInv
<1>9. LockInv'
  <2>1. \A c \in Blocks : holder[c] # NoProc => holder[c] \in Procs /\ holder[c] # p
    BY <1>0, ZenonT(30) DEF TypeOK, Inv, LockInv
  <2> QED
    BY <1>1, <1>3, <1>5, <2>1 DEF Inv, LockInv
<1>10. DataInv'
  <2>1. \A c \in Blocks \ loose : buf[c] \in {NoBuf, disk[c]}
    BY Zenon, <1>1, <1>4 DEF Inv, DataInv, Range
  <2> QED
    BY <1>1, <2>1 DEF Inv, DataInv
<1>11. NoLostWakeup'
  BY Zenon, <1>1 DEF NoLostWakeup
<1> QED
  BY Zenon, <1>7, <1>8, <1>9, <1>10, <1>11 DEF Inv

(* The end of end_op() after commit() keeps the invariant. *)
LEMMA EndCommitInv ==
  ASSUME Inv, NEW p \in Procs, EndCommit(p)
  PROVE  Inv'
<1> USE LogAssumption DEF EndCommit, diskvars, cachevars
<1>0. TypeOK
  BY Zenon DEF Inv, ControlInv
<1>1. rec = "up" /\ outstanding = 0 /\ lh = <<>>
  BY Zenon DEF Inv, ControlInv, HeadInv, InCommit
<1>2. /\ \A q \in Procs : pc[q] \in InCommit => q = p
      /\ \A q \in Procs : pc[q] # "op"
  BY Zenon, <1>1, NoOpInCommit DEF Inv, ControlInv, InCommit
<1>3. \A q \in Procs : pc'[q] = IF q = p THEN "out" ELSE IF pc[q] = "asleep" THEN "begin" ELSE pc[q]
  BY Zenon, <1>0 DEF TypeOK, WakeLog
<1>4. \A q \in Procs : pc'[q] \notin InCommit
  BY <1>2, <1>3, Zenon DEF InCommit
<1>5. TypeOK'
  <2>1. pc' = [q \in Procs |-> IF q = p THEN "out" ELSE IF pc[q] = "asleep" THEN "begin" ELSE pc[q]]
    BY Zenon, <1>0 DEF TypeOK, WakeLog
  <2>2. pc' \in [Procs -> PCs]
    BY <1>0, <2>1, Zenon DEF TypeOK, PCs
  <2> QED
    BY <1>0, <2>2, Zenon DEF TypeOK
<1>6. ControlInv'
  <2>1. Ops' = Ops
    BY <1>3, Zenon DEF Ops
  <2> QED
    BY <1>1, <1>4, <1>5, <2>1, Zenon DEF Inv, ControlInv
<1>7. HeadInv'
  <2>1. dhead = <<>>
    BY Zenon, <1>1, <1>2 DEF Inv, HeadInv, InCommit
  <2> QED
    BY <1>1, <1>4, <2>1, Zenon DEF Inv, HeadInv, InCommit
<1>8. \A c \in Blocks : ~Pinned(c) /\ ~Pinned(c)'
  <2>1. DOMAIN lh = {} /\ DOMAIN lh' = {}
    BY <1>1
  <2> QED
    BY <2>1, Zenon DEF Pinned
<1>9. LockInv'
  <2>1. \A c \in Blocks : holder[c] # NoProc => holder[c] \in Procs /\ holder[c] # p
    BY <1>0, ZenonT(30) DEF TypeOK, Inv, LockInv
  <2> QED
    BY <1>1, <1>3, <1>8, <2>1, Zenon DEF Inv, LockInv
<1>10. DataInv'
  <2>1. \A q \in Procs : pc'[q] \notin {"write_log", "write_head", "install"}
    BY <1>4, Zenon DEF InCommit
  <2> QED
    BY <1>1, <2>1 DEF Inv, DataInv
<1>11. NoLostWakeup'
  BY <1>3, Zenon DEF NoLostWakeup
<1> QED
  BY Zenon, <1>6, <1>7, <1>9, <1>10, <1>11 DEF Inv

-----------------------------------------------------------------------------
(* Crashes and recovery, and the theorems. *)

(* A power failure, also during a block write, keeps the invariant. *)
LEMMA CrashInv ==
  ASSUME Inv, Crash
  PROVE  Inv'
<1> USE LogAssumption DEF Crash
<1>0. TypeOK
  BY Zenon DEF Inv, ControlInv
(* A torn block is a log block with no header, or is covered by the header. *)
<1>1. /\ disk' \in [Blocks -> Data] /\ dlog' \in [Slots -> Data]
      /\ \A b \in Blocks : b \notin Range(dhead) => disk'[b] \in Values
      /\ \A i \in DOMAIN dhead : dlog'[i] \in Values
  <2>1. /\ \A b \in Blocks : b \notin Range(dhead) => disk[b] \in Values
        /\ \A i \in DOMAIN dhead : dlog[i] \in Values
    BY Zenon, <1>0 DEF Inv, DataInv, TypeOK
  <2>2. CASE UNCHANGED <<disk, dlog>>
    BY Zenon, <1>0, <2>1, <2>2 DEF TypeOK
  <2>3. CASE /\ \E p \in Procs : pc[p] = "write_log"
             /\ dlog' = [dlog EXCEPT ![tail] = Torn]
             /\ UNCHANGED disk
    <3>1. dhead = <<>>
      <4>1. rec = "up" /\ \A p \in Procs : pc[p] # "install"
        BY Zenon, <2>3 DEF Inv, ControlInv, InCommit
      <4> QED
        BY Zenon, <4>1 DEF Inv, HeadInv
    <3>2. dlog' \in [Slots -> Data]
      BY <1>0, <2>3, Zenon DEF TypeOK, Data
    <3> QED
      BY <1>0, <2>1, <2>3, <3>1, <3>2 DEF TypeOK
  <2>4. CASE /\ rec = "install" \/ \E p \in Procs : pc[p] = "install"
             /\ tail <= Len(lh)
             /\ disk' = [disk EXCEPT ![lh[tail]] = Torn]
             /\ UNCHANGED dlog
    <3>1. lh = dhead /\ tail \in DOMAIN lh
      BY <1>0, <2>4 DEF Inv, HeadInv, TypeOK
    <3>2. lh[tail] \in Range(dhead)
      BY Zenon, <3>1 DEF Range
    <3>3. disk' \in [Blocks -> Data]
      BY Zenon, <1>0, <2>4 DEF TypeOK, Data
    <3> QED
      BY Zenon, <1>0, <2>1, <2>4, <3>2, <3>3 DEF TypeOK
  <2> QED
    BY Zenon, <2>2, <2>3, <2>4 DEF TornWrite
<1>2. TypeOK'
  <2>1. pc' \in [Procs -> PCs] /\ wrote' \in [Procs -> SUBSET Blocks]
    BY Zenon DEF PCs
  <2>2. buf' \in [Blocks -> Data \cup {NoBuf}]
    OBVIOUS
  <2>3. refcnt' \in [Blocks -> Nat] /\ holder' \in [Blocks -> Procs \cup {NoProc}]
    OBVIOUS
  <2>4. lh' \in Seq(Blocks) /\ tail' \in Nat \ {0} /\ dhead' \in Seq(Blocks)
    BY <1>0 DEF TypeOK
  <2>5. outstanding' \in Nat
    OBVIOUS
  <2>6. committing' \in BOOLEAN
    BY Zenon
  <2> QED
    BY <1>1, <2>1, <2>2, <2>3, <2>4, <2>5, <2>6, Zenon DEF TypeOK
<1>3. ControlInv'
  <2>1. Ops' = {}
    BY Zenon DEF Ops
  <2> QED
    BY Zenon, <1>2, <2>1, CountsZero DEF ControlInv, InCommit
<1>4. HeadInv'
  <2>1. Len(lh') = 0 /\ Distinct(lh')
    BY DEF Distinct
  <2>2. \A p \in Procs : pc'[p] = "out"
    OBVIOUS
  <2>3. Len(dhead') <= NLOG - 1 /\ Distinct(dhead')
    BY Zenon DEF Inv, HeadInv, Distinct
  <2>4. rec' = "read_head" /\ lh' = <<>> /\ 0 <= NLOG - 1
    OBVIOUS
  <2> QED
    BY Zenon, <2>1, <2>2, <2>3, <2>4 DEF HeadInv
<1>5. LockInv'
  BY Zenon DEF LockInv
<1>6. DataInv'
  <2>1. \A p \in Procs : pc'[p] = "out"
    OBVIOUS
  <2> QED
    BY Zenon, <1>1, <2>1 DEF DataInv, Range
<1>7. NoLostWakeup'
  BY Zenon DEF NoLostWakeup
<1> QED
  BY Zenon, <1>3, <1>4, <1>5, <1>6, <1>7 DEF Inv

(* read_head() at recovery keeps the invariant. *)
LEMMA ReadHeadInv ==
  ASSUME Inv, ReadHead
  PROVE  Inv'
<1> USE LogAssumption DEF ReadHead, diskvars, cachevars
<1>0. TypeOK
  BY Zenon DEF Inv, ControlInv
<1>1. TypeOK'
  BY <1>0 DEF TypeOK
<1>2. \A p \in Procs : pc[p] = "out"
  BY Zenon DEF Inv, ControlInv
<1>3. ControlInv'
  BY Zenon, <1>1, <1>2 DEF Inv, ControlInv, Ops
<1>4. HeadInv'
  BY Zenon, <1>2 DEF Inv, HeadInv
<1>5. LockInv'
  BY Zenon DEF Inv, LockInv
<1>6. DataInv'
  <2>1. \A i \in DOMAIN dhead : ~(i < 1)
    BY <1>0 DEF TypeOK
  <2> QED
    BY Zenon, <1>2, <2>1 DEF Inv, DataInv
<1>7. NoLostWakeup'
  BY Zenon DEF Inv, NoLostWakeup
<1> QED
  BY Zenon, <1>3, <1>4, <1>5, <1>6, <1>7 DEF Inv

(* install_trans() at recovery keeps the invariant. *)
LEMMA RecoverBlockInv ==
  ASSUME Inv, RecoverBlock
  PROVE  Inv'
<1> USE LogAssumption DEF RecoverBlock, logvars
<1>0. TypeOK
  BY Zenon DEF Inv, ControlInv
<1>t. tail \in Nat \ {0} /\ Len(lh) \in Nat
  BY <1>0 DEF TypeOK
<1>1. \A p \in Procs : pc[p] = "out"
  BY Zenon DEF Inv, ControlInv
<1>2. lh = dhead /\ tail \in DOMAIN lh
  BY <1>0 DEF Inv, HeadInv, TypeOK
<1>3. lh[tail] \in Blocks /\ lh[tail] \in Range(dhead) /\ dlog[tail] \in Values
  BY Zenon, <1>2, LogEntry DEF Inv, DataInv, Range
<1>4. \A c \in Blocks :
        /\ buf'[c] = IF c = lh[tail] THEN dlog[tail] ELSE buf[c]
        /\ disk'[c] = IF c = lh[tail] THEN dlog[tail] ELSE disk[c]
  BY Zenon, <1>0 DEF TypeOK
<1>5. TypeOK'
  <2>1. buf' \in [Blocks -> Data \cup {NoBuf}] /\ disk' \in [Blocks -> Data]
    BY Zenon, <1>0, <1>3 DEF TypeOK, Data
  <2>2. tail' \in Nat \ {0}
    BY <1>t
  <2> QED
    BY Zenon, <1>0, <2>1, <2>2 DEF TypeOK
<1>6. ControlInv'
  BY Zenon, <1>1, <1>5 DEF Inv, ControlInv, Ops
<1>7. HeadInv'
  BY Zenon, <1>1 DEF Inv, HeadInv
<1>8. LockInv'
  BY Zenon DEF Inv, LockInv
<1>9. DataInv'
  <2>1. \A i \in DOMAIN lh : i < tail + 1 => disk'[lh[i]] = dlog[i]
    <3> SUFFICES ASSUME NEW i \in DOMAIN lh, i < tail + 1
                 PROVE  disk'[lh[i]] = dlog[i]
      OBVIOUS
    <3>1. i \in Nat /\ lh[i] \in Blocks /\ (lh[i] = lh[tail] => i = tail)
      BY <1>2, LogEntry DEF Inv, HeadInv, Distinct
    <3>2. i = tail \/ i < tail
      BY <1>t, <3>1
    <3> QED
      BY Zenon, <1>4, <3>1, <3>2 DEF Inv, DataInv
  <2> QED
    BY <1>1, <1>3, <1>4, <2>1 DEF Inv, DataInv
<1>10. NoLostWakeup'
  BY Zenon DEF Inv, NoLostWakeup
<1> QED
  BY Zenon, <1>6, <1>7, <1>8, <1>9, <1>10 DEF Inv

(* The end of recover_from_log() keeps the invariant. *)
LEMMA RecoverDoneInv ==
  ASSUME Inv, RecoverDone
  PROVE  Inv'
<1> USE LogAssumption DEF RecoverDone, cachevars
<1>0. TypeOK
  BY Zenon DEF Inv, ControlInv
<1>1. \A p \in Procs : pc[p] = "out"
  BY Zenon DEF Inv, ControlInv
<1>2. lh = dhead /\ \A i \in DOMAIN lh : i < tail
  BY <1>0 DEF Inv, HeadInv, TypeOK
<1>3. TypeOK'
  <2>1. lh' \in Seq(Blocks) /\ dhead' \in Seq(Blocks)
    OBVIOUS
  <2> QED
    BY Zenon, <1>0, <2>1 DEF TypeOK
<1>4. ControlInv'
  BY Zenon, <1>1, <1>3 DEF Inv, ControlInv, Ops
<1>5. HeadInv'
  <2>1. Len(lh') = 0 /\ Len(dhead') = 0 /\ Distinct(lh') /\ Distinct(dhead')
    BY DEF Distinct
  <2> QED
    BY <1>1, <2>1 DEF HeadInv
<1>6. LockInv'
  <2>1. \A c \in Blocks : ~Pinned(c)'
    BY DEF Pinned
  <2> QED
    BY <2>1 DEF Inv, LockInv
<1>7. DataInv'
  <2>1. \A c \in Blocks : disk[c] \in Values
    BY <1>2 DEF Inv, DataInv, Range
  <2>2. \A c \in Blocks : buf[c] \in {NoBuf, disk[c]}
    BY Zenon DEF Inv, DataInv
  <2> QED
    BY <1>1, <2>1, <2>2 DEF DataInv
<1>8. NoLostWakeup'
  BY Zenon DEF Inv, NoLostWakeup
<1> QED
  BY Zenon, <1>4, <1>5, <1>6, <1>7, <1>8 DEF Inv

(* Every step keeps the invariant. *)
LEMMA NextInv == Inv /\ [Next]_vars => Inv'
<1> SUFFICES ASSUME Inv, [Next]_vars PROVE Inv'
  OBVIOUS
<1>1. ASSUME NEW p \in Procs, NEW b \in Blocks, Bread(p, b) \/ LogWrite(p, b) \/ Brelse(p, b)
      PROVE  Inv'
  BY Zenon, <1>1, BreadInv, LogWriteInv, BrelseInv
<1>2. ASSUME NEW p \in Procs, CallBeginOp(p) \/ BeginOp(p) \/ EndOp(p)
      PROVE  Inv'
  BY Zenon, <1>2, CallBeginOpInv, BeginOpInv, EndOpInv
<1>3. ASSUME NEW p \in Procs, CommitStep(p)
      PROVE  Inv'
  BY Zenon, <1>3, WriteLogInv, WriteHeadInv, InstallTransInv, EraseHeadInv, EndCommitInv DEF
     CommitStep
<1>4. ASSUME NEW p \in Procs, NEW b \in Blocks, NEW v \in Values, Modify(p, b, v)
      PROVE  Inv'
  BY Zenon, <1>4, ModifyInv
<1>5. ASSUME NEW b \in Blocks, Recycle(b)
      PROVE  Inv'
  BY Zenon, <1>5, RecycleInv
<1>6. CASE Recover
  BY Zenon, <1>6, ReadHeadInv, RecoverBlockInv, RecoverDoneInv DEF Recover
<1>7. CASE Crash
  BY Zenon, <1>7, CrashInv
<1>8. CASE UNCHANGED vars
  <2> USE <1>8 DEF vars
  <2>1. ControlInv'
    BY Zenon DEF Inv, ControlInv, TypeOK, Ops
  <2>2. HeadInv' /\ NoLostWakeup'
    BY Zenon DEF Inv, HeadInv, Distinct, NoLostWakeup
  <2>3. LockInv'
    BY Zenon DEF Inv, LockInv, Pinned, Installing
  <2>4. DataInv'
    BY DEF Inv, DataInv
  <2> QED
    BY <2>1, <2>2, <2>3, <2>4, Zenon DEF Inv
<1> QED
  BY Zenon, <1>1, <1>2, <1>3, <1>4, <1>5, <1>6, <1>7, <1>8 DEF Next

(* The invariant holds in every state the log code can reach. *)
THEOREM Invariance == Spec => []Inv
  BY InitInv, NextInv, PTL DEF Spec

(* The variables keep their types: reference counts never go negative and  *)
(* the header never outgrows the log area.                                 *)
THEOREM TypeCorrect == Spec => []TypeOK
<1>1. Inv => TypeOK
  BY Zenon DEF Inv, ControlInv
<1> QED
  BY <1>1, Invariance, PTL

(* A block of the transaction stays in the cache until it is installed. *)
THEOREM PinningWorks == Spec => []PinnedUntilInstalled
<1>1. Inv => PinnedUntilInstalled
  <2> SUFFICES ASSUME Inv, rec = "up", NEW i \in DOMAIN lh,
                      ~(i < tail /\ \E p \in Procs : pc[p] = "install")
               PROVE  buf[lh[i]] # NoBuf /\ refcnt[lh[i]] > 0
    BY Zenon DEF PinnedUntilInstalled
  <2>1. i \in Nat /\ tail \in Nat /\ lh[i] \in Blocks
    BY LogEntry DEF Inv, ControlInv, TypeOK
  <2>2. Pinned(lh[i])
    BY <2>1 DEF Pinned, Installing
  <2>3. /\ refcnt[lh[i]] = (IF holder[lh[i]] = NoProc THEN 0 ELSE 1) + (IF Pinned(lh[i]) THEN 1 ELSE 0)
        /\ refcnt[lh[i]] > 0 => buf[lh[i]] # NoBuf
    BY Zenon, <2>1 DEF Inv, LockInv
  <2> QED
    BY <2>2, <2>3
<1> QED
  BY <1>1, Invariance, PTL

(* A block torn by a power failure is repaired before anyone can read it. *)
THEOREM TornBlocksUnseen == Spec => []NoTornRead
<1>1. Inv => NoTornRead
  BY Zenon DEF Inv, DataInv, NoTornRead, View
<1> QED
  BY <1>1, Invariance, PTL

(* With no call and no commit running, every block that was not changed    *)
(* behind the log's back is home and durable.                              *)
THEOREM QuietIsDurable == Spec => []DurableWhenQuiet
<1>1. Inv => DurableWhenQuiet
  <2> SUFFICES ASSUME Inv, rec = "up", outstanding = 0, ~committing
               PROVE  dhead = <<>> /\ \A b \in Blocks \ loose : View(b) = disk[b]
    BY Zenon DEF DurableWhenQuiet
  <2>1. \A p \in Procs : pc[p] # "op" /\ pc[p] \notin InCommit
    BY Zenon, NoOpInCommit DEF Inv, ControlInv
  <2>2. lh = <<>> /\ dhead = <<>>
    BY Zenon, <2>1 DEF Inv, HeadInv, InCommit
  <2>3. \A b \in Blocks : b \notin Range(lh)
    BY <2>2 DEF Range
  <2> QED
    BY Zenon, <2>2, <2>3 DEF Inv, DataInv, View
<1> QED
  BY <1>1, Invariance, PTL

(* begin_op() never sleeps without an end_op() to come that wakes it. *)
THEOREM WakeupNotLost == Spec => []NoLostWakeup
<1>1. Inv => NoLostWakeup
  BY Zenon DEF Inv
<1> QED
  BY <1>1, Invariance, PTL

(* What the log keeps in memory is safe at every moment: the five facts    *)
(* above together.                                                         *)
THEOREM LogIsSafe == Spec => []LogSafe
<1>1. TypeOK /\ PinnedUntilInstalled /\ NoTornRead /\ DurableWhenQuiet /\ NoLostWakeup
        => LogSafe
  BY Zenon DEF LogSafe
<1> QED
  BY <1>1, TypeCorrect, PinningWorks, TornBlocksUnseen, QuietIsDurable, WakeupNotLost, PTL

-----------------------------------------------------------------------------
(* The space of the log.  A call has modified the blocks of wrote[p], at   *)
(* most OPBLOCKS of them, before log_write() logs them.                    *)
SpaceInv ==
  /\ \A p \in Procs : IsFiniteSet(wrote[p]) /\ Cardinality(wrote[p]) <= OPBLOCKS
  /\ Reservation
  /\ Len(dhead) <= LOGSIZE

(* What is logged and what may still be logged. *)
Used == Len(lh) + Cardinality(StillToLog)

(* A call that runs alone has logged all there is, or has outlived another *)
(* one, which left at least what it may not use of its reservation.        *)
Spare ==
  \A p \in Procs : Ops = {p} => \/ Range(lh) \subseteq wrote[p]
                               \/ Used + (MAXOPBLOCKS - OPBLOCKS) <= LOGSIZE

INSTANCE FiniteSetTheorems

(* The sizes are numbers. *)
LEMMA Sizes ==
  OPBLOCKS \in Nat /\ MAXOPBLOCKS \in Nat /\ LOGSIZE \in Nat /\ NLOG \in Nat /\ OPBLOCKS <= MAXOPBLOCKS
BY LogAssumption

(* outstanding is the number of the calls that are running. *)
LEMMA OpsFinite ==
  ASSUME Inv
  PROVE  IsFiniteSet(Ops) /\ Cardinality(Ops) = outstanding
<1>1. outstanding \in Nat
  BY Zenon DEF Inv, ControlInv, Counts
<1>2. PICK f : Numbering(f, outstanding, Ops)
  BY Zenon DEF Inv, ControlInv, Counts
<1>3. f \in Bijection(1..outstanding, Ops)
  BY Zenon, <1>2 DEF Numbering, Bijection, Injection, Surjection, IsInjective
<1>4. ExistsBijection(1..outstanding, Ops)
  BY Zenon, <1>3 DEF ExistsBijection
<1> QED
  BY Zenon, <1>1, <1>4, FS_NatBijection, FS_CountingElements

(* Every running call may add MAXOPBLOCKS blocks, at most. *)
LEMMA TicketsFinite ==
  ASSUME Inv, \A p \in Procs : IsFiniteSet(wrote[p])
  PROVE  /\ IsFiniteSet(StillToLog) /\ Cardinality(StillToLog) \in Nat
         /\ Cardinality(StillToLog) <= outstanding * MAXOPBLOCKS
         /\ Ops = {} => Cardinality(StillToLog) = 0
<1> DEFINE All == Ops \X (1..MAXOPBLOCKS)
<1>1. StillToLog \subseteq All
  BY DEF StillToLog, MayStillLog, Ops
<1>2. IsFiniteSet(1..MAXOPBLOCKS) /\ Cardinality(1..MAXOPBLOCKS) = MAXOPBLOCKS
  BY FS_Interval, LogAssumption
<1>3. IsFiniteSet(Ops) /\ Cardinality(Ops) = outstanding
  BY Zenon, OpsFinite
<1>4. IsFiniteSet(All) /\ Cardinality(All) = outstanding * MAXOPBLOCKS
  BY <1>2, <1>3, FS_Product, Zenon
<1>5. IsFiniteSet(StillToLog) /\ Cardinality(StillToLog) <= Cardinality(All)
  BY Zenon, <1>1, <1>4, FS_Subset
<1>6. Ops = {} => StillToLog = {}
  BY Zenon, <1>1
<1> QED
  BY Zenon, <1>4, <1>5, <1>6, FS_CardinalityType, FS_EmptySet

WroteFinite == \A p \in Procs : IsFiniteSet(wrote[p])
TicketsBounded ==
  Cardinality(StillToLog) \in Nat /\ Cardinality(StillToLog) <= outstanding * MAXOPBLOCKS

(* The bound on the blocks still to log, in this state ... *)
LEMMA TicketsNow == Inv /\ WroteFinite => TicketsBounded
BY Zenon, TicketsFinite DEF WroteFinite, TicketsBounded

(* ... and in the next one. *)
LEMMA TicketsNext == Inv' /\ WroteFinite' => TicketsBounded'
BY TicketsNow, PTL

(* A header without repetitions is as long as its blocks are many. *)
LEMMA Shorter ==
  ASSUME NEW h \in Seq(Blocks), Distinct(h), NEW S, IsFiniteSet(S), Range(h) \subseteq S
  PROVE  Len(h) <= Cardinality(S)
<1>1. Len(h) \in Nat /\ DOMAIN h = 1..Len(h)
  OBVIOUS
<1>2. h \in Bijection(1..Len(h), Range(h))
  BY <1>1 DEF Distinct, Range, Bijection, Injection, Surjection, IsInjective
<1>3. ExistsBijection(1..Len(h), Range(h))
  BY Zenon, <1>2 DEF ExistsBijection
<1>4. IsFiniteSet(Range(h)) /\ Cardinality(Range(h)) <= Cardinality(S)
  BY Zenon, FS_Subset
<1>5. Cardinality(Range(h)) = Len(h)
  BY Zenon, <1>1, <1>3, <1>4, FS_NatBijection, FS_CountingElements
<1> QED
  BY Zenon, <1>4, <1>5

(* How much a call may still log. *)
LEMMA MayLog ==
  ASSUME NEW p \in Procs, IsFiniteSet(wrote[p])
  PROVE  /\ Cardinality(wrote[p] \cap Range(lh)) \in Nat
         /\ Cardinality(wrote[p] \cap Range(lh)) <= Cardinality(wrote[p])
         /\ Cardinality(wrote[p]) \in Nat
         /\ IsFiniteSet(wrote[p] \cap Range(lh))
         /\ MayStillLog(p) \in Int
<1>1. /\ IsFiniteSet(wrote[p] \cap Range(lh))
      /\ Cardinality(wrote[p] \cap Range(lh)) <= Cardinality(wrote[p])
  BY Zenon, FS_Intersection
<1>2. Cardinality(wrote[p] \cap Range(lh)) \in Nat /\ Cardinality(wrote[p]) \in Nat
  BY Zenon, <1>1, FS_CardinalityType
<1> QED
  BY <1>1, <1>2, LogAssumption DEF MayStillLog

(* A step that admits nobody, and takes nothing out of the log, leaves no  *)
(* call more to log than it had.                                           *)
LEMMA FewerTickets ==
  ASSUME NEW p \in Procs, IsFiniteSet(wrote[p]), IsFiniteSet(wrote'[p]),
         pc'[p] = "op" => pc[p] = "op" /\ (wrote[p] \cap Range(lh)) \subseteq (wrote'[p] \cap Range(lh'))
  PROVE  pc'[p] = "op" => MayStillLog(p)' <= MayStillLog(p) /\ MayStillLog(p)' \in Int
<1> SUFFICES ASSUME pc'[p] = "op"
             PROVE  MayStillLog(p)' <= MayStillLog(p) /\ MayStillLog(p)' \in Int
  OBVIOUS
<1> DEFINE A == wrote[p] \cap Range(lh)
           B == wrote'[p] \cap Range(lh')
<1>1. IsFiniteSet(A) /\ IsFiniteSet(B)
  BY FS_Intersection, Zenon
<1>2. Cardinality(A) \in Nat /\ Cardinality(B) \in Nat /\ Cardinality(A) <= Cardinality(B)
  BY Zenon, <1>1, FS_Subset, FS_CardinalityType
<1>3. MayStillLog(p) = MAXOPBLOCKS - Cardinality(A) /\ MayStillLog(p)' = MAXOPBLOCKS - Cardinality(B)
  BY Zenon DEF MayStillLog
<1> QED
  BY <1>2, <1>3, LogAssumption

(* A step that starts no call and logs no block uses no more. *)
LEMMA UsedStill ==
  ASSUME Inv, Inv', SpaceInv, \A p \in Procs : IsFiniteSet(wrote'[p]), Len(lh') <= Len(lh),
         \A p \in Procs : pc'[p] = "op" =>
           pc[p] = "op" /\ (wrote[p] \cap Range(lh)) \subseteq (wrote'[p] \cap Range(lh'))
  PROVE  Used' <= Used /\ Used \in Nat /\ Used' \in Nat
<1>1. \A p \in Procs : IsFiniteSet(wrote[p])
  BY Zenon DEF SpaceInv
<1>2. ASSUME NEW t \in StillToLog'
      PROVE  t \in StillToLog
  <2>1. t \in Procs \X (1..MAXOPBLOCKS) /\ t[2] <= MayStillLog(t[1])'
    BY Zenon DEF StillToLog
  <2>2. t[1] \in Procs /\ t[2] \in 1..MAXOPBLOCKS
    BY Zenon, <2>1
  <2>3. pc'[t[1]] = "op"
    BY <2>1, <2>2 DEF MayStillLog
  <2>4. MayStillLog(t[1])' <= MayStillLog(t[1]) /\ MayStillLog(t[1])' \in Int
    BY Zenon, <1>1, <2>2, <2>3, FewerTickets
  <2>5. MayStillLog(t[1]) \in Int
    BY <1>1, <2>2, MayLog, Zenon
  <2>6. t[2] <= MayStillLog(t[1])
    BY <2>1, <2>2, <2>4, <2>5
  <2> QED
    BY Zenon, <2>1, <2>6 DEF StillToLog
<1>3. StillToLog' \subseteq StillToLog
  BY Zenon, <1>2
<1>4. IsFiniteSet(StillToLog) /\ Cardinality(StillToLog) \in Nat
  BY Zenon, <1>1, TicketsFinite
<1>5. IsFiniteSet(StillToLog') /\ Cardinality(StillToLog') <= Cardinality(StillToLog)
  BY Zenon, <1>3, <1>4, FS_Subset
<1>6. Cardinality(StillToLog') \in Nat /\ Len(lh) \in Nat /\ Len(lh') \in Nat
  BY <1>5, FS_CardinalityType DEF Inv, ControlInv, TypeOK
<1> QED
  BY <1>4, <1>5, <1>6 DEF Used

(* So it keeps the reservation. *)
LEMMA Reserved ==
  ASSUME SpaceInv, Used' <= Used, Used \in Nat, Used' \in Nat
  PROVE  Reservation'
<1>1. Used <= LOGSIZE
  BY Zenon DEF SpaceInv, Reservation, Used
<1>2. Used' <= LOGSIZE
  BY <1>1, LogAssumption
<1> QED
  BY Zenon, <1>2 DEF Reservation, Used

(* With no call running, only the length of the header counts. *)
LEMMA ReservedQuiet ==
  ASSUME Inv', \A p \in Procs : IsFiniteSet(wrote'[p]), Ops' = {}, Len(lh') <= LOGSIZE
  PROVE  Reservation'
<1>1. ASSUME NEW t \in StillToLog'
      PROVE  FALSE
  <2>1. t \in Procs \X (1..MAXOPBLOCKS) /\ t[2] <= MayStillLog(t[1])'
    BY Zenon, <1>1 DEF StillToLog
  <2>2. t[1] \in Procs /\ t[2] \in 1..MAXOPBLOCKS
    BY Zenon, <2>1
  <2>3. pc'[t[1]] # "op"
    BY Zenon, <2>2 DEF Ops
  <2>4. MayStillLog(t[1])' = 0
    BY Zenon, <2>3 DEF MayStillLog
  <2> QED
    BY <2>1, <2>2, <2>4
<1>2. StillToLog' = {}
  BY Zenon, <1>1
<1>3. Cardinality(StillToLog') = 0 /\ Len(lh') \in Nat
  BY <1>2, FS_EmptySet DEF Inv, ControlInv, TypeOK
<1>4. Len(lh') + Cardinality(StillToLog') <= LOGSIZE
  BY <1>3
<1> QED
  BY Zenon, <1>4 DEF Reservation

(* Steps that no call notices: they change neither the log in memory nor   *)
(* who is in a call and what it has modified.                              *)
LEMMA OutsideSpace ==
  ASSUME Inv, Inv', SpaceInv, lh' = lh, wrote' = wrote,
         \A p \in Procs : pc'[p] = "op" => pc'[p] = pc[p],
         dhead' \in {dhead, lh, <<>>}
  PROVE  SpaceInv'
<1>1. \A p \in Procs : IsFiniteSet(wrote'[p]) /\ Cardinality(wrote'[p]) <= OPBLOCKS
  BY Zenon DEF SpaceInv
<1>3. Len(lh) \in Nat /\ Len(lh') <= Len(lh)
  BY DEF Inv, ControlInv, TypeOK
<1>4. Reservation'
  BY Zenon, <1>1, <1>3, UsedStill, Reserved
<1>5. Cardinality(StillToLog) \in Nat
  BY Zenon, TicketsFinite DEF SpaceInv
<1>6. Len(lh) <= LOGSIZE
  BY <1>3, <1>5, LogAssumption DEF SpaceInv, Reservation
<1>7. Len(dhead') <= LOGSIZE
  BY <1>6, LogAssumption DEF SpaceInv
<1> QED
  BY Zenon, <1>1, <1>4, <1>7 DEF SpaceInv

(* bread(), brelse() and bget() leave the log alone. *)
LEMMA CacheSpace ==
  ASSUME Inv, Inv', SpaceInv, NEW p \in Procs, NEW b \in Blocks, Bread(p, b) \/ Brelse(p, b) \/ Recycle(b)
  PROVE  SpaceInv'
<1>1. lh' = lh /\ wrote' = wrote /\ pc' = pc /\ dhead' = dhead
  BY Zenon DEF Bread, Brelse, Recycle, logvars, diskvars
<1> QED
  BY Zenon, <1>1, OutsideSpace

(* begin_op() lets a call in only if MAXOPBLOCKS more blocks fit for it. *)
LEMMA BeginOpSpace ==
  ASSUME Inv, Inv', SpaceInv, NEW p \in Procs, BeginOp(p)
  PROVE  SpaceInv'
<1>1. /\ lh' = lh /\ wrote' = wrote /\ dhead' = dhead
      /\ pc[p] = "begin" /\ pc \in [Procs -> PCs]
  BY Zenon DEF BeginOp, diskvars, cachevars, Inv, ControlInv, TypeOK
<1>2. CASE pc' = [pc EXCEPT ![p] = "asleep"]
  <2>1. \A q \in Procs : pc'[q] = "op" => pc'[q] = pc[q]
    BY Zenon, <1>1, <1>2
  <2> QED
    BY Zenon, <1>1, <2>1, OutsideSpace
<1>3. CASE ~MustWait /\ pc' = [pc EXCEPT ![p] = "op"] /\ outstanding' = outstanding + 1
  <2>1. Len(lh) + (outstanding + 1) * MAXOPBLOCKS <= LOGSIZE
    BY <1>3, LogAssumption DEF MustWait, Inv, ControlInv, TypeOK
  <2>2. \A q \in Procs : IsFiniteSet(wrote[q])
    BY Zenon DEF SpaceInv
  <2>3. Cardinality(StillToLog)' <= outstanding' * MAXOPBLOCKS /\ Cardinality(StillToLog)' \in Nat
    <3>1. WroteFinite'
      BY Zenon, <1>1, <2>2 DEF WroteFinite
    <3> QED
      BY Zenon, <3>1, TicketsNext DEF TicketsBounded
  <2>4. Reservation'
    <3>1. Len(lh) \in Nat /\ outstanding \in Nat /\ (outstanding + 1) * MAXOPBLOCKS \in Nat
      BY LogAssumption DEF Inv, ControlInv, TypeOK
    <3>2. Cardinality(StillToLog)' <= (outstanding + 1) * MAXOPBLOCKS
      BY Zenon, <1>3, <2>3
    <3>3. Len(lh') + Cardinality(StillToLog)' <= LOGSIZE
      BY <1>1, <2>1, <2>3, <3>1, <3>2, LogAssumption
    <3> QED
      BY Zenon, <3>3 DEF Reservation
  <2> QED
    BY Zenon, <1>1, <2>4 DEF SpaceInv
<1> QED
  BY Zenon, <1>2, <1>3 DEF BeginOp

(* A call modifies at most OPBLOCKS blocks. *)
LEMMA ModifySpace ==
  ASSUME Inv, Inv', SpaceInv, NEW p \in Procs, NEW b \in Blocks, NEW v \in Values, Modify(p, b, v)
  PROVE  SpaceInv'
<1>1. /\ lh' = lh /\ dhead' = dhead /\ holder' = holder /\ holder[b] = p
      /\ Cardinality(wrote[p] \cup {b}) <= OPBLOCKS
      /\ wrote' = [wrote EXCEPT ![p] = wrote[p] \cup {b}]
      /\ pc' = pc
  BY Zenon DEF Modify, diskvars, logvars
<1>2. pc \in [Procs -> PCs] /\ wrote \in [Procs -> SUBSET Blocks] /\ Len(lh) \in Nat
  BY DEF Inv, ControlInv, TypeOK
<1>3. wrote'[p] = wrote[p] \cup {b} /\ \A q \in Procs \ {p} : wrote'[q] = wrote[q]
  BY Zenon, <1>1, <1>2
<1>4. \A q \in Procs : IsFiniteSet(wrote'[q]) /\ Cardinality(wrote'[q]) <= OPBLOCKS
  <2>1. IsFiniteSet(wrote'[p])
    BY <1>3, FS_AddElement DEF SpaceInv
  <2>2. Cardinality(wrote'[p]) <= OPBLOCKS
    BY <1>1, <1>3, Zenon
  <2>3. \A q \in Procs \ {p} : IsFiniteSet(wrote'[q]) /\ Cardinality(wrote'[q]) <= OPBLOCKS
    BY Zenon, <1>3 DEF SpaceInv
  <2> QED
    BY Zenon, <2>1, <2>2, <2>3
<1>6. \A q \in Procs : pc'[q] = "op" =>
        pc[q] = "op" /\ (wrote[q] \cap Range(lh)) \subseteq (wrote'[q] \cap Range(lh'))
  BY Zenon, <1>1, <1>3
<1>7. Len(lh') <= Len(lh)
  BY <1>1, <1>2
<1>8. Reservation'
  BY Zenon, <1>4, <1>6, <1>7, UsedStill, Reserved
<1>9. Len(dhead') <= LOGSIZE
  BY Zenon, <1>1 DEF SpaceInv
<1> QED
  BY Zenon, <1>4, <1>8, <1>9 DEF SpaceInv

(* log_write() uses up one of the blocks reserved for the call, unless the *)
(* log has the block already.                                              *)
LEMMA LogWriteUsed ==
  ASSUME Inv, Inv', SpaceInv, NEW p \in Procs, NEW b \in Blocks, LogWrite(p, b)
  PROVE  Used' <= Used /\ Used \in Nat /\ Used' \in Nat
<1>1. wrote' = wrote /\ dhead' = dhead /\ b \in wrote[p] /\ pc[p] = "op" /\ pc' = pc
  BY Zenon DEF LogWrite, diskvars
<1>2. pc \in [Procs -> PCs] /\ lh \in Seq(Blocks) /\ Len(lh) \in Nat
  BY DEF Inv, ControlInv, TypeOK
<1>4. \A q \in Procs : IsFiniteSet(wrote[q])
  BY Zenon DEF SpaceInv
<1>5. \A q \in Procs : pc'[q] = "op" => pc[q] = "op"
  BY Zenon, <1>1
<1>6. CASE lh' = lh
  BY <1>1, <1>2, <1>4, <1>5, <1>6, UsedStill
<1>7. CASE b \notin Range(lh) /\ lh' = Append(lh, b)
  <2>1. Range(lh') = Range(lh) \cup {b} /\ Len(lh') = Len(lh) + 1
    <3>1. /\ Len(lh') = Len(lh) + 1 /\ lh'[Len(lh) + 1] = b
          /\ DOMAIN lh = 1..Len(lh) /\ DOMAIN lh' = 1..(Len(lh) + 1)
          /\ \A i \in 1..Len(lh) : lh'[i] = lh[i]
      BY <1>2, <1>7
    <3> QED
      BY <1>2, <3>1 DEF Range
  <2> DEFINE A == wrote[p] \cap Range(lh)
             ticket == <<p, MayStillLog(p)>>
  <2>3. /\ IsFiniteSet(A) /\ Cardinality(A) \in Nat
        /\ wrote'[p] \cap Range(lh') = A \cup {b} /\ b \notin A
    BY <1>1, <1>4, <1>7, <2>1, FS_Intersection, FS_CardinalityType, Zenon
  <2>4. Cardinality(A \cup {b}) = Cardinality(A) + 1 /\ Cardinality(A) + 1 <= OPBLOCKS
    <3>1. IsFiniteSet(A \cup {b}) /\ Cardinality(A \cup {b}) = Cardinality(A) + 1
      BY <2>3, FS_AddElement, Zenon
    <3>2. A \cup {b} \in SUBSET wrote[p]
      BY Zenon, <1>1
    <3>3. Cardinality(A \cup {b}) <= Cardinality(wrote[p]) /\ Cardinality(wrote[p]) \in Nat
      BY Zenon, <1>4, <3>2, FS_Subset, FS_CardinalityType
    <3>4. Cardinality(wrote[p]) <= OPBLOCKS
      BY Zenon DEF SpaceInv
    <3>5. Cardinality(A) \in Nat
      BY Zenon, <2>3
    <3> HIDE DEF A
    <3> QED
      BY <3>1, <3>3, <3>4, <3>5, Sizes
  <2>5. /\ MayStillLog(p) = MAXOPBLOCKS - Cardinality(A)
        /\ MayStillLog(p)' = MAXOPBLOCKS - (Cardinality(A) + 1)
    BY <1>1, <2>3, <2>4, Zenon DEF MayStillLog
  <2>6. MayStillLog(p) \in 1..MAXOPBLOCKS /\ MayStillLog(p)' = MayStillLog(p) - 1
    <3>1. Cardinality(A) \in Nat /\ Cardinality(A) + 1 <= OPBLOCKS
      BY Zenon, <2>3, <2>4
    <3> HIDE DEF A
    <3> QED
      BY <2>5, <3>1, Sizes
  <2>7. ticket \in StillToLog
    BY <2>6 DEF StillToLog
  <2>8. ASSUME NEW t \in StillToLog'
        PROVE  t \in StillToLog \ {ticket}
    <3>1. t \in Procs \X (1..MAXOPBLOCKS) /\ t[2] <= MayStillLog(t[1])'
      BY Zenon DEF StillToLog
    <3>2. t[1] \in Procs /\ t[2] \in 1..MAXOPBLOCKS
      BY Zenon, <3>1
    <3>3. CASE t[1] = p
      BY <2>6, <3>1, <3>2, <3>3 DEF StillToLog
    <3>4. CASE t[1] # p
      <4>1. pc'[t[1]] = "op"
        BY <3>1, <3>2 DEF MayStillLog
      <4>2. (wrote[t[1]] \cap Range(lh)) \subseteq (wrote'[t[1]] \cap Range(lh'))
        BY Zenon, <1>1, <2>1
      <4>3. MayStillLog(t[1])' <= MayStillLog(t[1]) /\ MayStillLog(t[1])' \in Int
        BY Zenon, <1>1, <1>4, <1>5, <3>2, <4>1, <4>2, FewerTickets
      <4>4. MayStillLog(t[1]) \in Int
        BY <1>4, <3>2, MayLog, Zenon
      <4>5. t[2] <= MayStillLog(t[1])
        BY <3>1, <3>2, <4>3, <4>4
      <4> QED
        BY <3>1, <3>4, <4>5 DEF StillToLog
    <3> QED
      BY Zenon, <3>3, <3>4
  <2>9. StillToLog' \in SUBSET (StillToLog \ {ticket})
    BY Zenon, <2>8
  <2>10. IsFiniteSet(StillToLog) /\ Cardinality(StillToLog) \in Nat
    BY Zenon, <1>4, TicketsFinite
  <2>11. /\ IsFiniteSet(StillToLog \ {ticket})
         /\ Cardinality(StillToLog \ {ticket}) = Cardinality(StillToLog) - 1
    BY Zenon, <2>7, <2>10, FS_RemoveElement
  <2>12. /\ IsFiniteSet(StillToLog') /\ Cardinality(StillToLog') \in Nat
         /\ Cardinality(StillToLog') <= Cardinality(StillToLog) - 1
    BY <2>9, <2>11, FS_Subset, FS_CardinalityType
  <2> QED
    BY <1>2, <2>1, <2>10, <2>12 DEF Used
<1> QED
  BY Zenon, <1>6, <1>7 DEF LogWrite

(* It keeps the space invariant. *)
LEMMA LogWriteSpace ==
  ASSUME Inv, Inv', SpaceInv, NEW p \in Procs, NEW b \in Blocks, LogWrite(p, b)
  PROVE  SpaceInv'
<1>1. wrote' = wrote /\ dhead' = dhead
  BY Zenon DEF LogWrite, diskvars
<1>2. Reservation'
  BY Zenon, LogWriteUsed, Reserved
<1> QED
  BY Zenon, <1>1, <1>2 DEF SpaceInv

(* end_op() gives back what its call did not use. *)
LEMMA EndOpSpace ==
  ASSUME Inv, Inv', SpaceInv, NEW p \in Procs, EndOp(p)
  PROVE  SpaceInv'
<1>1. /\ lh' = lh /\ dhead' = dhead /\ holder' = holder
      /\ wrote' = [wrote EXCEPT ![p] = {}] /\ pc[p] = "op"
      /\ pc' = [pc EXCEPT ![p] = CommitEntry] \/ pc' = WakeLog([pc EXCEPT ![p] = "out"])
  BY Zenon DEF EndOp, diskvars, cachevars
<1>2. pc \in [Procs -> PCs] /\ wrote \in [Procs -> SUBSET Blocks] /\ Len(lh) \in Nat
  BY DEF Inv, ControlInv, TypeOK
<1>3. pc'[p] # "op" /\ \A q \in Procs \ {p} : pc'[q] = "op" => pc'[q] = pc[q]
  <2>1. CASE pc' = [pc EXCEPT ![p] = CommitEntry]
    BY Zenon, <1>2, <2>1 DEF CommitEntry
  <2>2. CASE pc' = WakeLog([pc EXCEPT ![p] = "out"])
    BY Zenon, <1>2, <2>2 DEF WakeLog
  <2> QED
    BY Zenon, <1>1, <2>1, <2>2
<1>4. wrote'[p] = {} /\ \A q \in Procs \ {p} : wrote'[q] = wrote[q]
  BY Zenon, <1>1, <1>2
<1>5. \A q \in Procs : IsFiniteSet(wrote'[q]) /\ Cardinality(wrote'[q]) <= OPBLOCKS
  <2>1. IsFiniteSet({}) /\ Cardinality({}) = 0 /\ 0 <= OPBLOCKS
    BY FS_EmptySet, LogAssumption
  <2> QED
    BY <1>4, <2>1, Zenon DEF SpaceInv
<1>7. \A q \in Procs : pc'[q] = "op" =>
        pc[q] = "op" /\ (wrote[q] \cap Range(lh)) \subseteq (wrote'[q] \cap Range(lh'))
  BY Zenon, <1>1, <1>3, <1>4
<1>8. Reservation'
  BY <1>1, <1>2, <1>5, <1>7, UsedStill, Reserved
<1> QED
  BY Zenon, <1>1, <1>5, <1>8 DEF SpaceInv

(* The commit: no call is running, and write_head() writes the header of   *)
(* the log in memory.                                                      *)
LEMMA CommitSpace ==
  ASSUME Inv, Inv', SpaceInv, NEW p \in Procs, CommitStep(p)
  PROVE  SpaceInv'
<1>1. /\ wrote' = wrote /\ holder' = holder /\ dhead' \in {dhead, lh, <<>>}
  BY Zenon DEF CommitStep, WriteLog, WriteHead, InstallTrans, EraseHead, EndCommit,
     cachevars, diskvars
<1>2. pc \in [Procs -> PCs]
  BY Zenon DEF Inv, ControlInv, TypeOK
<1>3. \A q \in Procs : pc'[q] = "op" => pc'[q] = pc[q]
  <2>1. CASE WriteLog(p) \/ WriteHead(p) \/ InstallTrans(p) \/ EraseHead(p)
    BY Zenon, <1>2, <2>1 DEF WriteLog, WriteHead, InstallTrans, EraseHead
  <2>2. CASE EndCommit(p)
    BY Zenon, <1>2, <2>2 DEF EndCommit, WakeLog
  <2> QED
    BY Zenon, <2>1, <2>2 DEF CommitStep
<1>4. CASE lh' = lh
  BY Zenon, <1>1, <1>3, <1>4, OutsideSpace
<1>5. CASE EraseHead(p)
  <2>1. lh' = <<>> /\ dhead' = <<>>
    BY Zenon, <1>5 DEF EraseHead
  <2>2. committing
    BY Zenon, <1>5 DEF EraseHead, Inv, ControlInv, InCommit
  <2>3. \A q \in Procs : pc[q] # "op"
    BY Zenon, <2>2, NoOpInCommit
  <2>4. Ops' = {}
    BY Zenon, <1>3, <2>3 DEF Ops
  <2>6. Reservation'
    BY <1>1, <2>1, <2>4, ReservedQuiet, LogAssumption DEF SpaceInv
  <2> QED
    BY <1>1, <2>1, <2>6, LogAssumption DEF SpaceInv
<1> QED
  BY <1>4, <1>5, Zenon DEF CommitStep, WriteLog, WriteHead, InstallTrans, EndCommit, logvars

(* The log is recovered while no call runs. *)
LEMMA RecoverSpace ==
  ASSUME Inv, Inv', SpaceInv, Recover
  PROVE  SpaceInv'
<1>1. wrote' = wrote /\ holder' = holder /\ pc' = pc /\ rec # "up"
  BY Zenon DEF Recover, ReadHead, RecoverBlock, RecoverDone, cachevars
<1>2. \A q \in Procs : pc[q] = "out"
  BY Zenon, <1>1 DEF Inv, ControlInv
<1>3. lh' \in {lh, dhead, <<>>} /\ dhead' \in {dhead, <<>>}
  BY Zenon DEF Recover, ReadHead, RecoverBlock, RecoverDone, logvars, diskvars
<1>4. Ops' = {}
  BY Zenon, <1>1, <1>2 DEF Ops
<1>5. Len(lh) <= LOGSIZE
  <2>1. Cardinality(StillToLog) \in Nat /\ Len(lh) \in Nat
    BY TicketsFinite DEF SpaceInv, Inv, ControlInv, TypeOK
  <2> QED
    BY <2>1, LogAssumption DEF SpaceInv, Reservation
<1>6. Len(lh') <= LOGSIZE /\ Len(dhead') <= LOGSIZE
  BY <1>3, <1>5, LogAssumption DEF SpaceInv
<1>7. Reservation'
  BY Zenon, <1>1, <1>4, <1>6, ReservedQuiet DEF SpaceInv
<1> QED
  BY Zenon, <1>1, <1>2, <1>6, <1>7 DEF SpaceInv

(* A crash ends all calls. *)
LEMMA CrashSpace ==
  ASSUME Inv', SpaceInv, Crash
  PROVE  SpaceInv'
<1>1. /\ dhead' = dhead /\ lh' = <<>>
      /\ \A q \in Procs : pc'[q] = "out" /\ wrote'[q] = {}
  BY Zenon DEF Crash
<1>2. \A q \in Procs : IsFiniteSet(wrote'[q]) /\ Cardinality(wrote'[q]) <= OPBLOCKS
  <2>1. IsFiniteSet({}) /\ Cardinality({}) = 0 /\ 0 <= OPBLOCKS
    BY FS_EmptySet, LogAssumption
  <2> QED
    BY <1>1, <2>1, Zenon
<1>3. Ops' = {}
  BY Zenon, <1>1 DEF Ops
<1>4. Reservation'
  BY <1>1, <1>2, <1>3, ReservedQuiet, LogAssumption
<1> QED
  BY <1>1, <1>2, <1>4, Zenon DEF SpaceInv

(* Every step keeps the space invariant. *)
LEMMA NextSpace == Inv /\ Inv' /\ SpaceInv /\ [Next]_vars => SpaceInv'
<1> SUFFICES ASSUME Inv, Inv', SpaceInv, [Next]_vars PROVE SpaceInv'
  OBVIOUS
<1>1. ASSUME NEW p \in Procs, CallBeginOp(p) PROVE SpaceInv'
  <2>1. /\ lh' = lh /\ wrote' = wrote /\ dhead' = dhead /\ holder' = holder
        /\ pc' = [pc EXCEPT ![p] = "begin"] /\ pc \in [Procs -> PCs]
    BY Zenon, <1>1 DEF CallBeginOp, diskvars, cachevars, logvars, Inv, ControlInv, TypeOK
  <2>2. \A q \in Procs : pc'[q] = "op" => pc'[q] = pc[q]
    BY Zenon, <2>1
  <2> QED
    BY Zenon, <2>1, <2>2, OutsideSpace
<1>2. ASSUME NEW p \in Procs, BeginOp(p) \/ EndOp(p) \/ CommitStep(p) PROVE SpaceInv'
  BY Zenon, <1>2, BeginOpSpace, EndOpSpace, CommitSpace
<1>3. ASSUME NEW p \in Procs, NEW b \in Blocks, Bread(p, b) \/ LogWrite(p, b) \/ Brelse(p, b)
      PROVE  SpaceInv'
  BY Zenon, <1>3, CacheSpace, LogWriteSpace
<1>4. ASSUME NEW p \in Procs, NEW b \in Blocks, NEW v \in Values, Modify(p, b, v)
      PROVE  SpaceInv'
  BY Zenon, <1>4, ModifySpace
<1>5. ASSUME NEW b \in Blocks, Recycle(b)
      PROVE  SpaceInv'
  BY Zenon, <1>5, OutsideSpace DEF Recycle, diskvars, logvars
<1>6. CASE Recover
  BY Zenon, <1>6, RecoverSpace
<1>7. CASE Crash
  BY Zenon, <1>7, CrashSpace
<1>8. CASE UNCHANGED vars
  BY Zenon, <1>8, OutsideSpace DEF vars
<1> QED
  BY Zenon, <1>1, <1>2, <1>3, <1>4, <1>5, <1>6, <1>7, <1>8 DEF Next

(* Steps that leave a call alone with what it has logged. *)
LEMMA SpareStill ==
  ASSUME Spare, Used' <= Used, Used \in Nat, Used' \in Nat,
         \A p \in Procs : Ops' = {p} =>
           Ops = {p} /\ (Range(lh) \subseteq wrote[p] => Range(lh') \subseteq wrote'[p])
  PROVE  Spare'
<1> SUFFICES ASSUME NEW p \in Procs, Ops' = {p}, ~(Range(lh') \subseteq wrote'[p])
             PROVE  Used' + (MAXOPBLOCKS - OPBLOCKS) <= LOGSIZE
  BY Zenon DEF Spare
<1>1. Used + (MAXOPBLOCKS - OPBLOCKS) <= LOGSIZE
  BY Zenon DEF Spare
<1>2. \A u, v \in Nat : v <= u /\ u + (MAXOPBLOCKS - OPBLOCKS) <= LOGSIZE
                        => v + (MAXOPBLOCKS - OPBLOCKS) <= LOGSIZE
  BY Sizes
<1> QED
  BY <1>1, <1>2, Zenon

(* Steps that change neither the log nor the calls. *)
LEMMA SpareOutside ==
  ASSUME Inv, SpaceInv, Spare, lh' = lh, wrote' = wrote,
         \A p \in Procs : pc'[p] = "op" <=> pc[p] = "op"
  PROVE  Spare'
<1>1. \A p \in Procs : MayStillLog(p)' = MayStillLog(p)
  BY Zenon DEF MayStillLog
<1>2. StillToLog' = StillToLog /\ Ops' = Ops
  BY Zenon, <1>1 DEF StillToLog, Ops
<1>3. Used' = Used
  BY Zenon, <1>2 DEF Used
<1> QED
  BY Zenon, <1>2, <1>3 DEF Spare

(* begin_op() finds an empty log if no call is running. *)
LEMMA BeginOpSpare ==
  ASSUME Inv, SpaceInv, Spare, NEW p \in Procs, BeginOp(p)
  PROVE  Spare'
<1>1. lh' = lh /\ wrote' = wrote /\ pc[p] = "begin" /\ pc \in [Procs -> PCs] /\ rec = "up"
  BY Zenon DEF BeginOp, diskvars, cachevars, Inv, ControlInv, TypeOK
<1>2. CASE pc' = [pc EXCEPT ![p] = "asleep"]
  <2>1. \A q \in Procs : pc'[q] = "op" <=> pc[q] = "op"
    BY Zenon, <1>1, <1>2
  <2> QED
    BY Zenon, <1>1, <2>1, SpareOutside
<1>3. CASE ~MustWait /\ pc' = [pc EXCEPT ![p] = "op"]
  <2> SUFFICES ASSUME NEW q \in Procs, Ops' = {q}
               PROVE  Range(lh') \subseteq wrote'[q]
    BY Zenon DEF Spare
  <2>1. Ops' = Ops \cup {p} /\ p \notin Ops
    BY Zenon, <1>1, <1>3 DEF Ops
  <2>2. Ops = {}
    BY Zenon, <2>1
  <2>3. outstanding = 0
    BY Zenon, <2>2, OpsFinite, FS_EmptySet
  <2>4. lh = <<>>
    BY Zenon, <1>1, <1>3, <2>3 DEF MustWait, Inv, HeadInv
  <2> QED
    BY <1>1, <2>4 DEF Range
<1> QED
  BY Zenon, <1>2, <1>3 DEF BeginOp

(* What a call may still log includes what it may never use. *)
LEMMA Unused ==
  ASSUME Inv, SpaceInv, OPBLOCKS < MAXOPBLOCKS, NEW p \in Ops
  PROVE  /\ {p} \X (1..(MAXOPBLOCKS - OPBLOCKS)) \subseteq StillToLog
         /\ IsFiniteSet({p} \X (1..(MAXOPBLOCKS - OPBLOCKS)))
         /\ Cardinality({p} \X (1..(MAXOPBLOCKS - OPBLOCKS))) = MAXOPBLOCKS - OPBLOCKS
<1> DEFINE A == wrote[p] \cap Range(lh)
           k == MAXOPBLOCKS - OPBLOCKS
           mine == {p} \X (1..k)
<1>1. p \in Procs /\ pc[p] = "op"
  BY Zenon DEF Ops
<1>2. Cardinality(A) \in Nat /\ Cardinality(A) <= OPBLOCKS
  <2>1. IsFiniteSet(wrote[p]) /\ Cardinality(wrote[p]) <= OPBLOCKS
    BY Zenon, <1>1 DEF SpaceInv
  <2>2. /\ Cardinality(A) \in Nat /\ Cardinality(wrote[p]) \in Nat
        /\ Cardinality(A) <= Cardinality(wrote[p])
    BY Zenon, <1>1, <2>1, MayLog
  <2> HIDE DEF A
  <2> QED
    BY <2>1, <2>2, Sizes
<1>3. MayStillLog(p) = MAXOPBLOCKS - Cardinality(A)
  BY Zenon, <1>1 DEF MayStillLog
<1>4. \A j \in 1..k : j \in 1..MAXOPBLOCKS /\ j <= MayStillLog(p)
  BY <1>2, <1>3, LogAssumption
<1>5. mine \subseteq StillToLog
  BY Zenon, <1>1, <1>4 DEF StillToLog
<1>6. k \in Nat /\ IsFiniteSet(1..k) /\ Cardinality(1..k) = k
  BY FS_Interval, LogAssumption
<1>7. IsFiniteSet({p}) /\ Cardinality({p}) = 1
  BY FS_Singleton, Zenon
<1>8. IsFiniteSet(mine) /\ Cardinality(mine) = Cardinality({p}) * Cardinality(1..k)
  BY Zenon, <1>6, <1>7, FS_Product
<1>9. Cardinality(mine) = k
  BY <1>6, <1>7, <1>8
<1> QED
  BY Zenon, <1>5, <1>8, <1>9

(* end_op() leaves to the others what its call may not use. *)
LEMMA EndOpSpare ==
  ASSUME Inv, Inv', SpaceInv, OPBLOCKS < MAXOPBLOCKS, NEW p \in Procs, EndOp(p)
  PROVE  Spare'
<1> SUFFICES ASSUME NEW q \in Procs, Ops' = {q}
             PROVE  Used' + (MAXOPBLOCKS - OPBLOCKS) <= LOGSIZE
  BY Zenon DEF Spare
<1> DEFINE k == MAXOPBLOCKS - OPBLOCKS
           mine == {p} \X (1..k)
<1>1. /\ lh' = lh /\ wrote' = [wrote EXCEPT ![p] = {}] /\ pc[p] = "op"
      /\ pc' = [pc EXCEPT ![p] = CommitEntry] \/ pc' = WakeLog([pc EXCEPT ![p] = "out"])
  BY Zenon DEF EndOp
<1>2. pc \in [Procs -> PCs] /\ wrote \in [Procs -> SUBSET Blocks] /\ Len(lh) \in Nat
  BY DEF Inv, ControlInv, TypeOK
<1>3. pc'[p] # "op" /\ \A r \in Procs \ {p} : pc'[r] = "op" => pc[r] = "op"
  <2>1. CASE pc' = [pc EXCEPT ![p] = CommitEntry]
    BY Zenon, <1>2, <2>1 DEF CommitEntry
  <2>2. CASE pc' = WakeLog([pc EXCEPT ![p] = "out"])
    BY Zenon, <1>2, <2>2 DEF WakeLog
  <2> QED
    BY Zenon, <1>1, <2>1, <2>2
<1>4. \A r \in Procs \ {p} : wrote'[r] = wrote[r]
  BY Zenon, <1>1, <1>2
<1>5. \A r \in Procs \ {p} : pc'[r] = "op" => MayStillLog(r)' = MayStillLog(r)
  BY <1>1, <1>3, <1>4 DEF MayStillLog
<1>6. ASSUME NEW t \in StillToLog'
      PROVE  t \in StillToLog \ mine
  <2>1. t \in Procs \X (1..MAXOPBLOCKS) /\ t[2] <= MayStillLog(t[1])'
    BY Zenon DEF StillToLog
  <2>2. t[1] \in Procs /\ t[2] \in 1..MAXOPBLOCKS
    BY Zenon, <2>1
  <2>3. pc'[t[1]] = "op"
    BY <2>1, <2>2 DEF MayStillLog
  <2>4. t[1] # p /\ MayStillLog(t[1])' = MayStillLog(t[1])
    BY Zenon, <1>3, <1>5, <2>2, <2>3
  <2>5. t \in StillToLog
    BY Zenon, <2>1, <2>4 DEF StillToLog
  <2>6. t \notin mine
    BY Zenon, <2>4
  <2> QED
    BY Zenon, <2>5, <2>6
<1>7. p \in Ops
  BY Zenon, <1>1 DEF Ops
<1>8. mine \subseteq StillToLog /\ IsFiniteSet(mine) /\ Cardinality(mine) = k
  BY <1>7, Unused, Zenon
<1>9. IsFiniteSet(StillToLog) /\ Cardinality(StillToLog) \in Nat
  BY Zenon, TicketsFinite DEF SpaceInv
<1>10. /\ IsFiniteSet(StillToLog \ mine)
       /\ Cardinality(StillToLog \ mine) = Cardinality(StillToLog) - Cardinality(StillToLog \cap mine)
  BY <1>9, FS_Difference, Zenon
<1>11. StillToLog \cap mine = mine
  BY Zenon, <1>8
<1>12. Cardinality(StillToLog \ mine) = Cardinality(StillToLog) - k
  BY Zenon, <1>8, <1>10, <1>11
<1>13. StillToLog' \subseteq (StillToLog \ mine)
  BY Zenon, <1>6
<1>14. /\ Cardinality(StillToLog') <= Cardinality(StillToLog \ mine)
       /\ Cardinality(StillToLog') \in Nat
  BY Zenon, <1>10, <1>13, FS_Subset, FS_CardinalityType
<1>15. Len(lh) + Cardinality(StillToLog) <= LOGSIZE
  BY Zenon DEF SpaceInv, Reservation
<1>16. Len(lh') + Cardinality(StillToLog') + k <= LOGSIZE
  BY <1>1, <1>2, <1>9, <1>12, <1>14, <1>15, LogAssumption
<1> QED
  BY Zenon, <1>16 DEF Used

(* Every step leaves a call that runs alone what it may use. *)
LEMMA NextSpare ==
  ASSUME Inv, Inv', SpaceInv, SpaceInv', Spare, OPBLOCKS < MAXOPBLOCKS, [Next]_vars
  PROVE  Spare'
<1>0. pc \in [Procs -> PCs] /\ wrote \in [Procs -> SUBSET Blocks] /\ Len(lh) \in Nat
  BY DEF Inv, ControlInv, TypeOK
<1>1. ASSUME NEW p \in Procs, CallBeginOp(p) PROVE Spare'
  <2>1. lh' = lh /\ wrote' = wrote /\ pc[p] = "out" /\ pc' = [pc EXCEPT ![p] = "begin"]
    BY Zenon, <1>1 DEF CallBeginOp, cachevars, logvars
  <2>2. \A q \in Procs : pc'[q] = "op" <=> pc[q] = "op"
    BY Zenon, <1>0, <2>1
  <2> QED
    BY Zenon, <2>1, <2>2, SpareOutside
<1>2. ASSUME NEW p \in Procs, BeginOp(p) \/ EndOp(p) PROVE Spare'
  BY Zenon, <1>2, BeginOpSpare, EndOpSpare
<1>3. ASSUME NEW p \in Procs, NEW b \in Blocks, Bread(p, b) \/ Brelse(p, b) PROVE Spare'
  BY Zenon, <1>3, SpareOutside DEF Bread, Brelse, logvars
<1>4. ASSUME NEW p \in Procs, NEW b \in Blocks, LogWrite(p, b) PROVE Spare'
  <2>1. /\ wrote' = wrote /\ b \in wrote[p] /\ pc[p] = "op" /\ pc' = pc
        /\ lh' = lh \/ lh' = Append(lh, b)
    BY Zenon, <1>4 DEF LogWrite
  <2>2. Ops' = Ops /\ p \in Ops
    BY Zenon, <1>0, <2>1 DEF Ops
  <2>3. Range(lh') \subseteq Range(lh) \cup {b}
    <3>1. CASE lh' = Append(lh, b)
      <4>1. /\ lh \in Seq(Blocks) /\ DOMAIN lh = 1..Len(lh) /\ DOMAIN lh' = 1..(Len(lh) + 1)
            /\ lh'[Len(lh) + 1] = b /\ \A i \in 1..Len(lh) : lh'[i] = lh[i]
        <5>1. lh \in Seq(Blocks)
          BY Zenon DEF Inv, ControlInv, TypeOK
        <5> QED
          BY <3>1, <5>1
      <4> QED
        BY <1>0, <4>1 DEF Range
    <3> QED
      BY Zenon, <2>1, <3>1
  <2>5. \A q \in Procs : Ops' = {q} =>
          Ops = {q} /\ (Range(lh) \subseteq wrote[q] => Range(lh') \subseteq wrote'[q])
    BY Zenon, <2>1, <2>2, <2>3
  <2>6. Used' <= Used /\ Used \in Nat /\ Used' \in Nat
    BY Zenon, <1>4, LogWriteUsed
  <2> QED
    BY Zenon, <2>5, <2>6, SpareStill
<1>5. ASSUME NEW p \in Procs, NEW b \in Blocks, NEW v \in Values, Modify(p, b, v) PROVE Spare'
  <2>1. lh' = lh /\ wrote' = [wrote EXCEPT ![p] = wrote[p] \cup {b}] /\ pc' = pc
    BY Zenon, <1>5 DEF Modify, logvars
  <2>2. Ops' = Ops /\ \A q \in Procs : wrote[q] \subseteq wrote'[q]
    BY Zenon, <1>0, <2>1 DEF Ops
  <2>3. \A q \in Procs : pc'[q] = "op" =>
          pc[q] = "op" /\ (wrote[q] \cap Range(lh)) \subseteq (wrote'[q] \cap Range(lh'))
    BY Zenon, <2>1, <2>2 DEF Ops
  <2>4. Len(lh') <= Len(lh) /\ \A q \in Procs : IsFiniteSet(wrote'[q])
    <3>1. Len(lh') <= Len(lh)
      BY <1>0, <2>1
    <3>2. \A q \in Procs : IsFiniteSet(wrote'[q])
      BY Zenon DEF SpaceInv
    <3> QED
      BY Zenon, <3>1, <3>2
  <2>5. Used' <= Used /\ Used \in Nat /\ Used' \in Nat
    BY Zenon, <2>3, <2>4, UsedStill
  <2>6. \A q \in Procs : Ops' = {q} =>
          Ops = {q} /\ (Range(lh) \subseteq wrote[q] => Range(lh') \subseteq wrote'[q])
    BY Zenon, <2>1, <2>2
  <2> QED
    BY Zenon, <2>5, <2>6, SpareStill
<1>6. ASSUME NEW b \in Blocks, Recycle(b) PROVE Spare'
  BY Zenon, <1>6, SpareOutside DEF Recycle, logvars
<1>7. ASSUME NEW p \in Procs, CommitStep(p) PROVE Spare'
  <2>1. pc[p] \in InCommit
    BY Zenon, <1>7 DEF CommitStep, WriteLog, WriteHead, InstallTrans, EraseHead, EndCommit, InCommit
  <2>2. \A q \in Procs : pc[q] # "op"
    BY <2>1, NoOpInCommit, Zenon DEF Inv, ControlInv
  <2>3. CASE WriteLog(p) \/ WriteHead(p) \/ InstallTrans(p) \/ EraseHead(p)
    BY Zenon, <1>0, <2>2, <2>3 DEF WriteLog, WriteHead, InstallTrans, EraseHead, Spare, Ops
  <2>4. CASE EndCommit(p)
    BY <1>0, <2>2, <2>4, Zenon DEF EndCommit, WakeLog, Spare, Ops
  <2> QED
    BY Zenon, <1>7, <2>3, <2>4 DEF CommitStep
<1>8. CASE Recover
  <2>1. pc' = pc /\ rec # "up"
    BY Zenon, <1>8 DEF Recover, ReadHead, RecoverBlock, RecoverDone
  <2>2. Ops' = {}
    BY Zenon, <2>1 DEF Inv, ControlInv, Ops
  <2> QED
    BY Zenon, <2>2 DEF Spare
<1>9. CASE Crash
  <2>1. Ops' = {}
    BY Zenon, <1>9 DEF Crash, Ops
  <2> QED
    BY Zenon, <2>1 DEF Spare
<1>10. CASE UNCHANGED vars
  BY Zenon, <1>10, SpareOutside DEF vars, logvars
<1> QED
  BY Zenon, <1>1, <1>2, <1>3, <1>4, <1>5, <1>6, <1>7, <1>8, <1>9, <1>10 DEF Next

(* The log is empty at first. *)
LEMMA InitSpace == Init => SpaceInv
<1> SUFFICES ASSUME Init PROVE SpaceInv
  OBVIOUS
<1>1. \A p \in Procs : IsFiniteSet(wrote[p]) /\ Cardinality(wrote[p]) <= OPBLOCKS
  BY FS_EmptySet, LogAssumption DEF Init
<1>2. Ops = {}
  BY Zenon DEF Init, Ops
<1>3. Cardinality(StillToLog) = 0
  BY Zenon, <1>1, <1>2, InitInv, TicketsFinite
<1> QED
  BY <1>1, <1>3, LogAssumption DEF Init, SpaceInv, Reservation

(* The space of the log holds for what its calls were promised. *)
LEMMA Space ==
  ASSUME OPBLOCKS < MAXOPBLOCKS
  PROVE  Spec => [](Inv /\ SpaceInv /\ Spare)
<1>1. Init => Inv /\ SpaceInv /\ Spare
  <2>1. ASSUME Init PROVE Spare
    BY Zenon, <2>1 DEF Init, Ops, Spare
  <2> QED
    BY Zenon, <2>1, InitInv, InitSpace
<1>2. (Inv /\ SpaceInv /\ Spare) /\ [Next]_vars => (Inv /\ SpaceInv /\ Spare)'
  <2> SUFFICES ASSUME Inv, SpaceInv, Spare, [Next]_vars
               PROVE  Inv' /\ SpaceInv' /\ Spare'
    OBVIOUS
  <2>1. Inv'
    BY Zenon, NextInv
  <2>2. SpaceInv'
    BY Zenon, <2>1, NextSpace
  <2> QED
    BY Zenon, <2>1, <2>2, NextSpare
<1> QED
  BY <1>1, <1>2, PTL DEF Spec

(* begin_op() reserves enough: no process meets a panic() of log_write()   *)
(* or end_op(), whatever the interleaving and the crashes, if every FS     *)
(* system call modifies fewer than MAXOPBLOCKS blocks.  The log area has   *)
(* NLOG blocks with the header, as many as mkfs reserves for LOGSIZE; the  *)
(* block less makes up for the header, as two calls leave two blocks and a *)
(* call that was always alone cannot fill the log.                         *)
THEOREM LogNeverOverflows ==
  ASSUME OPBLOCKS < MAXOPBLOCKS, OPBLOCKS < NLOG - 1, LOGSIZE <= NLOG
  PROVE  Spec => []LogFits
<1>1. Inv /\ SpaceInv /\ Spare => LogFits
  <2> SUFFICES ASSUME Inv, SpaceInv, Spare PROVE LogFits
    OBVIOUS
  <2> DEFINE k == MAXOPBLOCKS - OPBLOCKS
             Mine(p) == {p} \X (1..k)
  <2>1. IsFiniteSet(StillToLog) /\ Cardinality(StillToLog) \in Nat
    BY Zenon, TicketsFinite DEF SpaceInv
  <2>2. Len(lh) \in Nat /\ Len(lh) + Cardinality(StillToLog) <= LOGSIZE
    BY DEF Inv, ControlInv, TypeOK, SpaceInv, Reservation
  <2>3. \A p \in Ops : Mine(p) \subseteq StillToLog /\ IsFiniteSet(Mine(p)) /\ Cardinality(Mine(p)) = k
    BY Zenon, Unused
  <2>4. ASSUME NEW p \in Procs, pc[p] = "op"
        PROVE  ~LogWritePanics
    <3>1. p \in Ops
      BY Zenon, <2>4 DEF Ops
    <3>2. outstanding > 0 /\ outstanding \in Nat
      BY Zenon, <2>4, NoOpInCommit DEF Inv, ControlInv, TypeOK
    <3>3. CASE \E q \in Ops : q # p
      <4>1. PICK q \in Ops : q # p
        BY Zenon, <3>3
      <4>2. Mine(p) \cap Mine(q) = {}
        BY Zenon, <4>1
      <4>3. Cardinality(Mine(p) \cup Mine(q)) = k + k /\ IsFiniteSet(Mine(p) \cup Mine(q))
        <5>1. /\ IsFiniteSet(Mine(p)) /\ Cardinality(Mine(p)) = k
              /\ IsFiniteSet(Mine(q)) /\ Cardinality(Mine(q)) = k
          BY Zenon, <2>3, <3>1
        <5>2. k \in Nat
          BY LogAssumption
        <5>3. /\ IsFiniteSet(Mine(p) \cup Mine(q))
              /\ Cardinality(Mine(p) \cup Mine(q)) =
                   Cardinality(Mine(p)) + Cardinality(Mine(q)) - Cardinality(Mine(p) \cap Mine(q))
          BY <5>1, FS_Union, Zenon
        <5>4. Cardinality(Mine(p) \cap Mine(q)) = 0
          BY <4>2, FS_EmptySet, Zenon
        <5> QED
          BY <5>1, <5>2, <5>3, <5>4
      <4>4. Cardinality(Mine(p) \cup Mine(q)) <= Cardinality(StillToLog)
        <5>1. (Mine(p) \cup Mine(q)) \subseteq StillToLog
          BY <2>3, <3>1, Zenon
        <5> QED
          BY Zenon, <2>1, <5>1, FS_Subset
      <4>5. Len(lh) + 2 <= LOGSIZE
        BY <2>1, <2>2, <4>3, <4>4, LogAssumption
      <4> QED
        BY <2>2, <3>2, <4>5, LogAssumption DEF LogWritePanics
    <3>4. CASE Ops = {p} /\ Range(lh) \subseteq wrote[p]
      <4>1. Len(lh) <= Cardinality(wrote[p])
        BY Zenon, <3>4, Shorter DEF SpaceInv, Inv, HeadInv, ControlInv, TypeOK
      <4>2. Cardinality(wrote[p]) \in Nat /\ Cardinality(wrote[p]) <= OPBLOCKS
        BY FS_CardinalityType, Zenon DEF SpaceInv
      <4>3. Len(lh) <= OPBLOCKS
        BY <2>2, <4>1, <4>2, LogAssumption
      <4> QED
        BY <2>2, <3>2, <4>3, LogAssumption DEF LogWritePanics
    <3>5. CASE Ops = {p} /\ Used + k <= LOGSIZE
      <4>1. k <= Cardinality(StillToLog)
        <5>1. Mine(p) \subseteq StillToLog /\ Cardinality(Mine(p)) = k
          BY <2>3, <3>1, Zenon
        <5>2. Cardinality(Mine(p)) <= Cardinality(StillToLog)
          BY <2>1, <5>1, FS_Subset, Zenon
        <5> QED
          BY <5>1, <5>2, Zenon
      <4>2. Len(lh) + 2 <= LOGSIZE
        BY <2>1, <2>2, <3>5, <4>1, LogAssumption DEF Used
      <4> QED
        BY <2>2, <3>2, <4>2, LogAssumption DEF LogWritePanics
    <3> QED
      BY Zenon, <3>1, <3>3, <3>4, <3>5 DEF Spare
  <2>5. ASSUME NEW p \in Procs, pc[p] = "op"
        PROVE  ~committing
    BY Zenon, <2>5, NoOpInCommit
  <2> QED
    BY Zenon, <2>4, <2>5 DEF LogFits, NoPanic, SpaceInv
<1> QED
  BY <1>1, Space, PTL

=============================================================================
