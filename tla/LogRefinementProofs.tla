------------------------ MODULE LogRefinementProofs ------------------------
(***************************************************************************)
(* The proof that the log of module Log implements the atomic disk of      *)
(* module AtomicDisk: durable contents change only at commits, and crashes *)
(* never leave part of a transaction behind.                               *)
(***************************************************************************)
EXTENDS LogProofs

(* What recovery makes of the disk: log blocks where the header has them. *)
RecoveredValue ==
  /\ \A i \in DOMAIN dhead : Recovered[dhead[i]] = dlog[i]
  /\ \A b \in Blocks : b \notin Range(dhead) => Recovered[b] = disk[b]
  /\ dhead = <<>> => Recovered = disk

(* What recovery makes of a block: its last entry in the committed log. *)
LEMMA RecoveredEntry == Inv => RecoveredValue
<1> SUFFICES ASSUME Inv PROVE RecoveredValue
  OBVIOUS
<1>1. dhead \in Seq(Blocks) /\ disk \in [Blocks -> Data]
  BY DEF Inv, ControlInv, TypeOK
<1>2. ASSUME NEW i \in DOMAIN dhead PROVE Recovered[dhead[i]] = dlog[i]
  <2>1. dhead[i] \in Blocks /\ dhead[i] \in Range(dhead) /\ i \in Nat
    BY <1>1, <1>2 DEF Range
  <2>2. \A j \in DOMAIN dhead : dhead[j] = dhead[i] => j = i
    BY DEF Inv, HeadInv, Distinct
  <2>3. LastEntry(dhead, dhead[i]) = i
    BY <2>1, <2>2 DEF LastEntry
  <2> QED
    BY <2>1, <2>3 DEF Recovered
<1>3. ASSUME dhead = <<>> PROVE Recovered = disk
  <2>1. Range(dhead) = {}
    BY <1>3 DEF Range
  <2> QED
    BY <1>1, <2>1 DEF Recovered
<1> QED
  BY <1>2, <1>3 DEF Recovered, RecoveredValue

(* The same in the next state. *)
LEMMA RecoveredEntryNext == Inv' => RecoveredValue'
BY RecoveredEntry, PTL

(* A fresh disk is an initial atomic disk. *)
LEMMA InitRefines == Init => Atomic!Init
<1> SUFFICES ASSUME Init PROVE Atomic!Init
  OBVIOUS
<1>1. Recovered = [b \in Blocks |-> InitVal]
  BY InitInv, RecoveredEntry DEF Init, RecoveredValue
<1>2. Current = Recovered /\ Ops = {} /\ Logged = {}
  BY DEF Init, Current, Ops, Logged
<1> QED
  BY <1>1, <1>2 DEF Atomic!Init

(* Steps that leave the disk alone do not change what recovery would do. *)
LEMMA DiskUnchanged ==
  ASSUME UNCHANGED diskvars
  PROVE  UNCHANGED Recovered
BY DEF Recovered, diskvars

(* Steps that also leave cache and recovery alone leave the contents alone. *)
LEMMA ContentsUnchanged ==
  ASSUME UNCHANGED <<diskvars, buf, rec>>
  PROVE  UNCHANGED <<Recovered, Current>>
BY DiskUnchanged DEF Current, View, diskvars

(* The blocks of the next commit depend on the headers only. *)
LEMMA LoggedUnchanged ==
  ASSUME UNCHANGED <<lh, dhead, rec>>
  PROVE  UNCHANGED Logged
BY Zenon DEF Logged

(* Nothing is left to commit without a header, or once it is on disk. *)
LEMMA NoneLogged == (lh = <<>> \/ dhead # <<>> \/ rec # "up") => Logged = {}
BY DEF Logged, Range

LEMMA NoneLoggedNext == (lh' = <<>> \/ dhead' # <<>> \/ rec' # "up") => Logged' = {}
BY DEF Logged, Range

(* A recycled buffer is forgotten, and it was not of this transaction. *)
LEMMA RecycleRefines ==
  ASSUME Inv, NEW b \in Blocks, Recycle(b)
  PROVE  Atomic!Forget(b)
<1> USE DEF Recycle
<1>0. TypeOK
  BY Zenon DEF Inv, ControlInv
<1>1. /\ UNCHANGED <<disk, lh, dhead, rec>> /\ rec = "up"
      /\ UNCHANGED Recovered /\ UNCHANGED Ops /\ UNCHANGED Logged
  BY DiskUnchanged, LoggedUnchanged, Zenon DEF diskvars, logvars, Ops
<1>2. ~Pinned(b)
  BY DEF Inv, LockInv
<1>3. b \in Range(lh) => dhead = lh /\ dhead # <<>> /\ Recovered[b] = disk[b]
  <2> SUFFICES ASSUME b \in Range(lh)
               PROVE  dhead = lh /\ dhead # <<>> /\ Recovered[b] = disk[b]
    OBVIOUS
  <2> HIDE DEF Recycle
  <2>1. PICK i \in DOMAIN lh : lh[i] = b
    BY Zenon DEF Range
  <2>2. Installing /\ ~(i >= tail) /\ i \in Nat /\ tail \in Nat
    BY <1>0, <1>2, <2>1, LogEntry DEF Pinned, TypeOK
  <2>3. dhead = lh /\ lh # <<>>
    BY Zenon, <2>2 DEF Inv, HeadInv, Installing
  <2>4. i < tail
    BY <2>2
  <2>5. dlog[i] = disk[lh[i]]
    BY Zenon, <2>2, <2>4 DEF Inv, DataInv, Installing
  <2>6. Recovered[dhead[i]] = dlog[i]
    BY Zenon, <2>3, RecoveredEntry DEF RecoveredValue
  <2> QED
    BY Zenon, <2>1, <2>3, <2>5, <2>6
<1>4. Recovered[b] = disk[b]
  <2>1. CASE b \in Range(lh)
    BY Zenon, <1>3, <2>1
  <2>2. CASE b \notin Range(lh)
    <3>1. dhead = lh \/ dhead = <<>>
      BY Zenon, <1>1 DEF Inv, HeadInv
    <3>2. b \notin Range(dhead)
      BY <2>2, <3>1 DEF Range
    <3> QED
      BY Zenon, <3>2, RecoveredEntry DEF RecoveredValue
  <2> QED
    BY Zenon, <2>1, <2>2
<1>5. b \notin Logged
  BY Zenon, <1>3 DEF Logged
<1>6. \A c \in Blocks : View(c)' = IF c = b THEN Recovered[b] ELSE View(c)
  BY Zenon, <1>0, <1>1, <1>4 DEF View, TypeOK
<1> HIDE DEF Recycle
<1>7. Current' = [Current EXCEPT ![b] = Recovered[b]]
  BY Zenon, <1>1, <1>6 DEF Current
<1> QED
  BY Zenon, <1>1, <1>5, <1>7 DEF Atomic!Forget

(* The other steps of the buffer cache are invisible. *)
LEMMA CacheStepRefines ==
  ASSUME Inv, Inv', NEW b \in Blocks,
         \E p \in Procs : Bread(p, b) \/ Brelse(p, b)
  PROVE  UNCHANGED <<Recovered, Current, Ops, Logged>>
<1> USE LogAssumption
<1>0. TypeOK
  BY DEF Inv, ControlInv
<1>1. UNCHANGED Ops /\ UNCHANGED Logged
  BY LoggedUnchanged DEF Bread, Brelse, Ops, logvars, diskvars
<1>3. ASSUME NEW p \in Procs, Bread(p, b)
      PROVE  UNCHANGED <<Recovered, Current, Ops, Logged>>
  <2> USE <1>3 DEF Bread
  <2>1. UNCHANGED <<disk, rec>> /\ UNCHANGED Recovered /\ rec = "up"
    BY DiskUnchanged DEF diskvars
  <2>2. View(b) # NoBuf
    BY <1>0 DEF View, TypeOK, Data
  <2>3. \A c \in Blocks : View(c)' = View(c)
    BY <1>0, <2>1, <2>2 DEF View, TypeOK
  <2> QED
    BY <1>1, <2>1, <2>3 DEF Current
<1>4. ASSUME NEW p \in Procs, Brelse(p, b)
      PROVE  UNCHANGED <<Recovered, Current, Ops, Logged>>
  BY <1>1, <1>4, ContentsUnchanged DEF Brelse
<1> QED
  BY <1>3, <1>4

(* begin_op(), log_write() and end_op() begin, continue and end an operation. *)
LEMMA CallStepRefines ==
  ASSUME Inv, Inv', NEW p \in Procs,
         \/ CallBeginOp(p) \/ BeginOp(p) \/ EndOp(p)
         \/ \E b \in Blocks : LogWrite(p, b)
         \/ \E b \in Blocks, v \in Values : Modify(p, b, v)
  PROVE  [Atomic!Next]_Atomic!absvars
<1>0. TypeOK
  BY DEF Inv, ControlInv
<1>1. CASE CallBeginOp(p)
  <2>1. UNCHANGED <<Recovered, Current>>
    BY <1>1, ContentsUnchanged DEF CallBeginOp, cachevars
  <2>2. UNCHANGED Ops
    BY <1>0, <1>1 DEF CallBeginOp, Ops, TypeOK
  <2>3. UNCHANGED Logged
    BY Zenon, <1>1, LoggedUnchanged DEF CallBeginOp, logvars, diskvars
  <2> QED
    BY Zenon, <2>1, <2>2, <2>3 DEF Atomic!absvars
<1>2. CASE BeginOp(p)
  <2>1. UNCHANGED <<Recovered, Current>>
    BY <1>2, ContentsUnchanged DEF BeginOp, cachevars
  <2>2. Ops' = Ops \/ Ops' = Ops \cup {p}
    BY <1>0, <1>2 DEF BeginOp, Ops, TypeOK
  <2>3. UNCHANGED Logged
    BY Zenon, <1>2, LoggedUnchanged DEF BeginOp, diskvars
  <2> QED
    BY Zenon, <2>1, <2>2, <2>3 DEF Atomic!absvars, Atomic!Next, Atomic!Begin
<1>3. CASE EndOp(p)
  <2>1. UNCHANGED <<Recovered, Current>>
    BY <1>3, ContentsUnchanged DEF EndOp, cachevars
  <2>2. Ops' = Ops \ {p}
    BY <1>0, <1>3 DEF EndOp, Ops, TypeOK, WakeLog, CommitEntry
  <2>3. UNCHANGED Logged
    BY Zenon, <1>3, LoggedUnchanged DEF EndOp, diskvars
  <2> QED
    BY Zenon, <2>1, <2>2, <2>3 DEF Atomic!Next, Atomic!End
<1>4. ASSUME NEW b \in Blocks, LogWrite(p, b)
      PROVE  [Atomic!Next]_Atomic!absvars
  <2>1. UNCHANGED <<Recovered, Current>>
    BY <1>4, ContentsUnchanged DEF LogWrite
  <2>2. UNCHANGED Ops /\ p \in Ops
    BY Zenon, <1>4 DEF LogWrite, Ops
  <2>3. lh \in Seq(Blocks) /\ dhead' = dhead /\ rec' = rec /\ rec = "up" /\ dhead = <<>>
    <3>1. pc[p] = "op" /\ dhead' = dhead /\ rec' = rec
      BY Zenon, <1>4 DEF LogWrite, diskvars
    <3>2. rec = "up" /\ ~committing
      BY Zenon, <3>1, NoOpInCommit
    <3>3. \A q \in Procs : pc[q] # "install"
      BY Zenon, <3>2 DEF Inv, ControlInv, InCommit
    <3> QED
      BY Zenon, <1>0, <3>1, <3>2, <3>3 DEF Inv, HeadInv, TypeOK
  <2>4. Range(lh') = Range(lh) \cup {b}
    <3>1. CASE b \in Range(lh)
      BY Zenon, <1>4, <3>1 DEF LogWrite
    <3>2. CASE b \notin Range(lh)
      <4>1. lh' = Append(lh, b)
        BY Zenon, <1>4, <3>2 DEF LogWrite
      <4>2. /\ lh'[Len(lh) + 1] = b /\ DOMAIN lh = 1..Len(lh) /\ DOMAIN lh' = 1..(Len(lh) + 1)
            /\ \A i \in 1..Len(lh) : lh'[i] = lh[i]
        BY <2>3, <4>1
      <4> QED
        BY <2>3, <4>2 DEF Range
    <3> QED
      BY Zenon, <3>1, <3>2
  <2>5. Logged' = Logged \cup {b}
    BY Zenon, <2>3, <2>4 DEF Logged
  <2> QED
    BY Zenon, <2>1, <2>2, <2>5 DEF Atomic!Next, Atomic!Log
<1>5. ASSUME NEW b \in Blocks, NEW v \in Values, Modify(p, b, v)
      PROVE  [Atomic!Next]_Atomic!absvars
  <2> USE <1>5 DEF Modify
  <2>1. UNCHANGED Recovered
    BY DiskUnchanged
  <2>2. UNCHANGED Ops /\ p \in Ops /\ UNCHANGED Logged
    BY Zenon, LoggedUnchanged DEF Ops, logvars, diskvars
  <2>3. rec = "up"
    BY NoOpInCommit
  <2>4. Current' = [Current EXCEPT ![b] = v]
    <3>1. \A c \in Blocks : View(c)' = IF c = b THEN v ELSE View(c)
      BY <1>0, LogAssumption DEF View, TypeOK, diskvars
    <3>2. rec' = rec
      OBVIOUS
    <3> HIDE DEF Modify
    <3> QED
      BY <2>3, <3>1, <3>2, Zenon DEF Current
  <2> HIDE DEF Modify
  <2> QED
    BY <2>1, <2>2, <2>4, Zenon DEF Atomic!Next, Atomic!Write
<1> QED
  BY <1>1, <1>2, <1>3, <1>4, <1>5

(* Of the steps of commit(), write_head() commits and the others are invisible. *)
LEMMA CommitStepRefines ==
  ASSUME Inv, Inv', NEW p \in Procs, CommitStep(p)
  PROVE  [Atomic!Next]_Atomic!absvars
<1> USE LogAssumption
<1>0. TypeOK
  BY DEF Inv, ControlInv
<1>1. rec = "up" /\ rec' = "up" /\ \A q \in Procs : pc[q] # "op"
  <2>1. pc[p] \in InCommit /\ rec' = rec
    BY DEF CommitStep, WriteLog, WriteHead, InstallTrans, EraseHead, EndCommit, InCommit
  <2>2. committing /\ outstanding = 0 /\ rec = "up"
    BY <2>1 DEF Inv, ControlInv, InCommit
  <2> QED
    BY <2>1, <2>2, NoOpInCommit
<1>2. Ops = {} /\ Ops' = {}
  BY <1>0, <1>1 DEF CommitStep, WriteLog, WriteHead, InstallTrans, EraseHead, EndCommit,
                   Ops, TypeOK, WakeLog
<1>4. CASE WriteLog(p)
  <2> USE <1>4 DEF WriteLog
  <2>1. dhead = <<>> /\ dhead' = <<>>
    BY <1>1 DEF Inv, ControlInv, HeadInv, InCommit
  <2>2. UNCHANGED Recovered
    BY <2>1, RecoveredEntry, RecoveredEntryNext DEF RecoveredValue
  <2>3. tail \in DOMAIN lh
    BY <1>0 DEF Inv, HeadInv, TypeOK
  <2>4. \A b \in Blocks : View(b)' = View(b)
    <3>1. lh[tail] \in Blocks /\ View(lh[tail]) # NoBuf
      BY <1>0, <2>3, LogEntry DEF View, TypeOK, Data
    <3> QED
      BY <1>0, <3>1 DEF View, TypeOK
  <2>5. UNCHANGED Logged
    BY Zenon, LoggedUnchanged DEF logvars
  <2> HIDE DEF WriteLog
  <2> QED
    BY Zenon, <1>1, <1>2, <2>2, <2>4, <2>5 DEF Current, Atomic!absvars
<1>5. CASE WriteHead(p)                       \* the commit point
  <2> USE <1>5 DEF WriteHead
  <2>1. UNCHANGED Current
    BY <1>1 DEF Current, View, cachevars
  <2>2. dhead = <<>> /\ lh # <<>> /\ Logged = Range(lh) /\ Logged' = {}
    <3>1. \A q \in Procs : pc[q] # "install"
      BY Zenon DEF Inv, ControlInv, InCommit
    <3>2. dhead = <<>> /\ lh # <<>>
      BY Zenon, <1>1, <3>1 DEF Inv, HeadInv
    <3> QED
      BY Zenon, <1>1, <3>2, NoneLoggedNext DEF Logged
  <2>3. ASSUME NEW b \in Blocks
        PROVE  Recovered'[b] = IF b \in Logged THEN Current[b] ELSE Recovered[b]
    <3>1. CASE b \in Range(lh)
      <4>1. PICK i \in DOMAIN lh : lh[i] = b
        BY <3>1 DEF Range
      <4>2. Recovered'[lh[i]] = dlog[i]
        BY RecoveredEntryNext DEF RecoveredValue
      <4>3. dlog[i] = buf[lh[i]] /\ dlog[i] # NoBuf
        BY LogEntry DEF Inv, DataInv
      <4> HIDE DEF WriteHead
      <4> QED
        BY <1>1, <2>2, <3>1, <4>1, <4>2, <4>3 DEF View, Current
    <3>2. CASE b \notin Range(lh)
      <4>1. Recovered'[b] = disk[b]
        BY <3>2, RecoveredEntryNext DEF RecoveredValue
      <4>2. Recovered[b] = disk[b]
        BY Zenon, <2>2, RecoveredEntry DEF RecoveredValue
      <4> HIDE DEF WriteHead
      <4> QED
        BY Zenon, <2>2, <3>2, <4>1, <4>2
    <3> QED
      BY <3>1, <3>2
  <2> HIDE DEF WriteHead
  <2>4. Recovered' = [b \in Blocks |-> IF b \in Logged THEN Current[b] ELSE Recovered[b]]
    BY <2>3 DEF Recovered
  <2> QED
    BY Zenon, <1>2, <2>1, <2>2, <2>4 DEF Atomic!Next, Atomic!Commit
<1>6. CASE InstallTrans(p)
  <2> USE <1>6 DEF InstallTrans
  <2>1. dhead = lh /\ tail \in DOMAIN lh
    BY <1>0 DEF Inv, HeadInv, TypeOK
  <2>2. lh[tail] \in Blocks /\ lh[tail] \in Range(dhead) /\ dlog[tail] # NoBuf
    <3> HIDE DEF InstallTrans
    <3> QED
      BY <2>1, LogEntry DEF Range
  <2>3. UNCHANGED Recovered
    BY <1>0, <2>2 DEF Recovered, TypeOK
  <2>4. View(lh[tail]) = dlog[tail]
    <3>1. dlog[tail] = buf[lh[tail]]
      BY <1>0, <2>1 DEF Inv, DataInv, TypeOK
    <3> HIDE DEF InstallTrans
    <3> QED
      BY <2>2, <3>1 DEF View
  <2>5. \A b \in Blocks : View(b)' = View(b)
    BY <1>0, <2>2, <2>4 DEF View, TypeOK
  <2>6. UNCHANGED Logged
    BY Zenon, LoggedUnchanged DEF logvars
  <2> HIDE DEF InstallTrans
  <2> QED
    BY Zenon, <1>1, <1>2, <2>3, <2>5, <2>6 DEF Current, Atomic!absvars
<1>7. CASE EraseHead(p)
  <2> USE <1>7 DEF EraseHead
  <2>1. dhead = lh /\ dhead' = <<>>
    BY DEF Inv, HeadInv
  <2>2. Recovered' = disk
    BY <2>1, RecoveredEntryNext DEF RecoveredValue
  <2>3. ASSUME NEW b \in Blocks PROVE Recovered[b] = disk[b]
    <3>1. CASE b \in Range(dhead)
      <4>1. PICK i \in DOMAIN dhead : dhead[i] = b
        BY <3>1 DEF Range
      <4>2. i < tail
        BY <1>0, <2>1 DEF TypeOK
      <4>3. dlog[i] = disk[dhead[i]]
        BY <2>1, <4>2 DEF Inv, DataInv
      <4>4. Recovered[dhead[i]] = dlog[i]
        BY RecoveredEntry DEF RecoveredValue
      <4> QED
        BY <4>1, <4>3, <4>4
    <3>2. CASE b \notin Range(dhead)
      BY <3>2, RecoveredEntry, Zenon DEF RecoveredValue
    <3> QED
      BY <3>1, <3>2
  <2>4. UNCHANGED Recovered
    BY <1>0, <2>2, <2>3 DEF Recovered, TypeOK
  <2>5. UNCHANGED Current
    BY <1>1 DEF Current, View, cachevars
  <2>6. Logged = {} /\ Logged' = {}
    <3>1. dhead # <<>> /\ lh' = <<>>
      BY Zenon, <2>1 DEF Inv, HeadInv
    <3> QED
      BY Zenon, <3>1, NoneLogged, NoneLoggedNext
  <2> QED
    BY Zenon, <1>2, <2>4, <2>5, <2>6 DEF Atomic!absvars
<1>8. CASE EndCommit(p)
  <2>1. UNCHANGED <<Recovered, Current>>
    BY <1>8, ContentsUnchanged DEF EndCommit, cachevars
  <2>2. UNCHANGED Logged
    BY Zenon, <1>8, LoggedUnchanged DEF EndCommit, diskvars
  <2> QED
    BY Zenon, <1>2, <2>1, <2>2 DEF Atomic!absvars
<1> QED
  BY <1>4, <1>5, <1>6, <1>7, <1>8 DEF CommitStep

(* A power failure loses what was not committed, and nothing else. *)
LEMMA CrashRefines ==
  ASSUME Inv, Inv', Crash
  PROVE  Atomic!Next
<1> USE LogAssumption DEF Crash
<1>0. TypeOK
  BY DEF Inv, ControlInv
<1>1. UNCHANGED Recovered
  <2>1. CASE UNCHANGED <<disk, dlog>>
    BY <2>1 DEF Recovered
  <2>2. CASE /\ \E p \in Procs : pc[p] = "write_log"
             /\ dlog' = [dlog EXCEPT ![tail] = Torn]
             /\ UNCHANGED disk
    <3>1. rec = "up" /\ \A p \in Procs : pc[p] # "install"
      BY <2>2 DEF Inv, ControlInv, InCommit
    <3>2. dhead = <<>> /\ dhead' = <<>>
      BY <3>1 DEF Inv, HeadInv
    <3> QED
      BY <2>2, <3>2 DEF Recovered, Range
  <2>3. CASE /\ rec = "install" \/ \E p \in Procs : pc[p] = "install"
             /\ tail <= Len(lh)
             /\ disk' = [disk EXCEPT ![lh[tail]] = Torn]
             /\ UNCHANGED dlog
    <3>1. dhead = lh /\ tail \in DOMAIN lh
      BY <1>0, <2>3 DEF Inv, HeadInv, TypeOK
    <3>2. lh[tail] \in Range(dhead)
      BY <3>1 DEF Range
    <3> QED
      BY <1>0, <2>3, <3>2 DEF Recovered, TypeOK
  <2> QED
    BY <2>1, <2>2, <2>3 DEF TornWrite
<1>2. Current' = Recovered
  BY <1>1 DEF Current
<1>3. Ops' = {} /\ Logged' = {}
  BY Zenon, NoneLoggedNext DEF Ops
<1> QED
  BY Zenon, <1>1, <1>2, <1>3 DEF Atomic!Next, Atomic!Crash

(* Recovery is invisible: it installs what the disk already stands for. *)
LEMMA RecoverRefines ==
  ASSUME Inv, Inv', Recover
  PROVE  UNCHANGED <<Recovered, Current, Ops, Logged>>
<1> USE LogAssumption
<1>0. TypeOK
  BY DEF Inv, ControlInv
<1>1. UNCHANGED Ops /\ UNCHANGED Logged
  <2>1. UNCHANGED Ops
    BY DEF Recover, ReadHead, RecoverBlock, RecoverDone, Ops
  <2>2. rec # "up" /\ (rec' # "up" \/ lh' = <<>>)
    BY Zenon DEF Recover, ReadHead, RecoverBlock, RecoverDone
  <2> QED
    BY Zenon, <2>1, <2>2, NoneLogged, NoneLoggedNext
<1>2. CASE ReadHead
  <2>1. UNCHANGED Recovered
    BY <1>2, DiskUnchanged DEF ReadHead
  <2> QED
    BY <1>1, <1>2, <2>1 DEF ReadHead, Current
<1>3. CASE RecoverBlock
  <2> USE <1>3 DEF RecoverBlock
  <2>1. dhead = lh /\ tail \in DOMAIN lh
    BY <1>0 DEF Inv, HeadInv, TypeOK
  <2>2. lh[tail] \in Range(dhead)
    BY <2>1 DEF Range
  <2>3. UNCHANGED Recovered
    BY <1>0, <2>2 DEF Recovered, TypeOK
  <2> QED
    BY <1>1, <2>3 DEF Current
<1>4. CASE RecoverDone
  <2> USE <1>4 DEF RecoverDone
  <2>1. dhead = lh /\ dhead' = <<>>
    BY DEF Inv, HeadInv
  <2>2. Recovered' = disk
    BY <2>1, RecoveredEntryNext DEF RecoveredValue
  <2>3. ASSUME NEW b \in Blocks PROVE Recovered[b] = disk[b]
    <3>1. CASE b \in Range(dhead)
      <4>1. PICK i \in DOMAIN dhead : dhead[i] = b
        BY <3>1 DEF Range
      <4>2. i < tail
        BY <1>0, <2>1 DEF TypeOK
      <4>3. dlog[i] = disk[dhead[i]]
        BY <2>1, <4>2 DEF Inv, DataInv
      <4>4. Recovered[dhead[i]] = dlog[i]
        BY RecoveredEntry DEF RecoveredValue
      <4> QED
        BY <4>1, <4>3, <4>4
    <3>2. CASE b \notin Range(dhead)
      BY <3>2, RecoveredEntry, Zenon DEF RecoveredValue
    <3> QED
      BY <3>1, <3>2
  <2>4. UNCHANGED Recovered
    BY <1>0, <2>2, <2>3 DEF Recovered, TypeOK
  <2>5. \A b \in Blocks : View(b)' = disk[b]
    BY DEF Inv, DataInv, View, cachevars
  <2>6. Current' = [b \in Blocks |-> disk[b]]
    BY <2>5 DEF Current
  <2> QED
    BY <1>0, <1>1, <2>2, <2>4, <2>6 DEF Current, TypeOK
<1> QED
  BY <1>2, <1>3, <1>4 DEF Recover

(* Every step of the log code is a step of the atomic disk, or invisible. *)
LEMMA NextRefines ==
  ASSUME Inv, Inv', [Next]_vars
  PROVE  [Atomic!Next]_Atomic!absvars
<1>1. ASSUME NEW p \in Procs,
             \/ CallBeginOp(p) \/ BeginOp(p) \/ EndOp(p)
             \/ \E b \in Blocks : LogWrite(p, b)
             \/ \E b \in Blocks, v \in Values : Modify(p, b, v)
      PROVE  [Atomic!Next]_Atomic!absvars
  BY <1>1, CallStepRefines
<1>2. ASSUME NEW p \in Procs, CommitStep(p)
      PROVE  [Atomic!Next]_Atomic!absvars
  BY <1>2, CommitStepRefines
<1>3. ASSUME NEW b \in Blocks, \E p \in Procs : Bread(p, b) \/ Brelse(p, b)
      PROVE  [Atomic!Next]_Atomic!absvars
  BY Zenon, <1>3, CacheStepRefines DEF Atomic!absvars
<1>7. ASSUME NEW b \in Blocks, Recycle(b)
      PROVE  [Atomic!Next]_Atomic!absvars
  BY Zenon, <1>7, RecycleRefines DEF Atomic!Next
<1>4. CASE Recover
  BY <1>4, RecoverRefines DEF Atomic!absvars
<1>5. CASE Crash
  BY <1>5, CrashRefines
<1>6. CASE UNCHANGED vars
  <2>1. UNCHANGED <<Recovered, Current>>
    BY <1>6, ContentsUnchanged DEF vars, diskvars
  <2>2. UNCHANGED Ops /\ UNCHANGED Logged
    BY Zenon, <1>6, LoggedUnchanged DEF vars, Ops
  <2> QED
    BY Zenon, <2>1, <2>2 DEF Atomic!absvars
<1> QED
  BY Zenon, <1>1, <1>2, <1>3, <1>4, <1>5, <1>6, <1>7 DEF Next

(* The log implements the atomic disk, whatever the number of processes,   *)
(* blocks and log entries: commit() makes what completed calls gave to     *)
(* log_write() durable all at once, no crash, not even one during          *)
(* recovery, shows part of it, and only a change that no log_write()       *)
(* followed can be lost without a crash.                                   *)
THEOREM LogIsAtomic == Spec => CrashAtomicity
<1>1. Inv /\ Inv' /\ [Next]_vars => [Atomic!Next]_Atomic!absvars
  BY NextRefines
<1> QED
  BY <1>1, InitRefines, Invariance, PTL DEF Spec, CrashAtomicity, Atomic!Spec
=============================================================================
