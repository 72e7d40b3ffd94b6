-------------------------------- MODULE Log --------------------------------
(***************************************************************************)
(* The write-ahead log of kernel/log.c: begin_op, log_write, end_op,       *)
(* commit and recovery, on top of the buffer cache (kernel/bio.c) and a    *)
(* disk that may lose power at any point, also in the middle of a write.   *)
(*                                                                         *)
(* The cache appears here as what the log relies on: a buffer is locked    *)
(* between bread() and brelse(), and bget() may recycle any buffer whose   *)
(* refcnt is zero.  The buffers of the log area itself are always written  *)
(* through, so reading one is reading the disk.                            *)
(*                                                                         *)
(* A definition X_Y is a faulty variant of X, kept to see that a property  *)
(* notices the fault; no specification uses it.                            *)
(***************************************************************************)
EXTENDS Integers, Sequences, FiniteSets, Functions

CONSTANTS Procs,        \* processes that make FS system calls
          Blocks,       \* home blocks of the file system
          Values,       \* contents a block can have
          InitVal,      \* contents mkfs gives every block
          Torn,         \* contents of a block whose write was cut by a crash
          NoBuf,        \* "no buffer holds this block"
          NoProc,       \* "nobody holds this buffer's lock"
          MAXOPBLOCKS,  \* param.h: blocks reserved for one FS system call
          LOGSIZE,      \* param.h: entries of logheader.block[]
          NLOG,         \* sb.nlog, log.size: blocks of the log area, header included
          OPBLOCKS      \* distinct blocks one FS system call really writes

ASSUME LogAssumption ==
  /\ InitVal \in Values
  /\ Torn \notin Values
  /\ NoBuf \notin Values \cup {Torn}
  /\ NoProc \notin Procs
  /\ MAXOPBLOCKS \in Nat \ {0}
  /\ LOGSIZE \in Nat
  /\ MAXOPBLOCKS <= LOGSIZE
  /\ NLOG \in Nat \ {0}
  /\ OPBLOCKS \in 0..MAXOPBLOCKS

VARIABLES
  disk,         \* [Blocks -> Data], the home locations on disk
  dlog,         \* [Slots -> Data], the data blocks of the log on disk
  dhead,        \* the header block on disk: the sequence block[0..n-1]
  buf,          \* [Blocks -> Data or NoBuf], contents of the cached buffer
  refcnt,       \* [Blocks -> Nat], its reference count, pins included
  holder,       \* [Blocks -> Procs or NoProc], who holds its sleep-lock
  lh,           \* log.lh in memory: the sequence block[0..n-1]
  outstanding,  \* log.outstanding
  committing,   \* log.committing
  pc,           \* [Procs -> PCs], where each process is
  wrote,        \* [Procs -> SUBSET Blocks], blocks the current call modified
  loose,        \* history: cached blocks changed without a log_write()
  tail,         \* loop variable of write_log()/install_trans(), from 1
  rec           \* progress of recover_from_log(); "up" once it returned

diskvars == <<disk, dlog, dhead>>
cachevars == <<buf, refcnt, holder>>
logvars == <<lh, outstanding, committing>>
vars == <<disk, dlog, dhead, buf, refcnt, holder, lh, outstanding, committing,
          pc, wrote, loose, tail, rec>>

Data == Values \cup {Torn}
Slots == 1..(NLOG - 1)

InCommit == {"write_log", "write_head", "install", "done"}

(* "op": between begin_op() and end_op(). *)
PCs == {"out", "begin", "asleep", "op"} \cup InCommit

(* What bread(b) returns: the cached contents, or else the disk's. *)
View(b) == IF buf[b] = NoBuf THEN disk[b] ELSE buf[b]

(* The buffers p has locked. *)
Holds(p) == {b \in Blocks : holder[b] = p}
HoldsNothing(p) == Holds(p) = {}

Init ==
  /\ disk = [b \in Blocks |-> InitVal]
  /\ dlog = [i \in Slots |-> InitVal]
  /\ dhead = <<>>
  /\ buf = [b \in Blocks |-> NoBuf]
  /\ refcnt = [b \in Blocks |-> 0]
  /\ holder = [b \in Blocks |-> NoProc]
  /\ lh = <<>>
  /\ outstanding = 0
  /\ committing = FALSE
  /\ pc = [p \in Procs |-> "out"]
  /\ wrote = [p \in Procs |-> {}]
  /\ loose = {}
  /\ tail = 1
  /\ rec = "read_head"

-----------------------------------------------------------------------------
(* The buffer cache, as kernel/bio.c offers it. *)

(* bread(): bget() finds or recycles a buffer, takes its lock, fills it.   *)
(* bmap() and itrunc() keep an indirect block locked while balloc() and    *)
(* bfree() use the bitmap and the new block, so a call may hold two.       *)
Bread(p, b) ==
  /\ rec = "up"
  /\ \/ pc[p] \in {"out", "op"} /\ HoldsNothing(p)
     \/ pc[p] = "op" /\ Cardinality(Holds(p)) = 1
  /\ holder[b] = NoProc
  /\ holder' = [holder EXCEPT ![b] = p]
  /\ refcnt' = [refcnt EXCEPT ![b] = @ + 1]
  /\ buf' = [buf EXCEPT ![b] = View(b)]
  /\ UNCHANGED <<diskvars, logvars, pc, wrote, loose, tail, rec>>

(* bpin() and bunpin(): a reference that outlives brelse(). *)
Bpin(b) == [refcnt EXCEPT ![b] = @ + 1]

Bunpin(b) == [refcnt EXCEPT ![b] = @ - 1]

(* The caller changes b->data, inside an FS system call. *)
Modify(p, b, v) ==
  /\ pc[p] = "op"
  /\ holder[b] = p
  /\ Cardinality(wrote[p] \cup {b}) <= OPBLOCKS
  /\ buf' = [buf EXCEPT ![b] = v]
  /\ wrote' = [wrote EXCEPT ![p] = @ \cup {b}]
  /\ loose' = IF b \in Range(lh) THEN loose ELSE loose \cup {b}
  /\ UNCHANGED <<diskvars, refcnt, holder, logvars, pc, tail, rec>>

(* brelse(), of a changed buffer too: writei() releases the block under a  *)
(* failing either_copyin() with the bytes copied so far and no log_write(). *)
Brelse(p, b) ==
  /\ pc[p] \in {"out", "op"}
  /\ holder[b] = p
  /\ holder' = [holder EXCEPT ![b] = NoProc]
  /\ refcnt' = [refcnt EXCEPT ![b] = @ - 1]
  /\ UNCHANGED <<diskvars, buf, logvars, pc, wrote, loose, tail, rec>>

(* bget() for some other block recycles this buffer. *)
Recycle(b) ==
  /\ rec = "up"
  /\ buf[b] # NoBuf
  /\ refcnt[b] = 0
  /\ buf' = [buf EXCEPT ![b] = NoBuf]
  /\ loose' = loose \ {b}
  /\ UNCHANGED <<diskvars, refcnt, holder, logvars, pc, wrote, tail, rec>>

-----------------------------------------------------------------------------
(* begin_op(), log_write() and end_op(). *)

(* The process enters begin_op(). *)
CallBeginOp(p) ==
  /\ rec = "up"
  /\ pc[p] = "out"
  /\ HoldsNothing(p)
  /\ pc' = [pc EXCEPT ![p] = "begin"]
  /\ UNCHANGED <<diskvars, cachevars, logvars, wrote, loose, tail, rec>>

(* begin_op()'s reasons to sleep: a commit, or too little log left. *)
MustWait_OffByOne == committing \/ Len(lh) + outstanding * MAXOPBLOCKS > LOGSIZE
MustWait ==
  \/ committing
  \/ Len(lh) + (outstanding + 1) * MAXOPBLOCKS > LOGSIZE

(* One turn of the loop of begin_op(), under log.lock. *)
BeginOp(p) ==
  /\ pc[p] = "begin"
  /\ \/ /\ MustWait
        /\ pc' = [pc EXCEPT ![p] = "asleep"]
        /\ UNCHANGED outstanding
     \/ /\ ~MustWait
        /\ pc' = [pc EXCEPT ![p] = "op"]
        /\ outstanding' = outstanding + 1
  /\ UNCHANGED <<diskvars, cachevars, lh, committing, wrote, loose, tail, rec>>

(* wakeup(&log): every process asleep in begin_op() runs its loop again. *)
WakeLog_Lost(f) == f
WakeLog(f) == [q \in Procs |-> IF f[q] = "asleep" THEN "begin" ELSE f[q]]

(* The tests of log_write() that end in panic(); the process that meets    *)
(* one stops there, holding log.lock.                                      *)
LogWritePanics ==
  \/ Len(lh) >= LOGSIZE
  \/ Len(lh) >= NLOG - 1
  \/ outstanding < 1

LogWrite(p, b) ==
  /\ pc[p] = "op"
  /\ holder[b] = p
  /\ b \in wrote[p]
  /\ ~LogWritePanics
  /\ \/ /\ b \in Range(lh)                \* log absorption
        /\ UNCHANGED <<lh, refcnt>>
     \/ /\ b \notin Range(lh)
        /\ lh' = Append(lh, b)
        /\ refcnt' = Bpin(b)
  /\ loose' = loose \ {b}
  /\ UNCHANGED <<diskvars, buf, holder, outstanding, committing, pc, wrote, tail, rec>>

(* Where commit() starts: it does nothing for an empty transaction. *)
CommitEntry_HeadFirst == IF lh = <<>> THEN "done" ELSE "write_head"
CommitEntry == IF lh = <<>> THEN "done" ELSE "write_log"

(* end_op() up to its first release(&log.lock); the last call commits.     *)
(* It panics when it finds a commit running.                               *)
EndOp(p) ==
  /\ pc[p] = "op"
  /\ HoldsNothing(p)
  /\ ~committing
  /\ outstanding' = outstanding - 1
  /\ wrote' = [wrote EXCEPT ![p] = {}]
  /\ \/ /\ outstanding' = 0
        /\ committing' = TRUE
        /\ tail' = 1
        /\ pc' = [pc EXCEPT ![p] = CommitEntry]
     \/ /\ outstanding' # 0
        /\ pc' = WakeLog([pc EXCEPT ![p] = "out"])
        /\ UNCHANGED <<committing, tail>>
  /\ UNCHANGED <<diskvars, cachevars, lh, loose, rec>>

-----------------------------------------------------------------------------
(* commit(), run by the process whose end_op() was the last.               *)

(* One turn of write_log(): copy a cached block to the log on disk. *)
WriteLog(p) ==
  /\ pc[p] = "write_log"
  /\ holder[lh[tail]] = NoProc            \* bread() gets the buffer's lock
  /\ dlog' = [dlog EXCEPT ![tail] = View(lh[tail])]
  /\ buf' = [buf EXCEPT ![lh[tail]] = View(lh[tail])]
  /\ tail' = tail + 1
  /\ pc' = [pc EXCEPT ![p] = IF tail < Len(lh) THEN "write_log" ELSE "write_head"]
  /\ UNCHANGED <<disk, dhead, refcnt, holder, logvars, wrote, loose, rec>>

(* write_head() with the transaction's blocks: the commit point. *)
WriteHead(p) ==
  /\ pc[p] = "write_head"
  /\ dhead' = lh
  /\ tail' = 1
  /\ pc' = [pc EXCEPT ![p] = "install"]
  /\ UNCHANGED <<disk, dlog, cachevars, logvars, wrote, loose, rec>>

(* One turn of install_trans(0): copy a log block to its home and unpin. *)
InstallTrans(p) ==
  /\ pc[p] = "install"
  /\ tail <= Len(lh)
  /\ holder[lh[tail]] = NoProc
  /\ buf' = [buf EXCEPT ![lh[tail]] = dlog[tail]]
  /\ disk' = [disk EXCEPT ![lh[tail]] = dlog[tail]]
  /\ refcnt' = Bunpin(lh[tail])
  /\ tail' = tail + 1
  /\ UNCHANGED <<dlog, dhead, holder, logvars, pc, wrote, loose, rec>>

(* log.lh.n = 0; write_head(): erase the transaction from the log. *)
EraseHead(p) ==
  /\ pc[p] = "install"
  /\ tail > Len(lh)
  /\ lh' = <<>>
  /\ dhead' = <<>>
  /\ pc' = [pc EXCEPT ![p] = "done"]
  /\ UNCHANGED <<disk, dlog, cachevars, outstanding, committing, wrote, loose, tail, rec>>

(* The rest of end_op() once commit() has returned. *)
EndCommit(p) ==
  /\ pc[p] = "done"
  /\ committing' = FALSE
  /\ pc' = WakeLog([pc EXCEPT ![p] = "out"])
  /\ UNCHANGED <<diskvars, cachevars, lh, outstanding, wrote, loose, tail, rec>>

-----------------------------------------------------------------------------
(* Power failure, and recover_from_log() at the next boot.                 *)

(* A disk write in progress when the power fails leaves its block torn.    *)
(* The header is one sector (124 bytes), so its write is all or nothing.   *)
TornWrite ==
  \/ UNCHANGED <<disk, dlog>>
  \/ /\ \E p \in Procs : pc[p] = "write_log"
     /\ dlog' = [dlog EXCEPT ![tail] = Torn]
     /\ UNCHANGED disk
  \/ /\ rec = "install" \/ \E p \in Procs : pc[p] = "install"
     /\ tail <= Len(lh)
     /\ disk' = [disk EXCEPT ![lh[tail]] = Torn]
     /\ UNCHANGED dlog

Crash ==
  /\ TornWrite
  /\ UNCHANGED dhead
  /\ buf' = [b \in Blocks |-> NoBuf]
  /\ refcnt' = [b \in Blocks |-> 0]
  /\ holder' = [b \in Blocks |-> NoProc]
  /\ lh' = <<>>
  /\ outstanding' = 0
  /\ committing' = FALSE
  /\ pc' = [p \in Procs |-> "out"]
  /\ wrote' = [p \in Procs |-> {}]
  /\ loose' = {}
  /\ tail' = 1
  /\ rec' = "read_head"

(* read_head(); install_trans(1) then starts with the first block. *)
ReadHead_SkipsFirst ==
  /\ rec = "read_head"
  /\ lh' = dhead
  /\ tail' = 2
  /\ rec' = "install"
  /\ UNCHANGED <<diskvars, cachevars, outstanding, committing, pc, wrote, loose>>
ReadHead ==
  /\ rec = "read_head"
  /\ lh' = dhead
  /\ tail' = 1
  /\ rec' = "install"
  /\ UNCHANGED <<diskvars, cachevars, outstanding, committing, pc, wrote, loose>>

(* One turn of install_trans(1). *)
RecoverBlock ==
  /\ rec = "install"
  /\ tail <= Len(lh)
  /\ buf' = [buf EXCEPT ![lh[tail]] = dlog[tail]]
  /\ disk' = [disk EXCEPT ![lh[tail]] = dlog[tail]]
  /\ tail' = tail + 1
  /\ UNCHANGED <<dlog, dhead, refcnt, holder, logvars, pc, wrote, loose, rec>>

(* log.lh.n = 0; write_head(): the file system is ready for use. *)
RecoverDone ==
  /\ rec = "install"
  /\ tail > Len(lh)
  /\ lh' = <<>>
  /\ dhead' = <<>>
  /\ rec' = "up"
  /\ UNCHANGED <<disk, dlog, cachevars, outstanding, committing, pc, wrote, loose, tail>>

-----------------------------------------------------------------------------
CommitStep(p) ==
  WriteLog(p) \/ WriteHead(p) \/ InstallTrans(p) \/ EraseHead(p) \/ EndCommit(p)

Recover == ReadHead \/ RecoverBlock \/ RecoverDone

Next ==
  \/ \E p \in Procs : CallBeginOp(p) \/ BeginOp(p) \/ EndOp(p) \/ CommitStep(p)
  \/ \E p \in Procs, b \in Blocks : Bread(p, b) \/ LogWrite(p, b) \/ Brelse(p, b)
  \/ \E p \in Procs, b \in Blocks, v \in Values : Modify(p, b, v)
  \/ \E b \in Blocks : Recycle(b)
  \/ Recover
  \/ Crash

Spec == Init /\ [][Next]_vars

(* Every process that can run does run: scheduler() visits all of them.    *)
(* Strong fairness of BrelseLast and EndOp says that an FS system call     *)
(* makes finitely many buffer accesses: it gets to the brelse() of the     *)
(* last buffer it holds, and to end_op(), although every access disables   *)
(* these.                                                                  *)
BrelseLast(p) == \E b \in Blocks : Brelse(p, b) /\ Holds(p) = {b}

Fairness ==
  /\ WF_vars(Recover)
  /\ \A p \in Procs :
       /\ WF_vars(BeginOp(p))
       /\ SF_vars(EndOp(p))
       /\ WF_vars(CommitStep(p))
       /\ WF_vars(\E b \in Blocks : Brelse(p, b))
       /\ SF_vars(BrelseLast(p))

FairSpec == Spec /\ Fairness

-----------------------------------------------------------------------------
(* The types of the variables of struct log, of the cache and of the disk. *)
TypeOK ==
  /\ disk \in [Blocks -> Data]
  /\ dlog \in [Slots -> Data]
  /\ dhead \in Seq(Blocks)
  /\ buf \in [Blocks -> Data \cup {NoBuf}]
  /\ refcnt \in [Blocks -> Nat]
  /\ holder \in [Blocks -> Procs \cup {NoProc}]
  /\ lh \in Seq(Blocks)
  /\ outstanding \in Nat
  /\ committing \in BOOLEAN
  /\ pc \in [Procs -> PCs]
  /\ wrote \in [Procs -> SUBSET Blocks]
  /\ loose \subseteq Blocks
  /\ tail \in Nat \ {0}
  /\ rec \in {"read_head", "install", "up"}

(* No process reaches a panic() of log_write() or end_op(): the log never  *)
(* overflows, and no FS system call is running while a commit is.          *)
NoPanic ==
  \A p \in Procs : pc[p] = "op" => ~LogWritePanics /\ ~committing

(* Blocks the current FS system call of p may still add to the log. *)
MayStillLog(p) ==
  IF pc[p] = "op" THEN MAXOPBLOCKS - Cardinality(wrote[p] \cap Range(lh)) ELSE 0

(* One element for every block that some admitted call may still add. *)
StillToLog == {t \in Procs \X (1..MAXOPBLOCKS) : t[2] <= MayStillLog(t[1])}

(* begin_op()'s admission test really reserves space: what is logged plus  *)
(* what every admitted call may still log fits logheader.block[].          *)
Reservation == Len(lh) + Cardinality(StillToLog) <= LOGSIZE

(* A logged block cannot leave the cache before install_trans() has        *)
(* written it to its home: bpin() keeps bget() from recycling it.          *)
PinnedUntilInstalled ==
  rec = "up" =>
    \A i \in DOMAIN lh :
      \/ buf[lh[i]] # NoBuf /\ refcnt[lh[i]] > 0
      \/ i < tail /\ \E p \in Procs : pc[p] = "install"

(* No lost wakeup: a process sleeps in begin_op() only while some end_op() *)
(* is still to come that will call wakeup(&log).                           *)
NoLostWakeup ==
  (\E p \in Procs : pc[p] = "asleep") => outstanding > 0 \/ committing

(* After recovery nobody ever reads a block that a power failure left half *)
(* written, whenever the failure came.                                     *)
NoTornRead == rec = "up" => \A b \in Blocks : View(b) \in Values

(* When no FS system call and no commit is running, the log on disk is     *)
(* empty and every cached block is what its home on disk holds, except the *)
(* blocks some call changed and never gave to log_write().                 *)
DurableWhenQuiet ==
  rec = "up" /\ outstanding = 0 /\ ~committing =>
    dhead = <<>> /\ \A b \in Blocks \ loose : View(b) = disk[b]

(* What holds in every state, crashes included: a logged block stays       *)
(* cached until it is home, nobody reads a torn block, nothing logged is   *)
(* left behind when the log is quiet, and no process sleeps unnoticed.     *)
LogSafe == TypeOK /\ PinnedUntilInstalled /\ NoTornRead /\ DurableWhenQuiet /\ NoLostWakeup

(* The log never overflows: begin_op() reserves enough, so that log_write() *)
(* and end_op() do not panic.                                              *)
LogFits == NoPanic /\ Reservation

-----------------------------------------------------------------------------
(* The disk recover_from_log() would produce if the power failed now: the  *)
(* last entry of the header for a block is the one that remains.           *)
LastEntry(h, b) ==
  CHOOSE i \in DOMAIN h : h[i] = b /\ \A j \in DOMAIN h : h[j] = b => j <= i

Recovered ==
  [b \in Blocks |-> IF b \in Range(dhead) THEN dlog[LastEntry(dhead, b)] ELSE disk[b]]

(* The disk FS system calls see, and the calls that are running. *)
Current == IF rec = "up" THEN [b \in Blocks |-> View(b)] ELSE Recovered
Ops == {p \in Procs : pc[p] = "op"}

(* The blocks the next commit makes durable; none once it has done so. *)
Logged == IF rec = "up" /\ dhead = <<>> THEN Range(lh) ELSE {}

(* The log implements an atomic disk. *)
Atomic == INSTANCE AtomicDisk WITH stable <- Recovered, vol <- Current, active <- Ops,
                                   logged <- Logged

(* Every step of log.c is a step of the atomic disk or invisible: durable  *)
(* contents change only when write_head() commits what completed FS system *)
(* calls gave to log_write(), all of it at once; a crash, torn writes and  *)
(* crashes of the recovery included, brings back exactly the last commit;  *)
(* and the cache forgets a change only if it was never logged.             *)
CrashAtomicity == Atomic!Spec

(* Processes outside FS system calls stop reading, and power stays on. *)
EventuallyQuiet ==
  <>[][/\ ~Crash
       /\ \A p \in Procs, b \in Blocks : pc[p] = "out" => ~Bread(p, b)]_vars

(* Again and again the file system is up and nobody sleeps in begin_op():  *)
(* a recovery ends, and a sleeper is woken up, since the calls it waits    *)
(* for end, the last one commits, its commit is never stuck on a buffer,   *)
(* and wakeup(&log) leaves no sleeper behind.                              *)
LogProgress ==
  EventuallyQuiet => []<>(rec = "up" /\ \A p \in Procs : pc[p] # "asleep")

=============================================================================
