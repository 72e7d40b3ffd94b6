-------------------------------- MODULE Pipe --------------------------------
(***************************************************************************)
(* A pipe (kernel/pipe.c): pipealloc(), pipewrite(), piperead() and        *)
(* pipeclose(), with sleep(), wakeup() and kill() of kernel/proc.c as far  *)
(* as they concern the pipe.  Several processes share each end, as after   *)
(* fork(); the end is closed with the last of its descriptors.             *)
(*                                                                         *)
(* An action is one turn of a loop under pi->lock.  The test of pr->killed *)
(* and the sleep() that follows are two actions: kill() needs no pi->lock  *)
(* and can come in between.                                                *)
(*                                                                         *)
(* A definition X_Y is a faulty variant of X, kept to see that a property  *)
(* notices the fault; no specification uses it.                            *)
(***************************************************************************)
EXTENDS Integers, Sequences, FiniteSets

CONSTANTS Writers,   \* processes with a descriptor of the write end
          Readers,   \* processes with a descriptor of the read end
          Bytes,     \* values of a byte
          PIPESIZE,  \* size of pi->data
          UINTMOD,   \* nread and nwrite are unsigned, modulo UINTMOD
          MAXN,      \* bound: most bytes of one read or write
          Victims,   \* processes that kill() may be called for
          Nobody     \* "pi->lock is free"

PipeConstants ==
  /\ PIPESIZE \in Nat \ {0}
  /\ UINTMOD \in Nat \ {0}
  /\ UINTMOD % PIPESIZE = 0
  /\ UINTMOD > PIPESIZE
  /\ MAXN \in Nat
  /\ Writers # {} /\ Readers # {}
  /\ Writers \cap Readers = {}
  /\ Victims \subseteq Writers \cup Readers
  /\ Nobody \notin Writers \cup Readers

Procs == Writers \cup Readers

VARIABLES
  data,    \* [0..PIPESIZE-1 -> Bytes]
  nread,   \* 0..UINTMOD-1
  nwrite,  \* 0..UINTMOD-1
  open,    \* processes whose descriptor is open
  freed,   \* has kfree(pi) been called?
  lock,    \* the process that holds pi->lock, or Nobody
  pc,      \* [Procs -> PCs]
  n,       \* [Procs -> 0..MAXN], argument of the call
  i,       \* [Procs -> 0..MAXN], local i
  killed,  \* processes with pr->killed set
  last     \* the byte read last

(* "call": in the call, before acquire(&pi->lock) or back in sleep();      *)
(* "loop": at the loop, with pi->lock; "copy": in the copy loop of         *)
(* piperead(); "sleep": in sleep(), before acquire(&p->lock); "asleep":    *)
(* SLEEPING; "closed": has closed its descriptor.                          *)
PCs == {"user", "call", "loop", "copy", "sleep", "asleep", "closed"}

vars == <<data, nread, nwrite, open, freed, lock, pc, n, i, killed, last>>

readopen == open \cap Readers # {}
writeopen == open \cap Writers # {}

(* pipealloc() *)
Init ==
  /\ data \in {[k \in 0..(PIPESIZE - 1) |-> b] : b \in Bytes}
  /\ nread = 0 /\ nwrite = 0
  /\ open = Procs
  /\ freed = FALSE
  /\ lock = Nobody
  /\ pc = [p \in Procs |-> "user"]
  /\ n = [p \in Procs |-> 0]
  /\ i = [p \in Procs |-> 0]
  /\ killed = {}
  /\ last = <<>>

Empty == nread = nwrite
Full == nwrite = (nread + PIPESIZE) % UINTMOD

(* nread++, nwrite++ *)
Incr(k) == (k + 1) % UINTMOD

Goto(p, l) == pc' = [pc EXCEPT ![p] = l]

(* wakeup() of the processes that sleep on the channel of one end, while p *)
(* goes to l.                                                              *)
WakeupGoto(Sleepers, p, l) ==
  pc' = [q \in Procs |-> IF q = p THEN l
                         ELSE IF q \in Sleepers /\ pc[q] = "asleep" THEN "call" ELSE pc[q]]

(* The call returns, after release(&pi->lock). *)
Return(p, Sleepers) ==
  /\ WakeupGoto(Sleepers, p, "user")
  /\ lock' = Nobody
  /\ n' = [n EXCEPT ![p] = 0]
  /\ i' = [i EXCEPT ![p] = 0]

-----------------------------------------------------------------------------
(* pipewrite() and piperead() are called; a killed process exits instead. *)
Call(p, m) ==
  /\ pc[p] = "user" /\ p \notin killed
  /\ Goto(p, "call")
  /\ n' = [n EXCEPT ![p] = m]
  /\ UNCHANGED <<data, nread, nwrite, open, freed, lock, i, killed, last>>

(* acquire(&pi->lock), also at the end of sleep() *)
Lock(p) ==
  /\ pc[p] = "call" /\ lock = Nobody
  /\ lock' = p
  /\ Goto(p, "loop")
  /\ UNCHANGED <<data, nread, nwrite, open, freed, n, i, killed, last>>

(* sleep(&pi->nwrite, &pi->lock), sleep(&pi->nread, &pi->lock) *)
Sleep(p) ==
  /\ pc[p] = "sleep"
  /\ lock' = Nobody
  /\ Goto(p, "asleep")
  /\ UNCHANGED <<data, nread, nwrite, open, freed, n, i, killed, last>>

-----------------------------------------------------------------------------
(* A turn of the loop of pipewrite() *)

Writing(p) == p \in Writers /\ pc[p] = "loop"

WriteFail(p) ==
  /\ Writing(p) /\ i[p] < n[p]
  /\ ~readopen \/ p \in killed
  /\ Return(p, {})
  /\ UNCHANGED <<data, nread, nwrite, open, freed, killed, last>>

WriteFull_NoWakeup(p) ==
  /\ Writing(p) /\ i[p] < n[p]
  /\ readopen /\ p \notin killed
  /\ Full
  /\ Goto(p, "sleep")
  /\ UNCHANGED <<data, nread, nwrite, open, freed, lock, n, i, killed, last>>
WriteFull(p) ==
  /\ Writing(p) /\ i[p] < n[p]
  /\ readopen /\ p \notin killed
  /\ Full
  /\ WakeupGoto(Readers, p, "sleep")
  /\ UNCHANGED <<data, nread, nwrite, open, freed, lock, n, i, killed, last>>

WriteByte(p, b) ==
  /\ Writing(p) /\ i[p] < n[p]
  /\ readopen /\ p \notin killed
  /\ ~Full
  /\ data' = [data EXCEPT ![nwrite % PIPESIZE] = b]
  /\ nwrite' = Incr(nwrite)
  /\ i' = [i EXCEPT ![p] = @ + 1]
  /\ UNCHANGED <<nread, open, freed, lock, pc, n, killed, last>>

(* All written, or copyin() has failed. *)
WriteDone(p) ==
  /\ Writing(p)
  /\ i[p] = n[p] \/ (readopen /\ p \notin killed /\ ~Full)
  /\ Return(p, Readers)
  /\ UNCHANGED <<data, nread, nwrite, open, freed, killed, last>>

-----------------------------------------------------------------------------
(* The two loops of piperead() *)

ReadWait(p) ==
  /\ p \in Readers /\ pc[p] = "loop"
  /\ Empty /\ writeopen
  /\ \/ /\ p \in killed
        /\ Return(p, {})
     \/ /\ p \notin killed
        /\ Goto(p, "sleep")
        /\ UNCHANGED <<lock, n, i>>
  /\ UNCHANGED <<data, nread, nwrite, open, freed, killed, last>>

ReadReady(p) ==
  /\ p \in Readers /\ pc[p] = "loop"
  /\ ~Empty \/ ~writeopen
  /\ Goto(p, "copy")
  /\ UNCHANGED <<data, nread, nwrite, open, freed, lock, n, i, killed, last>>

Take_OneAhead == data[(nread + 1) % PIPESIZE]
Take == data[nread % PIPESIZE]

ReadByte(p) ==
  /\ pc[p] = "copy"
  /\ i[p] < n[p] /\ ~Empty
  /\ last' = <<Take>>
  /\ nread' = Incr(nread)
  /\ i' = [i EXCEPT ![p] = @ + 1]
  /\ UNCHANGED <<data, nwrite, open, freed, lock, pc, n, killed>>

(* copyout() fails: the byte is taken and the call returns. *)
ReadFault(p) ==
  /\ pc[p] = "copy"
  /\ i[p] < n[p] /\ ~Empty
  /\ last' = <<Take>>
  /\ nread' = Incr(nread)
  /\ Return(p, Writers)
  /\ UNCHANGED <<data, nwrite, open, freed, killed>>

ReadDone(p) ==
  /\ pc[p] = "copy"
  /\ i[p] = n[p] \/ Empty
  /\ Return(p, Writers)
  /\ UNCHANGED <<data, nread, nwrite, open, freed, killed, last>>

-----------------------------------------------------------------------------
(* fileclose() of the process's descriptor, by close() or exit().  The     *)
(* last one of its end calls pipeclose(), which wakes up the other end and *)
(* frees the pipe when both are closed.                                    *)
Freed_AnyEnd(p) == freed \/ open \cap Writers \subseteq {p} \/ open \cap Readers \subseteq {p}
Freed(p) == freed \/ open = {p}

Other(p) == IF p \in Writers THEN Readers ELSE Writers
LastOfEnd(p) == open \ Other(p) = {p}

pipeclose(p) ==
  /\ pc[p] = "user" /\ p \in open
  /\ LastOfEnd(p) => lock = Nobody
  /\ open' = open \ {p}
  /\ freed' = Freed(p)
  /\ WakeupGoto(IF LastOfEnd(p) THEN Other(p) ELSE {}, p, "closed")
  /\ UNCHANGED <<data, nread, nwrite, lock, n, i, killed, last>>

(* kill() of a process wakes it from sleep(). *)
Kill(p) ==
  /\ p \in Victims \ killed /\ pc[p] # "closed"
  /\ killed' = killed \cup {p}
  /\ Goto(p, IF pc[p] = "asleep" THEN "call" ELSE pc[p])
  /\ UNCHANGED <<data, nread, nwrite, open, freed, lock, n, i, last>>

-----------------------------------------------------------------------------
pipewrite(p) ==
  WriteFail(p) \/ WriteFull(p) \/ WriteDone(p) \/ \E b \in Bytes : WriteByte(p, b)
piperead(p) ==
  ReadWait(p) \/ ReadReady(p) \/ ReadByte(p) \/ ReadFault(p) \/ ReadDone(p)

InKernel(p) == Lock(p) \/ Sleep(p) \/ pipewrite(p) \/ piperead(p)

Next ==
  \E p \in Procs :
    InKernel(p) \/ pipeclose(p) \/ Kill(p) \/ \E m \in 0..MAXN : Call(p, m)

Spec == Init /\ [][Next]_vars

-----------------------------------------------------------------------------
(* The types of the pipe's fields and of the processes' locals. *)
TypeOK ==
  /\ data \in [0..(PIPESIZE - 1) -> Bytes]
  /\ nread \in 0..(UINTMOD - 1)
  /\ nwrite \in 0..(UINTMOD - 1)
  /\ open \in SUBSET Procs
  /\ freed \in BOOLEAN
  /\ lock \in Procs \cup {Nobody}
  /\ pc \in [Procs -> PCs]
  /\ n \in [Procs -> 0..MAXN]
  /\ i \in [Procs -> 0..MAXN]
  /\ killed \in SUBSET Procs
  /\ last \in {<<>>} \cup {<<b>> : b \in Bytes}

(* The bytes in the ring, oldest first. *)
Count == (nwrite - nread) % UINTMOD
Ring == [k \in 1..Count |-> data[(nread + k - 1) % PIPESIZE]]

Queue == INSTANCE ByteQueue WITH queue <- Ring, last <- last, SIZE <- PIPESIZE

(* The ring is a bounded queue: bytes come out in the order they went in,  *)
(* none is overwritten before it is read or read twice, also when the      *)
(* unsigned nread and nwrite wrap around and a full ring is not taken for  *)
(* an empty one.                                                           *)
IsQueue == Queue!Spec

(* No lost wakeup: a reader sleeps only while there is nothing to read and *)
(* a writer could come, a writer only while there is no room; or the       *)
(* process that has just changed this still holds pi->lock and will call   *)
(* wakeup().  But a killed writer goes without wakeup(): it may leave a    *)
(* reader asleep beside the bytes it wrote, though never one beside a pipe *)
(* whose last writer has closed.                                           *)
WakeupUnlessKilled ==
  \A p \in Procs : pc[p] = "asleep" =>
    \/ p \in Readers /\ writeopen /\ (Empty \/ killed \cap Writers # {})
    \/ p \in Writers /\ Full /\ readopen
    \/ lock \in Other(p) /\ pc[lock] \in {"loop", "copy"}

(* The pipe is freed with its last descriptor, and by then nobody is in    *)
(* pipewrite() or piperead(): neither a leak nor a use after kfree().      *)
FreedWhenUnused ==
  /\ freed <=> open = {}
  /\ freed => lock = Nobody /\ \A p \in Procs : pc[p] = "closed"

(* read() takes its fill or waits: piperead() does not come back with      *)
(* nothing while a writer could still write.                               *)
NoFalseEof ==
  \A p \in Readers : pc[p] = "copy" /\ Empty /\ i[p] = 0 => ~writeopen

(* The two ends never wait for each other: a reader and a writer asleep at *)
(* the same time would leave nobody to wake them, whoever was killed.      *)
NotBothAsleep ==
  \A r \in Readers, w \in Writers : ~(pc[r] = "asleep" /\ pc[w] = "asleep" /\ lock = Nobody)

(* A call on the pipe waits exactly as long as it has to: it is woken up   *)
(* when it can go on, whoever is killed meanwhile but for what             *)
(* WakeupUnlessKilled says, it does not end early, and the two ends do not *)
(* wait for each other.                                                    *)
WaitsExact == TypeOK /\ WakeupUnlessKilled /\ NoFalseEof /\ NotBothAsleep
=============================================================================
