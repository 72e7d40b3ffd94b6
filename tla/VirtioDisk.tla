----------------------------- MODULE VirtioDisk -----------------------------
(***************************************************************************)
(* The disk driver: kernel/virtio_disk.c, with the device it drives.       *)
(*                                                                         *)
(* virtio_disk_rw() and virtio_disk_intr() run under vdisk_lock; the       *)
(* device runs beside them and reads and writes the shared memory when it  *)
(* likes: the descriptors, the ring of requests (avail) and the ring of    *)
(* completions (used).  It finishes requests in any order.  Each process   *)
(* has the buffer of one block locked (BufferCache), so a process, its     *)
(* buffer and its block have one name.  A ring slot is None again once the *)
(* other side has read it: nobody reads it twice.                          *)
(*                                                                         *)
(* A definition X_Y is a faulty variant of X; no specification uses it.    *)
(***************************************************************************)
EXTENDS Integers, FiniteSets, FiniteSetsExt, Functions

CONSTANTS Procs,   \* processes, and their buffers and blocks
          Writers, \* bound: the processes that write their block; the others read
          NUM,     \* descriptors, and slots of each ring
          IDXMOD,  \* ring indices are kept modulo IDXMOD (2^16)
          None     \* the null pointer

ASSUME VirtioAssumption ==
  /\ NUM \in Nat /\ NUM >= 3 /\ IDXMOD \in Nat \ {0} /\ IDXMOD % NUM = 0
  /\ Writers \subseteq Procs /\ None \notin Procs \cup (0..NUM - 1)
  /\ "intr" \notin Procs \cup {None} /\ None \notin {"free", "buf"}

VARIABLES
  vdisk_lock,  \* None, a process or "intr"
  pc,          \* [Procs -> where the process is in virtio_disk_rw()]
  chan,        \* [Procs -> {None, "free", "buf"}], asleep on free[0] or its buffer
  idx,         \* [Procs -> the three descriptors]
  free,        \* disk.free, as the set of the free descriptors
  desc,        \* disk.desc: what a descriptor points to (disk.ops too), and next
  info,        \* disk.info: b and status
  avail,       \* disk.avail: ring and idx
  used,        \* disk.used: ring and idx
  used_idx,    \* disk.used_idx
  bdisk,       \* [Procs -> BOOLEAN], b->disk
  data,        \* [Procs -> contents of the buffer]
  dev,         \* the device: how far it read avail, and the requests it works on
  blocks,      \* [Procs -> contents of the block]
  irq,         \* has the device raised its interrupt?
  panic        \* has the driver panicked?

vars == <<vdisk_lock, pc, chan, idx, free, desc, info, avail, used, used_idx, bdisk,
          data, dev, blocks, irq, panic>>

Desc == 0..NUM - 1
Junk == 2                                 \* what a buffer holds before it is read
Unused == [addr |-> None, next |-> None]
Ring == [ring |-> [i \in Desc |-> None], idx |-> 0]

(* virtio_disk_init().                                                     *)
Init ==
  /\ vdisk_lock = None /\ irq = FALSE /\ panic = FALSE
  /\ pc = [p \in Procs |-> "idle"] /\ chan = [p \in Procs |-> None]
  /\ idx = [p \in Procs |-> <<>>]
  /\ free = Desc /\ desc = [i \in Desc |-> Unused]
  /\ info = [i \in Desc |-> [b |-> None, status |-> 0]]
  /\ avail = Ring /\ used = Ring /\ used_idx = 0
  /\ bdisk = [p \in Procs |-> FALSE]
  /\ data = [p \in Procs |-> 0] /\ blocks = [p \in Procs |-> 0]
  /\ dev = [idx |-> 0, work |-> {}]

Goto(p, lab) == pc' = [pc EXCEPT ![p] = lab]

Inc(i) == (i + 1) % IDXMOD

(* wakeup(&disk.free[0]).                                                  *)
WokenFree == [q \in Procs |-> IF chan[q] = "free" THEN None ELSE chan[q]]

-----------------------------------------------------------------------------
(* bread() or bwrite() calls virtio_disk_rw(), to read over what the       *)
(* buffer held or with new contents to write.                              *)
Call(p) ==
  /\ pc[p] = "idle"
  /\ Goto(p, "alloc")
  /\ data' = [data EXCEPT ![p] = IF p \in Writers THEN 1 - blocks[p] ELSE Junk]
  /\ UNCHANGED <<vdisk_lock, chan, idx, free, desc, info, avail, used, used_idx, bdisk,
                 dev, blocks, irq, panic>>

Alloc3Desc_Spin(p) ==
  LET i0 == Min(free)
      i1 == Min(free \ {i0})
      i2 == Min(free \ {i0, i1}) IN
  /\ pc[p] = "alloc" /\ vdisk_lock \in {None, p}
  /\ IF Cardinality(free) >= 3
     THEN /\ idx' = [idx EXCEPT ![p] = <<i0, i1, i2>>]
          /\ free' = free \ {i0, i1, i2}
          /\ Goto(p, "format")
     ELSE UNCHANGED <<pc, idx, free>>
  /\ vdisk_lock' = p
  /\ UNCHANGED <<chan, desc, info, avail, used, used_idx, bdisk, data, dev, blocks, irq, panic>>

(* alloc3_desc(): alloc_desc() takes the lowest free descriptor.  When     *)
(* fewer than three are free it puts them back, which wakes the others     *)
(* waiting for descriptors, and virtio_disk_rw() sleeps.                   *)
Alloc3Desc(p) ==
  LET i0 == Min(free)
      i1 == Min(free \ {i0})
      i2 == Min(free \ {i0, i1}) IN
  /\ pc[p] = "alloc" /\ chan[p] = None /\ vdisk_lock = None
  /\ \/ /\ Cardinality(free) >= 3
        /\ idx' = [idx EXCEPT ![p] = <<i0, i1, i2>>]
        /\ free' = free \ {i0, i1, i2}
        /\ vdisk_lock' = p
        /\ Goto(p, "format")
        /\ UNCHANGED chan
     \/ /\ Cardinality(free) < 3
        /\ chan' = [(IF free = {} THEN chan ELSE WokenFree) EXCEPT ![p] = "free"]
        /\ UNCHANGED <<vdisk_lock, pc, idx, free>>
  /\ UNCHANGED <<desc, info, avail, used, used_idx, bdisk, data, dev, blocks, irq, panic>>

(* b->disk = 1.                                                            *)
MarkBusy(p) == [bdisk EXCEPT ![p] = TRUE]

(* The three descriptors: the request, the buffer, the status in info.     *)
Formatted(p) ==
  LET i == idx[p] IN
  [desc EXCEPT ![i[1]] = [addr |-> [write |-> p \in Writers, sector |-> p], next |-> i[2]],
               ![i[2]] = [addr |-> p, next |-> i[3]],
               ![i[3]] = [addr |-> i[1], next |-> None]]

(* With them, the record for virtio_disk_intr() and the slot of the ring.  *)
Format(p) ==
  /\ pc[p] = "format"
  /\ desc' = Formatted(p)
  /\ info' = [info EXCEPT ![idx[p][1]] = [b |-> p, status |-> 255]]
  /\ bdisk' = MarkBusy(p)
  /\ avail' = [avail EXCEPT !.ring[avail.idx % NUM] = idx[p][1]]
  /\ Goto(p, "notify")
  /\ UNCHANGED <<vdisk_lock, chan, idx, free, used, used_idx, data, dev, blocks, irq, panic>>

(* The index that makes the slot visible to the device.                    *)
Notify(p) ==
  /\ pc[p] = "notify"
  /\ avail' = [avail EXCEPT !.idx = Inc(@)]
  /\ Goto(p, "wait")
  /\ UNCHANGED <<vdisk_lock, chan, idx, free, desc, info, used, used_idx, bdisk, data,
                 dev, blocks, irq, panic>>

(* while(b->disk == 1) sleep(b): asleep, ...                               *)
Sleep(p) ==
  /\ pc[p] = "wait" /\ vdisk_lock = p /\ bdisk[p]
  /\ chan' = [chan EXCEPT ![p] = "buf"]
  /\ vdisk_lock' = None
  /\ UNCHANGED <<pc, idx, free, desc, info, avail, used, used_idx, bdisk, data, dev,
                 blocks, irq, panic>>

(* ... and awake again, with the lock.                                     *)
Wake(p) ==
  /\ pc[p] = "wait" /\ vdisk_lock = None /\ chan[p] = None
  /\ vdisk_lock' = p
  /\ UNCHANGED <<pc, chan, idx, free, desc, info, avail, used, used_idx, bdisk, data, dev,
                 blocks, irq, panic>>

(* free_chain(): the descriptors linked from head.                         *)
Chain(head) == LET n == desc[head].next IN {head, n, desc[n].next}

(* The request is done: free_desc() panics on a free descriptor.           *)
Done(p) ==
  LET c == Chain(idx[p][1]) IN
  /\ pc[p] = "wait" /\ vdisk_lock = p /\ ~bdisk[p]
  /\ info' = [info EXCEPT ![idx[p][1]].b = None]
  /\ panic' = (panic \/ c \cap free # {})
  /\ free' = free \cup c
  /\ desc' = [i \in Desc |-> IF i \in c THEN Unused ELSE desc[i]]
  /\ chan' = WokenFree
  /\ idx' = [idx EXCEPT ![p] = <<>>]
  /\ vdisk_lock' = None
  /\ Goto(p, "idle")
  /\ UNCHANGED <<avail, used, used_idx, bdisk, data, dev, blocks, irq>>

-----------------------------------------------------------------------------
(* virtio_disk_intr() acknowledges the interrupt, ...                      *)
Intr ==
  /\ irq /\ vdisk_lock = None
  /\ vdisk_lock' = "intr"
  /\ irq' = FALSE
  /\ UNCHANGED <<pc, chan, idx, free, desc, info, avail, used, used_idx, bdisk, data, dev,
                 blocks, panic>>

(* One completion.                                                         *)
TakeUsed ==
  LET slot == used_idx % NUM
      id == used.ring[slot]
      b == info[id].b IN
  /\ panic' = (panic \/ info[id].status # 0 \/ b = None)
  /\ bdisk' = [bdisk EXCEPT ![b] = FALSE]
  /\ chan' = [chan EXCEPT ![b] = IF @ = "buf" THEN None ELSE @]
  /\ used' = [used EXCEPT !.ring[slot] = None]
  /\ used_idx' = Inc(used_idx)

IntrUsed_Once ==
  /\ vdisk_lock = "intr"
  /\ vdisk_lock' = None
  /\ IF used_idx = used.idx THEN UNCHANGED <<panic, bdisk, chan, used, used_idx>> ELSE TakeUsed
  /\ UNCHANGED <<pc, idx, free, desc, info, avail, data, dev, blocks, irq>>

(* ... and takes completions until it has caught up with the device.       *)
IntrUsed ==
  /\ vdisk_lock = "intr"
  /\ IF used_idx = used.idx
     THEN vdisk_lock' = None /\ UNCHANGED <<panic, bdisk, chan, used, used_idx>>
     ELSE TakeUsed /\ UNCHANGED vdisk_lock
  /\ UNCHANGED <<pc, idx, free, desc, info, avail, data, dev, blocks, irq>>

-----------------------------------------------------------------------------
(* The device takes the next request and reads its descriptors.            *)
DevFetch ==
  LET slot == dev.idx % NUM
      head == avail.ring[slot]
      n == desc[head].next IN
  /\ dev.idx # avail.idx
  /\ avail' = [avail EXCEPT !.ring[slot] = None]
  /\ dev' = [idx |-> Inc(dev.idx),
             work |-> dev.work \cup {[head |-> head, req |-> desc[head].addr, buf |-> desc[n].addr,
                                      status |-> desc[desc[n].next].addr]}]
  /\ UNCHANGED <<vdisk_lock, pc, chan, idx, free, desc, info, used, used_idx, bdisk, data,
                 blocks, irq, panic>>

(* The device finishes that of p: transfer, the status byte, the completion  *)
(* and the interrupt.                                                      *)
DevComplete(p) ==
  \E w \in dev.work :
    /\ w.buf = p
    /\ IF w.req.write
       THEN blocks' = [blocks EXCEPT ![w.req.sector] = data[w.buf]] /\ UNCHANGED data
       ELSE data' = [data EXCEPT ![w.buf] = blocks[w.req.sector]] /\ UNCHANGED blocks
    /\ info' = [info EXCEPT ![w.status].status = 0]
    /\ used' = [ring |-> [used.ring EXCEPT ![used.idx % NUM] = w.head], idx |-> Inc(used.idx)]
    /\ dev' = [dev EXCEPT !.work = @ \ {w}]
    /\ irq' = TRUE
    /\ UNCHANGED <<vdisk_lock, pc, chan, idx, free, desc, avail, used_idx, bdisk, panic>>

LockHolder == IntrUsed \/ \E p \in Procs : Format(p) \/ Notify(p) \/ Sleep(p) \/ Done(p)

Next ==
  \/ LockHolder
  \/ \E p \in Procs : Call(p) \/ Alloc3Desc(p) \/ Wake(p) \/ DevComplete(p)
  \/ Intr \/ DevFetch

Spec == Init /\ [][Next]_vars

(* A holder of the lock goes on; a CPU that spins for vdisk_lock gets it   *)
(* if it becomes free again and again (strong fairness: the others may     *)
(* take it in between); the device serves every request it was given.      *)
Fairness ==
  /\ WF_vars(LockHolder) /\ SF_vars(Intr) /\ WF_vars(DevFetch)
  /\ \A p \in Procs : SF_vars(Alloc3Desc(p) \/ Wake(p)) /\ WF_vars(DevComplete(p))

FairSpec == Spec /\ Fairness

-----------------------------------------------------------------------------
Submitted(p) == pc[p] \in {"notify", "wait"}
Slots(from, to) == {i % NUM : i \in from..(IF from <= to THEN to ELSE to + IDXMOD) - 1}
Filled(ring) == {i \in Desc : ring[i] # None}

TypeOK ==
  /\ vdisk_lock \in Procs \cup {None, "intr"}
  /\ free \subseteq Desc
  /\ \A p \in Procs : idx[p] = <<>> \/ idx[p] \in Desc \X Desc \X Desc
  /\ {avail.idx, used.idx, used_idx, dev.idx} \subseteq 0..IDXMOD - 1
  /\ \A p \in Procs : data[p] \in 0..2 /\ blocks[p] \in 0..1

(* No descriptor belongs to two requests, or to a request while it is      *)
(* free, and none is lost.                                                 *)
DescriptorsOwned ==
  LET Mine(p) == Range(idx[p]) IN
  /\ free \cup UNION {Mine(p) : p \in Procs} = Desc
  /\ \A p \in Procs :
       /\ Mine(p) \cap free = {}
       /\ \A q \in Procs \ {p} : Mine(p) \cap Mine(q) = {}

(* The rings hold what their indices say, and no slot is overwritten       *)
(* before the other side has read it, also when an index wraps.            *)
RingsExact ==
  /\ Filled(avail.ring) = Slots(dev.idx, avail.idx)
       \cup {avail.idx % NUM : p \in {q \in Procs : pc[q] = "notify"}}
  /\ Filled(used.ring) = Slots(used_idx, used.idx)

(* A request waits in one place: the avail ring, the device or the used    *)
(* ring.  When it is in none of them any more it has been carried out: the *)
(* buffer and the block agree, and the process is about to see it.         *)
ServedOnce ==
  \A p \in Procs : Submitted(p) =>
    LET head == idx[p][1]
        places == Cardinality({i \in Desc : avail.ring[i] = head})
                + Cardinality({w \in dev.work : w.head = head})
                + Cardinality({i \in Desc : used.ring[i] = head}) IN
    /\ info[head].b = p
    /\ places = IF bdisk[p] THEN 1 ELSE 0
    /\ ~bdisk[p] => data[p] = blocks[p]

(* A completion the driver has not looked at will be looked at: the        *)
(* interrupt is pending or its handler has not left its loop.  The race    *)
(* of the acknowledgement with new completions is harmless, as the comment *)
(* in virtio_disk_intr() says.                                             *)
InterruptNotLost == used_idx # used.idx => irq \/ vdisk_lock = "intr"

(* Nobody sleeps for descriptors that are there, or for a request that is  *)
(* done.                                                                   *)
NoLostWakeup ==
  \A p \in Procs : /\ chan[p] = "free" => Cardinality(free) < 3
                   /\ chan[p] = "buf" => bdisk[p]

(* free_desc() and virtio_disk_intr() do not panic.                        *)
NoPanic == ~panic

(* A request that has its descriptors is carried out, and its process      *)
(* returns.                                                                *)
RequestReturns ==
  \A p \in Procs : pc[p] = "format" ~> pc[p] = "idle"

(* When processes wait for descriptors, one of them gets them; which one   *)
(* is not said, and a process that calls later may be faster.              *)
DescriptorsGranted ==
  (\E p \in Procs : pc[p] = "alloc") ~> (\E p \in Procs : pc[p] = "format")

(* The driver and the device in every state: descriptors have one owner,   *)
(* the rings are exact, a request is carried out once, and neither an      *)
(* interrupt nor a wakeup is lost.                                         *)
DriverSound ==
  TypeOK /\ DescriptorsOwned /\ RingsExact /\ ServedOnce /\ InterruptNotLost /\ NoLostWakeup
         /\ NoPanic

(* What must happen: a request returns, and waiting for descriptors ends   *)
(* for someone.                                                            *)
DiskProgress == RequestReturns /\ DescriptorsGranted
=============================================================================
