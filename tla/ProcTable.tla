----------------------------- MODULE ProcTable -----------------------------
(***************************************************************************)
(* The life of processes (kernel/proc.c, kernel/sysproc.c): allocproc(),   *)
(* freeproc(), fork(), exit(), reparent(), wait(), kill() and              *)
(* sys_getprocinfo(), with p->lock and wait_lock.  Which CPU runs a        *)
(* process is the subject of module Sched: here RUNNABLE stands for        *)
(* RUNNING too.                                                            *)
(*                                                                         *)
(* An action is a stretch of code that needs no further lock.  A scan of   *)
(* the table that locks one slot after the other is one action, taken when *)
(* no slot it goes through is locked.                                      *)
(*                                                                         *)
(* A definition X_Y is a faulty variant of X, kept to see that a property  *)
(* notices the fault; no specification uses it.                            *)
(***************************************************************************)
EXTENDS Integers, FiniteSets, FiniteSetsExt

CONSTANTS NPROC,    \* number of slots of proc[]
          MAXPID,   \* bound: the last pid given out
          KillArgs  \* the arguments kill() is called with

ASSUME ProcAssumption ==
  /\ NPROC \in Nat \ {0}
  /\ MAXPID \in Nat \ {0}
  /\ KillArgs \subseteq 0..MAXPID

VARIABLES
  state,     \* [Slots -> States]
  pid,       \* [Slots -> 0..MAXPID]
  parent,    \* [Slots -> Slots or None]
  killed,    \* slots with p->killed set
  nextpid,   \* the next pid
  plock,     \* [Slots -> Slots or None], the process that holds p->lock
  waitlock,  \* the process that holds wait_lock, or None
  pc,        \* [Slots -> PCs], the kernel thread of the slot's process
  np,        \* [Slots -> Slots or None], local np of fork(), p->parent as
             \* read by sys_getprocinfo()
  asked,     \* pids that kill() was called with
  parents    \* [Slots -> SUBSET 0..MAXPID], pids of the parents it has had
             \* in its call of sys_getprocinfo()

Slots == 1..NPROC
None == 0
init == 1          \* initproc
States == {"UNUSED", "USED", "RUNNABLE", "SLEEPING", "ZOMBIE"}

(* "alloc": in fork() with np->lock; "linked": before acquire(&wait_lock); *)
(* "start": after release(&wait_lock); "scan": in wait() with wait_lock;   *)
(* "sleep": in its sleep(), before acquire(&p->lock); "asleep": in         *)
(* sched(), or before acquire(lk); "reparent", "notify", "zombie": in      *)
(* exit() with wait_lock; "swtch": in its sched(), with p->lock; "gone":   *)
(* no thread runs on the slot's stack; "info": in sys_getprocinfo().       *)
PCs == {"user", "alloc", "linked", "start", "scan", "sleep", "asleep",
        "reparent", "notify", "zombie", "swtch", "gone", "info"}

vars == <<state, pid, parent, killed, nextpid, plock, waitlock, pc, np, asked, parents>>

(* userinit() has run. *)
Init ==
  /\ state = [s \in Slots |-> IF s = init THEN "RUNNABLE" ELSE "UNUSED"]
  /\ pid = [s \in Slots |-> IF s = init THEN 1 ELSE 0]
  /\ parent = [s \in Slots |-> None]
  /\ killed = {}
  /\ nextpid = 2
  /\ plock = [s \in Slots |-> None]
  /\ waitlock = None
  /\ pc = [s \in Slots |-> IF s = init THEN "user" ELSE "gone"]
  /\ np = [s \in Slots |-> None]
  /\ asked = {}
  /\ parents = [s \in Slots |-> {}]

At(p, l) == state[p] = "RUNNABLE" /\ pc[p] = l
Goto(p, l) == pc' = [pc EXCEPT ![p] = l]

(* The scan of wakeup(p) can lock every slot; a process sleeps on channel  *)
(* p only in its own wait().                                               *)
CanScan(p) == \A s \in Slots \ {p} : plock[s] = None
Woken(s) == IF state[s] = "SLEEPING" THEN "RUNNABLE" ELSE state[s]

-----------------------------------------------------------------------------
(* allocproc() and fork() *)

Unused == {s \in Slots : state[s] = "UNUSED"}

(* allocproc() takes the first UNUSED slot; without one, fork() returns -1 *)
(* and nothing has changed.                                                *)
ForkAlloc(p) ==
  /\ At(p, "user") /\ nextpid <= MAXPID
  /\ Unused # {}
  /\ LET q == Min(Unused) IN
       /\ \A s \in 1..q : plock[s] = None
       /\ pid' = [pid EXCEPT ![q] = nextpid]
       /\ state' = [state EXCEPT ![q] = "USED"]
       /\ plock' = [plock EXCEPT ![q] = p]
       /\ np' = [np EXCEPT ![p] = q]
  /\ nextpid' = nextpid + 1
  /\ Goto(p, "alloc")
  /\ UNCHANGED <<parent, killed, waitlock, asked, parents>>

(* freeproc(q), for a slot whose lock is held *)
freeproc(q) ==
  /\ pid' = [pid EXCEPT ![q] = 0]
  /\ parent' = [parent EXCEPT ![q] = None]
  /\ killed' = killed \ {q}
  /\ state' = [state EXCEPT ![q] = "UNUSED"]

(* No memory for the trapframe, the page table or the copy of the parent:  *)
(* freeproc(), release(&np->lock), return -1.                              *)
ForkFail(p) ==
  /\ At(p, "alloc")
  /\ freeproc(np[p])
  /\ plock' = [plock EXCEPT ![np[p]] = None]
  /\ np' = [np EXCEPT ![p] = None]
  /\ Goto(p, "user")
  /\ UNCHANGED <<nextpid, waitlock, asked, parents>>

(* Memory, registers, files and name copied: release(&np->lock). *)
ForkRelease(p) ==
  /\ At(p, "alloc")
  /\ plock' = [plock EXCEPT ![np[p]] = None]
  /\ Goto(p, "linked")
  /\ UNCHANGED <<state, pid, parent, killed, nextpid, waitlock, np, asked, parents>>

(* np->parent = p, under wait_lock *)
ForkParent(p) ==
  /\ At(p, "linked")
  /\ waitlock = None
  /\ parent' = [parent EXCEPT ![np[p]] = p]
  /\ Goto(p, "start")
  /\ UNCHANGED <<state, pid, killed, nextpid, plock, waitlock, np, asked, parents>>

(* np->state = RUNNABLE, under np->lock *)
ForkStart(p) ==
  /\ At(p, "start")
  /\ plock[np[p]] = None
  /\ state' = [state EXCEPT ![np[p]] = "RUNNABLE"]
  /\ pc' = [pc EXCEPT ![np[p]] = "user", ![p] = "user"]
  /\ np' = [np EXCEPT ![p] = None]
  /\ UNCHANGED <<pid, parent, killed, nextpid, plock, waitlock, asked, parents>>

-----------------------------------------------------------------------------
(* exit(): the calling process or a killed one; init never exits. *)

ExitBegin(p) ==
  /\ At(p, "user") /\ p # init
  /\ waitlock = None
  /\ waitlock' = p
  /\ Goto(p, "reparent")
  /\ UNCHANGED <<state, pid, parent, killed, nextpid, plock, np, asked, parents>>

(* reparent(p), with wakeup(initproc) if there was a child *)
Reparented_None(p) == parent
Reparented(p) == [s \in Slots |-> IF parent[s] = p THEN init ELSE parent[s]]

Reparent(p) ==
  /\ At(p, "reparent")
  /\ parent' = Reparented(p)
  /\ parents' = [s \in Slots |-> IF parent'[s] # parent[s] /\ pc[s] = "info"
                                 THEN parents[s] \cup {pid[init]} ELSE parents[s]]
  /\ \/ parent' = parent /\ UNCHANGED state
     \/ /\ parent' # parent /\ CanScan(p)
        /\ state' = [state EXCEPT ![init] = Woken(init)]
  /\ Goto(p, "notify")
  /\ UNCHANGED <<pid, killed, nextpid, plock, waitlock, np, asked>>

(* wakeup(p->parent) *)
ExitNotify(p) ==
  /\ At(p, "notify")
  /\ CanScan(p)
  /\ state' = [state EXCEPT ![parent[p]] = Woken(parent[p])]
  /\ Goto(p, "zombie")
  /\ UNCHANGED <<pid, parent, killed, nextpid, plock, waitlock, np, asked, parents>>

(* acquire(&p->lock), ZOMBIE, release(&wait_lock) *)
ExitZombie(p) ==
  /\ At(p, "zombie")
  /\ plock[p] = None
  /\ plock' = [plock EXCEPT ![p] = p]
  /\ state' = [state EXCEPT ![p] = "ZOMBIE"]
  /\ waitlock' = None
  /\ Goto(p, "swtch")
  /\ UNCHANGED <<pid, parent, killed, nextpid, np, asked, parents>>

(* sched(): off this stack for good, and scheduler() releases p->lock. *)
ExitSwtch(p) ==
  /\ state[p] = "ZOMBIE" /\ pc[p] = "swtch"
  /\ plock' = [plock EXCEPT ![p] = None]
  /\ Goto(p, "gone")
  /\ UNCHANGED <<state, pid, parent, killed, nextpid, waitlock, np, asked, parents>>

-----------------------------------------------------------------------------
(* wait() *)

(* acquire(&wait_lock), at the start or at the end of sleep() *)
WaitLock(p) ==
  /\ At(p, "user") \/ At(p, "asleep")
  /\ waitlock = None
  /\ waitlock' = p
  /\ Goto(p, "scan")
  /\ UNCHANGED <<state, pid, parent, killed, nextpid, plock, np, asked, parents>>

Children(p) == {s \in Slots : parent[s] = p}
Zombies(p) == {s \in Children(p) : state[s] = "ZOMBIE"}

(* acquire(&np->lock) makes sure that the child is not in exit() any more. *)
ChildrenFree_NoLock(p) == TRUE
ChildrenFree(p) == \A s \in Children(p) : plock[s] = None

(* The first exited child is freed; or copyout() of its status fails and   *)
(* it stays, which cannot happen to init: it asks for no status.           *)
WaitReap_AlwaysCopies(p) ==
  /\ At(p, "scan")
  /\ ChildrenFree(p)
  /\ Zombies(p) # {}
  /\ \/ freeproc(Min(Zombies(p)))
     \/ UNCHANGED <<pid, parent, killed, state>>
  /\ waitlock' = None
  /\ Goto(p, "user")
  /\ UNCHANGED <<nextpid, plock, np, asked, parents>>
WaitReap(p) ==
  /\ At(p, "scan")
  /\ ChildrenFree(p)
  /\ Zombies(p) # {}
  /\ \/ freeproc(Min(Zombies(p)))
     \/ p # init /\ UNCHANGED <<pid, parent, killed, state>>
  /\ waitlock' = None
  /\ Goto(p, "user")
  /\ UNCHANGED <<nextpid, plock, np, asked, parents>>

(* No point in waiting: return -1. *)
WaitNone(p) ==
  /\ At(p, "scan")
  /\ ChildrenFree(p)
  /\ Children(p) = {} \/ (p \in killed /\ Zombies(p) = {})
  /\ waitlock' = None
  /\ Goto(p, "user")
  /\ UNCHANGED <<state, pid, parent, killed, nextpid, plock, np, asked, parents>>

WaitForChild(p) ==
  /\ At(p, "scan")
  /\ ChildrenFree(p)
  /\ Children(p) # {} /\ Zombies(p) = {} /\ p \notin killed
  /\ Goto(p, "sleep")
  /\ UNCHANGED <<state, pid, parent, killed, nextpid, plock, waitlock, np, asked, parents>>

(* sleep(p, &wait_lock): acquire(&p->lock), release(lk), SLEEPING, sched() *)
WaitSleep(p) ==
  /\ At(p, "sleep")
  /\ plock[p] = None
  /\ waitlock' = None
  /\ state' = [state EXCEPT ![p] = "SLEEPING"]
  /\ Goto(p, "asleep")
  /\ UNCHANGED <<pid, parent, killed, nextpid, plock, np, asked, parents>>

-----------------------------------------------------------------------------
(* kill(k): the first slot with that pid.  kill(1) is left out: init would *)
(* exit, and exit() panics.                                                *)
HasPid(k) == {s \in Slots : pid[s] = k}

Kill(p, k) ==
  /\ At(p, "user") /\ HasPid(k) # {}
  /\ LET q == Min(HasPid(k)) IN
       /\ q # init
       /\ \A s \in 1..q : plock[s] = None
       /\ killed' = killed \cup {q}
       /\ state' = [state EXCEPT ![q] = Woken(q)]
  /\ asked' = asked \cup {k}
  /\ UNCHANGED <<pid, parent, nextpid, plock, waitlock, pc, np, parents>>

(* sys_getprocinfo() reads p->parent, with no lock ... *)
InfoParent(p) ==
  /\ At(p, "user") /\ parent[p] # None
  /\ np' = [np EXCEPT ![p] = parent[p]]
  /\ parents' = [parents EXCEPT ![p] = {pid[parent[p]]}]
  /\ Goto(p, "info")
  /\ UNCHANGED <<state, pid, parent, killed, nextpid, plock, waitlock, asked>>

(* ... and then the pid of that slot, and returns it. *)
ppid(p) == pid[np[p]]
InfoPid(p) ==
  /\ At(p, "info")
  /\ np' = [np EXCEPT ![p] = None]
  /\ parents' = [parents EXCEPT ![p] = {}]
  /\ Goto(p, "user")
  /\ UNCHANGED <<state, pid, parent, killed, nextpid, plock, waitlock, asked>>

-----------------------------------------------------------------------------
Fork(p) == ForkAlloc(p) \/ ForkFail(p) \/ ForkRelease(p) \/ ForkParent(p) \/ ForkStart(p)
Exit(p) == ExitBegin(p) \/ Reparent(p) \/ ExitNotify(p) \/ ExitZombie(p) \/ ExitSwtch(p)
Wait(p) == WaitLock(p) \/ WaitReap(p) \/ WaitNone(p) \/ WaitForChild(p) \/ WaitSleep(p)
GetProcInfo(p) == InfoParent(p) \/ InfoPid(p)

Next ==
  \E p \in Slots :
    Fork(p) \/ Exit(p) \/ Wait(p) \/ GetProcInfo(p) \/ \E k \in KillArgs : Kill(p, k)

Spec == Init /\ [][Next]_vars

(* System calls that have begun go on, getting a lock that is free again   *)
(* and again; init calls wait() for ever (user/init.c).                    *)
InKernel(p) == pc[p] # "user" /\ (Fork(p) \/ Exit(p) \/ Wait(p) \/ GetProcInfo(p))
Fairness == SF_vars(WaitLock(init)) /\ \A p \in Slots : SF_vars(InKernel(p))

FairSpec == Spec /\ Fairness

-----------------------------------------------------------------------------
(* The types of the slots' fields and of the locks, and where wait_lock is *)
(* held: between the calls of exit() and wait() it is free.                *)
TypeOK ==
  /\ state \in [Slots -> States]
  /\ pid \in [Slots -> 0..MAXPID]
  /\ parent \in [Slots -> Slots \cup {None}]
  /\ killed \in SUBSET Slots
  /\ nextpid \in 2..(MAXPID + 1)
  /\ plock \in [Slots -> Slots \cup {None}]
  /\ waitlock \in Slots \cup {None}
  /\ pc \in [Slots -> PCs]
  /\ np \in [Slots -> Slots \cup {None}]
  /\ asked \in SUBSET (0..MAXPID)
  /\ parents \in [Slots -> SUBSET (0..MAXPID)]
  /\ \A p \in Slots :
       waitlock = p <=> pc[p] \in {"scan", "sleep", "reparent", "notify", "zombie"}

(* Two processes never have the same pid, and a slot has one from          *)
(* allocproc() to freeproc().                                              *)
UniquePids ==
  /\ \A s, t \in Slots : s # t /\ pid[s] = pid[t] => pid[s] = 0
  /\ \A s \in Slots : pid[s] = 0 <=> state[s] = "UNUSED"

(* Every process but init that fork() has started, up to the moment wait() *)
(* frees it, has a parent that can still call wait(): exit() leaves no     *)
(* child behind, also one whose fork() was not finished.                   *)
NoOrphan ==
  \A s \in Slots \ {init} :
    /\ state[s] \in {"RUNNABLE", "SLEEPING", "ZOMBIE"} =>
         parent[s] # None /\ state[parent[s]] \in {"RUNNABLE", "SLEEPING"}
    /\ state[s] = "UNUSED" => parent[s] = None

(* A slot is not freed, let alone given to a new process, while the thread *)
(* of the old one still runs on its kernel stack: wait() takes the child's *)
(* lock, which exit() holds until swtch().                                 *)
StackIsFree == \A s \in Slots : state[s] \in {"UNUSED", "USED"} => pc[s] = "gone"

(* No lost wakeup in wait(): a parent does not sleep when it has a child   *)
(* to reap, although exit() wakes it before the child is a zombie.         *)
NoLostWakeup == \A p \in Slots : state[p] = "SLEEPING" => Zombies(p) = {}

(* A process is killed only if kill() was called with its pid: the flag of *)
(* an earlier process of the slot does not reach it.                       *)
KilledByPid == \A s \in killed : state[s] # "UNUSED" => pid[s] \in asked

(* The ppid that sys_getprocinfo() returns, read with no lock, is the pid  *)
(* of a parent the process had during the call, unless that parent has     *)
(* exited between the two reads: then it is 0 or another process's.        *)
PpidStaleIfReparented ==
  \A p \in Slots : At(p, "info") => ppid(p) \in parents[p] \/ parent[p] # np[p]

(* init reaps every zombie that is its child, inherited ones included. *)
OrphansReaped ==
  \A s \in Slots : state[s] = "ZOMBIE" /\ parent[s] = init ~> state[s] = "UNUSED"

(* The process table in every state: pids are unique, every process has a  *)
(* parent to reap it that is not asleep when it could, is killed only by   *)
(* its own pid, and learns a wrong ppid only when its parent changes.      *)
TableSound ==
  TypeOK /\ UniquePids /\ NoOrphan /\ NoLostWakeup /\ KilledByPid /\ PpidStaleIfReparented
=============================================================================
