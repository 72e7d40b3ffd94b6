------------------------------- MODULE Sched -------------------------------
(***************************************************************************)
(* How processes share the CPUs (kernel/proc.c, kernel/spinlock.c and      *)
(* kernel/trap.c): scheduler(), sched(), yield(), sleep(), wakeup(),       *)
(* kill(), the timer interrupt with clockintr(), and the spin-locks'       *)
(* push_off() and pop_off().  The processes run sys_sleep(), the sleep     *)
(* that has its condition and its waker in one place, and kill().          *)
(*                                                                         *)
(* An action is a stretch of code that needs no further lock.  acquire()   *)
(* is one step, taken when the lock is free: the CPU spins until then.     *)
(*                                                                         *)
(* A definition X_Y is a faulty variant of X, kept to see that a property  *)
(* notices the fault; no specification uses it.                            *)
(***************************************************************************)
EXTENDS Integers, FiniteSets

CONSTANTS NPROC,    \* number of processes
          NCPU,     \* number of CPUs
          TICKMOD,  \* ticks is an unsigned counter modulo TICKMOD
          MAXN      \* the longest sleep, less than TICKMOD

ASSUME SchedAssumption ==
  /\ NPROC \in Nat \ {0}
  /\ NCPU \in Nat \ {0}
  /\ TICKMOD \in Nat \ {0}
  /\ MAXN \in 0..(TICKMOD - 1)

VARIABLES
  lock,     \* [Locks -> CPUs or Free], lk->cpu
  cpu,      \* [CPUs -> [noff, intena, intr]], intr being the CPU's SIE bit
  on,       \* [CPUs -> Procs or Idle], whose kernel thread the CPU executes
  scan,     \* [CPUs -> Procs], local p of scheduler()
  back,     \* CPUs whose scheduler() is after its swtch()
  irq,      \* [CPUs -> IrqSteps], the timer interrupt being handled
  wake,     \* [CPUs -> Procs], local p of its wakeup(&ticks)
  state,    \* [Procs -> States], p->state
  chan,     \* processes with p->chan = &ticks
  killed,   \* processes with p->killed set
  pc,       \* [Procs -> PCs]
  preempt,  \* [Procs -> {"no", "yield", "out"}], the yield() it is in
  saved,    \* [Procs -> BOOLEAN], local intena of sched()
  ticks,    \* the counter
  ticks0,   \* [Procs -> 0..TICKMOD-1], local of sys_sleep()
  n,        \* [Procs -> 0..MAXN], its argument
  slept     \* [Procs -> 0..MAXN], ticks since it began, up to MAXN

Procs == 1..NPROC
CPUs == 1..NCPU
Boot == 1           \* cpuid() 0, the one that runs clockintr()
Idle == 0           \* the scheduler's own thread
Free == 0           \* an unlocked spin-lock
Tick == 0           \* tickslock; p \in Procs stands for p->lock
Locks == Procs \cup {Tick}
States == {"RUNNABLE", "RUNNING", "SLEEPING", "ZOMBIE"}
IrqSteps == {"no", "clock", "wakeup", "done"}

(* "forkret": never ran; "user": in user mode; "sys": in a system call     *)
(* before its first lock; "loop": at the test of sys_sleep(), with         *)
(* tickslock; "sleep": in sleep(), before acquire(&p->lock); "out": in     *)
(* its sched(); "again": before acquire(lk); "ret": system call done;      *)
(* "exit": in exit(-1); "zombie": in its sched().                          *)
PCs == {"forkret", "user", "sys", "loop", "sleep", "out", "again", "ret",
        "exit", "zombie"}

schedvars == <<on, scan, back>>
irqvars == <<irq, wake>>
clockvars == <<ticks, ticks0, n, slept>>
vars == <<lock, cpu, schedvars, irqvars, state, chan, killed, pc, preempt, saved, clockvars>>

Init ==
  /\ lock = [l \in Locks |-> Free]
  /\ cpu = [c \in CPUs |-> [noff |-> 0, intena |-> FALSE, intr |-> TRUE]]
  /\ on = [c \in CPUs |-> Idle]
  /\ scan = [c \in CPUs |-> 1]
  /\ back = {}
  /\ irq = [c \in CPUs |-> "no"]
  /\ wake = [c \in CPUs |-> 1]
  /\ state = [p \in Procs |-> "RUNNABLE"]
  /\ chan = {}
  /\ killed = {}
  /\ pc = [p \in Procs |-> "forkret"]
  /\ preempt = [p \in Procs |-> "no"]
  /\ saved = [p \in Procs |-> FALSE]
  /\ ticks = 0
  /\ ticks0 = [p \in Procs |-> 0]
  /\ n = [p \in Procs |-> 0]
  /\ slept = [p \in Procs |-> 0]

-----------------------------------------------------------------------------
(* What acquire() and release() do to the CPU they run on. *)

push_off(k) ==
  [noff |-> k.noff + 1,
   intena |-> IF k.noff = 0 THEN k.intr ELSE k.intena,
   intr |-> FALSE]

pop_off(k) ==
  [noff |-> k.noff - 1,
   intena |-> k.intena,
   intr |-> k.noff = 1 /\ k.intena]

Acquire(c, l) ==
  /\ lock[l] = Free
  /\ lock' = [lock EXCEPT ![l] = c]
  /\ cpu' = [cpu EXCEPT ![c] = push_off(@)]

Release(c, l) ==
  /\ lock' = [lock EXCEPT ![l] = Free]
  /\ cpu' = [cpu EXCEPT ![c] = pop_off(@)]

(* The CPU executes the thread of p, outside interrupt handlers. *)
Runs(c, p) == on[c] = p /\ irq[c] = "no" /\ preempt[p] = "no"

Goto(p, l) == pc' = [pc EXCEPT ![p] = l]

-----------------------------------------------------------------------------
(* System calls and sys_sleep() *)

(* usertrap() on an ecall: a killed process exits, else intr_on(). *)
Ecall(c, p) ==
  /\ Runs(c, p) /\ pc[p] = "user"
  /\ \/ /\ p \in killed
        /\ Goto(p, "exit")
        /\ cpu' = [cpu EXCEPT ![c].intr = FALSE]
        /\ UNCHANGED n
     \/ /\ p \notin killed
        /\ Goto(p, "sys")
        /\ \E m \in 0..MAXN : n' = [n EXCEPT ![p] = m]
        /\ UNCHANGED cpu
  /\ UNCHANGED <<lock, schedvars, irqvars, state, chan, killed, preempt, saved,
                 ticks, ticks0, slept>>

SleepStart(c, p) ==
  /\ Runs(c, p) /\ pc[p] = "sys"
  /\ Acquire(c, Tick)
  /\ ticks0' = [ticks0 EXCEPT ![p] = ticks]
  /\ slept' = [slept EXCEPT ![p] = 0]
  /\ Goto(p, "loop")
  /\ UNCHANGED <<schedvars, irqvars, state, chan, killed, preempt, saved, ticks, n>>

(* !(ticks - ticks0 < n), in unsigned arithmetic *)
SleptEnough_Absolute(p) == ticks >= (ticks0[p] + n[p]) % TICKMOD
SleptEnough(p) == (ticks - ticks0[p]) % TICKMOD >= n[p]

SleepLoop(c, p) ==
  /\ Runs(c, p) /\ pc[p] = "loop"
  /\ \/ /\ SleptEnough(p) \/ p \in killed
        /\ Release(c, Tick)
        /\ Goto(p, "ret")
     \/ /\ ~(SleptEnough(p) \/ p \in killed)
        /\ Goto(p, "sleep")
        /\ UNCHANGED <<lock, cpu>>
  /\ UNCHANGED <<schedvars, irqvars, state, chan, killed, preempt, saved, clockvars>>

(* The end of usertrap() and usertrapret(); the locals of sys_sleep() are  *)
(* gone, and stand at 0 between its calls.                                 *)
SyscallRet(c, p) ==
  /\ Runs(c, p) /\ pc[p] = "ret"
  /\ Goto(p, IF p \in killed THEN "exit" ELSE "user")
  /\ ticks0' = [ticks0 EXCEPT ![p] = 0]
  /\ n' = [n EXCEPT ![p] = 0]
  /\ slept' = [slept EXCEPT ![p] = 0]
  /\ UNCHANGED <<lock, cpu, schedvars, irqvars, state, chan, killed, preempt, saved, ticks>>

(* The end of exit(): acquire(&p->lock), the new state, sched(). *)
Exit(c, p) ==
  /\ Runs(c, p) /\ pc[p] = "exit"
  /\ Acquire(c, p)
  /\ state' = [state EXCEPT ![p] = "ZOMBIE"]
  /\ Goto(p, "zombie")
  /\ UNCHANGED <<schedvars, irqvars, chan, killed, preempt, saved, clockvars>>

(* kill(q), of a process that exists *)
Kill(c, p, q) ==
  /\ Runs(c, p) /\ pc[p] = "user"
  /\ lock[q] = Free
  /\ killed' = killed \cup {q}
  /\ state' = [state EXCEPT ![q] = IF @ = "SLEEPING" THEN "RUNNABLE" ELSE @]
  /\ UNCHANGED <<lock, cpu, schedvars, irqvars, chan, pc, preempt, saved, clockvars>>

-----------------------------------------------------------------------------
(* sleep(&ticks, &tickslock) up to its sched() *)
Sleep(c, p) ==
  /\ Runs(c, p) /\ pc[p] = "sleep"
  /\ lock[p] = Free
  /\ lock' = [lock EXCEPT ![p] = c, ![Tick] = Free]
  /\ cpu' = [cpu EXCEPT ![c] = pop_off(push_off(@))]
  /\ chan' = chan \cup {p}
  /\ state' = [state EXCEPT ![p] = "SLEEPING"]
  /\ Goto(p, "out")
  /\ UNCHANGED <<schedvars, irqvars, killed, preempt, saved, clockvars>>

(* ... after its sched() ... *)
SleepTidy(c, p) ==
  /\ Runs(c, p) /\ pc[p] = "out" /\ state[p] = "RUNNING"
  /\ chan' = chan \ {p}
  /\ Release(c, p)
  /\ Goto(p, "again")
  /\ UNCHANGED <<schedvars, irqvars, state, killed, preempt, saved, clockvars>>

(* ... and acquire(lk) at its end. *)
SleepReacquire(c, p) ==
  /\ Runs(c, p) /\ pc[p] = "again"
  /\ Acquire(c, Tick)
  /\ Goto(p, "loop")
  /\ UNCHANGED <<schedvars, irqvars, state, chan, killed, preempt, saved, clockvars>>

(* yield(), called with interrupts off by usertrap() and kerneltrap(). *)
Yield(c, p) ==
  /\ on[c] = p /\ preempt[p] = "yield"
  /\ Acquire(c, p)
  /\ state' = [state EXCEPT ![p] = "RUNNABLE"]
  /\ preempt' = [preempt EXCEPT ![p] = "out"]
  /\ UNCHANGED <<schedvars, irqvars, chan, killed, pc, saved, clockvars>>

(* The end of yield(), and sret, which turns the interrupts on. *)
YieldRet(c, p) ==
  /\ on[c] = p /\ preempt[p] = "out" /\ state[p] = "RUNNING"
  /\ lock' = [lock EXCEPT ![p] = Free]
  /\ cpu' = [cpu EXCEPT ![c] = [pop_off(@) EXCEPT !.intr = TRUE]]
  /\ preempt' = [preempt EXCEPT ![p] = "no"]
  /\ UNCHANGED <<schedvars, irqvars, state, chan, killed, pc, saved, clockvars>>

(* forkret() and usertrapret() *)
Forkret(c, p) ==
  /\ Runs(c, p) /\ pc[p] = "forkret"
  /\ lock' = [lock EXCEPT ![p] = Free]
  /\ cpu' = [cpu EXCEPT ![c] = [pop_off(@) EXCEPT !.intr = TRUE]]
  /\ Goto(p, "user")
  /\ UNCHANGED <<schedvars, irqvars, state, chan, killed, preempt, saved, clockvars>>

-----------------------------------------------------------------------------
(* The swtch() in sched(), and back in scheduler(). *)

AtSched(c, p) ==
  /\ on[c] = p
  /\ state[p] # "RUNNING"
  /\ \/ preempt[p] = "out"
     \/ preempt[p] = "no" /\ pc[p] \in {"out", "zombie"}

Swtch(c, p) ==
  /\ AtSched(c, p)
  /\ saved' = [saved EXCEPT ![p] = cpu[c].intena]
  /\ on' = [on EXCEPT ![c] = Idle]
  /\ UNCHANGED <<lock, cpu, scan, back, irqvars, state, chan, killed, pc, preempt, clockvars>>

(* The next process of the scan; a new scan starts with intr_on(). *)
NextScan_Restart(c) == scan' = [scan EXCEPT ![c] = 1]
NextScan(c) == scan' = [scan EXCEPT ![c] = IF @ = NPROC THEN 1 ELSE @ + 1]
IntrOn(c, k) == IF scan[c] = NPROC THEN [k EXCEPT !.intr = TRUE] ELSE k

SchedulerBack(c) ==
  /\ on[c] = Idle /\ c \in back
  /\ back' = back \ {c}
  /\ lock' = [lock EXCEPT ![scan[c]] = Free]
  /\ cpu' = [cpu EXCEPT ![c] = IntrOn(c, pop_off(@))]
  /\ NextScan(c)
  /\ UNCHANGED <<on, irqvars, state, chan, killed, pc, preempt, saved, clockvars>>

SchedulerSkip(c) ==
  /\ on[c] = Idle /\ c \notin back /\ irq[c] = "no"
  /\ lock[scan[c]] = Free /\ state[scan[c]] # "RUNNABLE"
  /\ cpu' = [cpu EXCEPT ![c] = IntrOn(c, @)]
  /\ NextScan(c)
  /\ UNCHANGED <<lock, on, back, irqvars, state, chan, killed, pc, preempt, saved, clockvars>>

(* After swtch(), sched() restores the intena of the process; forkret()    *)
(* does not.                                                               *)
Restored_Never(c, p) == cpu[c].intr
Restored(c, p) == IF pc[p] = "forkret" THEN cpu[c].intr ELSE saved[p]

SchedulerRun_NoLock(c) ==
  LET p == scan[c] IN
  /\ on[c] = Idle /\ c \notin back /\ irq[c] = "no"
  /\ state[p] = "RUNNABLE"
  /\ lock' = [lock EXCEPT ![p] = c]
  /\ cpu' = [cpu EXCEPT ![c] = [push_off(@) EXCEPT !.intena = Restored(c, p)]]
  /\ state' = [state EXCEPT ![p] = "RUNNING"]
  /\ on' = [on EXCEPT ![c] = p]
  /\ back' = back \cup {c}
  /\ saved' = [saved EXCEPT ![p] = FALSE]
  /\ UNCHANGED <<scan, irqvars, chan, killed, pc, preempt, clockvars>>
SchedulerRun(c) ==
  LET p == scan[c] IN
  /\ on[c] = Idle /\ c \notin back /\ irq[c] = "no"
  /\ lock[p] = Free /\ state[p] = "RUNNABLE"
  /\ lock' = [lock EXCEPT ![p] = c]
  /\ cpu' = [cpu EXCEPT ![c] = [push_off(@) EXCEPT !.intena = Restored(c, p)]]
  /\ state' = [state EXCEPT ![p] = "RUNNING"]
  /\ on' = [on EXCEPT ![c] = p]
  /\ back' = back \cup {c}
  /\ saved' = [saved EXCEPT ![p] = FALSE]
  /\ UNCHANGED <<scan, irqvars, chan, killed, pc, preempt, clockvars>>

-----------------------------------------------------------------------------
(* The timer interrupt: devintr() and clockintr() *)

Timer(c) ==
  /\ cpu[c].intr /\ irq[c] = "no"
  /\ cpu' = [cpu EXCEPT ![c].intr = FALSE]
  /\ irq' = [irq EXCEPT ![c] = IF c = Boot THEN "clock" ELSE "done"]
  /\ UNCHANGED <<lock, schedvars, wake, state, chan, killed, pc, preempt, saved, clockvars>>

InSleep(p) == pc[p] \in {"loop", "sleep", "out", "again"}

NextTick == (ticks + 1) % TICKMOD

Clock(c) ==
  /\ irq[c] = "clock"
  /\ Acquire(c, Tick)
  /\ ticks' = NextTick
  /\ slept' = [p \in Procs |-> IF InSleep(p) /\ slept[p] < MAXN THEN slept[p] + 1
                                                             ELSE slept[p]]
  /\ irq' = [irq EXCEPT ![c] = "wakeup"]
  /\ UNCHANGED <<schedvars, wake, state, chan, killed, pc, preempt, saved, ticks0, n>>

(* One process of the loop of wakeup(&ticks), which skips myproc(); after  *)
(* the last one clockintr() releases tickslock.                            *)
WakeupTurn_Trylock(c, q) ==
  state' = [state EXCEPT ![q] = IF @ = "SLEEPING" /\ q \in chan /\ lock[q] = Free
                                THEN "RUNNABLE" ELSE @]
WakeupTurn(c, q) ==
  /\ q # on[c] => lock[q] = Free
  /\ state' = [state EXCEPT ![q] = IF q # on[c] /\ @ = "SLEEPING" /\ q \in chan
                                   THEN "RUNNABLE" ELSE @]

Wakeup(c) ==
  /\ irq[c] = "wakeup"
  /\ WakeupTurn(c, wake[c])
  /\ \/ /\ wake[c] < NPROC
        /\ wake' = [wake EXCEPT ![c] = @ + 1]
        /\ UNCHANGED <<lock, cpu, irq>>
     \/ /\ wake[c] = NPROC
        /\ Release(c, Tick)
        /\ irq' = [irq EXCEPT ![c] = "done"]
        /\ wake' = [wake EXCEPT ![c] = 1]
  /\ UNCHANGED <<schedvars, chan, killed, pc, preempt, saved, clockvars>>

(* Back in kerneltrap() or usertrap(): return to the scheduler; a killed   *)
(* process that was in user mode exits; any other one yields the CPU.      *)
IrqDone_NoExit(c) ==
  /\ irq[c] = "done"
  /\ irq' = [irq EXCEPT ![c] = "no"]
  /\ \/ /\ on[c] = Idle
        /\ cpu' = [cpu EXCEPT ![c].intr = TRUE]
        /\ UNCHANGED preempt
     \/ /\ on[c] # Idle
        /\ preempt' = [preempt EXCEPT ![on[c]] = "yield"]
        /\ UNCHANGED cpu
  /\ UNCHANGED <<lock, schedvars, wake, state, chan, killed, pc, saved, clockvars>>
IrqDone(c) ==
  /\ irq[c] = "done"
  /\ irq' = [irq EXCEPT ![c] = "no"]
  /\ \/ /\ on[c] = Idle
        /\ cpu' = [cpu EXCEPT ![c].intr = TRUE]
        /\ UNCHANGED <<pc, preempt>>
     \/ /\ on[c] # Idle /\ pc[on[c]] = "user" /\ on[c] \in killed
        /\ Goto(on[c], "exit")
        /\ UNCHANGED <<cpu, preempt>>
     \/ /\ on[c] # Idle /\ ~(pc[on[c]] = "user" /\ on[c] \in killed)
        /\ preempt' = [preempt EXCEPT ![on[c]] = "yield"]
        /\ UNCHANGED <<cpu, pc>>
  /\ UNCHANGED <<lock, schedvars, wake, state, chan, killed, saved, clockvars>>

-----------------------------------------------------------------------------
Work(c, p) ==
  \/ SleepStart(c, p) \/ SleepLoop(c, p) \/ SyscallRet(c, p) \/ Exit(c, p)
  \/ Sleep(c, p) \/ SleepTidy(c, p) \/ SleepReacquire(c, p)

Switch(c, p) == Yield(c, p) \/ YieldRet(c, p) \/ Forkret(c, p) \/ Swtch(c, p)

Scheduler(c) == SchedulerBack(c) \/ SchedulerSkip(c) \/ SchedulerRun(c)

Handler(c) == Clock(c) \/ Wakeup(c) \/ IrqDone(c)

Next ==
  \E c \in CPUs :
    \/ Scheduler(c) \/ Timer(c) \/ Handler(c)
    \/ \E p \in Procs :
         Ecall(c, p) \/ Work(c, p) \/ Switch(c, p) \/ \E q \in Procs : Kill(c, p, q)

Spec == Init /\ [][Next]_vars

(* A CPU executes instructions as long as it has some; a lock that is free *)
(* again and again is got in the end; a timer interrupt stays pending      *)
(* until the CPU takes it, and the next one leaves a process time to work. *)
(* A process need not make system calls.                                   *)
Fairness ==
  \A c \in CPUs :
    /\ SF_vars(Scheduler(c)) /\ SF_vars(Timer(c)) /\ SF_vars(Handler(c))
    /\ \A p \in Procs : SF_vars(Work(c, p)) /\ SF_vars(Switch(c, p))

FairSpec == Spec /\ Fairness

-----------------------------------------------------------------------------
(* The types of the variables. *)
TypeOK ==
  /\ lock \in [Locks -> CPUs \cup {Free}]
  /\ cpu \in [CPUs -> [noff : 0..2, intena : BOOLEAN, intr : BOOLEAN]]
  /\ on \in [CPUs -> Procs \cup {Idle}]
  /\ scan \in [CPUs -> Procs]
  /\ back \in SUBSET CPUs
  /\ irq \in [CPUs -> IrqSteps]
  /\ wake \in [CPUs -> Procs]
  /\ state \in [Procs -> States]
  /\ chan \in SUBSET Procs
  /\ killed \in SUBSET Procs
  /\ pc \in [Procs -> PCs]
  /\ preempt \in [Procs -> {"no", "yield", "out"}]
  /\ saved \in [Procs -> BOOLEAN]
  /\ ticks \in 0..(TICKMOD - 1)
  /\ ticks0 \in [Procs -> 0..(TICKMOD - 1)]
  /\ n \in [Procs -> 0..MAXN]
  /\ slept \in [Procs -> 0..MAXN]

(* No two CPUs execute the same kernel thread: a scheduler() cannot resume *)
(* a process whose registers another CPU is still saving in swtch().       *)
OneCPU == \A c, d \in CPUs : c # d /\ on[c] = on[d] => on[c] = Idle

(* None of the four tests of sched() panics: p->lock is held, it is the    *)
(* only lock, the state has changed, interrupts are off.                   *)
SchedOK ==
  \A c \in CPUs, p \in Procs :
    AtSched(c, p) => lock[p] = c /\ cpu[c].noff = 1 /\ ~cpu[c].intr

(* noff counts the spin-locks a CPU holds, and interrupts stay off while   *)
(* there is one: pop_off() never enables them inside a critical section,   *)
(* whichever CPU the process was resumed on.                               *)
NoffCountsLocks ==
  \A c \in CPUs :
    /\ cpu[c].noff = Cardinality({l \in Locks : lock[l] = c})
    /\ cpu[c].noff > 0 => ~cpu[c].intr

(* A system call that holds no lock can be interrupted, also after it      *)
(* slept or was preempted: sched() keeps the intena of its process across  *)
(* the swtch().                                                            *)
InterruptsBackOn ==
  \A c \in CPUs, p \in Procs :
    Runs(c, p) /\ pc[p] \in {"user", "sys", "again", "ret"} /\ state[p] = "RUNNING"
      => cpu[c].intr

(* sys_sleep() returns to a live process no earlier than after n ticks,    *)
(* also when ticks wraps around meanwhile.                                 *)
NeverEarly == \A p \in Procs : pc[p] = "ret" /\ p \notin killed => slept[p] >= n[p]

(* No lost wakeup: a process whose time has come sleeps only while         *)
(* clockintr() is still on its way to it.                                  *)
NoLostWakeup ==
  \A p \in Procs :
    state[p] = "SLEEPING" /\ SleptEnough(p) =>
      \E c \in CPUs : irq[c] = "wakeup" /\ wake[c] <= p

(* A killed process exits, asleep, waiting for a CPU or in user mode, even *)
(* if it makes no system call any more.                                    *)
KilledExits == \A p \in Procs : p \in killed ~> state[p] = "ZOMBIE"

(* Every process that can run gets a CPU. *)
RunnableRuns == \A p \in Procs : state[p] = "RUNNABLE" ~> state[p] # "RUNNABLE"

(* What every CPU relies on: it alone runs its thread, its interrupts are  *)
(* off exactly while it holds a lock or has not counted down, and sched()  *)
(* finds what it tests.                                                    *)
SchedulerSound == TypeOK /\ OneCPU /\ NoffCountsLocks /\ SchedOK
=============================================================================
