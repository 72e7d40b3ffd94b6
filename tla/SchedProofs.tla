---------------------------- MODULE SchedProofs -----------------------------
(***************************************************************************)
(* Why a process runs on one CPU at a time, why sched() and pop_off() find *)
(* what they test, and why sys_sleep() neither ends early nor sleeps on.   *)
(*                                                                         *)
(* Core is about the locks: c is in back from the swtch() to a process to  *)
(* the release of its p->lock, so scan[c] is the process that c is in      *)
(* charge of.  Times is about tickslock, the counter and the saved         *)
(* interrupt state.                                                        *)
(***************************************************************************)
EXTENDS Sched, TLAPS

(* Where a thread has a lock. *)
Inside == {"forkret", "loop", "sleep", "out", "zombie"}

(* Whenever the thread of p executes, it holds p->lock. *)
Own(p) == preempt[p] = "out" \/ (preempt[p] = "no" /\ pc[p] \in {"forkret", "out", "zombie"})

(* A CPU executes the process it is in charge of, and is alone in that. *)
Charge ==
  /\ \A c \in CPUs : on[c] # Idle => c \in back /\ scan[c] = on[c]
  /\ \A c, d \in back : scan[c] = scan[d] => c = d

(* Who holds which lock. *)
Holders ==
  /\ \A c \in CPUs, p \in Procs :
       lock[p] = c <=> c \in back /\ scan[c] = p /\ (on[c] = Idle \/ Own(p))
  /\ \A c \in CPUs :
       lock[Tick] = c <=>
         irq[c] = "wakeup" \/ (on[c] # Idle /\ pc[on[c]] \in {"loop", "sleep"})

(* noff counts the two locks that a CPU may hold. *)
Nested ==
  \A c \in CPUs :
    cpu[c].noff = (IF lock[Tick] = c THEN 1 ELSE 0) + (IF lock[scan[c]] = c THEN 1 ELSE 0)

(* Interrupts are off inside a critical section, in the handler and until  *)
(* yield() has its lock; the handler interrupted no critical section.      *)
Masked ==
  \A c \in CPUs :
    /\ cpu[c].noff > 0 => ~cpu[c].intr
    /\ irq[c] # "no" =>
         /\ ~cpu[c].intr /\ lock[scan[c]] # c
         /\ on[c] # Idle => preempt[on[c]] = "no" /\ pc[on[c]] \notin {"loop", "sleep"}
    /\ irq[c] = "wakeup" => ~cpu[c].intena
    /\ on[c] # Idle /\ preempt[on[c]] = "yield" => ~cpu[c].intr

(* Where a process stands that is not running, or is preempted. *)
Stands ==
  \A p \in Procs :
    /\ state[p] # "RUNNING" => Own(p)
    /\ state[p] = "RUNNING" => \E c \in CPUs : on[c] = p
    /\ pc[p] = "forkret" /\ (\E c \in CPUs : on[c] = p) => state[p] = "RUNNING"
    /\ preempt[p] # "no" => pc[p] \notin Inside

Core == TypeOK /\ Charge /\ Holders /\ Nested /\ Masked /\ Stands

(* The interrupts come back on at the end of what sys_sleep() does with a  *)
(* lock, on whichever CPU it ends.                                         *)
Kept ==
  /\ \A c \in CPUs, p \in Procs :
       on[c] = p /\ preempt[p] = "no" /\ pc[p] \in {"loop", "sleep", "out"} => cpu[c].intena
  /\ \A p \in Procs : pc[p] = "out" /\ (\A c \in CPUs : on[c] # p) => saved[p]

(* What the ticks counted by the model have to do with those of the code.  *)
Elapsed ==
  \A p \in Procs : InSleep(p) => slept[p] = MAXN \/ (ticks - ticks0[p]) % TICKMOD = slept[p]

(* A process goes to sleep before its time has come, and on its channel. *)
Asleep ==
  \A p \in Procs : /\ pc[p] = "sleep" => ~SleptEnough(p)
                   /\ state[p] = "SLEEPING" => pc[p] = "out" /\ p \in chan

(* wakeup() starts with the first process. *)
FromTheFirst == \A c \in CPUs : irq[c] # "wakeup" => wake[c] = 1

Times == Kept /\ InterruptsBackOn /\ Elapsed /\ NeverEarly /\ Asleep /\ FromTheFirst /\ NoLostWakeup

SInv == Core /\ Times

-----------------------------------------------------------------------------
(* Lemmas *)

(* Processes, CPUs and locks have names of their own. *)
LEMMA Names ==
  /\ \A p \in Procs : p # Idle /\ p # Tick /\ p \in Locks
  /\ \A c \in CPUs : c # Free
  /\ Tick \in Locks
BY DEF Procs, CPUs, Locks, Idle, Free, Tick

(* What a CPU has while it executes the thread of p. *)
LEMMA ThreadHas ==
  ASSUME Core, NEW c \in CPUs, NEW p \in Procs, on[c] = p
  PROVE  /\ c \in back /\ scan[c] = p
         /\ \A d \in CPUs : on[d] = p => d = c
         /\ \A d \in back : scan[d] = p => d = c
         /\ lock[p] = IF Own(p) THEN c ELSE Free
         /\ lock[Tick] = c <=> irq[c] = "wakeup" \/ pc[p] \in {"loop", "sleep"}
<1>1. c \in back /\ scan[c] = p
  BY Zenon, Names DEF Core, Charge
<1>2. \A d \in back : scan[d] = p => d = c
  BY Zenon, <1>1 DEF Core, Charge
<1>3. \A d \in CPUs : on[d] = p => d = c
  BY Zenon, <1>2, Names DEF Core, Charge
<1>4. lock[p] = IF Own(p) THEN c ELSE Free
  <2>1. lock[p] \in CPUs \cup {Free}
    BY Zenon, Names DEF Core, TypeOK
  <2>2. \A d \in CPUs : lock[p] = d <=> d \in back /\ scan[d] = p /\ (on[d] = Idle \/ Own(p))
    BY DEF Core, Holders
  <2> QED
    BY Zenon, <1>1, <1>2, <2>1, <2>2, Names
<1>5. lock[Tick] = c <=> irq[c] = "wakeup" \/ pc[p] \in {"loop", "sleep"}
  BY Zenon, Names DEF Core, Holders
<1> QED
  BY Zenon, <1>1, <1>2, <1>3, <1>4, <1>5

(* A step of the thread of p on c that leaves the other threads alone      *)
(* keeps Core if c and p end up as it says.                                *)
LEMMA ThreadStep ==
  ASSUME Core, NEW c \in CPUs, NEW p \in Procs, on[c] = p, irq[c] = "no", TypeOK',
         UNCHANGED <<schedvars, irqvars>>,
         \A q \in Procs \ {p} : /\ pc'[q] = pc[q] /\ preempt'[q] = preempt[q]
                                /\ state'[q] = state[q] /\ lock'[q] = lock[q],
         \A d \in CPUs \ {c} : cpu'[d] = cpu[d] /\ (lock'[Tick] = d <=> lock[Tick] = d),
         lock'[p] = IF Own(p)' THEN c ELSE Free,
         lock'[Tick] = c <=> pc'[p] \in {"loop", "sleep"},
         cpu'[c].noff = (IF lock'[Tick] = c THEN 1 ELSE 0) + (IF lock'[p] = c THEN 1 ELSE 0),
         cpu'[c].noff > 0 \/ preempt'[p] = "yield" => ~cpu'[c].intr,
         state'[p] # "RUNNING" => Own(p)', pc'[p] # "forkret",
         preempt'[p] # "no" => pc'[p] \notin Inside
  PROVE  Core'
<1>1. on' = on /\ scan' = scan /\ back' = back /\ irq' = irq
  BY Zenon DEF schedvars, irqvars
<1>2. /\ c \in back /\ scan[c] = p
      /\ \A d \in CPUs : on[d] = p => d = c
      /\ \A d \in back : scan[d] = p => d = c
  BY ThreadHas
<1>3. \A q \in Procs : q # p => (Own(q)' <=> Own(q))
  BY Zenon DEF Own
<1>4. Charge'
  BY <1>1 DEF Core, Charge
<1>5. Holders'
  <2>1. ASSUME NEW d \in CPUs, NEW q \in Procs
        PROVE  lock'[q] = d <=> d \in back /\ scan[d] = q /\ (on[d] = Idle \/ Own(q)')
    <3>1. CASE q = p
      BY <1>2, <3>1, Names
    <3>2. CASE q # p
      BY <1>3, <3>2 DEF Core, Holders
    <3> QED
      BY Zenon, <3>1, <3>2
  <2>2. ASSUME NEW d \in CPUs
        PROVE  lock'[Tick] = d <=>
                 irq[d] = "wakeup" \/ (on[d] # Idle /\ pc'[on[d]] \in {"loop", "sleep"})
    <3>1. CASE d = c
      BY Zenon, <3>1, Names
    <3>2. CASE d # c
      <4>1. on[d] # Idle => pc'[on[d]] = pc[on[d]]
        BY <1>2, <3>2 DEF Core, TypeOK
      <4> QED
        BY Zenon, <3>2, <4>1 DEF Core, Holders
    <3> QED
      BY Zenon, <3>1, <3>2
  <2> QED
    BY <1>1, <2>1, <2>2 DEF Holders
<1>6. Nested'
  <2>1. ASSUME NEW d \in CPUs, d # c
        PROVE  lock'[scan[d]] = d <=> lock[scan[d]] = d
    BY <1>2, <2>1, Names DEF Core, TypeOK, Holders
  <2> QED
    BY <1>1, <1>2, <2>1 DEF Core, Nested
<1>7. Masked'
  <2>1. ASSUME NEW d \in CPUs, d # c
        PROVE  /\ lock'[scan[d]] = d <=> lock[scan[d]] = d
               /\ on[d] # Idle => pc'[on[d]] = pc[on[d]] /\ preempt'[on[d]] = preempt[on[d]]
    BY <1>2, <2>1, Names DEF Core, TypeOK, Holders
  <2>2. ASSUME NEW d \in CPUs
        PROVE  /\ cpu'[d].noff > 0 => ~cpu'[d].intr
               /\ irq[d] # "no" =>
                    /\ ~cpu'[d].intr /\ lock'[scan[d]] # d
                    /\ on[d] # Idle => preempt'[on[d]] = "no" /\ pc'[on[d]] \notin {"loop", "sleep"}
               /\ irq[d] = "wakeup" => ~cpu'[d].intena
               /\ on[d] # Idle /\ preempt'[on[d]] = "yield" => ~cpu'[d].intr
    <3>1. CASE d = c
      BY Zenon, <3>1
    <3>2. CASE d # c
      BY <2>1, <3>2 DEF Core, Masked
    <3> QED
      BY Zenon, <3>1, <3>2
  <2> QED
    BY Zenon, <1>1, <2>2 DEF Masked
<1>8. Stands'
  <2>1. ASSUME NEW q \in Procs
        PROVE  /\ state'[q] # "RUNNING" => Own(q)'
               /\ state'[q] = "RUNNING" => \E d \in CPUs : on[d] = q
               /\ pc'[q] = "forkret" /\ (\E d \in CPUs : on[d] = q) => state'[q] = "RUNNING"
               /\ preempt'[q] # "no" => pc'[q] \notin Inside
    BY <1>3 DEF Core, Stands
  <2> QED
    BY <1>1, <2>1 DEF Stands
<1> QED
  BY Zenon, <1>4, <1>5, <1>6, <1>7, <1>8 DEF Core

-----------------------------------------------------------------------------
(* push_off() and pop_off() on the CPU's record *)

Record == [noff : 0..2, intena : BOOLEAN, intr : BOOLEAN]

(* push_off() counts one lock more, and turns interrupts off. *)
LEMMA Pushed ==
  ASSUME NEW k \in Record, k.noff < 2
  PROVE  /\ push_off(k) \in Record
         /\ push_off(k).noff = k.noff + 1 /\ ~push_off(k).intr
         /\ push_off(k).intena <=> IF k.noff = 0 THEN k.intr ELSE k.intena
<1>1. k.noff \in 0..2 /\ k.intena \in BOOLEAN /\ k.intr \in BOOLEAN
  BY Zenon DEF Record
<1>2. k.noff + 1 \in 0..2 /\ (IF k.noff = 0 THEN k.intr ELSE k.intena) \in BOOLEAN
  BY <1>1
<1> QED
  BY Zenon, <1>2 DEF Record, push_off

(* pop_off() counts one lock less, and turns interrupts on with the last. *)
LEMMA Popped ==
  ASSUME NEW k \in Record, k.noff > 0
  PROVE  /\ pop_off(k) \in Record
         /\ pop_off(k).noff = k.noff - 1
         /\ pop_off(k).intr <=> k.noff = 1 /\ k.intena
         /\ pop_off(k).intena = k.intena
<1>1. k.noff \in 0..2 /\ k.intena \in BOOLEAN /\ k.intr \in BOOLEAN
  BY Zenon DEF Record
<1>2. k.noff - 1 \in 0..2 /\ (k.noff = 1 /\ k.intena) \in BOOLEAN
  BY <1>1
<1> QED
  BY <1>1, <1>2, Zenon DEF Record, pop_off

(* intr_on() and intr_off() change nothing else. *)
LEMMA IntrSet ==
  ASSUME NEW k \in Record, NEW b \in BOOLEAN
  PROVE  /\ [k EXCEPT !.intr = b] \in Record
         /\ [k EXCEPT !.intr = b].noff = k.noff
         /\ [k EXCEPT !.intr = b].intena = k.intena
         /\ [k EXCEPT !.intr = b].intr = b
BY Zenon DEF Record

(* The record of a CPU has the type of one. *)
LEMMA Records == ASSUME TypeOK, NEW c \in CPUs PROVE cpu[c] \in Record
BY Zenon DEF TypeOK, Record

(* The step of a CPU that changes its own record. *)
LEMMA CpuIs ==
  ASSUME TypeOK, NEW c \in CPUs, NEW k \in Record, cpu' = [cpu EXCEPT ![c] = k]
  PROVE  /\ cpu' \in [CPUs -> Record]
         /\ cpu'[c] = k /\ \A d \in CPUs \ {c} : cpu'[d] = cpu[d]
BY Zenon DEF TypeOK, Record

(* acquire() on a CPU that holds no lock. *)
LEMMA PushStep ==
  ASSUME TypeOK, NEW c \in CPUs, cpu[c].noff = 0, cpu' = [cpu EXCEPT ![c] = push_off(cpu[c])]
  PROVE  /\ cpu' \in [CPUs -> Record] /\ \A d \in CPUs \ {c} : cpu'[d] = cpu[d]
         /\ cpu'[c].noff = 1 /\ ~cpu'[c].intr /\ (cpu'[c].intena <=> cpu[c].intr)
<1>1. PICK k \in Record : k = cpu[c]
  BY Zenon, Records
<1>2. /\ push_off(k) \in Record /\ push_off(k).noff = 1 /\ ~push_off(k).intr
      /\ push_off(k).intena <=> k.intr
  BY <1>1, Pushed
<1> QED
  BY <1>1, <1>2, CpuIs, Zenon

(* release() on a CPU that holds no other lock. *)
LEMMA PopStep ==
  ASSUME TypeOK, NEW c \in CPUs, cpu[c].noff = 1, cpu' = [cpu EXCEPT ![c] = pop_off(cpu[c])]
  PROVE  /\ cpu' \in [CPUs -> Record] /\ \A d \in CPUs \ {c} : cpu'[d] = cpu[d]
         /\ cpu'[c].noff = 0 /\ (cpu'[c].intr <=> cpu[c].intena)
<1>1. PICK k \in Record : k = cpu[c]
  BY Zenon, Records
<1>2. pop_off(k) \in Record /\ pop_off(k).noff = 0 /\ (pop_off(k).intr <=> k.intena)
  BY <1>1, Popped
<1> QED
  BY <1>1, <1>2, CpuIs, Zenon

(* release(), then sret with SPIE or intr_on(). *)
LEMMA PopOnStep ==
  ASSUME TypeOK, NEW c \in CPUs, cpu[c].noff = 1,
         cpu' = [cpu EXCEPT ![c] = [pop_off(cpu[c]) EXCEPT !.intr = TRUE]]
  PROVE  /\ cpu' \in [CPUs -> Record] /\ \A d \in CPUs \ {c} : cpu'[d] = cpu[d]
         /\ cpu'[c].noff = 0 /\ cpu'[c].intr
<1>1. PICK k \in Record : k = cpu[c]
  BY Zenon, Records
<1>2. PICK j \in Record : j = pop_off(k) /\ j.noff = 0
  BY <1>1, Popped
<1>3. PICK i \in Record : i = [j EXCEPT !.intr = TRUE] /\ i.noff = 0 /\ i.intr = TRUE
  BY <1>2, IntrSet, Zenon
<1>4. cpu' = [cpu EXCEPT ![c] = i]
  BY Zenon, <1>1, <1>2, <1>3
<1> QED
  BY <1>3, <1>4, CpuIs, Zenon

(* acquire() and the release() of the lock held before. *)
LEMMA PushPopStep ==
  ASSUME TypeOK, NEW c \in CPUs, cpu[c].noff = 1,
         cpu' = [cpu EXCEPT ![c] = pop_off(push_off(cpu[c]))]
  PROVE  /\ cpu' \in [CPUs -> Record] /\ \A d \in CPUs \ {c} : cpu'[d] = cpu[d]
         /\ cpu'[c].noff = 1 /\ ~cpu'[c].intr /\ (cpu'[c].intena <=> cpu[c].intena)
<1>1. PICK k \in Record : k = cpu[c]
  BY Zenon, Records
<1>2. PICK j \in Record : j = push_off(k) /\ j.noff = 2 /\ (j.intena <=> k.intena)
  BY <1>1, Pushed
<1>3. pop_off(j) \in Record /\ pop_off(j).noff = 1 /\ ~pop_off(j).intr /\ pop_off(j).intena = j.intena
  BY <1>2, Popped
<1>4. cpu' = [cpu EXCEPT ![c] = pop_off(j)]
  BY Zenon, <1>1, <1>2
<1> QED
  BY <1>1, <1>2, <1>3, <1>4, CpuIs, Zenon

(* acquire() in scheduler(), and the intena of the process it resumes. *)
LEMMA ResumeStep ==
  ASSUME TypeOK, NEW c \in CPUs, NEW p \in Procs, cpu[c].noff = 0,
         cpu' = [cpu EXCEPT ![c] = [push_off(cpu[c]) EXCEPT !.intena = Restored(c, p)]]
  PROVE  /\ cpu' \in [CPUs -> Record] /\ \A d \in CPUs \ {c} : cpu'[d] = cpu[d]
         /\ cpu'[c].noff = 1 /\ ~cpu'[c].intr /\ cpu'[c].intena = Restored(c, p)
<1>1. PICK k \in Record : k = cpu[c]
  BY Zenon, Records
<1>2. PICK j \in Record : j = push_off(k) /\ j.noff = 1 /\ j.intr = FALSE
  <2>1. push_off(k) \in Record /\ push_off(k).noff = 1 /\ push_off(k).intr = FALSE
    BY <1>1, Pushed DEF push_off
  <2> QED
    BY Zenon, <2>1
<1>3. Restored(c, p) \in BOOLEAN
  BY Zenon DEF Restored, TypeOK
<1>4. PICK b \in BOOLEAN : b = Restored(c, p)
  BY Zenon, <1>3
<1>5. PICK i \in Record : i = [j EXCEPT !.intena = b] /\ i.noff = 1 /\ i.intr = FALSE /\ i.intena = b
  <2>1. [j EXCEPT !.intena = b] \in Record
    BY Zenon DEF Record
  <2>2. [j EXCEPT !.intena = b].noff = 1 /\ [j EXCEPT !.intena = b].intr = FALSE
        /\ [j EXCEPT !.intena = b].intena = b
    BY Zenon, <1>2 DEF Record
  <2> QED
    BY <2>1, <2>2, Zenon
<1>6. cpu' = [cpu EXCEPT ![c] = i]
  BY Zenon, <1>1, <1>2, <1>4, <1>5
<1> QED
  BY <1>4, <1>5, <1>6, CpuIs, Zenon

(* intr_on() and intr_off(). *)
LEMMA IntrStep ==
  ASSUME TypeOK, NEW c \in CPUs, NEW b \in BOOLEAN, cpu' = [cpu EXCEPT ![c].intr = b]
  PROVE  /\ cpu' \in [CPUs -> Record] /\ \A d \in CPUs \ {c} : cpu'[d] = cpu[d]
         /\ cpu'[c].noff = cpu[c].noff /\ cpu'[c].intr = b /\ cpu'[c].intena = cpu[c].intena
<1>1. PICK k \in Record : k = cpu[c]
  BY Zenon, Records
<1>2. PICK i \in Record : i = [k EXCEPT !.intr = b] /\ i.noff = k.noff /\ i.intr = b /\ i.intena = k.intena
  BY IntrSet, Zenon
<1>3. cpu' = [cpu EXCEPT ![c] = i]
  BY Zenon, <1>1, <1>2
<1> QED
  BY <1>1, <1>2, <1>3, CpuIs, Zenon

(* The thread of p on c before a step of its own: which locks it holds     *)
(* follows from where it is.                                               *)
LEMMA ThreadAt ==
  ASSUME Core, NEW c \in CPUs, NEW p \in Procs, on[c] = p, irq[c] = "no"
  PROVE  /\ lock[p] = IF Own(p) THEN c ELSE Free
         /\ lock[Tick] = c <=> pc[p] \in {"loop", "sleep"}
         /\ cpu[c].noff = (IF pc[p] \in {"loop", "sleep"} THEN 1 ELSE 0) + (IF Own(p) THEN 1 ELSE 0)
         /\ cpu[c].noff > 0 => ~cpu[c].intr
         /\ state[p] # "RUNNING" => Own(p) /\ pc[p] # "forkret"
         /\ preempt[p] # "no" => pc[p] \notin Inside
<1>1. /\ scan[c] = p /\ lock[p] = IF Own(p) THEN c ELSE Free
      /\ lock[Tick] = c <=> pc[p] \in {"loop", "sleep"}
  BY ThreadHas
<1>2. cpu[c].noff = (IF pc[p] \in {"loop", "sleep"} THEN 1 ELSE 0) + (IF Own(p) THEN 1 ELSE 0)
  BY Zenon, <1>1, Names DEF Core, Nested
<1> QED
  BY Zenon, <1>1, <1>2 DEF Core, Masked, Stands

(* A running thread outside of the locked regions holds no lock. *)
LEMMA OutsideAt ==
  ASSUME Core, NEW c \in CPUs, NEW p \in Procs, on[c] = p, irq[c] = "no", ~Own(p),
         pc[p] \notin {"loop", "sleep"}
  PROVE  /\ lock[p] = Free /\ lock[Tick] # c /\ cpu[c].noff = 0 /\ state[p] = "RUNNING"
         /\ preempt[p] # "no" => pc[p] \notin Inside
BY ThreadAt

(* A thread in the loop of sys_sleep() holds tickslock alone. *)
LEMMA LoopAt ==
  ASSUME Core, NEW c \in CPUs, NEW p \in Procs, on[c] = p, irq[c] = "no", ~Own(p),
         pc[p] \in {"loop", "sleep"}
  PROVE  lock[p] = Free /\ lock[Tick] = c /\ cpu[c].noff = 1 /\ ~cpu[c].intr /\ state[p] = "RUNNING"
<1>1. cpu[c].noff = 1
  BY ThreadAt
<1> QED
  BY <1>1, ThreadAt

(* A thread between its swtch() and its release() holds its own lock alone. *)
LEMMA OwnAt ==
  ASSUME Core, NEW c \in CPUs, NEW p \in Procs, on[c] = p, irq[c] = "no", Own(p),
         pc[p] \notin {"loop", "sleep"}
  PROVE  lock[p] = c /\ lock[Tick] # c /\ cpu[c].noff = 1 /\ ~cpu[c].intr
<1>1. cpu[c].noff = 1
  BY ThreadAt
<1> QED
  BY <1>1, ThreadAt

-----------------------------------------------------------------------------
(* What Times says after a step of the thread of p on c that leaves the    *)
(* other threads and the clock alone.                                      *)
LEMMA ThreadTimes ==
  ASSUME Core, Core', Times, NEW c \in CPUs, NEW p \in Procs, on[c] = p, irq[c] = "no",
         UNCHANGED <<schedvars, irqvars, ticks, killed, saved>>,
         \A q \in Procs \ {p} : /\ pc'[q] = pc[q] /\ preempt'[q] = preempt[q] /\ state'[q] = state[q]
                                /\ ticks0'[q] = ticks0[q] /\ n'[q] = n[q] /\ slept'[q] = slept[q]
                                /\ q \in chan' <=> q \in chan,
         \A d \in CPUs \ {c} : cpu'[d] = cpu[d],
         preempt'[p] = "no" /\ pc'[p] \in {"loop", "sleep", "out"} => cpu'[c].intena,
         preempt'[p] = "no" /\ pc'[p] \in {"user", "sys", "again", "ret"} => cpu'[c].intr,
         InSleep(p)' => slept'[p] = MAXN \/ (ticks - ticks0'[p]) % TICKMOD = slept'[p],
         pc'[p] = "ret" /\ p \notin killed => slept'[p] >= n'[p],
         pc'[p] = "sleep" => ~SleptEnough(p)',
         state'[p] = "SLEEPING" => pc'[p] = "out" /\ p \in chan' /\ ~SleptEnough(p)'
  PROVE  Times'
<1>1. on' = on /\ irq' = irq /\ wake' = wake /\ ticks' = ticks /\ killed' = killed /\ saved' = saved
  BY Zenon DEF schedvars, irqvars
<1>2. \A d \in CPUs : on[d] = p => d = c
  BY Zenon, ThreadHas
<1>3. \A q \in Procs : q # p => (SleptEnough(q)' <=> SleptEnough(q)) /\ (InSleep(q)' <=> InSleep(q))
  BY Zenon, <1>1 DEF SleptEnough, InSleep
<1>4. Kept'
  <2>1. ASSUME NEW d \in CPUs, NEW q \in Procs, on[d] = q, preempt'[q] = "no",
               pc'[q] \in {"loop", "sleep", "out"}
        PROVE  cpu'[d].intena
    <3>1. CASE q = p
      BY Zenon, <1>2, <2>1, <3>1
    <3>2. CASE q # p
      BY <2>1, <3>2 DEF Times, Kept
    <3> QED
      BY Zenon, <3>1, <3>2
  <2>2. ASSUME NEW q \in Procs, pc'[q] = "out", \A d \in CPUs : on[d] # q
        PROVE  saved[q]
    BY Zenon, <2>2 DEF Times, Kept
  <2> QED
    BY <1>1, <2>1, <2>2 DEF Kept
<1>5. InterruptsBackOn'
  <2> SUFFICES ASSUME NEW d \in CPUs, NEW q \in Procs, on[d] = q, irq[d] = "no", preempt'[q] = "no",
                      pc'[q] \in {"user", "sys", "again", "ret"}, state'[q] = "RUNNING"
               PROVE  cpu'[d].intr
    BY Zenon, <1>1 DEF InterruptsBackOn, Runs
  <2>1. CASE q = p
    BY Zenon, <1>2, <2>1
  <2>2. CASE q # p
    BY <2>2 DEF Times, InterruptsBackOn, Runs
  <2> QED
    BY Zenon, <2>1, <2>2
<1>6. Elapsed'
  BY <1>1, <1>3 DEF Times, Elapsed
<1>7. NeverEarly'
  BY <1>1 DEF Times, NeverEarly
<1>8. Asleep'
  BY <1>3 DEF Times, Asleep
<1>9. FromTheFirst' /\ NoLostWakeup'
  BY <1>1, <1>3 DEF Times, FromTheFirst, NoLostWakeup
<1> QED
  BY Zenon, <1>4, <1>5, <1>6, <1>7, <1>8, <1>9 DEF Times

(* What Times says of the thread of p on c before a step of its own. *)
LEMMA ThreadTimely ==
  ASSUME Core, Times, NEW c \in CPUs, NEW p \in Procs, on[c] = p, irq[c] = "no"
  PROVE  /\ preempt[p] = "no" /\ pc[p] \in {"loop", "sleep", "out"} => cpu[c].intena
         /\ preempt[p] = "no" /\ pc[p] \in {"user", "sys", "again", "ret"} => cpu[c].intr
         /\ InSleep(p) => slept[p] = MAXN \/ (ticks - ticks0[p]) % TICKMOD = slept[p]
         /\ pc[p] = "ret" /\ p \notin killed => slept[p] >= n[p]
         /\ pc[p] = "sleep" => ~SleptEnough(p)
<1>1. preempt[p] = "no" /\ pc[p] \in {"user", "sys", "again", "ret"} => state[p] = "RUNNING"
  BY Zenon DEF Core, Stands, Own
<1> QED
  BY Zenon, <1>1 DEF Times, Kept, InterruptsBackOn, Runs, Elapsed, NeverEarly, Asleep

(* What Times says after a step that concerns neither the clock nor what a *)
(* process does about it.                                                  *)
LEMMA SameTimes ==
  ASSUME Times, Kept', InterruptsBackOn', UNCHANGED <<irqvars, chan, pc, clockvars>>,
         killed \subseteq killed',
         \A q \in Procs : state'[q] = "SLEEPING" => state[q] = "SLEEPING"
  PROVE  Times'
<1>1. irq' = irq /\ wake' = wake /\ ticks' = ticks /\ ticks0' = ticks0 /\ n' = n /\ slept' = slept
  BY Zenon DEF irqvars, clockvars
<1>2. \A q \in Procs : (SleptEnough(q)' <=> SleptEnough(q)) /\ (InSleep(q)' <=> InSleep(q))
  BY Zenon, <1>1 DEF SleptEnough, InSleep
<1>3. Elapsed'
  BY Zenon, <1>1, <1>2 DEF Times, Elapsed
<1>4. NeverEarly' /\ Asleep'
  BY Zenon, <1>1, <1>2 DEF Times, NeverEarly, Asleep
<1>5. FromTheFirst' /\ NoLostWakeup'
  BY Zenon, <1>1, <1>2 DEF Times, FromTheFirst, NoLostWakeup
<1> QED
  BY Zenon, <1>3, <1>4, <1>5 DEF Times

-----------------------------------------------------------------------------
(* The steps of a thread *)

(* usertrap() of a system call keeps the invariant. *)
LEMMA EcallInv ==
  ASSUME Core, Times, NEW c \in CPUs, NEW p \in Procs, Ecall(c, p)
  PROVE  Core' /\ Times'
<1>0. /\ on[c] = p /\ irq[c] = "no" /\ preempt[p] = "no" /\ pc[p] = "user"
      /\ UNCHANGED <<lock, schedvars, irqvars, state, chan, killed, preempt, saved, ticks, ticks0, slept>>
  BY Zenon DEF Ecall, Runs
<1>1. /\ \/ pc' = [pc EXCEPT ![p] = "exit"] /\ cpu' = [cpu EXCEPT ![c].intr = FALSE] /\ n' = n
         \/ pc' = [pc EXCEPT ![p] = "sys"] /\ cpu' = cpu /\ \E m \in 0..MAXN : n' = [n EXCEPT ![p] = m]
  BY Zenon DEF Ecall, Runs, Goto
<1>2. TypeOK
  BY Zenon DEF Core
<1>3. pc'[p] \in {"exit", "sys"} /\ \A q \in Procs \ {p} : pc'[q] = pc[q]
  BY <1>0, <1>1, <1>2 DEF TypeOK
<1>4. ~Own(p) /\ ~Own(p)'
  BY Zenon, <1>0, <1>1, <1>3 DEF Own
<1>5. cpu'[c].noff = cpu[c].noff /\ \A d \in CPUs \ {c} : cpu'[d] = cpu[d]
  BY <1>0, <1>1, <1>2, Records DEF TypeOK, Record
<1>6. TypeOK'
  <2>1. pc' \in [Procs -> PCs]
    BY Zenon, <1>0, <1>1, <1>2 DEF TypeOK, PCs
  <2>2. n' \in [Procs -> 0..MAXN]
    BY <1>0, <1>1, <1>2 DEF TypeOK
  <2>3. cpu' \in [CPUs -> Record]
    <3>1. CASE cpu' = cpu
      BY Zenon, <1>2, <3>1 DEF TypeOK, Record
    <3>2. CASE cpu' = [cpu EXCEPT ![c].intr = FALSE]
      BY <1>2, <3>2, IntrStep, Zenon
    <3> QED
      BY Zenon, <1>0, <1>1, <3>1, <3>2
  <2> QED
    BY Zenon, <1>0, <1>1, <1>2, <2>1, <2>2, <2>3 DEF TypeOK, schedvars, irqvars, Record
<1>7. lock[p] = Free /\ lock[Tick] # c /\ cpu[c].noff = 0 /\ state[p] = "RUNNING"
  BY Zenon, <1>0, <1>4, OutsideAt
<1>8. Core'
  <2>1. \A q \in Procs \ {p} : /\ pc'[q] = pc[q] /\ preempt'[q] = preempt[q]
                                  /\ state'[q] = state[q] /\ lock'[q] = lock[q]
    BY <1>0, <1>3, <1>4, <1>5, <1>6, <1>7, Zenon
  <2>2. \A d \in CPUs \ {c} : cpu'[d] = cpu[d] /\ (lock'[Tick] = d <=> lock[Tick] = d)
    BY <1>0, <1>3, <1>4, <1>5, <1>6, <1>7, Names, Zenon
  <2>3. /\ lock'[p] = (IF Own(p)' THEN c ELSE Free)
        /\ lock'[Tick] = c <=> pc'[p] \in {"loop", "sleep"}
    BY <1>0, <1>3, <1>4, <1>5, <1>6, <1>7, Names, Zenon
  <2>4. cpu'[c].noff = (IF lock'[Tick] = c THEN 1 ELSE 0) + (IF lock'[p] = c THEN 1 ELSE 0)
    <3>1. lock'[Tick] # c /\ lock'[p] # c
      BY <1>0, <1>5, <1>7, Names, Zenon
    <3>2. cpu'[c].noff = 0
      BY <1>0, <1>5, <1>7, Zenon
    <3> QED
      BY <3>1, <3>2
  <2>5. /\ cpu'[c].noff > 0 \/ preempt'[p] = "yield" => ~cpu'[c].intr
        /\ state'[p] # "RUNNING" => Own(p)'
        /\ pc'[p] # "forkret"
        /\ preempt'[p] # "no" => pc'[p] \notin Inside
    <3>1. cpu'[c].noff = 0
      BY <1>0, <1>5, <1>7, Zenon
    <3>2. ~(cpu'[c].noff > 0)
      BY <3>1
    <3> QED
      BY <1>0, <1>3, <1>4, <1>5, <1>6, <1>7, <3>2, Zenon
  <2> QED
    BY <1>0, <1>6, <2>1, <2>2, <2>3, <2>4, <2>5, ThreadStep, Zenon
<1>9. /\ ~InSleep(p)' /\ pc'[p] \notin {"loop", "sleep", "out", "user", "again", "ret"}
      /\ pc'[p] = "sys" => cpu'[c].intr
  <2>1. cpu[c].intr
    BY Zenon, <1>0, ThreadTimely
  <2>2. pc'[p] = "sys" => cpu' = cpu
    BY Zenon, <1>1, <1>2 DEF TypeOK
  <2> QED
    BY Zenon, <1>3, <2>1, <2>2 DEF InSleep
<1>10. \A q \in Procs \ {p} : n'[q] = n[q]
  BY Zenon, <1>0, <1>1, <1>2 DEF TypeOK
<1>11. Times'
  <2>1. UNCHANGED <<schedvars, irqvars, ticks, killed, saved, preempt, state, chan, ticks0, slept>>
    BY <1>0, Zenon
  <2> QED
    BY <1>0, <1>3, <1>5, <1>7, <1>8, <1>9, <1>10, <2>1, ThreadTimes, Zenon
<1> QED
  BY Zenon, <1>8, <1>11

(* sys_sleep() up to its loop: from here on, ticks count for the process. *)
LEMMA SleepStartInv ==
  ASSUME Core, Times, NEW c \in CPUs, NEW p \in Procs, SleepStart(c, p)
  PROVE  Core' /\ Times'
<1>0. /\ on[c] = p /\ irq[c] = "no" /\ preempt[p] = "no" /\ pc[p] = "sys"
      /\ lock[Tick] = Free
      /\ UNCHANGED <<schedvars, irqvars, state, chan, killed, preempt, saved, ticks, n>>
  BY Zenon DEF SleepStart, Runs, Acquire
<1>1. /\ lock' = [lock EXCEPT ![Tick] = c]
      /\ cpu' = [cpu EXCEPT ![c] = push_off(cpu[c])]
      /\ pc' = [pc EXCEPT ![p] = "loop"]
      /\ ticks0' = [ticks0 EXCEPT ![p] = ticks] /\ slept' = [slept EXCEPT ![p] = 0]
  BY Zenon DEF SleepStart, Runs, Goto, Acquire
<1>2. TypeOK
  BY Zenon DEF Core
<1>3. pc'[p] = "loop" /\ \A q \in Procs \ {p} : pc'[q] = pc[q]
  BY Zenon, <1>0, <1>1, <1>2 DEF TypeOK, PCs
<1>4. ~Own(p) /\ ~Own(p)'
  BY Zenon, <1>0, <1>1, <1>3 DEF Own
<1>5. lock[p] = Free /\ cpu[c].noff = 0 /\ state[p] = "RUNNING"
  BY Zenon, <1>0, <1>4, OutsideAt
<1>6. /\ cpu' \in [CPUs -> Record] /\ \A d \in CPUs \ {c} : cpu'[d] = cpu[d]
      /\ cpu'[c].noff = 1 /\ ~cpu'[c].intr
  BY <1>0, <1>1, <1>2, <1>5, PushStep, Zenon
<1>7. lock'[Tick] = c /\ \A q \in Procs : lock'[q] = lock[q]
  BY Zenon, <1>0, <1>1, <1>2, Names DEF TypeOK
<1>8. TypeOK'
  <2>1. pc' \in [Procs -> PCs] /\ lock' \in [Locks -> CPUs \cup {Free}]
    BY <1>0, <1>1, <1>2, Zenon DEF TypeOK, PCs
  <2>2. ticks0' \in [Procs -> 0..(TICKMOD - 1)] /\ slept' \in [Procs -> 0..MAXN]
    BY <1>0, <1>1, <1>2, SchedAssumption DEF TypeOK
  <2> QED
    BY Zenon, <1>0, <1>1, <1>2, <1>6, <2>1, <2>2 DEF TypeOK, schedvars, irqvars, Record
<1>9. Core'
  <2>1. \A q \in Procs \ {p} : /\ pc'[q] = pc[q] /\ preempt'[q] = preempt[q]
                                  /\ state'[q] = state[q] /\ lock'[q] = lock[q]
    BY <1>0, <1>3, <1>4, <1>5, <1>6, <1>7, <1>8, Zenon
  <2>2. \A d \in CPUs \ {c} : cpu'[d] = cpu[d] /\ (lock'[Tick] = d <=> lock[Tick] = d)
    BY <1>0, <1>3, <1>4, <1>5, <1>6, <1>7, <1>8, Names, Zenon
  <2>3. /\ lock'[p] = (IF Own(p)' THEN c ELSE Free)
        /\ lock'[Tick] = c <=> pc'[p] \in {"loop", "sleep"}
    BY <1>0, <1>3, <1>4, <1>5, <1>6, <1>7, <1>8, Names, Zenon
  <2>4. cpu'[c].noff = (IF lock'[Tick] = c THEN 1 ELSE 0) + (IF lock'[p] = c THEN 1 ELSE 0)
    <3>1. lock'[Tick] = c /\ lock'[p] # c
      BY <1>0, <1>3, <1>4, <1>5, <1>6, <1>7, <1>8, Names, Zenon
    <3>2. cpu'[c].noff = 1
      BY <1>0, <1>3, <1>4, <1>5, <1>6, <1>7, <1>8, Zenon
    <3> QED
      BY <3>1, <3>2
  <2>5. /\ cpu'[c].noff > 0 \/ preempt'[p] = "yield" => ~cpu'[c].intr
        /\ state'[p] # "RUNNING" => Own(p)'
        /\ pc'[p] # "forkret"
        /\ preempt'[p] # "no" => pc'[p] \notin Inside
    BY <1>0, <1>3, <1>4, <1>5, <1>6, <1>7, <1>8, Zenon
  <2> QED
    BY <1>0, <1>8, <2>1, <2>2, <2>3, <2>4, <2>5, ThreadStep, Zenon
<1>10. cpu'[c].intena
  BY <1>0, <1>1, <1>2, <1>5, PushStep, ThreadTimely, Zenon
<1>11. (ticks - ticks0'[p]) % TICKMOD = slept'[p]
  <2>1. ticks0'[p] = ticks /\ slept'[p] = 0 /\ ticks \in Int
    BY <1>0, <1>1, <1>2 DEF TypeOK
  <2>2. (ticks - ticks) % TICKMOD = 0
    BY <2>1, SchedAssumption
  <2> QED
    BY Zenon, <2>1, <2>2
<1>12. \A q \in Procs \ {p} : ticks0'[q] = ticks0[q] /\ slept'[q] = slept[q]
  BY Zenon, <1>0, <1>1, <1>2 DEF TypeOK
<1>13. Times'
  <2>1. UNCHANGED <<schedvars, irqvars, ticks, killed, saved, preempt, state, chan, n>>
    BY Zenon, <1>0
  <2> QED
    BY Zenon, <1>0, <1>3, <1>5, <1>6, <1>9, <1>10, <1>11, <1>12, <2>1, ThreadTimes
<1> QED
  BY Zenon, <1>9, <1>13

(* The test of the loop of sys_sleep() and its two ways out. *)
LEMMA SleepLoopInv ==
  ASSUME Core, Times, NEW c \in CPUs, NEW p \in Procs, SleepLoop(c, p)
  PROVE  Core' /\ Times'
<1>1. /\ on[c] = p /\ irq[c] = "no" /\ preempt[p] = "no" /\ pc[p] = "loop"
      /\ UNCHANGED <<schedvars, irqvars, state, chan, killed, preempt, saved, clockvars>>
  BY Zenon DEF SleepLoop, Runs
<1>2. TypeOK
  BY Zenon DEF Core
<1>3. ~Own(p)
  BY Zenon, <1>1 DEF Own
<1>4. lock[p] = Free /\ cpu[c].noff = 1 /\ state[p] = "RUNNING" /\ lock[Tick] = c /\ ~cpu[c].intr
  BY Zenon, <1>1, <1>3, LoopAt
<1>5. CASE (SleptEnough(p) \/ p \in killed)
           /\ lock' = [lock EXCEPT ![Tick] = Free] /\ cpu' = [cpu EXCEPT ![c] = pop_off(cpu[c])]
           /\ pc' = [pc EXCEPT ![p] = "ret"]
  <2>1. pc'[p] = "ret" /\ \A q \in Procs \ {p} : pc'[q] = pc[q]
    BY Zenon, <1>2, <1>5 DEF TypeOK, PCs
  <2>2. ~Own(p)'
    BY Zenon, <1>1, <2>1 DEF Own
  <2>3. /\ cpu' \in [CPUs -> Record] /\ \A d \in CPUs \ {c} : cpu'[d] = cpu[d]
        /\ cpu'[c].noff = 0
    BY <1>2, <1>4, <1>5, PopStep, Zenon
  <2>4. lock'[Tick] = Free /\ \A q \in Procs : lock'[q] = lock[q]
    BY Zenon, <1>2, <1>5, Names DEF TypeOK
  <2>5. TypeOK'
    <3>1. pc' \in [Procs -> PCs] /\ lock' \in [Locks -> CPUs \cup {Free}]
      BY <1>2, <1>5, Zenon DEF TypeOK, PCs
    <3> QED
      BY Zenon, <1>1, <1>2, <2>3, <3>1 DEF TypeOK, schedvars, irqvars, clockvars, Record
  <2>6. Core'
    <3>1. \A q \in Procs \ {p} : /\ pc'[q] = pc[q] /\ preempt'[q] = preempt[q]
                                    /\ state'[q] = state[q] /\ lock'[q] = lock[q]
      BY <1>1, <1>4, <2>1, <2>2, <2>3, <2>4, <2>5, Zenon
    <3>2. \A d \in CPUs \ {c} : cpu'[d] = cpu[d] /\ (lock'[Tick] = d <=> lock[Tick] = d)
      BY <1>1, <1>4, <2>1, <2>2, <2>3, <2>4, <2>5, Names, Zenon
    <3>3. /\ lock'[p] = (IF Own(p)' THEN c ELSE Free)
          /\ lock'[Tick] = c <=> pc'[p] \in {"loop", "sleep"}
      BY <1>1, <1>4, <2>1, <2>2, <2>3, <2>4, <2>5, Names, Zenon
    <3>4. cpu'[c].noff = (IF lock'[Tick] = c THEN 1 ELSE 0) + (IF lock'[p] = c THEN 1 ELSE 0)
      <4>1. lock'[Tick] # c /\ lock'[p] # c
        BY <1>1, <1>4, <2>1, <2>2, <2>3, <2>4, <2>5, Names, Zenon
      <4>2. cpu'[c].noff = 0
        BY <1>1, <1>4, <2>1, <2>2, <2>3, <2>4, <2>5, Zenon
      <4> QED
        BY <4>1, <4>2
    <3>5. /\ cpu'[c].noff > 0 \/ preempt'[p] = "yield" => ~cpu'[c].intr
          /\ state'[p] # "RUNNING" => Own(p)'
          /\ pc'[p] # "forkret"
          /\ preempt'[p] # "no" => pc'[p] \notin Inside
      <4>1. cpu'[c].noff = 0
        BY <1>1, <1>4, <2>1, <2>2, <2>3, <2>4, <2>5, Zenon
      <4>2. ~(cpu'[c].noff > 0)
        BY <4>1
      <4> QED
        BY <1>1, <1>4, <2>1, <2>2, <2>3, <2>4, <2>5, <4>2, Zenon
    <3> QED
      BY <1>1, <2>5, <3>1, <3>2, <3>3, <3>4, <3>5, ThreadStep, Zenon
  <2>7. cpu'[c].intr /\ ~InSleep(p)' /\ (p \notin killed => slept[p] >= n[p])
    <3>1. cpu'[c].intr
      <4>1. cpu[c].intena
        BY <1>1, ThreadTimely, Zenon
      <4> QED
        BY <1>2, <1>4, <1>5, <4>1, PopStep, Zenon
    <3>2. SleptEnough(p) => slept[p] >= n[p]
      <4>1. slept[p] = MAXN \/ (ticks - ticks0[p]) % TICKMOD = slept[p]
        BY <1>1, ThreadTimely, Zenon DEF InSleep
      <4>2. n[p] \in 0..MAXN /\ MAXN \in Nat
        BY <1>2, SchedAssumption DEF TypeOK
      <4> QED
        BY <4>1, <4>2 DEF SleptEnough
    <3> QED
      BY <1>5, <2>1, <3>1, <3>2, Zenon DEF InSleep
  <2>8. UNCHANGED <<schedvars, irqvars, ticks, killed, saved, preempt, state, chan, ticks0, n, slept>>
    BY <1>1, Zenon DEF clockvars
  <2>9. Times'
    BY <1>1, <1>4, <2>1, <2>3, <2>6, <2>7, <2>8, ThreadTimes, Zenon
  <2> QED
    BY Zenon, <2>6, <2>9
<1>6. CASE ~SleptEnough(p) /\ UNCHANGED <<lock, cpu>> /\ pc' = [pc EXCEPT ![p] = "sleep"]
  <2>1. pc'[p] = "sleep" /\ \A q \in Procs \ {p} : pc'[q] = pc[q]
    BY Zenon, <1>2, <1>6 DEF TypeOK, PCs
  <2>2. ~Own(p)'
    BY Zenon, <1>1, <2>1 DEF Own
  <2>3. TypeOK'
    <3>1. pc' \in [Procs -> PCs]
      BY Zenon, <1>2, <1>6 DEF TypeOK, PCs
    <3> QED
      BY Zenon, <1>1, <1>2, <1>6, <3>1 DEF TypeOK, schedvars, irqvars, clockvars
  <2>4. Core'
    <3>1. \A q \in Procs \ {p} : /\ pc'[q] = pc[q] /\ preempt'[q] = preempt[q]
                                    /\ state'[q] = state[q] /\ lock'[q] = lock[q]
      BY <1>1, <1>4, <1>6, <2>1, <2>2, <2>3, Zenon
    <3>2. \A d \in CPUs \ {c} : cpu'[d] = cpu[d] /\ (lock'[Tick] = d <=> lock[Tick] = d)
      BY <1>1, <1>4, <1>6, <2>1, <2>2, <2>3, Names, Zenon
    <3>3. /\ lock'[p] = (IF Own(p)' THEN c ELSE Free)
          /\ lock'[Tick] = c <=> pc'[p] \in {"loop", "sleep"}
      BY <1>1, <1>4, <1>6, <2>1, <2>2, <2>3, Names, Zenon
    <3>4. cpu'[c].noff = (IF lock'[Tick] = c THEN 1 ELSE 0) + (IF lock'[p] = c THEN 1 ELSE 0)
      <4>1. lock'[Tick] = c /\ lock'[p] # c
        BY <1>1, <1>4, <1>6, <2>1, <2>2, <2>3, Names, Zenon
      <4>2. cpu'[c].noff = 1
        BY <1>1, <1>4, <1>6, <2>1, <2>2, <2>3, Zenon
      <4> QED
        BY <4>1, <4>2
    <3>5. /\ cpu'[c].noff > 0 \/ preempt'[p] = "yield" => ~cpu'[c].intr
          /\ state'[p] # "RUNNING" => Own(p)'
          /\ pc'[p] # "forkret"
          /\ preempt'[p] # "no" => pc'[p] \notin Inside
      BY <1>1, <1>4, <1>6, <2>1, <2>2, <2>3, Zenon
    <3> QED
      BY <1>1, <2>3, <3>1, <3>2, <3>3, <3>4, <3>5, ThreadStep, Zenon
  <2>5. UNCHANGED <<cpu, schedvars, irqvars, ticks, killed, saved, preempt, state, chan, ticks0, n, slept>>
    BY <1>1, <1>6, Zenon DEF clockvars
  <2>6. /\ cpu[c].intena /\ ~SleptEnough(p)'
        /\ slept[p] = MAXN \/ (ticks - ticks0[p]) % TICKMOD = slept[p]
    BY Zenon, <1>1, <1>6, <2>5, ThreadTimely DEF InSleep, SleptEnough
  <2>7. Times'
    BY Zenon, <1>1, <1>4, <2>1, <2>4, <2>5, <2>6, ThreadTimes
  <2> QED
    BY Zenon, <2>4, <2>7
<1> QED
  BY Zenon, <1>5, <1>6 DEF SleepLoop, Release, Goto

(* The return from the system call forgets the sleep. *)
LEMMA SyscallRetInv ==
  ASSUME Core, Times, NEW c \in CPUs, NEW p \in Procs, SyscallRet(c, p)
  PROVE  Core' /\ Times'
<1>0. /\ on[c] = p /\ irq[c] = "no" /\ preempt[p] = "no" /\ pc[p] = "ret"
      /\ UNCHANGED <<lock, cpu, schedvars, irqvars, state, chan, killed, preempt, saved, ticks>>
  BY Zenon DEF SyscallRet, Runs
<1>1. /\ pc' = [pc EXCEPT ![p] = IF p \in killed THEN "exit" ELSE "user"]
      /\ ticks0' = [ticks0 EXCEPT ![p] = 0]
      /\ n' = [n EXCEPT ![p] = 0] /\ slept' = [slept EXCEPT ![p] = 0]
  BY Zenon DEF SyscallRet, Runs, Goto
<1>2. TypeOK
  BY Zenon DEF Core
<1>3. pc'[p] \in {"exit", "user"} /\ \A q \in Procs \ {p} : pc'[q] = pc[q]
  BY Zenon, <1>0, <1>1, <1>2 DEF TypeOK, PCs
<1>4. ~Own(p) /\ ~Own(p)'
  BY Zenon, <1>0, <1>1, <1>3 DEF Own
<1>5. lock[p] = Free /\ cpu[c].noff = 0 /\ state[p] = "RUNNING" /\ lock[Tick] # c
  BY Zenon, <1>0, <1>4, OutsideAt
<1>6. TypeOK'
  <2>1. pc' \in [Procs -> PCs]
    BY Zenon, <1>0, <1>1, <1>2 DEF TypeOK, PCs
  <2>2. /\ ticks0' \in [Procs -> 0..(TICKMOD - 1)]
        /\ n' \in [Procs -> 0..MAXN] /\ slept' \in [Procs -> 0..MAXN]
    BY <1>0, <1>1, <1>2, SchedAssumption DEF TypeOK
  <2> QED
    BY Zenon, <1>0, <1>1, <1>2, <2>1, <2>2 DEF TypeOK, schedvars, irqvars
<1>7. Core'
  <2>1. \A q \in Procs \ {p} : /\ pc'[q] = pc[q] /\ preempt'[q] = preempt[q]
                                  /\ state'[q] = state[q] /\ lock'[q] = lock[q]
    BY <1>0, <1>3, <1>4, <1>5, <1>6, Zenon
  <2>2. \A d \in CPUs \ {c} : cpu'[d] = cpu[d] /\ (lock'[Tick] = d <=> lock[Tick] = d)
    BY <1>0, <1>3, <1>4, <1>5, <1>6, Names, Zenon
  <2>3. /\ lock'[p] = (IF Own(p)' THEN c ELSE Free)
        /\ lock'[Tick] = c <=> pc'[p] \in {"loop", "sleep"}
    BY <1>0, <1>3, <1>4, <1>5, <1>6, Names, Zenon
  <2>4. cpu'[c].noff = (IF lock'[Tick] = c THEN 1 ELSE 0) + (IF lock'[p] = c THEN 1 ELSE 0)
    <3>1. lock'[Tick] # c /\ lock'[p] # c
      BY <1>0, <1>3, <1>4, <1>5, <1>6, Names, Zenon
    <3>2. cpu'[c].noff = 0
      BY <1>0, <1>3, <1>4, <1>5, <1>6, Zenon
    <3> QED
      BY <3>1, <3>2
  <2>5. /\ cpu'[c].noff > 0 \/ preempt'[p] = "yield" => ~cpu'[c].intr
        /\ state'[p] # "RUNNING" => Own(p)'
        /\ pc'[p] # "forkret"
        /\ preempt'[p] # "no" => pc'[p] \notin Inside
    <3>1. cpu'[c].noff = 0
      BY <1>0, <1>3, <1>4, <1>5, <1>6, Zenon
    <3>2. ~(cpu'[c].noff > 0)
      BY <3>1
    <3> QED
      BY <1>0, <1>3, <1>4, <1>5, <1>6, <3>2, Zenon
  <2> QED
    BY <1>0, <1>6, <2>1, <2>2, <2>3, <2>4, <2>5, ThreadStep, Zenon
<1>8. cpu[c].intr /\ ~InSleep(p)'
  BY <1>0, <1>3, ThreadTimely, Zenon DEF InSleep
<1>9. \A q \in Procs \ {p} : ticks0'[q] = ticks0[q] /\ n'[q] = n[q] /\ slept'[q] = slept[q]
  BY Zenon, <1>0, <1>1, <1>2 DEF TypeOK
<1>10. Times'
  <2>1. UNCHANGED <<cpu, schedvars, irqvars, ticks, killed, saved, preempt, state, chan>>
    BY Zenon, <1>0
  <2> QED
    BY <1>0, <1>3, <1>5, <1>7, <1>8, <1>9, <2>1, ThreadTimes, Zenon
<1> QED
  BY Zenon, <1>7, <1>10

(* exit() up to its sched(). *)
LEMMA ExitInv ==
  ASSUME Core, Times, NEW c \in CPUs, NEW p \in Procs, Exit(c, p)
  PROVE  Core' /\ Times'
<1>0. /\ on[c] = p /\ irq[c] = "no" /\ preempt[p] = "no" /\ pc[p] = "exit"
      /\ UNCHANGED <<schedvars, irqvars, chan, killed, preempt, saved, clockvars>>
  BY Zenon DEF Exit, Runs
<1>1. /\ lock' = [lock EXCEPT ![p] = c] /\ cpu' = [cpu EXCEPT ![c] = push_off(cpu[c])]
      /\ state' = [state EXCEPT ![p] = "ZOMBIE"] /\ pc' = [pc EXCEPT ![p] = "zombie"]
  BY Zenon DEF Exit, Runs, Goto, Acquire
<1>2. TypeOK
  BY Zenon DEF Core
<1>3. pc'[p] = "zombie" /\ \A q \in Procs \ {p} : pc'[q] = pc[q] /\ state'[q] = state[q]
  BY Zenon, <1>0, <1>1, <1>2 DEF TypeOK, PCs
<1>4. ~Own(p) /\ Own(p)'
  BY Zenon, <1>0, <1>1, <1>3 DEF Own
<1>5. cpu[c].noff = 0 /\ lock[Tick] # c
  BY Zenon, <1>0, <1>4, OutsideAt
<1>6. /\ cpu' \in [CPUs -> Record] /\ \A d \in CPUs \ {c} : cpu'[d] = cpu[d]
      /\ cpu'[c].noff = 1 /\ ~cpu'[c].intr
  BY <1>0, <1>1, <1>2, <1>5, PushStep, Zenon
<1>7. lock'[p] = c /\ lock'[Tick] = lock[Tick] /\ \A q \in Procs \ {p} : lock'[q] = lock[q]
  BY Zenon, <1>0, <1>1, <1>2, Names DEF TypeOK
<1>8. TypeOK'
  <2>1. /\ pc' \in [Procs -> PCs] /\ lock' \in [Locks -> CPUs \cup {Free}]
        /\ state' \in [Procs -> States]
    BY <1>0, <1>1, <1>2, Zenon DEF TypeOK, PCs, States
  <2> QED
    BY Zenon, <1>0, <1>1, <1>2, <1>6, <2>1 DEF TypeOK, schedvars, irqvars, clockvars, Record
<1>9. Core'
  <2>1. \A q \in Procs \ {p} : /\ pc'[q] = pc[q] /\ preempt'[q] = preempt[q]
                                  /\ state'[q] = state[q] /\ lock'[q] = lock[q]
    BY <1>0, <1>3, <1>4, <1>5, <1>6, <1>7, <1>8, Zenon
  <2>2. \A d \in CPUs \ {c} : cpu'[d] = cpu[d] /\ (lock'[Tick] = d <=> lock[Tick] = d)
    BY <1>0, <1>3, <1>4, <1>5, <1>6, <1>7, <1>8, Names, Zenon
  <2>3. /\ lock'[p] = (IF Own(p)' THEN c ELSE Free)
        /\ lock'[Tick] = c <=> pc'[p] \in {"loop", "sleep"}
    BY <1>0, <1>3, <1>4, <1>5, <1>6, <1>7, <1>8, Names, Zenon
  <2>4. cpu'[c].noff = (IF lock'[Tick] = c THEN 1 ELSE 0) + (IF lock'[p] = c THEN 1 ELSE 0)
    <3>1. lock'[Tick] # c /\ lock'[p] = c
      BY <1>0, <1>3, <1>4, <1>5, <1>6, <1>7, <1>8, Names, Zenon
    <3>2. cpu'[c].noff = 1
      BY <1>0, <1>3, <1>4, <1>5, <1>6, <1>7, <1>8, Zenon
    <3> QED
      BY <3>1, <3>2
  <2>5. /\ cpu'[c].noff > 0 \/ preempt'[p] = "yield" => ~cpu'[c].intr
        /\ state'[p] # "RUNNING" => Own(p)'
        /\ pc'[p] # "forkret"
        /\ preempt'[p] # "no" => pc'[p] \notin Inside
    BY <1>0, <1>3, <1>4, <1>5, <1>6, <1>7, <1>8, Zenon
  <2> QED
    BY <1>0, <1>8, <2>1, <2>2, <2>3, <2>4, <2>5, ThreadStep, Zenon
<1>10. state'[p] = "ZOMBIE" /\ ~InSleep(p)'
  BY Zenon, <1>0, <1>1, <1>2, <1>3 DEF TypeOK, InSleep
<1>11. Times'
  <2>1. UNCHANGED <<schedvars, irqvars, ticks, killed, saved, preempt, chan, ticks0, n, slept>>
    BY Zenon, <1>0 DEF clockvars
  <2> QED
    BY <1>0, <1>3, <1>6, <1>9, <1>10, <2>1, ThreadTimes, Zenon
<1> QED
  BY Zenon, <1>9, <1>11

(* sleep() up to its sched(): tickslock goes only once p->lock is held. *)
LEMMA SleepInv ==
  ASSUME Core, Times, NEW c \in CPUs, NEW p \in Procs, Sleep(c, p)
  PROVE  Core' /\ Times'
<1>0. /\ on[c] = p /\ irq[c] = "no" /\ preempt[p] = "no" /\ pc[p] = "sleep"
      /\ UNCHANGED <<schedvars, irqvars, killed, preempt, saved, clockvars>>
  BY Zenon DEF Sleep, Runs
<1>1. /\ lock' = [lock EXCEPT ![p] = c, ![Tick] = Free]
      /\ cpu' = [cpu EXCEPT ![c] = pop_off(push_off(cpu[c]))]
      /\ state' = [state EXCEPT ![p] = "SLEEPING"] /\ pc' = [pc EXCEPT ![p] = "out"]
      /\ chan' = chan \cup {p}
  BY Zenon DEF Sleep, Runs, Goto
<1>2. TypeOK
  BY Zenon DEF Core
<1>3. pc'[p] = "out" /\ \A q \in Procs \ {p} : pc'[q] = pc[q] /\ state'[q] = state[q]
  BY Zenon, <1>0, <1>1, <1>2 DEF TypeOK, PCs
<1>4. ~Own(p) /\ Own(p)'
  BY Zenon, <1>0, <1>1, <1>3 DEF Own
<1>5. cpu[c].noff = 1 /\ lock[Tick] = c
  BY Zenon, <1>0, <1>4, LoopAt
<1>6. /\ cpu' \in [CPUs -> Record] /\ \A d \in CPUs \ {c} : cpu'[d] = cpu[d]
      /\ cpu'[c].noff = 1 /\ ~cpu'[c].intr
  BY <1>0, <1>1, <1>2, <1>5, PushPopStep, Zenon
<1>7. lock'[p] = c /\ lock'[Tick] = Free /\ \A q \in Procs \ {p} : lock'[q] = lock[q]
  BY Zenon, <1>0, <1>1, <1>2, Names DEF TypeOK
<1>8. TypeOK'
  <2>1. /\ pc' \in [Procs -> PCs] /\ lock' \in [Locks -> CPUs \cup {Free}]
        /\ state' \in [Procs -> States] /\ chan' \in SUBSET Procs
    BY <1>0, <1>1, <1>2, Zenon DEF TypeOK, PCs, States
  <2> QED
    BY <1>0, <1>1, <1>2, <1>6, <2>1, Zenon DEF TypeOK, schedvars, irqvars, clockvars, Record
<1>9. /\ lock'[Tick] # c /\ \A d \in CPUs \ {c} : lock'[Tick] = d <=> lock[Tick] = d
      /\ cpu'[c].noff = (IF lock'[Tick] = c THEN 1 ELSE 0) + (IF lock'[p] = c THEN 1 ELSE 0)
  BY <1>5, <1>6, <1>7, Names
<1>10. on[c] = p /\ irq[c] = "no" /\ preempt'[p] = "no" /\ UNCHANGED <<schedvars, irqvars, preempt>>
  BY Zenon, <1>0
<1>11. Core'
  BY <1>3, <1>4, <1>6, <1>7, <1>8, <1>9, <1>10, ThreadStep, Zenon
<1>12. /\ cpu'[c].intena /\ ~SleptEnough(p)' /\ p \in chan'
       /\ slept[p] = MAXN \/ (ticks - ticks0[p]) % TICKMOD = slept[p]
  <2>1. /\ cpu[c].intena /\ ~SleptEnough(p)
        /\ slept[p] = MAXN \/ (ticks - ticks0[p]) % TICKMOD = slept[p]
    BY Zenon, <1>0, ThreadTimely DEF InSleep
  <2>2. cpu'[c].intena
    BY <1>0, <1>1, <1>2, <1>5, <2>1, PushPopStep, Zenon
  <2> QED
    BY <1>0, <1>1, <2>1, <2>2, Zenon DEF SleptEnough, clockvars
<1>13. Times'
  <2>1. UNCHANGED <<schedvars, irqvars, ticks, killed, saved, preempt, ticks0, n, slept>>
    BY Zenon, <1>0 DEF clockvars
  <2>2. \A q \in Procs \ {p} : q \in chan' <=> q \in chan
    BY Zenon, <1>1
  <2> QED
    BY <1>3, <1>6, <1>10, <1>11, <1>12, <2>1, <2>2, ThreadTimes, Zenon
<1> QED
  BY Zenon, <1>11, <1>13

(* sleep() after its sched(). *)
LEMMA SleepTidyInv ==
  ASSUME Core, Times, NEW c \in CPUs, NEW p \in Procs, SleepTidy(c, p)
  PROVE  Core' /\ Times'
<1>0. /\ on[c] = p /\ irq[c] = "no" /\ preempt[p] = "no" /\ pc[p] = "out" /\ state[p] = "RUNNING"
      /\ UNCHANGED <<schedvars, irqvars, state, killed, preempt, saved, clockvars>>
  BY Zenon DEF SleepTidy, Runs
<1>1. /\ lock' = [lock EXCEPT ![p] = Free] /\ cpu' = [cpu EXCEPT ![c] = pop_off(cpu[c])]
      /\ pc' = [pc EXCEPT ![p] = "again"] /\ chan' = chan \ {p}
  BY Zenon DEF SleepTidy, Runs, Goto, Release
<1>2. TypeOK
  BY Zenon DEF Core
<1>3. pc'[p] = "again" /\ \A q \in Procs \ {p} : pc'[q] = pc[q]
  BY Zenon, <1>0, <1>1, <1>2 DEF TypeOK, PCs
<1>4. Own(p) /\ ~Own(p)'
  BY Zenon, <1>0, <1>1, <1>3 DEF Own
<1>5. cpu[c].noff = 1 /\ lock[Tick] # c
  BY Zenon, <1>0, <1>4, OwnAt
<1>6. /\ cpu' \in [CPUs -> Record] /\ \A d \in CPUs \ {c} : cpu'[d] = cpu[d]
      /\ cpu'[c].noff = 0
  BY <1>0, <1>1, <1>2, <1>5, PopStep, Zenon
<1>7. lock'[p] = Free /\ lock'[Tick] = lock[Tick] /\ \A q \in Procs \ {p} : lock'[q] = lock[q]
  BY Zenon, <1>0, <1>1, <1>2, Names DEF TypeOK
<1>8. TypeOK'
  <2>1. /\ pc' \in [Procs -> PCs] /\ lock' \in [Locks -> CPUs \cup {Free}]
        /\ chan' \in SUBSET Procs
    BY <1>0, <1>1, <1>2, Zenon DEF TypeOK, PCs
  <2> QED
    BY <1>0, <1>1, <1>2, <1>6, <2>1, Zenon DEF TypeOK, schedvars, irqvars, clockvars, Record
<1>9. Core'
  <2>1. \A q \in Procs \ {p} : /\ pc'[q] = pc[q] /\ preempt'[q] = preempt[q]
                                /\ state'[q] = state[q] /\ lock'[q] = lock[q]
    BY <1>0, <1>3, <1>6, <1>7, Zenon
  <2>2. \A d \in CPUs \ {c} : cpu'[d] = cpu[d] /\ (lock'[Tick] = d <=> lock[Tick] = d)
    BY <1>0, <1>6, <1>7, Names, Zenon
  <2>3. /\ lock'[p] = (IF Own(p)' THEN c ELSE Free)
        /\ lock'[Tick] = c <=> pc'[p] \in {"loop", "sleep"}
    BY <1>0, <1>3, <1>4, <1>5, <1>6, <1>7, Names, Zenon
  <2>4. cpu'[c].noff = (IF lock'[Tick] = c THEN 1 ELSE 0) + (IF lock'[p] = c THEN 1 ELSE 0)
    <3>1. lock'[Tick] # c /\ lock'[p] # c
      BY <1>5, <1>6, <1>7, Names, Zenon
    <3>2. cpu'[c].noff = 0
      BY <1>5, <1>6, <1>7, Zenon
    <3> QED
      BY <3>1, <3>2
  <2>5. /\ cpu'[c].noff > 0 \/ preempt'[p] = "yield" => ~cpu'[c].intr
        /\ state'[p] # "RUNNING" => Own(p)'
        /\ pc'[p] # "forkret"
        /\ preempt'[p] # "no" => pc'[p] \notin Inside
    <3>1. cpu'[c].noff = 0
      BY <1>5, <1>6, <1>7, Zenon
    <3>2. ~(cpu'[c].noff > 0)
      BY <3>1
    <3> QED
      BY <1>0, <1>3, <1>4, <1>5, <1>6, <1>7, <3>2, Zenon
  <2> QED
    BY <1>0, <1>8, <2>1, <2>2, <2>3, <2>4, <2>5, ThreadStep, Zenon
<1>10. /\ cpu'[c].intr /\ state'[p] = "RUNNING"
       /\ slept[p] = MAXN \/ (ticks - ticks0[p]) % TICKMOD = slept[p]
  <2>1. cpu[c].intena /\ (slept[p] = MAXN \/ (ticks - ticks0[p]) % TICKMOD = slept[p])
    BY <1>0, ThreadTimely, Zenon DEF InSleep
  <2> QED
    BY <1>0, <1>1, <1>2, <1>5, <2>1, PopStep, Zenon
<1>11. Times'
  <2>1. UNCHANGED <<schedvars, irqvars, ticks, killed, saved, preempt, state, ticks0, n, slept>>
    BY <1>0, Zenon DEF clockvars
  <2>2. \A q \in Procs \ {p} : q \in chan' <=> q \in chan
    BY Zenon, <1>1
  <2> QED
    BY <1>0, <1>3, <1>6, <1>9, <1>10, <2>1, <2>2, ThreadTimes, Zenon
<1> QED
  BY Zenon, <1>9, <1>11

(* sleep() takes tickslock again. *)
LEMMA SleepReacquireInv ==
  ASSUME Core, Times, NEW c \in CPUs, NEW p \in Procs, SleepReacquire(c, p)
  PROVE  Core' /\ Times'
<1>0. /\ on[c] = p /\ irq[c] = "no" /\ preempt[p] = "no" /\ pc[p] = "again"
      /\ lock[Tick] = Free
      /\ UNCHANGED <<schedvars, irqvars, state, chan, killed, preempt, saved, clockvars>>
  BY Zenon DEF SleepReacquire, Runs, Acquire
<1>1. /\ lock' = [lock EXCEPT ![Tick] = c]
      /\ cpu' = [cpu EXCEPT ![c] = push_off(cpu[c])]
      /\ pc' = [pc EXCEPT ![p] = "loop"]
  BY Zenon DEF SleepReacquire, Runs, Goto, Acquire
<1>2. TypeOK
  BY Zenon DEF Core
<1>3. pc'[p] = "loop" /\ \A q \in Procs \ {p} : pc'[q] = pc[q]
  BY Zenon, <1>0, <1>1, <1>2 DEF TypeOK, PCs
<1>4. ~Own(p) /\ ~Own(p)'
  BY Zenon, <1>0, <1>1, <1>3 DEF Own
<1>5. lock[p] = Free /\ cpu[c].noff = 0 /\ state[p] = "RUNNING"
  BY Zenon, <1>0, <1>4, OutsideAt
<1>6. /\ cpu' \in [CPUs -> Record] /\ \A d \in CPUs \ {c} : cpu'[d] = cpu[d]
      /\ cpu'[c].noff = 1 /\ ~cpu'[c].intr
  BY <1>0, <1>1, <1>2, <1>5, PushStep, Zenon
<1>7. lock'[Tick] = c /\ \A q \in Procs : lock'[q] = lock[q]
  BY Zenon, <1>0, <1>1, <1>2, Names DEF TypeOK
<1>8. TypeOK'
  <2>1. pc' \in [Procs -> PCs] /\ lock' \in [Locks -> CPUs \cup {Free}]
    BY <1>0, <1>1, <1>2, Zenon DEF TypeOK, PCs
  <2> QED
    BY <1>0, <1>1, <1>2, <1>6, <2>1, Zenon DEF TypeOK, schedvars, irqvars, clockvars, Record
<1>9. Core'
  <2>1. \A q \in Procs \ {p} : /\ pc'[q] = pc[q] /\ preempt'[q] = preempt[q]
                                /\ state'[q] = state[q] /\ lock'[q] = lock[q]
    BY <1>0, <1>3, <1>6, <1>7, Zenon
  <2>2. \A d \in CPUs \ {c} : cpu'[d] = cpu[d] /\ (lock'[Tick] = d <=> lock[Tick] = d)
    BY <1>0, <1>6, <1>7, Names, Zenon
  <2>3. /\ lock'[p] = (IF Own(p)' THEN c ELSE Free)
        /\ lock'[Tick] = c <=> pc'[p] \in {"loop", "sleep"}
    BY <1>0, <1>3, <1>4, <1>5, <1>6, <1>7, Names, Zenon
  <2>4. cpu'[c].noff = (IF lock'[Tick] = c THEN 1 ELSE 0) + (IF lock'[p] = c THEN 1 ELSE 0)
    <3>1. lock'[Tick] = c /\ lock'[p] # c
      BY <1>5, <1>6, <1>7, Names, Zenon
    <3>2. cpu'[c].noff = 1
      BY <1>5, <1>6, <1>7, Zenon
    <3> QED
      BY <3>1, <3>2
  <2>5. /\ cpu'[c].noff > 0 \/ preempt'[p] = "yield" => ~cpu'[c].intr
        /\ state'[p] # "RUNNING" => Own(p)'
        /\ pc'[p] # "forkret"
        /\ preempt'[p] # "no" => pc'[p] \notin Inside
    BY <1>0, <1>3, <1>4, <1>5, <1>6, <1>7, Zenon
  <2> QED
    BY <1>0, <1>8, <2>1, <2>2, <2>3, <2>4, <2>5, ThreadStep, Zenon
<1>10. /\ cpu'[c].intena
       /\ slept[p] = MAXN \/ (ticks - ticks0[p]) % TICKMOD = slept[p]
  <2>1. cpu[c].intr /\ (slept[p] = MAXN \/ (ticks - ticks0[p]) % TICKMOD = slept[p])
    BY <1>0, ThreadTimely, Zenon DEF InSleep
  <2> QED
    BY <1>0, <1>1, <1>2, <1>5, <2>1, PushStep, Zenon
<1>11. Times'
  <2>1. UNCHANGED <<schedvars, irqvars, ticks, killed, saved, preempt, state, chan, ticks0, n, slept>>
    BY <1>0, Zenon DEF clockvars
  <2> QED
    BY <1>0, <1>3, <1>5, <1>6, <1>9, <1>10, <2>1, ThreadTimes, Zenon
<1> QED
  BY Zenon, <1>9, <1>11

(* yield() up to its sched(). *)
LEMMA YieldInv ==
  ASSUME Core, Times, NEW c \in CPUs, NEW p \in Procs, Yield(c, p)
  PROVE  Core' /\ Times'
<1>0. /\ on[c] = p /\ preempt[p] = "yield"
      /\ UNCHANGED <<schedvars, irqvars, chan, killed, pc, saved, clockvars>>
  BY Zenon DEF Yield
<1>1. /\ lock' = [lock EXCEPT ![p] = c] /\ cpu' = [cpu EXCEPT ![c] = push_off(cpu[c])]
      /\ state' = [state EXCEPT ![p] = "RUNNABLE"] /\ preempt' = [preempt EXCEPT ![p] = "out"]
  BY Zenon DEF Yield, Acquire
<1>2. TypeOK
  BY Zenon DEF Core
<1>3. preempt'[p] = "out" /\ \A q \in Procs \ {p} : preempt'[q] = preempt[q] /\ state'[q] = state[q]
  BY Zenon, <1>0, <1>1, <1>2 DEF TypeOK
<1>4. ~Own(p) /\ Own(p)' /\ irq[c] = "no"
  BY Zenon, <1>0, <1>1, <1>3, Names DEF Own, Core, Masked
<1>5. /\ cpu[c].noff = 0 /\ lock[Tick] # c
      /\ pc[p] \notin Inside
  <2>1. pc[p] \notin Inside
    BY <1>0, <1>4, ThreadAt, Zenon
  <2>2. pc[p] \notin {"loop", "sleep"}
    BY <2>1, Zenon DEF Inside
  <2> QED
    BY <1>0, <1>4, <2>1, <2>2, OutsideAt, Zenon
<1>6. /\ cpu' \in [CPUs -> Record] /\ \A d \in CPUs \ {c} : cpu'[d] = cpu[d]
      /\ cpu'[c].noff = 1 /\ ~cpu'[c].intr
  BY <1>0, <1>1, <1>2, <1>5, PushStep, Zenon
<1>7. lock'[p] = c /\ lock'[Tick] = lock[Tick] /\ \A q \in Procs \ {p} : lock'[q] = lock[q]
  BY Zenon, <1>0, <1>1, <1>2, Names DEF TypeOK
<1>8. TypeOK'
  <2>1. /\ preempt' \in [Procs -> {"no", "yield", "out"}] /\ lock' \in [Locks -> CPUs \cup {Free}]
        /\ state' \in [Procs -> States]
    BY <1>0, <1>1, <1>2, Zenon DEF TypeOK, States
  <2> QED
    BY <1>0, <1>1, <1>2, <1>6, <2>1, Zenon DEF TypeOK, schedvars, irqvars, clockvars, Record
<1>9. Core'
  <2>1. \A q \in Procs \ {p} : /\ pc'[q] = pc[q] /\ preempt'[q] = preempt[q]
                                /\ state'[q] = state[q] /\ lock'[q] = lock[q]
    BY <1>0, <1>3, <1>6, <1>7, Zenon
  <2>2. \A d \in CPUs \ {c} : cpu'[d] = cpu[d] /\ (lock'[Tick] = d <=> lock[Tick] = d)
    BY <1>0, <1>6, <1>7, Names, Zenon
  <2>3. /\ lock'[p] = (IF Own(p)' THEN c ELSE Free)
        /\ lock'[Tick] = c <=> pc'[p] \in {"loop", "sleep"}
    BY <1>0, <1>3, <1>4, <1>5, <1>6, <1>7, Names, Zenon DEF Inside
  <2>4. cpu'[c].noff = (IF lock'[Tick] = c THEN 1 ELSE 0) + (IF lock'[p] = c THEN 1 ELSE 0)
    <3>1. lock'[Tick] # c /\ lock'[p] = c
      BY <1>5, <1>6, <1>7, Names, Zenon
    <3>2. cpu'[c].noff = 1
      BY <1>5, <1>6, <1>7, Zenon
    <3> QED
      BY <3>1, <3>2
  <2>5. /\ cpu'[c].noff > 0 \/ preempt'[p] = "yield" => ~cpu'[c].intr
        /\ state'[p] # "RUNNING" => Own(p)'
        /\ pc'[p] # "forkret"
        /\ preempt'[p] # "no" => pc'[p] \notin Inside
    BY <1>0, <1>3, <1>4, <1>5, <1>6, <1>7, Zenon DEF Inside
  <2> QED
    BY <1>0, <1>4, <1>8, <2>1, <2>2, <2>3, <2>4, <2>5, ThreadStep, Zenon
<1>10. /\ state'[p] = "RUNNABLE" /\ pc'[p] # "sleep"
       /\ InSleep(p)' => slept[p] = MAXN \/ (ticks - ticks0[p]) % TICKMOD = slept[p]
       /\ pc'[p] = "ret" /\ p \notin killed => slept[p] >= n[p]
  <2>1. state'[p] = "RUNNABLE"
    BY Zenon, <1>1, <1>2 DEF TypeOK
  <2> QED
    BY <1>0, <1>4, <1>5, <2>1, ThreadTimely, Zenon DEF InSleep, Inside
<1>11. Times'
  <2>1. UNCHANGED <<schedvars, irqvars, ticks, killed, saved, pc, chan, ticks0, n, slept>>
    BY Zenon, <1>0 DEF clockvars
  <2> QED
    BY <1>0, <1>3, <1>4, <1>6, <1>9, <1>10, <2>1, ThreadTimes, Zenon
<1> QED
  BY Zenon, <1>9, <1>11

(* yield() after its sched(). *)
LEMMA YieldRetInv ==
  ASSUME Core, Times, NEW c \in CPUs, NEW p \in Procs, YieldRet(c, p)
  PROVE  Core' /\ Times'
<1>0. /\ on[c] = p /\ preempt[p] = "out" /\ state[p] = "RUNNING"
      /\ UNCHANGED <<schedvars, irqvars, state, chan, killed, pc, saved, clockvars>>
  BY Zenon DEF YieldRet
<1>1. /\ lock' = [lock EXCEPT ![p] = Free]
      /\ cpu' = [cpu EXCEPT ![c] = [pop_off(cpu[c]) EXCEPT !.intr = TRUE]]
      /\ preempt' = [preempt EXCEPT ![p] = "no"]
  BY Zenon DEF YieldRet
<1>2. TypeOK
  BY Zenon DEF Core
<1>3. preempt'[p] = "no" /\ \A q \in Procs \ {p} : preempt'[q] = preempt[q]
  BY Zenon, <1>0, <1>1, <1>2 DEF TypeOK
<1>4. Own(p) /\ irq[c] = "no"
  BY Zenon, <1>0, <1>1, Names DEF Own, Core, Masked
<1>5. /\ cpu[c].noff = 1 /\ lock[Tick] # c
      /\ pc[p] \notin Inside
  <2>1. pc[p] \notin Inside
    BY <1>0, <1>4, ThreadAt, Zenon
  <2>2. pc[p] \notin {"loop", "sleep"}
    BY <2>1, Zenon DEF Inside
  <2> QED
    BY Zenon, <1>0, <1>4, <2>1, <2>2, OwnAt
<1>6. ~Own(p)'
  BY Zenon, <1>0, <1>1, <1>3, <1>5 DEF Own, Inside
<1>7. /\ cpu' \in [CPUs -> Record] /\ \A d \in CPUs \ {c} : cpu'[d] = cpu[d]
      /\ cpu'[c].noff = 0
  BY <1>0, <1>1, <1>2, <1>5, PopOnStep, Zenon
<1>8. lock'[p] = Free /\ lock'[Tick] = lock[Tick] /\ \A q \in Procs \ {p} : lock'[q] = lock[q]
  BY Zenon, <1>0, <1>1, <1>2, Names DEF TypeOK
<1>9. TypeOK'
  <2>1. preempt' \in [Procs -> {"no", "yield", "out"}] /\ lock' \in [Locks -> CPUs \cup {Free}]
    BY <1>0, <1>1, <1>2, Zenon DEF TypeOK
  <2> QED
    BY Zenon, <1>0, <1>1, <1>2, <1>7, <2>1 DEF TypeOK, schedvars, irqvars, clockvars, Record
<1>10. Core'
  <2>1. \A q \in Procs \ {p} : /\ pc'[q] = pc[q] /\ preempt'[q] = preempt[q]
                                  /\ state'[q] = state[q] /\ lock'[q] = lock[q]
    BY <1>0, <1>3, <1>4, <1>5, <1>6, <1>7, <1>8, <1>9, Zenon
  <2>2. \A d \in CPUs \ {c} : cpu'[d] = cpu[d] /\ (lock'[Tick] = d <=> lock[Tick] = d)
    BY <1>0, <1>3, <1>4, <1>5, <1>6, <1>7, <1>8, <1>9, Names, Zenon
  <2>3. /\ lock'[p] = (IF Own(p)' THEN c ELSE Free)
        /\ lock'[Tick] = c <=> pc'[p] \in {"loop", "sleep"}
    BY <1>0, <1>3, <1>4, <1>5, <1>6, <1>7, <1>8, <1>9, Names, Zenon DEF Inside
  <2>4. cpu'[c].noff = (IF lock'[Tick] = c THEN 1 ELSE 0) + (IF lock'[p] = c THEN 1 ELSE 0)
    <3>1. lock'[Tick] # c /\ lock'[p] # c
      BY <1>0, <1>3, <1>4, <1>5, <1>6, <1>7, <1>8, <1>9, Names, Zenon
    <3>2. cpu'[c].noff = 0
      BY <1>0, <1>3, <1>4, <1>5, <1>6, <1>7, <1>8, <1>9, Zenon
    <3> QED
      BY <3>1, <3>2
  <2>5. /\ cpu'[c].noff > 0 \/ preempt'[p] = "yield" => ~cpu'[c].intr
        /\ state'[p] # "RUNNING" => Own(p)'
        /\ pc'[p] # "forkret"
        /\ preempt'[p] # "no" => pc'[p] \notin Inside
    <3>1. cpu'[c].noff = 0
      BY <1>0, <1>3, <1>4, <1>5, <1>6, <1>7, <1>8, <1>9, Zenon
    <3>2. ~(cpu'[c].noff > 0)
      BY <3>1
    <3> QED
      BY <1>0, <1>3, <1>4, <1>5, <1>6, <1>7, <1>8, <1>9, <3>2, Zenon DEF Inside
  <2> QED
    BY <1>0, <1>4, <1>9, <2>1, <2>2, <2>3, <2>4, <2>5, ThreadStep, Zenon
<1>11. /\ cpu'[c].intr /\ pc'[p] \notin {"loop", "sleep", "out"}
       /\ InSleep(p)' => slept[p] = MAXN \/ (ticks - ticks0[p]) % TICKMOD = slept[p]
       /\ pc'[p] = "ret" /\ p \notin killed => slept[p] >= n[p]
  <2>1. cpu'[c].intr
    BY <1>0, <1>1, <1>2, <1>5, PopOnStep, Zenon
  <2> QED
    BY <1>0, <1>4, <1>5, <2>1, ThreadTimely, Zenon DEF InSleep, Inside
<1>12. Times'
  <2>1. UNCHANGED <<schedvars, irqvars, ticks, killed, saved, pc, state, chan, ticks0, n, slept>>
    BY <1>0, Zenon DEF clockvars
  <2> QED
    BY <1>0, <1>3, <1>4, <1>7, <1>10, <1>11, <2>1, ThreadTimes, Zenon
<1> QED
  BY Zenon, <1>10, <1>12

(* The first steps of a process. *)
LEMMA ForkretInv ==
  ASSUME Core, Times, NEW c \in CPUs, NEW p \in Procs, Forkret(c, p)
  PROVE  Core' /\ Times'
<1>0. /\ on[c] = p /\ irq[c] = "no" /\ preempt[p] = "no" /\ pc[p] = "forkret"
      /\ UNCHANGED <<schedvars, irqvars, state, chan, killed, preempt, saved, clockvars>>
  BY Zenon DEF Forkret, Runs
<1>1. /\ lock' = [lock EXCEPT ![p] = Free]
      /\ cpu' = [cpu EXCEPT ![c] = [pop_off(cpu[c]) EXCEPT !.intr = TRUE]]
      /\ pc' = [pc EXCEPT ![p] = "user"]
  BY Zenon DEF Forkret, Runs, Goto
<1>2. TypeOK
  BY Zenon DEF Core
<1>3. pc'[p] = "user" /\ \A q \in Procs \ {p} : pc'[q] = pc[q]
  BY Zenon, <1>0, <1>1, <1>2 DEF TypeOK, PCs
<1>4. Own(p) /\ ~Own(p)'
  BY Zenon, <1>0, <1>1, <1>3 DEF Own
<1>5. cpu[c].noff = 1 /\ lock[Tick] # c /\ state[p] = "RUNNING"
  <2>1. pc[p] \notin {"loop", "sleep"}
    BY <1>0, Zenon
  <2>2. state[p] = "RUNNING"
    BY Zenon, <1>0 DEF Core, Stands
  <2> QED
    BY Zenon, <1>0, <1>4, <2>1, <2>2, OwnAt
<1>6. /\ cpu' \in [CPUs -> Record] /\ \A d \in CPUs \ {c} : cpu'[d] = cpu[d]
      /\ cpu'[c].noff = 0
  BY <1>0, <1>1, <1>2, <1>5, PopOnStep, Zenon
<1>7. lock'[p] = Free /\ lock'[Tick] = lock[Tick] /\ \A q \in Procs \ {p} : lock'[q] = lock[q]
  BY Zenon, <1>0, <1>1, <1>2, Names DEF TypeOK
<1>8. TypeOK'
  <2>1. pc' \in [Procs -> PCs] /\ lock' \in [Locks -> CPUs \cup {Free}]
    BY <1>0, <1>1, <1>2, Zenon DEF TypeOK, PCs
  <2> QED
    BY Zenon, <1>0, <1>1, <1>2, <1>6, <2>1 DEF TypeOK, schedvars, irqvars, clockvars, Record
<1>9. Core'
  <2>1. \A q \in Procs \ {p} : /\ pc'[q] = pc[q] /\ preempt'[q] = preempt[q]
                                /\ state'[q] = state[q] /\ lock'[q] = lock[q]
    BY <1>0, <1>3, <1>6, <1>7, Zenon
  <2>2. \A d \in CPUs \ {c} : cpu'[d] = cpu[d] /\ (lock'[Tick] = d <=> lock[Tick] = d)
    BY <1>0, <1>6, <1>7, Names, Zenon
  <2>3. /\ lock'[p] = (IF Own(p)' THEN c ELSE Free)
        /\ lock'[Tick] = c <=> pc'[p] \in {"loop", "sleep"}
    BY <1>0, <1>3, <1>4, <1>5, <1>6, <1>7, Names, Zenon
  <2>4. cpu'[c].noff = (IF lock'[Tick] = c THEN 1 ELSE 0) + (IF lock'[p] = c THEN 1 ELSE 0)
    <3>1. lock'[Tick] # c /\ lock'[p] # c
      BY <1>5, <1>6, <1>7, Names, Zenon
    <3>2. cpu'[c].noff = 0
      BY <1>5, <1>6, <1>7, Zenon
    <3> QED
      BY <3>1, <3>2
  <2>5. /\ cpu'[c].noff > 0 \/ preempt'[p] = "yield" => ~cpu'[c].intr
        /\ state'[p] # "RUNNING" => Own(p)'
        /\ pc'[p] # "forkret"
        /\ preempt'[p] # "no" => pc'[p] \notin Inside
    <3>1. cpu'[c].noff = 0
      BY <1>5, <1>6, <1>7, Zenon
    <3>2. ~(cpu'[c].noff > 0)
      BY <3>1
    <3> QED
      BY <1>0, <1>3, <1>4, <1>5, <1>6, <1>7, <3>2, Zenon
  <2> QED
    BY <1>0, <1>8, <2>1, <2>2, <2>3, <2>4, <2>5, ThreadStep, Zenon
<1>10. cpu'[c].intr /\ ~InSleep(p)'
  BY <1>0, <1>1, <1>2, <1>3, <1>5, PopOnStep, Zenon DEF InSleep
<1>11. Times'
  <2>1. UNCHANGED <<schedvars, irqvars, ticks, killed, saved, preempt, state, chan, ticks0, n, slept>>
    BY <1>0, Zenon DEF clockvars
  <2> QED
    BY <1>0, <1>3, <1>5, <1>6, <1>9, <1>10, <2>1, ThreadTimes, Zenon
<1> QED
  BY Zenon, <1>9, <1>11

-----------------------------------------------------------------------------
(* Steps that meet no p->lock in their CPU's hands: the timer interrupt,   *)
(* and kill() from user mode.                                              *)

(* A CPU that can be interrupted, or is. *)
LEMMA Interrupted ==
  ASSUME Core, NEW c \in CPUs, cpu[c].intr \/ irq[c] # "no"
  PROVE  /\ lock[scan[c]] # c
         /\ on[c] # Idle => pc[on[c]] \notin Inside /\ preempt[on[c]] = "no"
         /\ lock[Tick] = c <=> irq[c] = "wakeup"
         /\ cpu[c].noff = IF lock[Tick] = c THEN 1 ELSE 0
<1>1. lock[scan[c]] # c /\ (irq[c] = "no" => lock[Tick] # c)
  <2>1. cpu[c].noff = (IF lock[Tick] = c THEN 1 ELSE 0) + (IF lock[scan[c]] = c THEN 1 ELSE 0)
    BY Zenon DEF Core, Nested
  <2>2. CASE irq[c] # "no"
    BY Zenon, <2>2 DEF Core, Masked
  <2>3. CASE irq[c] = "no"
    <3>1. ~(cpu[c].noff > 0)
      BY Zenon, <2>3 DEF Core, Masked
    <3> QED
      BY <2>1, <2>3, <3>1
  <2> QED
    BY Zenon, <2>2, <2>3
<1>2. cpu[c].noff = IF lock[Tick] = c THEN 1 ELSE 0
  BY <1>1 DEF Core, Nested
<1>3. ASSUME on[c] # Idle
      PROVE  pc[on[c]] \notin Inside /\ preempt[on[c]] = "no"
  <2>1. PICK p \in Procs : p = on[c]
    BY Zenon, <1>3 DEF Core, TypeOK
  <2>2. ~Own(p)
    BY <1>1, <2>1, ThreadHas
  <2>3. pc[p] \notin {"loop", "sleep"} /\ preempt[p] # "yield"
    BY Zenon, <1>1, <1>3, <2>1, ThreadHas DEF Core, Masked
  <2>4. preempt[p] \in {"no", "yield", "out"}
    BY Zenon DEF Core, TypeOK
  <2> QED
    BY Zenon, <2>1, <2>2, <2>3, <2>4 DEF Own, Inside
<1>4. lock[Tick] = c <=> irq[c] = "wakeup"
  BY <1>3, Zenon DEF Core, Holders, Inside
<1> QED
  BY Zenon, <1>1, <1>2, <1>3, <1>4

(* What a step of the handler on c does to the locks and the threads. *)
HandlerMove(c) ==
  /\ TypeOK' /\ UNCHANGED schedvars
  /\ lock[scan[c]] # c
  /\ on[c] # Idle => pc[on[c]] \notin Inside /\ preempt[on[c]] = "no"
  /\ \A q \in Procs : lock'[q] = lock[q] /\ (state'[q] = "RUNNING" <=> state[q] = "RUNNING")
  /\ \A q \in Procs : q # on[c] => pc'[q] = pc[q] /\ preempt'[q] = preempt[q]
  /\ \A d \in CPUs \ {c} : cpu'[d] = cpu[d] /\ irq'[d] = irq[d] /\ (lock'[Tick] = d <=> lock[Tick] = d)
  /\ lock'[Tick] = c <=> irq'[c] = "wakeup"
  /\ cpu'[c].noff = IF lock'[Tick] = c THEN 1 ELSE 0
  /\ cpu'[c].intr => cpu'[c].noff = 0 /\ irq'[c] = "no"
  /\ irq'[c] = "wakeup" => ~cpu'[c].intena
  /\ on[c] # Idle => /\ pc'[on[c]] \notin Inside
                     /\ \/ preempt'[on[c]] = "no"
                        \/ preempt'[on[c]] = "yield" /\ irq'[c] = "no" /\ ~cpu'[c].intr

(* A step of the handler on c, or one that concerns no lock, keeps Core. *)
LEMMA HandlerStep ==
  ASSUME Core, NEW c \in CPUs, HandlerMove(c)
  PROVE  Core'
<1>1. on' = on /\ scan' = scan /\ back' = back /\ TypeOK'
  BY Zenon DEF HandlerMove, schedvars
<1>2. \A q \in Procs : lock'[q] = lock[q] /\ (state'[q] = "RUNNING" <=> state[q] = "RUNNING")
  BY Zenon DEF HandlerMove
<1>3. \A q \in Procs : q # on[c] => pc'[q] = pc[q] /\ preempt'[q] = preempt[q]
  BY Zenon DEF HandlerMove
<1>4. \A d \in CPUs : d # c => cpu'[d] = cpu[d] /\ irq'[d] = irq[d] /\ (lock'[Tick] = d <=> lock[Tick] = d)
  BY Zenon DEF HandlerMove
<1>5. /\ lock'[Tick] = c <=> irq'[c] = "wakeup"
      /\ cpu'[c].noff = IF lock'[Tick] = c THEN 1 ELSE 0
      /\ cpu'[c].intr => cpu'[c].noff = 0 /\ irq'[c] = "no"
      /\ irq'[c] = "wakeup" => ~cpu'[c].intena
      /\ lock[scan[c]] # c
  BY Zenon DEF HandlerMove
<1>6. on[c] # Idle => /\ pc'[on[c]] \notin Inside /\ pc[on[c]] \notin Inside /\ preempt[on[c]] = "no"
                      /\ \/ preempt'[on[c]] = "no"
                         \/ preempt'[on[c]] = "yield" /\ irq'[c] = "no" /\ ~cpu'[c].intr
  BY Zenon DEF HandlerMove
<1>7. \A q \in Procs : Own(q)' <=> Own(q)
  <2> SUFFICES ASSUME NEW q \in Procs PROVE Own(q)' <=> Own(q)
    OBVIOUS
  <2>1. CASE q = on[c]
    BY Zenon, <1>6, <2>1, Names DEF Own, Inside
  <2>2. CASE q # on[c]
    BY Zenon, <1>3, <2>2 DEF Own
  <2> QED
    BY Zenon, <2>1, <2>2
<1>8. \A d \in CPUs : d # c /\ on[d] # Idle =>
        pc'[on[d]] = pc[on[d]] /\ preempt'[on[d]] = preempt[on[d]]
  <2> SUFFICES ASSUME NEW d \in CPUs, d # c, on[d] # Idle
               PROVE  pc'[on[d]] = pc[on[d]] /\ preempt'[on[d]] = preempt[on[d]]
    OBVIOUS
  <2>1. PICK r \in Procs : r = on[d]
    BY Zenon DEF Core, TypeOK
  <2>2. r # on[c]
    BY Zenon, <2>1, ThreadHas
  <2> QED
    BY Zenon, <1>3, <2>1, <2>2
<1>9. Charge'
  BY Zenon, <1>1 DEF Core, Charge
<1>10. Holders'
  <2>1. \A d \in CPUs, q \in Procs :
          lock'[q] = d <=> d \in back /\ scan[d] = q /\ (on[d] = Idle \/ Own(q)')
    BY <1>2, <1>7 DEF Core, Holders
  <2>2. ASSUME NEW d \in CPUs
        PROVE  lock'[Tick] = d <=>
                 irq'[d] = "wakeup" \/ (on[d] # Idle /\ pc'[on[d]] \in {"loop", "sleep"})
    <3>1. CASE d = c
      BY Zenon, <1>5, <1>6, <3>1 DEF Inside
    <3>2. CASE d # c
      <4>1. lock[Tick] = d <=> irq[d] = "wakeup" \/ (on[d] # Idle /\ pc[on[d]] \in {"loop", "sleep"})
        BY Zenon DEF Core, Holders
      <4> QED
        BY Zenon, <1>4, <1>8, <3>2, <4>1
    <3> QED
      BY Zenon, <3>1, <3>2
  <2> QED
    BY Zenon, <1>1, <2>1, <2>2 DEF Holders
<1>11. \A d \in CPUs : lock'[scan[d]] = lock[scan[d]]
  BY Zenon, <1>2 DEF Core, TypeOK
<1>12. Nested'
  <2> SUFFICES ASSUME NEW d \in CPUs
               PROVE  cpu'[d].noff = (IF lock'[Tick] = d THEN 1 ELSE 0)
                                       + (IF lock'[scan[d]] = d THEN 1 ELSE 0)
    BY Zenon, <1>1 DEF Nested
  <2>1. CASE d = c
    BY <1>5, <1>11, <2>1
  <2>2. CASE d # c
    BY <1>4, <1>11, <2>2 DEF Core, Nested
  <2> QED
    BY Zenon, <2>1, <2>2
<1>13. Masked'
  <2> SUFFICES ASSUME NEW d \in CPUs
      PROVE  /\ cpu'[d].noff > 0 => ~cpu'[d].intr
             /\ irq'[d] # "no" =>
                  /\ ~cpu'[d].intr /\ lock'[scan[d]] # d
                  /\ on[d] # Idle => preempt'[on[d]] = "no" /\ pc'[on[d]] \notin {"loop", "sleep"}
             /\ irq'[d] = "wakeup" => ~cpu'[d].intena
             /\ on[d] # Idle /\ preempt'[on[d]] = "yield" => ~cpu'[d].intr
    BY Zenon, <1>1 DEF Masked
  <2>1. CASE d = c
    BY <1>5, <1>6, <1>11, <2>1 DEF Inside
  <2>2. CASE d # c
    BY <1>4, <1>8, <1>11, <2>2 DEF Core, Masked
  <2> QED
    BY Zenon, <2>1, <2>2
<1>14. Stands'
  <2> SUFFICES ASSUME NEW q \in Procs
      PROVE  /\ state'[q] # "RUNNING" => Own(q)'
             /\ state'[q] = "RUNNING" => \E d \in CPUs : on[d] = q
             /\ pc'[q] = "forkret" /\ (\E d \in CPUs : on[d] = q) => state'[q] = "RUNNING"
             /\ preempt'[q] # "no" => pc'[q] \notin Inside
    BY Zenon, <1>1 DEF Stands
  <2>1. /\ state[q] # "RUNNING" => Own(q)
        /\ state[q] = "RUNNING" => \E d \in CPUs : on[d] = q
        /\ pc[q] = "forkret" /\ (\E d \in CPUs : on[d] = q) => state[q] = "RUNNING"
        /\ preempt[q] # "no" => pc[q] \notin Inside
    BY Zenon DEF Core, Stands
  <2>2. CASE q = on[c]
    BY Zenon, <1>2, <1>6, <1>7, <2>1, <2>2, Names DEF Inside
  <2>3. CASE q # on[c]
    BY Zenon, <1>2, <1>3, <1>7, <2>1, <2>3
  <2> QED
    BY Zenon, <2>2, <2>3
<1> QED
  BY Zenon, <1>1, <1>9, <1>10, <1>12, <1>13, <1>14 DEF Core

(* The interrupts that are to come back on, at a step of the handler on c. *)
LEMMA HandlerKept ==
  ASSUME Core, Times, NEW c \in CPUs, UNCHANGED <<on, saved>>,
         \A q \in Procs : state'[q] = "RUNNING" <=> state[q] = "RUNNING",
         \A q \in Procs : q # on[c] => pc'[q] = pc[q] /\ preempt'[q] = preempt[q],
         \A d \in CPUs \ {c} : cpu'[d] = cpu[d] /\ irq'[d] = irq[d],
         on[c] # Idle => /\ pc'[on[c]] \notin Inside
                         /\ irq'[c] # "no" \/ preempt'[on[c]] # "no" \/ pc'[on[c]] = "exit"
  PROVE  Kept' /\ InterruptsBackOn'
<1>1. \A d \in CPUs, q \in Procs : d # c /\ on[d] = q => pc'[q] = pc[q] /\ preempt'[q] = preempt[q]
  BY ThreadHas
<1>2. Kept'
  <2>1. ASSUME NEW d \in CPUs, NEW q \in Procs, on[d] = q, preempt'[q] = "no",
               pc'[q] \in {"loop", "sleep", "out"}
        PROVE  cpu'[d].intena
    <3>1. d # c
      BY Zenon, <2>1, Names DEF Inside
    <3> QED
      BY <1>1, <2>1, <3>1 DEF Times, Kept
  <2>2. ASSUME NEW q \in Procs, pc'[q] = "out", \A d \in CPUs : on[d] # q
        PROVE  saved[q]
    BY <2>2 DEF Times, Kept
  <2> QED
    BY Zenon, <2>1, <2>2 DEF Kept
<1>3. InterruptsBackOn'
  <2> SUFFICES ASSUME NEW d \in CPUs, NEW q \in Procs, on[d] = q, irq'[d] = "no", preempt'[q] = "no",
                      pc'[q] \in {"user", "sys", "again", "ret"}, state'[q] = "RUNNING"
               PROVE  cpu'[d].intr
    BY Zenon DEF InterruptsBackOn, Runs
  <2>1. d # c
    BY Zenon, Names
  <2> QED
    BY <1>1, <2>1 DEF Times, InterruptsBackOn, Runs
<1> QED
  BY Zenon, <1>2, <1>3

(* The rest of Times at the ends of the handler, which concern neither the *)
(* clock nor wakeup().                                                     *)
LEMMA HandlerTimes ==
  ASSUME Core, Times, NEW c \in CPUs, Kept', InterruptsBackOn',
         UNCHANGED <<schedvars, wake, state, chan, killed, clockvars>>,
         irq[c] # "wakeup", irq'[c] # "wakeup", \A d \in CPUs \ {c} : irq'[d] = irq[d],
         on[c] # Idle => pc[on[c]] \notin Inside,
         \A q \in Procs : pc'[q] = pc[q] \/ (q = on[c] /\ pc'[q] = "exit")
  PROVE  Times'
<1>1. /\ wake' = wake /\ ticks' = ticks /\ ticks0' = ticks0 /\ n' = n /\ slept' = slept
      /\ state' = state /\ chan' = chan /\ killed' = killed
  BY Zenon DEF clockvars
<1>2. \A q \in Procs : (SleptEnough(q)' <=> SleptEnough(q)) /\ (InSleep(q)' => InSleep(q))
  BY Zenon, <1>1 DEF SleptEnough, InSleep
<1>3. Elapsed'
  BY Zenon, <1>1, <1>2 DEF Times, Elapsed
<1>4. NeverEarly'
  BY Zenon, <1>1 DEF Times, NeverEarly
<1>5. Asleep'
  <2>1. \A q \in Procs : pc'[q] = "sleep" => pc[q] = "sleep"
    OBVIOUS
  <2>2. \A q \in Procs : pc[q] = "out" => pc'[q] = "out"
    BY Zenon, Names DEF Inside
  <2> QED
    BY <1>1, <1>2, <2>1, <2>2, Zenon DEF Times, Asleep
<1>6. FromTheFirst' /\ NoLostWakeup'
  BY Zenon, <1>1, <1>2 DEF Times, FromTheFirst, NoLostWakeup
<1> QED
  BY Zenon, <1>3, <1>4, <1>5, <1>6 DEF Times

(* kill(): a sleeping victim becomes runnable, whatever it waits for. *)
LEMMA KillInv ==
  ASSUME Core, Times, NEW c \in CPUs, NEW p \in Procs, NEW q \in Procs, Kill(c, p, q)
  PROVE  Core' /\ Times'
<1>1. /\ on[c] = p /\ irq[c] = "no" /\ preempt[p] = "no" /\ pc[p] = "user"
      /\ killed' = killed \cup {q}
      /\ state' = [state EXCEPT ![q] = IF state[q] = "SLEEPING" THEN "RUNNABLE" ELSE state[q]]
      /\ UNCHANGED <<lock, cpu, schedvars, irqvars, chan, pc, preempt, saved, clockvars>>
  BY Zenon DEF Kill, Runs
<1>2. TypeOK
  BY Zenon DEF Core
<1>3. ~Own(p) /\ pc[p] \notin Inside /\ p # Idle
  BY <1>1, Names, Zenon DEF Own, Inside
<1>4. lock[scan[c]] # c /\ lock[Tick] # c /\ cpu[c].noff = 0
  <2>1. lock[p] = Free /\ lock[Tick] # c /\ cpu[c].noff = 0
    BY Zenon, <1>1, <1>3, OutsideAt
  <2>2. scan[c] = p
    BY <1>1, ThreadHas, Zenon
  <2> QED
    BY <2>1, <2>2, Names, Zenon
<1>5. \A r \in Procs : state'[r] = "RUNNING" <=> state[r] = "RUNNING"
  BY Zenon, <1>1, <1>2 DEF TypeOK
<1>6. TypeOK'
  <2>1. state' \in [Procs -> States] /\ killed' \in SUBSET Procs
    BY Zenon, <1>1, <1>2 DEF TypeOK, States
  <2> QED
    BY <1>1, <1>2, <2>1, Zenon DEF TypeOK, schedvars, irqvars, clockvars
<1>7. /\ irq'[c] = "no" /\ lock' = lock /\ cpu' = cpu /\ irq' = irq /\ pc' = pc /\ preempt' = preempt
      /\ UNCHANGED schedvars
  BY <1>1, Zenon DEF irqvars
<1>8. Core'
  BY Zenon, <1>1, <1>3, <1>4, <1>5, <1>6, <1>7, HandlerStep DEF HandlerMove
<1>9. Kept' /\ InterruptsBackOn'
  <2>1. on' = on /\ saved' = saved
    BY Zenon, <1>1 DEF schedvars
  <2>2. Kept'
    BY Zenon, <1>7, <2>1 DEF Times, Kept
  <2>3. InterruptsBackOn'
    BY Zenon, <1>5, <1>7, <2>1 DEF Times, InterruptsBackOn, Runs
  <2> QED
    BY Zenon, <2>2, <2>3
<1>10. \A r \in Procs : state'[r] = "SLEEPING" => state[r] = "SLEEPING"
  BY Zenon, <1>1, <1>2 DEF TypeOK
<1>11. Times'
  BY <1>1, <1>9, <1>10, SameTimes, Zenon
<1> QED
  BY Zenon, <1>8, <1>11

(* The timer interrupt comes. *)
LEMMA TimerInv ==
  ASSUME Core, Times, NEW c \in CPUs, Timer(c)
  PROVE  Core' /\ Times'
<1>1. /\ cpu[c].intr /\ irq[c] = "no" /\ cpu' = [cpu EXCEPT ![c].intr = FALSE]
      /\ irq' = [irq EXCEPT ![c] = IF c = Boot THEN "clock" ELSE "done"]
      /\ UNCHANGED <<lock, schedvars, wake, state, chan, killed, pc, preempt, saved, clockvars>>
  BY Zenon DEF Timer
<1>2. TypeOK
  BY Zenon DEF Core
<1>3. /\ lock[scan[c]] # c /\ lock[Tick] # c /\ cpu[c].noff = 0
      /\ on[c] # Idle => pc[on[c]] \notin Inside /\ preempt[on[c]] = "no"
  BY Zenon, <1>1, Interrupted
<1>4. /\ cpu' \in [CPUs -> Record] /\ \A d \in CPUs \ {c} : cpu'[d] = cpu[d]
      /\ cpu'[c].noff = 0 /\ ~cpu'[c].intr
  BY <1>1, <1>2, <1>3, IntrStep, Zenon
<1>5. irq'[c] \in {"clock", "done"} /\ \A d \in CPUs \ {c} : irq'[d] = irq[d]
  BY Zenon, <1>1, <1>2 DEF TypeOK
<1>6. TypeOK'
  <2>1. irq' \in [CPUs -> IrqSteps]
    BY Zenon, <1>1, <1>2 DEF TypeOK, IrqSteps
  <2> QED
    BY Zenon, <1>1, <1>2, <1>4, <2>1 DEF TypeOK, schedvars, clockvars, Record
<1>7. lock' = lock /\ pc' = pc /\ preempt' = preempt /\ state' = state /\ UNCHANGED schedvars
  BY Zenon, <1>1
<1>8. Core'
  BY Zenon, <1>3, <1>4, <1>5, <1>6, <1>7, HandlerStep DEF HandlerMove
<1>9. Kept' /\ InterruptsBackOn'
  BY <1>1, <1>3, <1>4, <1>5, <1>7, HandlerKept DEF schedvars
<1>10. Times'
  BY Zenon, <1>1, <1>3, <1>5, <1>7, <1>9, HandlerTimes
<1> QED
  BY Zenon, <1>8, <1>10

(* The difference of the counters grows by one with the counter, across a  *)
(* wrap of either.                                                         *)
LEMMA OneTickMore ==
  ASSUME NEW t \in 0..(TICKMOD - 1), NEW t0 \in 0..(TICKMOD - 1), NEW s \in 0..MAXN, s < MAXN,
         (t - t0) % TICKMOD = s
  PROVE  (((t + 1) % TICKMOD) - t0) % TICKMOD = s + 1
<1>1. TICKMOD \in Nat /\ TICKMOD > 0 /\ MAXN \in Nat /\ MAXN < TICKMOD
  BY SchedAssumption
<1>2. /\ \A a \in 0..(TICKMOD - 1) : a % TICKMOD = a
      /\ \A a \in (-TICKMOD)..(-1) : a % TICKMOD = a + TICKMOD
      /\ TICKMOD % TICKMOD = 0
  BY <1>1
<1>3. s = IF t >= t0 THEN t - t0 ELSE t - t0 + TICKMOD
  BY <1>1, <1>2
<1>4. (t + 1) % TICKMOD = IF t + 1 = TICKMOD THEN 0 ELSE t + 1
  BY <1>1, <1>2
<1>5. CASE t + 1 = TICKMOD
  <2>1. (0 - t0) % TICKMOD = IF t0 = 0 THEN 0 ELSE TICKMOD - t0
    BY <1>1, <1>2
  <2> QED
    BY <1>1, <1>3, <1>4, <1>5, <2>1
<1>6. CASE t + 1 # TICKMOD
  <2>1. (t + 1 - t0) % TICKMOD = IF t + 1 >= t0 THEN t + 1 - t0 ELSE t + 1 - t0 + TICKMOD
    BY <1>1, <1>2, <1>6
  <2> QED
    BY <1>1, <1>3, <1>4, <1>6, <2>1
<1> QED
  BY Zenon, <1>5, <1>6

(* clockintr() up to its wakeup() *)
LEMMA ClockInv ==
  ASSUME Core, Times, NEW c \in CPUs, Clock(c)
  PROVE  Core' /\ Times'
<1>1. /\ irq[c] = "clock" /\ lock[Tick] = Free /\ lock' = [lock EXCEPT ![Tick] = c]
      /\ cpu' = [cpu EXCEPT ![c] = push_off(cpu[c])]
      /\ ticks' = NextTick
      /\ slept' = [p \in Procs |-> IF InSleep(p) /\ slept[p] < MAXN THEN slept[p] + 1 ELSE slept[p]]
      /\ irq' = [irq EXCEPT ![c] = "wakeup"]
      /\ UNCHANGED <<schedvars, wake, state, chan, killed, pc, preempt, saved, ticks0, n>>
  BY Zenon DEF Clock, Acquire
<1>2. TypeOK
  BY Zenon DEF Core
<1>3. /\ lock[scan[c]] # c /\ cpu[c].noff = 0 /\ ~cpu[c].intr
      /\ on[c] # Idle => pc[on[c]] \notin Inside /\ preempt[on[c]] = "no"
  BY <1>1, Interrupted, Names, Zenon DEF Core, Masked
<1>4. /\ cpu' \in [CPUs -> Record] /\ \A d \in CPUs \ {c} : cpu'[d] = cpu[d]
      /\ cpu'[c].noff = 1 /\ ~cpu'[c].intr /\ ~cpu'[c].intena
  BY <1>1, <1>2, <1>3, PushStep, Zenon
<1>5. irq'[c] = "wakeup" /\ \A d \in CPUs \ {c} : irq'[d] = irq[d]
  BY Zenon, <1>1, <1>2 DEF TypeOK
<1>6. lock'[Tick] = c /\ \A q \in Procs : lock'[q] = lock[q]
  BY Zenon, <1>1, <1>2, Names DEF TypeOK
<1>7. TypeOK'
  <2>1. irq' \in [CPUs -> IrqSteps] /\ lock' \in [Locks -> CPUs \cup {Free}]
    BY <1>1, <1>2, Zenon DEF TypeOK, IrqSteps
  <2>2. slept' \in [Procs -> 0..MAXN]
    BY <1>1, <1>2, SchedAssumption DEF TypeOK
  <2>3. ticks' \in 0..(TICKMOD - 1)
    BY <1>1, <1>2, SchedAssumption DEF TypeOK, NextTick
  <2> QED
    BY <1>1, <1>2, <1>4, <2>1, <2>2, <2>3, Zenon DEF TypeOK, schedvars, Record
<1>8. pc' = pc /\ preempt' = preempt /\ state' = state /\ UNCHANGED schedvars
  BY Zenon, <1>1
<1>9. \A d \in CPUs \ {c} : lock'[Tick] = d <=> lock[Tick] = d
  BY Zenon, <1>1, <1>6, Names
<1>10. Core'
  BY <1>3, <1>4, <1>5, <1>6, <1>7, <1>8, <1>9, HandlerStep, Zenon DEF HandlerMove
<1>11. Kept' /\ InterruptsBackOn'
  BY <1>1, <1>3, <1>4, <1>5, <1>8, HandlerKept, Zenon DEF schedvars
<1>12. Elapsed'
  <2> SUFFICES ASSUME NEW p \in Procs, InSleep(p)
               PROVE  slept'[p] = MAXN \/ (ticks' - ticks0[p]) % TICKMOD = slept'[p]
    BY <1>1, Zenon DEF Elapsed, InSleep
  <2>1. PICK t \in 0..(TICKMOD - 1), t0 \in 0..(TICKMOD - 1), s \in 0..MAXN :
          t = ticks /\ t0 = ticks0[p] /\ s = slept[p]
    BY Zenon, <1>2 DEF TypeOK
  <2>2. s = MAXN \/ (t - t0) % TICKMOD = s
    BY <2>1, Zenon DEF Times, Elapsed
  <2>3. slept'[p] = (IF s < MAXN THEN s + 1 ELSE s) /\ ticks' = (t + 1) % TICKMOD
    BY <1>1, <2>1, Zenon DEF NextTick
  <2>4. s < MAXN => (((t + 1) % TICKMOD) - t0) % TICKMOD = s + 1
    BY <2>2, OneTickMore
  <2>5. CASE s < MAXN
    BY <2>1, <2>3, <2>4, <2>5, Zenon
  <2>6. CASE s = MAXN
    BY <2>3, <2>6, SchedAssumption
  <2> QED
    BY <2>5, <2>6, SchedAssumption
<1>13. \A p \in Procs : pc[p] # "sleep"
  <2> SUFFICES ASSUME NEW p \in Procs, pc[p] = "sleep" PROVE FALSE
    OBVIOUS
  <2>1. ~Own(p)
    BY Zenon DEF Core, Stands, Own, Inside
  <2>2. PICK d \in CPUs : on[d] = p
    BY Zenon, <2>1 DEF Core, Stands
  <2>3. lock[Tick] = d
    BY Zenon, <2>2, Names DEF Core, Holders
  <2> QED
    BY Zenon, <1>1, <2>3, Names
<1>14. Asleep' /\ FromTheFirst'
  <2>1. Asleep'
    BY <1>1, <1>13, Zenon DEF Times, Asleep
  <2>2. FromTheFirst'
    BY Zenon, <1>1, <1>5 DEF Times, FromTheFirst
  <2> QED
    BY Zenon, <2>1, <2>2
<1>15. NeverEarly'
  <2> SUFFICES ASSUME NEW p \in Procs, pc[p] = "ret", p \notin killed
               PROVE  slept'[p] >= n[p]
    BY Zenon, <1>1 DEF NeverEarly
  <2>1. slept'[p] = slept[p]
    BY Zenon, <1>1 DEF InSleep
  <2> QED
    BY <2>1, Zenon DEF Times, NeverEarly
<1>16. NoLostWakeup'
  <2>1. wake'[c] = 1 /\ \A p \in Procs : 1 <= p
    BY <1>1 DEF Times, FromTheFirst, Procs
  <2> QED
    BY Zenon, <1>5, <2>1 DEF NoLostWakeup
<1>17. Times'
  BY Zenon, <1>11, <1>12, <1>14, <1>15, <1>16 DEF Times
<1> QED
  BY Zenon, <1>10, <1>17

(* The rest of Times at a turn of wakeup(): those it has passed are awake. *)
LEMMA WakeupTimes ==
  ASSUME Core, Times, NEW c \in CPUs, Kept', InterruptsBackOn', FromTheFirst',
         UNCHANGED <<chan, killed, pc, clockvars>>,
         \A r \in Procs : state'[r] = "SLEEPING" => state[r] = "SLEEPING" /\ r # wake[c],
         \A d \in CPUs : d # c => irq'[d] = irq[d] /\ wake'[d] = wake[d],
         \A r \in Procs : wake[c] <= r /\ r # wake[c] => irq'[c] = "wakeup" /\ wake'[c] <= r
  PROVE  Times'
<1>1. /\ ticks' = ticks /\ ticks0' = ticks0 /\ n' = n /\ slept' = slept
      /\ chan' = chan /\ killed' = killed /\ pc' = pc
  BY Zenon DEF clockvars
<1>2. \A q \in Procs : (SleptEnough(q)' <=> SleptEnough(q)) /\ (InSleep(q)' <=> InSleep(q))
  BY Zenon, <1>1 DEF SleptEnough, InSleep
<1>3. Elapsed'
  BY <1>1, <1>2, Zenon DEF Times, Elapsed
<1>4. NeverEarly' /\ Asleep'
  BY Zenon, <1>1, <1>2 DEF Times, NeverEarly, Asleep
<1>5. NoLostWakeup'
  <2> SUFFICES ASSUME NEW q \in Procs, state'[q] = "SLEEPING", SleptEnough(q)
               PROVE  \E d \in CPUs : irq'[d] = "wakeup" /\ wake'[d] <= q
    BY <1>2, Zenon DEF NoLostWakeup
  <2>1. PICK d \in CPUs : irq[d] = "wakeup" /\ wake[d] <= q
    BY Zenon DEF Times, NoLostWakeup
  <2> QED
    BY Zenon, <2>1
<1> QED
  BY Zenon, <1>3, <1>4, <1>5 DEF Times

(* A turn of wakeup(), and the end of clockintr() after the last one *)
LEMMA WakeupInv ==
  ASSUME Core, Times, NEW c \in CPUs, Wakeup(c)
  PROVE  Core' /\ Times'
<1> DEFINE q == wake[c]
<1>1. /\ irq[c] = "wakeup"
      /\ state' = [state EXCEPT ![q] = IF q # on[c] /\ state[q] = "SLEEPING" /\ q \in chan
                                      THEN "RUNNABLE" ELSE state[q]]
      /\ UNCHANGED <<schedvars, chan, killed, pc, preempt, saved, clockvars>>
  BY Zenon DEF Wakeup, WakeupTurn
<1>2. TypeOK /\ q \in Procs
  BY Zenon DEF Core, TypeOK
<1>3. /\ lock[scan[c]] # c /\ cpu[c].noff = 1 /\ ~cpu[c].intr /\ ~cpu[c].intena /\ lock[Tick] = c
      /\ on[c] # Idle => pc[on[c]] \notin Inside /\ preempt[on[c]] = "no"
  BY <1>1, Interrupted, Zenon DEF Core, Masked
<1>4. \A r \in Procs : state'[r] = "RUNNING" <=> state[r] = "RUNNING"
  BY Zenon, <1>1, <1>2 DEF TypeOK
<1>5. state' \in [Procs -> States] /\ UNCHANGED <<schedvars, pc, preempt>>
  BY Zenon, <1>1, <1>2 DEF TypeOK, States
<1>6. \A r \in Procs : state'[r] = "SLEEPING" => state[r] = "SLEEPING" /\ r # wake[c]
  <2> SUFFICES ASSUME NEW r \in Procs, state'[r] = "SLEEPING"
               PROVE  state[r] = "SLEEPING" /\ r # wake[c]
    OBVIOUS
  <2>1. state[r] = "SLEEPING"
    BY Zenon, <1>1, <1>2 DEF TypeOK
  <2>2. r # on[c] /\ r \in chan
    BY <1>3, <2>1, Names, Zenon DEF Times, Asleep, Inside
  <2> QED
    BY Zenon, <1>1, <1>2, <2>1, <2>2 DEF TypeOK
<1>7. CASE wake[c] < NPROC /\ wake' = [wake EXCEPT ![c] = wake[c] + 1] /\ UNCHANGED <<lock, cpu, irq>>
  <2>1. wake' \in [CPUs -> Procs]
    <3>1. wake[c] + 1 \in Procs
      BY <1>2, <1>7, SchedAssumption DEF Procs
    <3> QED
      BY Zenon, <1>2, <1>7, <3>1 DEF TypeOK
  <2>2. TypeOK'
    BY Zenon, <1>1, <1>2, <1>5, <1>7, <2>1 DEF TypeOK, schedvars, clockvars
  <2>3. Core'
    BY <1>1, <1>3, <1>4, <1>5, <1>7, <2>2, HandlerStep, Zenon DEF HandlerMove
  <2>4. Kept' /\ InterruptsBackOn'
    BY <1>1, <1>3, <1>4, <1>5, <1>7, HandlerKept, Zenon DEF schedvars
  <2>5. wake'[c] = wake[c] + 1 /\ \A d \in CPUs : d # c => wake'[d] = wake[d]
    BY Zenon, <1>2, <1>7 DEF TypeOK
  <2>6. \A r \in Procs : wake[c] <= r /\ r # wake[c] => wake'[c] <= r
    BY <1>2, <2>5 DEF Procs
  <2>7. FromTheFirst'
    BY Zenon, <1>1, <1>7, <2>5 DEF Times, FromTheFirst
  <2>8. Times'
    BY Zenon, <1>1, <1>5, <1>6, <1>7, <2>4, <2>5, <2>6, <2>7, WakeupTimes
  <2> QED
    BY Zenon, <2>3, <2>8
<1>8. CASE /\ wake[c] = NPROC /\ lock' = [lock EXCEPT ![Tick] = Free] /\ cpu' = [cpu EXCEPT ![c] = pop_off(cpu[c])]
           /\ irq' = [irq EXCEPT ![c] = "done"] /\ wake' = [wake EXCEPT ![c] = 1]
  <2>1. /\ cpu' \in [CPUs -> Record] /\ \A d \in CPUs \ {c} : cpu'[d] = cpu[d]
        /\ cpu'[c].noff = 0 /\ ~cpu'[c].intr
    BY <1>2, <1>3, <1>8, PopStep, Zenon
  <2>2. irq'[c] = "done" /\ \A d \in CPUs \ {c} : irq'[d] = irq[d]
    BY Zenon, <1>2, <1>8 DEF TypeOK
  <2>3. lock'[Tick] = Free /\ \A r \in Procs : lock'[r] = lock[r]
    BY Zenon, <1>2, <1>8, Names DEF TypeOK
  <2>4. TypeOK'
    <3>1. irq' \in [CPUs -> IrqSteps] /\ lock' \in [Locks -> CPUs \cup {Free}]
      BY <1>2, <1>8, Zenon DEF TypeOK, IrqSteps
    <3>2. wake' \in [CPUs -> Procs]
      BY <1>2, <1>8, SchedAssumption DEF TypeOK, Procs
    <3> QED
      BY Zenon, <1>1, <1>2, <1>5, <2>1, <3>1, <3>2 DEF TypeOK, schedvars, clockvars, Record
  <2>5. lock'[Tick] # c /\ \A d \in CPUs \ {c} : lock'[Tick] = d <=> lock[Tick] = d
    BY Zenon, <1>3, <2>3, Names
  <2>6. Core'
    <3>1. \A r \in Procs : lock'[r] = lock[r] /\ (state'[r] = "RUNNING" <=> state[r] = "RUNNING")
      BY <1>4, <2>3, Zenon
    <3>2. \A d \in CPUs \ {c} : cpu'[d] = cpu[d] /\ irq'[d] = irq[d] /\ (lock'[Tick] = d <=> lock[Tick] = d)
      BY <2>1, <2>2, <2>5, Zenon
    <3>3. pc' = pc /\ preempt' = preempt /\ UNCHANGED schedvars
      BY <1>5, Zenon
    <3>4. irq'[c] # "wakeup" /\ cpu'[c].noff = IF lock'[Tick] = c THEN 1 ELSE 0
      BY <2>1, <2>2, <2>5, Zenon
    <3> QED
      BY <1>3, <2>1, <2>4, <2>5, <3>1, <3>2, <3>3, <3>4, HandlerStep, Zenon DEF HandlerMove
  <2>7. Kept' /\ InterruptsBackOn'
    <3>1. on' = on /\ saved' = saved /\ pc' = pc /\ preempt' = preempt
      BY <1>1, Zenon DEF schedvars
    <3>2. \A d \in CPUs \ {c} : cpu'[d] = cpu[d] /\ irq'[d] = irq[d]
      BY <2>1, <2>2, Zenon
    <3>3. on[c] # Idle => pc'[on[c]] \notin Inside /\ irq'[c] # "no"
      BY <1>3, <2>2, <3>1, Zenon
    <3> QED
      BY <1>4, <3>1, <3>2, <3>3, HandlerKept, Zenon
  <2>8. wake'[c] = 1 /\ \A d \in CPUs : d # c => wake'[d] = wake[d]
    BY Zenon, <1>2, <1>8 DEF TypeOK
  <2>9. \A r \in Procs : ~(wake[c] <= r /\ r # wake[c])
    BY <1>2, <1>8, SchedAssumption DEF Procs
  <2>10. FromTheFirst'
    BY Zenon, <2>2, <2>8 DEF Times, FromTheFirst
  <2>11. Times'
    BY <1>1, <1>5, <1>6, <2>2, <2>7, <2>8, <2>9, <2>10, WakeupTimes, Zenon
  <2> QED
    BY Zenon, <2>6, <2>11
<1> QED
  BY Zenon, <1>7, <1>8 DEF Wakeup, Release

(* The end of the interrupt *)
LEMMA IrqDoneInv ==
  ASSUME Core, Times, NEW c \in CPUs, IrqDone(c)
  PROVE  Core' /\ Times'
<1>1. /\ irq[c] = "done" /\ irq' = [irq EXCEPT ![c] = "no"]
      /\ UNCHANGED <<lock, schedvars, wake, state, chan, killed, saved, clockvars>>
  BY Zenon DEF IrqDone
<1>2. TypeOK
  BY Zenon DEF Core
<1>3. /\ lock[scan[c]] # c /\ lock[Tick] # c /\ cpu[c].noff = 0 /\ ~cpu[c].intr
      /\ on[c] # Idle => pc[on[c]] \notin Inside /\ preempt[on[c]] = "no"
  BY <1>1, Interrupted, Zenon DEF Core, Masked
<1>4. irq'[c] = "no" /\ \A d \in CPUs \ {c} : irq'[d] = irq[d]
  BY Zenon, <1>1, <1>2 DEF TypeOK
<1>5. irq' \in [CPUs -> IrqSteps] /\ lock' = lock /\ state' = state /\ UNCHANGED schedvars
  BY Zenon, <1>1, <1>2 DEF TypeOK, IrqSteps
<1>6. CASE on[c] = Idle /\ cpu' = [cpu EXCEPT ![c].intr = TRUE] /\ UNCHANGED <<pc, preempt>>
  <2>1. /\ cpu' \in [CPUs -> Record] /\ \A d \in CPUs \ {c} : cpu'[d] = cpu[d]
        /\ cpu'[c].noff = 0
    BY <1>2, <1>3, <1>6, IntrStep, Zenon
  <2>2. TypeOK'
    BY Zenon, <1>1, <1>2, <1>5, <1>6, <2>1 DEF TypeOK, schedvars, clockvars, Record
  <2>3. Core'
    BY Zenon, <1>3, <1>4, <1>5, <1>6, <2>1, <2>2, HandlerStep DEF HandlerMove
  <2>4. Kept' /\ InterruptsBackOn'
    BY Zenon, <1>1, <1>4, <1>6, <2>1, HandlerKept DEF schedvars
  <2>5. Times'
    BY Zenon, <1>1, <1>4, <1>6, <2>4, HandlerTimes
  <2> QED
    BY Zenon, <2>3, <2>5
<1>7. CASE on[c] # Idle /\ pc' = [pc EXCEPT ![on[c]] = "exit"] /\ UNCHANGED <<cpu, preempt>>
  <2>1. pc'[on[c]] = "exit" /\ \A q \in Procs : q # on[c] => pc'[q] = pc[q]
    BY Zenon, <1>2, <1>7 DEF TypeOK
  <2>2. pc' \in [Procs -> PCs]
    BY Zenon, <1>2, <1>7 DEF TypeOK, PCs
  <2>3. TypeOK'
    BY <1>1, <1>2, <1>5, <1>7, <2>2, Zenon DEF TypeOK, schedvars, clockvars
  <2>4. pc'[on[c]] \notin Inside
    BY <2>1, Zenon DEF Inside
  <2>5. Core'
    BY <1>3, <1>4, <1>5, <1>7, <2>1, <2>3, <2>4, HandlerStep, Zenon DEF HandlerMove
  <2>6. Kept' /\ InterruptsBackOn'
    BY <1>1, <1>4, <1>7, <2>1, <2>4, HandlerKept, Zenon DEF schedvars
  <2>7. Times'
    BY <1>1, <1>3, <1>4, <1>7, <2>1, <2>6, HandlerTimes, Zenon
  <2> QED
    BY Zenon, <2>5, <2>7
<1>8. CASE on[c] # Idle /\ preempt' = [preempt EXCEPT ![on[c]] = "yield"] /\ UNCHANGED <<cpu, pc>>
  <2>1. preempt'[on[c]] = "yield" /\ \A q \in Procs : q # on[c] => preempt'[q] = preempt[q]
    BY Zenon, <1>2, <1>8 DEF TypeOK
  <2>2. preempt' \in [Procs -> {"no", "yield", "out"}]
    BY Zenon, <1>2, <1>8 DEF TypeOK
  <2>3. TypeOK'
    BY <1>1, <1>2, <1>5, <1>8, <2>2, Zenon DEF TypeOK, schedvars, clockvars
  <2>4. Core'
    BY <1>3, <1>4, <1>5, <1>8, <2>1, <2>3, HandlerStep, Zenon DEF HandlerMove
  <2>5. Kept' /\ InterruptsBackOn'
    BY <1>1, <1>3, <1>4, <1>8, <2>1, HandlerKept, Zenon DEF schedvars
  <2>6. Times'
    BY Zenon, <1>1, <1>3, <1>4, <1>8, <2>5, HandlerTimes
  <2> QED
    BY Zenon, <2>4, <2>6
<1> QED
  BY Zenon, <1>6, <1>7, <1>8 DEF IrqDone, Goto

-----------------------------------------------------------------------------
(* Steps of scheduler(), to and from a process *)

(* What such a step on c leaves to the other CPUs, ... *)
OtherCPUs(c) ==
  \A d \in CPUs \ {c} : /\ on'[d] = on[d] /\ scan'[d] = scan[d] /\ cpu'[d] = cpu[d]
                        /\ d \in back' <=> d \in back
                        /\ \A q \in Procs : lock'[q] = d <=> lock[q] = d

(* ... what it leaves on c, ... *)
ThisCPU(c) ==
  /\ on'[c] # Idle => c \in back' /\ scan'[c] = on'[c] /\ Own(on'[c])
  /\ c \in back' => \A d \in back \ {c} : scan[d] # scan'[c]
  /\ \A q \in Procs : lock'[q] = c <=> c \in back' /\ scan'[c] = q
  /\ cpu'[c].noff = IF c \in back' THEN 1 ELSE 0
  /\ cpu'[c].noff > 0 => ~cpu'[c].intr

(* ... and both, with what it leaves alone. *)
SchedulerMove(c) ==
  /\ TypeOK' /\ Stands' /\ UNCHANGED <<pc, preempt, irq>>
  /\ irq[c] = "no" /\ lock[Tick] # c /\ lock'[Tick] = lock[Tick]
  /\ OtherCPUs(c) /\ ThisCPU(c)

(* A step of scheduler() or sched() on c keeps Core. *)
LEMMA SchedulerStep ==
  ASSUME Core, NEW c \in CPUs, SchedulerMove(c)
  PROVE  Core'
<1>1. /\ TypeOK' /\ Stands' /\ pc' = pc /\ preempt' = preempt /\ irq' = irq
      /\ irq[c] = "no" /\ lock[Tick] # c /\ lock'[Tick] = lock[Tick]
  BY Zenon DEF SchedulerMove
<1>2. \A d \in CPUs : d # c => on'[d] = on[d] /\ scan'[d] = scan[d] /\ cpu'[d] = cpu[d]
                               /\ (d \in back' <=> d \in back)
  BY Zenon DEF SchedulerMove, OtherCPUs
<1>3. \A d \in CPUs, q \in Procs : d # c => (lock'[q] = d <=> lock[q] = d)
  BY Zenon DEF SchedulerMove, OtherCPUs
<1>4. /\ on'[c] # Idle => c \in back' /\ scan'[c] = on'[c] /\ Own(on'[c])
      /\ c \in back' => \A d \in back \ {c} : scan[d] # scan'[c]
      /\ \A q \in Procs : lock'[q] = c <=> c \in back' /\ scan'[c] = q
  BY Zenon DEF SchedulerMove, ThisCPU
<1>5. /\ cpu'[c].noff = IF c \in back' THEN 1 ELSE 0
      /\ cpu'[c].noff > 0 => ~cpu'[c].intr
  BY Zenon DEF SchedulerMove, ThisCPU
<1>6. \A q \in Procs : Own(q)' <=> Own(q)
  BY Zenon, <1>1 DEF Own
<1>7. back \subseteq CPUs /\ back' \subseteq CPUs
  BY Zenon, <1>1 DEF Core, TypeOK
<1>8. Charge'
  <2>1. \A d \in CPUs : on'[d] # Idle => d \in back' /\ scan'[d] = on'[d]
    BY Zenon, <1>2, <1>4 DEF Core, Charge
  <2>2. ASSUME NEW d \in back', NEW e \in back', scan'[d] = scan'[e]
        PROVE  d = e
    <3>1. d \in CPUs /\ e \in CPUs
      BY Zenon, <1>7
    <3>2. CASE d = c \/ e = c
      BY Zenon, <1>2, <1>4, <2>2, <3>1, <3>2
    <3>3. CASE d # c /\ e # c
      BY Zenon, <1>2, <2>2, <3>1, <3>3 DEF Core, Charge
    <3> QED
      BY Zenon, <3>2, <3>3
  <2> QED
    BY Zenon, <2>1, <2>2 DEF Charge
<1>9. on'[c] # Idle => on'[c] \in Procs /\ pc[on'[c]] \notin {"loop", "sleep"} /\ preempt[on'[c]] # "yield"
  <2> SUFFICES ASSUME on'[c] # Idle
               PROVE  on'[c] \in Procs /\ pc[on'[c]] \notin {"loop", "sleep"} /\ preempt[on'[c]] # "yield"
    OBVIOUS
  <2>1. PICK p \in Procs : p = on'[c]
    BY Zenon, <1>1 DEF TypeOK
  <2>2. Own(p) /\ (preempt[p] # "no" => pc[p] \notin Inside)
    BY Zenon, <1>4, <2>1 DEF Core, Stands
  <2> QED
    BY Zenon, <2>1, <2>2 DEF Own, Inside
<1>10. Holders'
  <2>1. ASSUME NEW d \in CPUs, NEW q \in Procs
        PROVE  lock'[q] = d <=> d \in back' /\ scan'[d] = q /\ (on'[d] = Idle \/ Own(q)')
    <3>1. CASE d = c
      <4>1. c \in back' /\ scan'[c] = q => on'[c] = Idle \/ Own(q)
        BY Zenon, <1>4
      <4> QED
        BY Zenon, <1>4, <1>6, <3>1, <4>1
    <3>2. CASE d # c
      <4>1. lock[q] = d <=> d \in back /\ scan[d] = q /\ (on[d] = Idle \/ Own(q))
        BY Zenon DEF Core, Holders
      <4> QED
        BY Zenon, <1>2, <1>3, <1>6, <3>2, <4>1
    <3> QED
      BY Zenon, <3>1, <3>2
  <2>2. ASSUME NEW d \in CPUs
        PROVE  lock'[Tick] = d <=>
                 irq'[d] = "wakeup" \/ (on'[d] # Idle /\ pc'[on'[d]] \in {"loop", "sleep"})
    <3>1. CASE d = c
      BY Zenon, <1>1, <1>9, <3>1
    <3>2. CASE d # c
      <4>1. lock[Tick] = d <=> irq[d] = "wakeup" \/ (on[d] # Idle /\ pc[on[d]] \in {"loop", "sleep"})
        BY Zenon DEF Core, Holders
      <4> QED
        BY Zenon, <1>1, <1>2, <3>2, <4>1
    <3> QED
      BY Zenon, <3>1, <3>2
  <2> QED
    BY Zenon, <2>1, <2>2 DEF Holders
<1>11. \A d \in CPUs : scan[d] \in Procs /\ scan'[d] \in Procs
  BY Zenon, <1>1 DEF Core, TypeOK
<1>12. \A d \in CPUs : d # c => (lock'[scan'[d]] = d <=> lock[scan[d]] = d)
  BY <1>2, <1>3, <1>11
<1>13. Nested'
  <2> SUFFICES ASSUME NEW d \in CPUs
               PROVE  cpu'[d].noff = (IF lock'[Tick] = d THEN 1 ELSE 0)
                                       + (IF lock'[scan'[d]] = d THEN 1 ELSE 0)
    BY Zenon DEF Nested
  <2>1. CASE d = c
    <3>1. lock'[scan'[c]] = c <=> c \in back'
      BY Zenon, <1>4, <1>11
    <3> QED
      BY <1>1, <1>5, <2>1, <3>1
  <2>2. CASE d # c
    BY <1>1, <1>2, <1>12, <2>2 DEF Core, Nested
  <2> QED
    BY Zenon, <2>1, <2>2
<1>14. Masked'
  <2> SUFFICES ASSUME NEW d \in CPUs
      PROVE  /\ cpu'[d].noff > 0 => ~cpu'[d].intr
             /\ irq'[d] # "no" =>
                  /\ ~cpu'[d].intr /\ lock'[scan'[d]] # d
                  /\ on'[d] # Idle => preempt'[on'[d]] = "no" /\ pc'[on'[d]] \notin {"loop", "sleep"}
             /\ irq'[d] = "wakeup" => ~cpu'[d].intena
             /\ on'[d] # Idle /\ preempt'[on'[d]] = "yield" => ~cpu'[d].intr
    BY Zenon DEF Masked
  <2>1. CASE d = c
    BY Zenon, <1>1, <1>5, <1>9, <2>1
  <2>2. CASE d # c
    <3>1. /\ cpu[d].noff > 0 => ~cpu[d].intr
          /\ irq[d] # "no" =>
               /\ ~cpu[d].intr /\ lock[scan[d]] # d
               /\ on[d] # Idle => preempt[on[d]] = "no" /\ pc[on[d]] \notin {"loop", "sleep"}
          /\ irq[d] = "wakeup" => ~cpu[d].intena
          /\ on[d] # Idle /\ preempt[on[d]] = "yield" => ~cpu[d].intr
      BY Zenon DEF Core, Masked
    <3> QED
      BY Zenon, <1>1, <1>2, <1>12, <2>2, <3>1
  <2> QED
    BY Zenon, <2>1, <2>2
<1> QED
  BY Zenon, <1>1, <1>8, <1>10, <1>13, <1>14 DEF Core

(* sched() leaves the process. *)
LEMMA SwtchInv ==
  ASSUME Core, Times, NEW c \in CPUs, NEW p \in Procs, Swtch(c, p)
  PROVE  Core' /\ Times'
<1>1. /\ AtSched(c, p) /\ on[c] = p /\ state[p] # "RUNNING"
      /\ saved' = [saved EXCEPT ![p] = cpu[c].intena] /\ on' = [on EXCEPT ![c] = Idle]
      /\ UNCHANGED <<lock, cpu, scan, back, irqvars, state, chan, killed, pc, preempt, clockvars>>
  BY Zenon DEF Swtch, AtSched
<1>2. TypeOK
  BY Zenon DEF Core
<1>3. Own(p) /\ pc[p] \notin {"loop", "sleep"}
  BY Zenon, <1>1 DEF Core, Stands, AtSched, Own, Inside
<1>4. /\ lock[p] = c /\ c \in back /\ scan[c] = p
      /\ \A d \in CPUs : on[d] = p => d = c
      /\ \A d \in back : scan[d] = p => d = c
  BY <1>1, <1>3, ThreadHas, Zenon
<1>5. irq[c] = "no"
  BY <1>4, Zenon DEF Core, Masked
<1>6. lock[Tick] # c /\ cpu[c].noff = 1 /\ ~cpu[c].intr
  BY <1>1, <1>3, <1>5, OwnAt, Zenon
<1>7. on'[c] = Idle /\ \A d \in CPUs \ {c} : on'[d] = on[d]
  BY Zenon, <1>1, <1>2 DEF TypeOK
<1>8. TypeOK'
  <2>1. on' \in [CPUs -> Procs \cup {Idle}]
    BY Zenon, <1>1, <1>2 DEF TypeOK
  <2>2. saved' \in [Procs -> BOOLEAN]
    <3>1. cpu[c].intena \in BOOLEAN
      BY Zenon, <1>2 DEF TypeOK
    <3> QED
      BY Zenon, <1>1, <1>2, <3>1 DEF TypeOK
  <2> QED
    BY Zenon, <1>1, <1>2, <2>1, <2>2 DEF TypeOK, irqvars, clockvars
<1>9. Stands'
  <2>1. \A q \in Procs : Own(q)' <=> Own(q)
    BY <1>1, Zenon DEF Own
  <2>2. \A q \in Procs : q # p => ((\E d \in CPUs : on'[d] = q) <=> (\E d \in CPUs : on[d] = q))
    BY <1>1, <1>7, Names, Zenon
  <2>3. \A d \in CPUs : on'[d] # p
    BY Zenon, <1>4, <1>7, Names
  <2>4. pc' = pc /\ preempt' = preempt /\ state' = state
    BY Zenon, <1>1
  <2> QED
    BY <1>1, <2>1, <2>2, <2>3, <2>4, Zenon DEF Core, Stands
<1>10. /\ lock' = lock /\ cpu' = cpu /\ scan' = scan /\ back' = back
       /\ UNCHANGED <<pc, preempt, irq>>
  BY Zenon, <1>1 DEF irqvars
<1>11. \A q \in Procs : lock[q] = c => scan[c] = q
  BY Zenon DEF Core, Holders
<1>12. Core'
  <2>1. OtherCPUs(c)
    BY <1>7, <1>10, Zenon DEF OtherCPUs
  <2>2. c \in back' => \A d \in back \ {c} : scan[d] # scan'[c]
    BY <1>4, <1>10, Zenon
  <2>3. \A q \in Procs : lock'[q] = c <=> c \in back' /\ scan'[c] = q
    BY <1>4, <1>10, <1>11, Zenon
  <2>4. cpu'[c].noff = (IF c \in back' THEN 1 ELSE 0) /\ ~cpu'[c].intr
    BY <1>4, <1>6, <1>10, Zenon
  <2> QED
    <3>1. ThisCPU(c)
      BY <1>7, <2>2, <2>3, <2>4, Zenon DEF ThisCPU
    <3>2. lock[Tick] # c /\ lock'[Tick] = lock[Tick] /\ irq[c] = "no"
      BY <1>5, <1>6, <1>10, Zenon
    <3> QED
      BY <1>8, <1>9, <1>10, <2>1, <3>1, <3>2, SchedulerStep, Zenon DEF SchedulerMove
<1>13. Kept'
  <2>1. \A d \in CPUs, q \in Procs : on'[d] = q => d # c /\ on[d] = q
    BY Zenon, <1>7, Names
  <2>2. ASSUME NEW q \in Procs, pc[q] = "out", \A d \in CPUs : on'[d] # q
        PROVE  saved'[q]
    <3>1. CASE q = p
      <4>1. preempt[p] = "no"
        BY <2>2, <3>1, Zenon DEF Core, Stands, Inside
      <4>2. cpu[c].intena
        BY <1>1, <2>2, <3>1, <4>1, Zenon DEF Times, Kept
      <4> QED
        BY Zenon, <1>1, <1>2, <3>1, <4>2 DEF TypeOK
    <3>2. CASE q # p
      <4>1. saved'[q] = saved[q]
        BY Zenon, <1>1, <1>2, <3>2 DEF TypeOK
      <4>2. \A d \in CPUs : on[d] # q
        BY <1>1, <1>7, <2>2, <3>2, Zenon
      <4> QED
        BY Zenon, <2>2, <4>1, <4>2 DEF Times, Kept
    <3> QED
      BY Zenon, <3>1, <3>2
  <2> QED
    <3>1. \A d \in CPUs, q \in Procs :
            on'[d] = q /\ preempt[q] = "no" /\ pc[q] \in {"loop", "sleep", "out"} => cpu[d].intena
      BY <2>1, Zenon DEF Times, Kept
    <3> QED
      BY <1>10, <2>2, <3>1, Zenon DEF Kept
<1>14. InterruptsBackOn'
  <2>1. \A d \in CPUs, q \in Procs : on'[d] = q => on[d] = q
    BY Zenon, <1>7, Names
  <2>2. state' = state
    BY Zenon, <1>1
  <2> QED
    BY Zenon, <1>10, <2>1, <2>2 DEF Times, InterruptsBackOn, Runs
<1>15. Times'
  BY Zenon, <1>1, <1>13, <1>14, SameTimes
<1> QED
  BY Zenon, <1>12, <1>15

(* The CPU moves on to the next process of its scan. *)
LEMMA Scanned ==
  ASSUME TypeOK, NEW c \in CPUs, NextScan(c)
  PROVE  scan' \in [CPUs -> Procs] /\ \A d \in CPUs \ {c} : scan'[d] = scan[d]
<1>1. PICK q \in Procs : q = scan[c]
  BY Zenon DEF TypeOK
<1>2. (IF q = NPROC THEN 1 ELSE q + 1) \in Procs
  BY SchedAssumption DEF Procs
<1> QED
  BY <1>1, <1>2, Zenon DEF NextScan, TypeOK

(* scheduler() after its swtch() *)
LEMMA SchedulerBackInv ==
  ASSUME Core, Times, NEW c \in CPUs, SchedulerBack(c)
  PROVE  Core' /\ Times'
<1>1. /\ on[c] = Idle /\ c \in back /\ back' = back \ {c}
      /\ lock' = [lock EXCEPT ![scan[c]] = Free]
      /\ cpu' = [cpu EXCEPT ![c] = IntrOn(c, pop_off(cpu[c]))]
      /\ NextScan(c)
      /\ UNCHANGED <<on, irqvars, state, chan, killed, pc, preempt, saved, clockvars>>
  BY Zenon DEF SchedulerBack
<1>2. TypeOK /\ scan[c] \in Procs
  BY Zenon DEF Core, TypeOK
<1>3. /\ lock[scan[c]] = c
      /\ \A q \in Procs : lock[q] = c => q = scan[c]
  BY <1>1, <1>2, Zenon DEF Core, Holders
<1>4. irq[c] = "no"
  BY <1>3, Zenon DEF Core, Masked
<1>5. lock[Tick] # c
  BY <1>1, <1>4, Zenon DEF Core, Holders
<1>6. cpu[c].noff = 1
  BY <1>3, <1>5 DEF Core, Nested
<1>7. /\ cpu' \in [CPUs -> Record] /\ \A d \in CPUs \ {c} : cpu'[d] = cpu[d]
      /\ cpu'[c].noff = 0
  <2>1. CASE scan[c] = NPROC
    BY <1>1, <1>2, <1>6, <2>1, PopOnStep, Zenon DEF IntrOn
  <2>2. CASE scan[c] # NPROC
    BY <1>1, <1>2, <1>6, <2>2, PopStep, Zenon DEF IntrOn
  <2> QED
    BY Zenon, <2>1, <2>2
<1>8. /\ lock'[scan[c]] = Free /\ lock'[Tick] = lock[Tick]
      /\ \A q \in Procs : q # scan[c] => lock'[q] = lock[q]
  BY Zenon, <1>1, <1>2, Names DEF TypeOK
<1>9. scan' \in [CPUs -> Procs] /\ \A d \in CPUs \ {c} : scan'[d] = scan[d]
  BY <1>1, <1>2, Scanned, Zenon
<1>10. TypeOK'
  <2>1. lock' \in [Locks -> CPUs \cup {Free}] /\ back' \in SUBSET CPUs
    BY <1>1, <1>2, Zenon DEF TypeOK
  <2> QED
    BY Zenon, <1>1, <1>2, <1>7, <1>9, <2>1 DEF TypeOK, irqvars, clockvars, Record
<1>11. Stands'
  BY <1>1, Zenon DEF Core, Stands, Own
<1>12. c \notin back' /\ \A d \in CPUs \ {c} : d \in back' <=> d \in back
  BY <1>1, Zenon
<1>13. /\ \A q \in Procs : lock'[q] # c
       /\ \A q \in Procs, d \in CPUs \ {c} : lock'[q] = d <=> lock[q] = d
  BY <1>3, <1>8, Names, Zenon
<1>14. on' = on /\ on[c] = Idle /\ UNCHANGED <<pc, preempt, irq>>
  BY <1>1, Zenon DEF irqvars
<1>15. Core'
  <2>1. OtherCPUs(c)
    BY <1>7, <1>9, <1>12, <1>13, <1>14, Zenon DEF OtherCPUs
  <2>2. cpu'[c].noff = (IF c \in back' THEN 1 ELSE 0) /\ ~(cpu'[c].noff > 0)
    BY <1>7, <1>12
  <2>3. \A q \in Procs : lock'[q] = c <=> c \in back' /\ scan'[c] = q
    BY <1>12, <1>13, Zenon
  <2>4. on'[c] = Idle /\ lock'[Tick] = lock[Tick] /\ UNCHANGED <<pc, preempt, irq>>
    BY <1>8, <1>14, Zenon
  <2>5. /\ on'[c] # Idle => c \in back' /\ scan'[c] = on'[c] /\ Own(on'[c])
        /\ c \in back' => \A d \in back \ {c} : scan[d] # scan'[c]
        /\ cpu'[c].noff > 0 => ~cpu'[c].intr
    BY <1>12, <2>2, <2>4, Zenon
  <2>6. ThisCPU(c)
    BY <2>2, <2>3, <2>5, Zenon DEF ThisCPU
  <2> QED
    BY <1>4, <1>5, <1>10, <1>11, <2>1, <2>4, <2>6, SchedulerStep, Zenon DEF SchedulerMove
<1>16. Kept' /\ InterruptsBackOn'
  <2>1. \A d \in CPUs, q \in Procs : on[d] = q => cpu'[d] = cpu[d]
    BY <1>1, <1>7, Names, Zenon
  <2>2. state' = state /\ saved' = saved
    BY Zenon, <1>1
  <2> QED
    <3>1. Kept'
      BY <1>14, <2>1, <2>2, Zenon DEF Times, Kept
    <3>2. InterruptsBackOn'
      BY <1>14, <2>1, <2>2, Zenon DEF Times, InterruptsBackOn, Runs
    <3> QED
      BY Zenon, <3>1, <3>2
<1>17. Times'
  BY Zenon, <1>1, <1>16, SameTimes
<1> QED
  BY Zenon, <1>15, <1>17

(* scheduler() passes over a process. *)
LEMMA SchedulerSkipInv ==
  ASSUME Core, Times, NEW c \in CPUs, SchedulerSkip(c)
  PROVE  Core' /\ Times'
<1>1. /\ on[c] = Idle /\ c \notin back /\ irq[c] = "no" /\ lock[scan[c]] = Free
      /\ cpu' = [cpu EXCEPT ![c] = IntrOn(c, cpu[c])]
      /\ NextScan(c)
      /\ UNCHANGED <<lock, on, back, irqvars, state, chan, killed, pc, preempt, saved, clockvars>>
  BY Zenon DEF SchedulerSkip
<1>2. TypeOK
  BY Zenon DEF Core
<1>3. lock[Tick] # c /\ \A q \in Procs : lock[q] # c
  BY <1>1, Zenon DEF Core, Holders
<1>4. cpu[c].noff = 0
  BY <1>1, <1>3, Names DEF Core, Nested
<1>5. /\ cpu' \in [CPUs -> Record] /\ \A d \in CPUs \ {c} : cpu'[d] = cpu[d]
      /\ cpu'[c].noff = 0
  <2>1. CASE scan[c] = NPROC
    <3>1. cpu' = [cpu EXCEPT ![c].intr = TRUE]
      BY Zenon, <1>1, <2>1 DEF IntrOn
    <3> QED
      BY <1>2, <1>4, <3>1, IntrStep, Zenon
  <2>2. CASE scan[c] # NPROC
    <3>1. cpu' = cpu
      BY Zenon, <1>1, <1>2, <2>2 DEF IntrOn, TypeOK
    <3> QED
      BY Zenon, <1>2, <1>4, <3>1 DEF TypeOK, Record
  <2> QED
    BY Zenon, <2>1, <2>2
<1>6. scan' \in [CPUs -> Procs] /\ \A d \in CPUs \ {c} : scan'[d] = scan[d]
  BY Zenon, <1>1, <1>2, Scanned
<1>7. TypeOK'
  BY Zenon, <1>1, <1>2, <1>5, <1>6 DEF TypeOK, irqvars, clockvars, Record
<1>8. Stands'
  BY <1>1, Zenon DEF Core, Stands, Own
<1>9. on' = on /\ lock' = lock /\ back' = back /\ UNCHANGED <<pc, preempt, irq>>
  BY <1>1, Zenon DEF irqvars
<1>10. Core'
  <2>1. OtherCPUs(c)
    BY <1>5, <1>6, <1>9, Zenon DEF OtherCPUs
  <2>2. c \notin back' /\ on'[c] = Idle /\ irq[c] = "no"
    BY <1>1, <1>9, Zenon
  <2>3. cpu'[c].noff = (IF c \in back' THEN 1 ELSE 0) /\ ~(cpu'[c].noff > 0)
    BY <1>5, <2>2
  <2>4. \A q \in Procs : lock'[q] = c <=> c \in back' /\ scan'[c] = q
    BY <1>3, <1>9, <2>2, Zenon
  <2>5. lock[Tick] # c /\ lock'[Tick] = lock[Tick] /\ UNCHANGED <<pc, preempt, irq>>
    BY <1>3, <1>9, Zenon
  <2>6. /\ on'[c] # Idle => c \in back' /\ scan'[c] = on'[c] /\ Own(on'[c])
        /\ c \in back' => \A d \in back \ {c} : scan[d] # scan'[c]
        /\ cpu'[c].noff > 0 => ~cpu'[c].intr
    BY <2>2, <2>3, Zenon
  <2>7. ThisCPU(c)
    BY <2>3, <2>4, <2>6, Zenon DEF ThisCPU
  <2> QED
    BY <1>7, <1>8, <2>1, <2>2, <2>5, <2>7, SchedulerStep, Zenon DEF SchedulerMove
<1>11. Kept' /\ InterruptsBackOn'
  <2>1. \A d \in CPUs, q \in Procs : on[d] = q => cpu'[d] = cpu[d]
    BY Zenon, <1>1, <1>5, Names
  <2>2. state' = state /\ saved' = saved
    BY Zenon, <1>1
  <2> QED
    <3>1. Kept'
      BY <1>9, <2>1, <2>2, Zenon DEF Times, Kept
    <3>2. InterruptsBackOn'
      BY <1>9, <2>1, <2>2, Zenon DEF Times, InterruptsBackOn, Runs
    <3> QED
      BY Zenon, <3>1, <3>2
<1>12. Times'
  BY Zenon, <1>1, <1>11, SameTimes
<1> QED
  BY Zenon, <1>10, <1>12

(* scheduler() resumes a process.  Nobody else is in charge of it: its     *)
(* lock would be held.                                                     *)
LEMMA SchedulerRunInv ==
  ASSUME Core, Times, NEW c \in CPUs, SchedulerRun(c)
  PROVE  Core' /\ Times'
<1>1. PICK p \in Procs : p = scan[c]
  BY Zenon DEF Core, TypeOK
<1>2. /\ on[c] = Idle /\ c \notin back /\ irq[c] = "no" /\ lock[p] = Free /\ state[p] = "RUNNABLE"
      /\ lock' = [lock EXCEPT ![p] = c]
      /\ cpu' = [cpu EXCEPT ![c] = [push_off(cpu[c]) EXCEPT !.intena = Restored(c, p)]]
      /\ state' = [state EXCEPT ![p] = "RUNNING"] /\ on' = [on EXCEPT ![c] = p]
      /\ back' = back \cup {c} /\ saved' = [saved EXCEPT ![p] = FALSE]
      /\ UNCHANGED <<scan, irqvars, chan, killed, pc, preempt, clockvars>>
  BY Zenon, <1>1 DEF SchedulerRun
<1>3. TypeOK /\ Own(p)
  BY Zenon, <1>2 DEF Core, Stands
<1>4. \A d \in back : scan[d] # p
  <2> SUFFICES ASSUME NEW d \in back, scan[d] = p PROVE FALSE
    OBVIOUS
  <2>1. d \in CPUs /\ lock[p] # d
    BY Zenon, <1>2, Names DEF Core, TypeOK
  <2> QED
    BY Zenon, <1>3, <2>1 DEF Core, Holders
<1>5. lock[Tick] # c /\ \A q \in Procs : lock[q] # c
  BY Zenon, <1>2 DEF Core, Holders
<1>6. cpu[c].noff = 0
  BY <1>1, <1>5 DEF Core, Nested
<1>7. /\ cpu' \in [CPUs -> Record] /\ \A d \in CPUs \ {c} : cpu'[d] = cpu[d]
      /\ cpu'[c].noff = 1 /\ ~cpu'[c].intr
  BY <1>2, <1>3, <1>6, ResumeStep, Zenon
<1>8. /\ lock'[p] = c /\ lock'[Tick] = lock[Tick]
      /\ \A q \in Procs : q # p => lock'[q] = lock[q]
  BY Zenon, <1>2, <1>3, Names DEF TypeOK
<1>9. on'[c] = p /\ \A d \in CPUs \ {c} : on'[d] = on[d]
  BY Zenon, <1>2, <1>3 DEF TypeOK
<1>10. state'[p] = "RUNNING" /\ \A q \in Procs : q # p => state'[q] = state[q]
  BY Zenon, <1>2, <1>3 DEF TypeOK
<1>11. TypeOK'
  <2>1. lock' \in [Locks -> CPUs \cup {Free}] /\ back' \in SUBSET CPUs
    BY <1>2, <1>3, Zenon DEF TypeOK
  <2>2. /\ on' \in [CPUs -> Procs \cup {Idle}] /\ state' \in [Procs -> States]
        /\ saved' \in [Procs -> BOOLEAN]
    BY Zenon, <1>2, <1>3 DEF TypeOK, States
  <2> QED
    BY Zenon, <1>2, <1>3, <1>7, <2>1, <2>2 DEF TypeOK, irqvars, clockvars, Record
<1>12. Stands'
  <2>1. \A q \in Procs : Own(q)' <=> Own(q)
    BY Zenon, <1>2 DEF Own
  <2>2. \A q \in Procs : q # p => ((\E d \in CPUs : on'[d] = q) <=> (\E d \in CPUs : on[d] = q))
    BY Zenon, <1>2, <1>9, Names
  <2>3. pc' = pc /\ preempt' = preempt
    BY Zenon, <1>2
  <2> QED
    BY Zenon, <1>9, <1>10, <2>1, <2>2, <2>3 DEF Core, Stands
<1>13. scan' = scan /\ UNCHANGED <<pc, preempt, irq>>
  BY Zenon, <1>2 DEF irqvars
<1>14. c \in back' /\ \A d \in CPUs \ {c} : d \in back' <=> d \in back
  BY Zenon, <1>2
<1>15. /\ \A q \in Procs : lock'[q] = c <=> q = p
       /\ \A q \in Procs, d \in CPUs \ {c} : lock'[q] = d <=> lock[q] = d
  BY Zenon, <1>2, <1>5, <1>8, Names
<1>16. Core'
  <2>1. OtherCPUs(c)
    BY <1>7, <1>9, <1>13, <1>14, <1>15, Zenon DEF OtherCPUs
  <2>2. c \in back' /\ scan'[c] = p /\ on'[c] = p
    BY <1>1, <1>9, <1>13, <1>14, Zenon
  <2>3. cpu'[c].noff = (IF c \in back' THEN 1 ELSE 0) /\ ~cpu'[c].intr
    BY <1>7, <2>2, Zenon
  <2>4. \A q \in Procs : lock'[q] = c <=> c \in back' /\ scan'[c] = q
    BY <1>15, <2>2, Zenon
  <2>5. c \in back' => \A d \in back \ {c} : scan[d] # scan'[c]
    BY <1>4, <2>2, Zenon
  <2>6. irq[c] = "no" /\ lock[Tick] # c /\ lock'[Tick] = lock[Tick] /\ UNCHANGED <<pc, preempt, irq>>
    BY <1>2, <1>5, <1>8, <1>13, Zenon
  <2>7. /\ on'[c] # Idle => c \in back' /\ scan'[c] = on'[c] /\ Own(on'[c])
        /\ cpu'[c].noff > 0 => ~cpu'[c].intr
    BY <1>3, <2>2, <2>3, Zenon
  <2>8. ThisCPU(c)
    BY <2>3, <2>4, <2>5, <2>7, Zenon DEF ThisCPU
  <2> QED
    BY <1>11, <1>12, <2>1, <2>6, <2>8, SchedulerStep, Zenon DEF SchedulerMove
<1>17. \A d \in CPUs : on[d] # p
  BY Zenon, <1>4, Names DEF Core, Charge
<1>18. \A d \in CPUs, q \in Procs : on'[d] = q => (d = c /\ q = p) \/ (d # c /\ q # p /\ on[d] = q)
  BY Zenon, <1>9, <1>17, Names
<1>19. Kept'
  <2>1. preempt[p] = "no" /\ pc[p] \in {"loop", "sleep", "out"} => cpu'[c].intena
    <3> SUFFICES ASSUME preempt[p] = "no", pc[p] \in {"loop", "sleep", "out"}
                 PROVE  cpu'[c].intena
      OBVIOUS
    <3>1. pc[p] = "out"
      BY Zenon, <1>3 DEF Own
    <3>2. saved[p]
      BY Zenon, <1>17, <3>1 DEF Times, Kept
    <3>3. Restored(c, p) = TRUE
      BY Zenon, <1>3, <3>1, <3>2 DEF Restored, TypeOK
    <3> QED
      BY <1>2, <1>3, <1>6, <3>3, ResumeStep, Zenon
  <2>2. ASSUME NEW q \in Procs, pc[q] = "out", \A d \in CPUs : on'[d] # q
        PROVE  saved'[q]
    <3>1. q # p /\ \A d \in CPUs : on[d] # q
      BY Zenon, <1>2, <1>9, <2>2, Names
    <3>2. saved'[q] = saved[q]
      BY Zenon, <1>2, <1>3, <3>1 DEF TypeOK
    <3> QED
      BY Zenon, <2>2, <3>1, <3>2 DEF Times, Kept
  <2>3. \A d \in CPUs, q \in Procs : on'[d] = q /\ preempt[q] = "no" /\ pc[q] \in {"loop", "sleep", "out"}
                                  => cpu'[d].intena
    BY <1>7, <1>18, <2>1 DEF Times, Kept
  <2> QED
    BY Zenon, <1>13, <2>2, <2>3 DEF Kept
<1>20. InterruptsBackOn'
  <2>1. ~(preempt[p] = "no" /\ pc[p] \in {"user", "sys", "again", "ret"})
    BY Zenon, <1>3 DEF Own
  <2>2. \A d \in CPUs, q \in Procs :
          /\ on'[d] = q /\ irq[d] = "no" /\ preempt[q] = "no"
          /\ pc[q] \in {"user", "sys", "again", "ret"} /\ state'[q] = "RUNNING"
          => cpu'[d].intr
    <3> SUFFICES ASSUME NEW d \in CPUs, NEW q \in Procs,
                        on'[d] = q, irq[d] = "no", preempt[q] = "no",
                        pc[q] \in {"user", "sys", "again", "ret"}, state'[q] = "RUNNING"
                 PROVE  cpu'[d].intr
      OBVIOUS
    <3>1. d # c /\ q # p /\ on[d] = q
      BY <1>18, <2>1, Zenon
    <3>2. cpu'[d] = cpu[d] /\ state[q] = "RUNNING"
      BY <1>7, <1>10, <3>1, Zenon
    <3> QED
      BY <3>1, <3>2, Zenon DEF Times, InterruptsBackOn, Runs
  <2> QED
    BY Zenon, <1>13, <2>2 DEF InterruptsBackOn, Runs
<1>21. Times'
  <2>1. \A q \in Procs : state'[q] = "SLEEPING" => state[q] = "SLEEPING"
    BY Zenon, <1>10
  <2> QED
    BY Zenon, <1>2, <1>19, <1>20, <2>1, SameTimes
<1> QED
  BY Zenon, <1>16, <1>21

-----------------------------------------------------------------------------
(* Every step keeps the invariant. *)
LEMMA NextInv ==
  ASSUME Core, Times, [Next]_vars
  PROVE  Core' /\ Times'
<1>1. CASE UNCHANGED vars
  <2>1. /\ lock' = lock /\ cpu' = cpu /\ on' = on /\ scan' = scan /\ back' = back /\ irq' = irq
        /\ state' = state /\ killed' = killed /\ pc' = pc /\ preempt' = preempt /\ saved' = saved
        /\ UNCHANGED <<irqvars, chan, clockvars>>
    BY <1>1, Zenon DEF vars, schedvars, irqvars
  <2>2. TypeOK'
    BY Zenon, <2>1 DEF Core, TypeOK, irqvars, clockvars
  <2>3. Charge' /\ Nested'
    BY Zenon, <2>1 DEF Core, Charge, Nested
  <2>4. Holders' /\ Stands'
    <3>1. \A q \in Procs : Own(q)' <=> Own(q)
      BY Zenon, <2>1 DEF Own
    <3>2. Holders'
      BY <2>1, <3>1, Zenon DEF Core, Holders
    <3>3. Stands'
      BY <2>1, <3>1, Zenon DEF Core, Stands
    <3> QED
      BY Zenon, <3>2, <3>3
  <2>5. Masked'
    BY <2>1, Zenon DEF Core, Masked
  <2>6. Kept' /\ InterruptsBackOn'
    BY <2>1, Zenon DEF Times, Kept, InterruptsBackOn, Runs
  <2>7. Times'
    BY <2>1, <2>6, SameTimes, Zenon
  <2> QED
    BY Zenon, <2>2, <2>3, <2>4, <2>5, <2>7 DEF Core
<1>2. CASE Next
  <2>1. PICK c \in CPUs :
          \/ Scheduler(c) \/ Timer(c) \/ Handler(c)
          \/ \E p \in Procs :
               Ecall(c, p) \/ Work(c, p) \/ Switch(c, p) \/ \E q \in Procs : Kill(c, p, q)
    BY Zenon, <1>2 DEF Next
  <2>2. CASE Scheduler(c)
    BY Zenon, <2>2, SchedulerBackInv, SchedulerSkipInv, SchedulerRunInv DEF Scheduler
  <2>3. CASE Timer(c) \/ Handler(c)
    BY Zenon, <2>3, TimerInv, ClockInv, WakeupInv, IrqDoneInv DEF Handler
  <2>4. ASSUME NEW p \in Procs, Ecall(c, p) \/ \E q \in Procs : Kill(c, p, q)
        PROVE  Core' /\ Times'
    BY Zenon, <2>4, EcallInv, KillInv
  <2>5. ASSUME NEW p \in Procs, Work(c, p)
        PROVE  Core' /\ Times'
    BY Zenon, <2>5, SleepStartInv, SleepLoopInv, SyscallRetInv, ExitInv, SleepInv, SleepTidyInv,
       SleepReacquireInv DEF Work
  <2>6. ASSUME NEW p \in Procs, Switch(c, p)
        PROVE  Core' /\ Times'
    BY Zenon, <2>6, YieldInv, YieldRetInv, ForkretInv, SwtchInv DEF Switch
  <2> QED
    BY Zenon, <2>1, <2>2, <2>3, <2>4, <2>5, <2>6
<1> QED
  BY Zenon, <1>1, <1>2

(* Nothing runs at first, and no lock is held. *)
LEMMA InitCore == Init => Core
<1> SUFFICES ASSUME Init PROVE Core
  OBVIOUS
<1>1. TypeOK
  <2>1. 1 \in Procs /\ 0 \in 0..(TICKMOD - 1) /\ 0 \in 0..MAXN /\ 0 \in 0..2
    BY SchedAssumption DEF Procs
  <2>2. cpu \in [CPUs -> [noff : 0..2, intena : BOOLEAN, intr : BOOLEAN]]
    BY Zenon, <2>1 DEF Init
  <2> QED
    BY Zenon, <2>1, <2>2 DEF Init, TypeOK, IrqSteps, States, PCs
<1>2. Charge /\ Stands
  <2>1. \A p \in Procs : Own(p) /\ state[p] = "RUNNABLE" /\ preempt[p] = "no"
    BY Zenon DEF Init, Own
  <2>2. \A p \in Procs, c \in CPUs : on[c] # p
    BY Zenon, Names DEF Init
  <2> QED
    BY Zenon, <2>1, <2>2 DEF Init, Charge, Stands
<1>3. Holders
  BY Zenon, Names DEF Init, Holders
<1>4. Nested /\ Masked
  BY <1>1, Names DEF Init, Nested, Masked, TypeOK
<1> QED
  BY Zenon, <1>1, <1>2, <1>3, <1>4 DEF Core

(* No process is in sys_sleep() at first. *)
LEMMA InitTimes == Init => Times
<1> SUFFICES ASSUME Init PROVE Times
  OBVIOUS
<1>1. \A p \in Procs : /\ pc[p] = "forkret" /\ state[p] = "RUNNABLE"
                      /\ \A c \in CPUs : on[c] # p
  BY Zenon, Names DEF Init
<1>2. Kept /\ InterruptsBackOn
  BY <1>1, Zenon DEF Kept, InterruptsBackOn, Runs
<1>3. Elapsed /\ NeverEarly /\ Asleep
  BY <1>1, Zenon DEF Elapsed, InSleep, NeverEarly, Asleep
<1>4. FromTheFirst /\ NoLostWakeup
  BY Zenon, <1>1 DEF Init, FromTheFirst, NoLostWakeup
<1> QED
  BY Zenon, <1>2, <1>3, <1>4 DEF Times

(* The invariant holds in every reachable state. *)
LEMMA Inductive == Spec => []SInv
<1>1. Init => SInv
  BY Zenon, InitCore, InitTimes DEF SInv
<1>2. SInv /\ [Next]_vars => SInv'
  BY Zenon, NextInv DEF SInv
<1> QED
  BY <1>1, <1>2, PTL DEF Spec

-----------------------------------------------------------------------------
INSTANCE FiniteSetTheorems

(* The number of elements of a set of at most two. *)
LEMMA OfTwo ==
  ASSUME NEW S, NEW a, NEW b, a # b, S \subseteq {a, b}
  PROVE  Cardinality(S) = (IF a \in S THEN 1 ELSE 0) + (IF b \in S THEN 1 ELSE 0)
<1>1. /\ Cardinality({}) = 0 /\ Cardinality({a}) = 1 /\ Cardinality({b}) = 1
      /\ IsFiniteSet({a})
  BY FS_EmptySet, FS_Singleton, Zenon
<1>2. Cardinality({a} \cup {b}) = 2
  <2>1. Cardinality({a} \cup {b}) = Cardinality({a}) + 1
    BY Zenon, <1>1, FS_AddElement
  <2> QED
    BY <1>1, <2>1
<1>3. CASE a \in S /\ b \in S
  <2>1. Cardinality(S) = 2
    <3>1. S = {a} \cup {b}
      BY <1>3, Zenon
    <3> QED
      BY <1>2, <3>1, Zenon
  <2> QED
    BY <1>3, <2>1
<1>4. CASE a \in S /\ b \notin S
  <2>1. S = {a}
    BY <1>4, Zenon
  <2> QED
    BY <1>1, <1>4, <2>1
<1>5. CASE a \notin S /\ b \in S
  <2>1. S = {b}
    BY <1>5, Zenon
  <2> QED
    BY <1>1, <1>5, <2>1
<1>6. CASE a \notin S /\ b \notin S
  <2>1. S = {}
    BY <1>6, Zenon
  <2> QED
    BY <1>1, <1>6, <2>1
<1> QED
  BY Zenon, <1>3, <1>4, <1>5, <1>6

(* A CPU holds tickslock and the lock of the process it is in charge of,   *)
(* at most, so that noff is their number.                                  *)
LEMMA Counted ==
  ASSUME Core
  PROVE  NoffCountsLocks
<1> SUFFICES ASSUME NEW c \in CPUs
             PROVE  /\ cpu[c].noff = Cardinality({l \in Locks : lock[l] = c})
                    /\ cpu[c].noff > 0 => ~cpu[c].intr
  BY Zenon DEF NoffCountsLocks
<1> DEFINE Held == {l \in Locks : lock[l] = c}
<1>1. PICK p \in Procs : p = scan[c]
  BY Zenon DEF Core, TypeOK
<1>2. cpu[c].noff = (IF lock[Tick] = c THEN 1 ELSE 0) + (IF lock[p] = c THEN 1 ELSE 0)
  BY <1>1, Zenon DEF Core, Nested
<1>3. \A q \in Procs : lock[q] = c => q = p
  BY <1>1, Zenon DEF Core, Holders
<1>4. Tick # p /\ Tick \in Locks /\ p \in Locks /\ Locks = Procs \cup {Tick}
  BY Names, Zenon DEF Locks
<1>5. Held \subseteq {Tick, p} /\ (Tick \in Held <=> lock[Tick] = c) /\ (p \in Held <=> lock[p] = c)
  BY <1>3, <1>4, Zenon
<1>6. Cardinality(Held) = (IF Tick \in Held THEN 1 ELSE 0) + (IF p \in Held THEN 1 ELSE 0)
  BY <1>4, <1>5, OfTwo, Zenon
<1>7. cpu[c].noff = Cardinality(Held)
  <2> HIDE DEF Held
  <2> QED
    BY <1>2, <1>5, <1>6
<1> QED
  BY <1>7, Zenon DEF Core, Masked

(* The four tests of sched(). *)
LEMMA Tested ==
  ASSUME Core
  PROVE  SchedOK
<1> SUFFICES ASSUME NEW c \in CPUs, NEW p \in Procs, AtSched(c, p)
             PROVE  lock[p] = c /\ cpu[c].noff = 1 /\ ~cpu[c].intr
  BY Zenon DEF SchedOK
<1>1. on[c] = p /\ Own(p) /\ pc[p] \notin {"loop", "sleep"}
  BY Zenon DEF Core, Stands, AtSched, Own, Inside
<1>2. lock[p] = c /\ scan[c] = p
  BY Zenon, <1>1, ThreadHas
<1>3. irq[c] = "no"
  BY Zenon, <1>2 DEF Core, Masked
<1> QED
  BY Zenon, <1>1, <1>2, <1>3, OwnAt

(* What every CPU relies on, in every reachable state: it alone executes   *)
(* its thread, noff is the number of spin-locks it holds and interrupts    *)
(* are off while there is one, and none of the tests of sched() panics.    *)
THEOREM SchedulerIsSound == Spec => []SchedulerSound
<1>1. SInv => SchedulerSound
  <2> SUFFICES ASSUME SInv PROVE SchedulerSound
    OBVIOUS
  <2>1. Core
    BY Zenon DEF SInv
  <2>2. OneCPU
    <3> SUFFICES ASSUME NEW c \in CPUs, NEW d \in CPUs, c # d, on[c] = on[d], on[c] # Idle
                 PROVE  FALSE
      BY Zenon DEF OneCPU
    <3> QED
      BY Zenon, <2>1 DEF Core, Charge
  <2> QED
    BY Zenon, <2>1, <2>2, Counted, Tested DEF Core, SchedulerSound
<1> QED
  BY <1>1, Inductive, PTL

(* A system call without a lock can be interrupted in every reachable      *)
(* state, also after sched() took it to another CPU.                       *)
THEOREM InterruptsComeBackOn == Spec => []InterruptsBackOn
<1>1. SInv => InterruptsBackOn
  BY Zenon DEF SInv, Times
<1> QED
  BY <1>1, Inductive, PTL

(* sys_sleep() returns to a live process after n ticks at the earliest,    *)
(* for every size of the counter and every sleep shorter than that.        *)
THEOREM SleepNeverEndsEarly == Spec => []NeverEarly
<1>1. SInv => NeverEarly
  BY Zenon DEF SInv, Times
<1> QED
  BY <1>1, Inductive, PTL

(* No process sleeps on after its time has come and clockintr() has passed *)
(* it.                                                                     *)
THEOREM NoWakeupIsLost == Spec => []NoLostWakeup
<1>1. SInv => NoLostWakeup
  BY Zenon DEF SInv, Times
<1> QED
  BY <1>1, Inductive, PTL

=============================================================================
