-------------------------- MODULE ProcTableProofs --------------------------
(***************************************************************************)
(* Proofs about the process table of module ProcTable, for any number of   *)
(* slots and pids.                                                         *)
(***************************************************************************)
EXTENDS ProcTable, WellFoundedInduction, TLAPS

(* A slot has a pid while it is not UNUSED, pids differ, and allocpid()    *)
(* has given out no pid twice because nextpid is above all of them.        *)
Pids ==
  /\ UniquePids
  /\ \A s \in Slots : pid[s] < nextpid

(* Where the thread of a process is: its state says whether there is one,  *)
(* and exit() holds p->lock until it has left the stack.                   *)
Places ==
  \A s \in Slots :
    /\ state[s] \in {"UNUSED", "USED"} => pc[s] = "gone"
    /\ state[s] = "RUNNABLE" => pc[s] \notin {"swtch", "gone"}
    /\ state[s] = "SLEEPING" => pc[s] = "asleep"
    /\ state[s] = "ZOMBIE" => pc[s] \in {"swtch", "gone"}
    /\ pc[s] = "swtch" => plock[s] = s

Live(s) == state[s] \in {"RUNNABLE", "SLEEPING"}
Forking(s) == pc[s] \in {"alloc", "linked", "start"}

(* init is there for ever and never in exit(). *)
InitStays ==
  /\ Live(init)
  /\ pc[init] \notin {"reparent", "notify", "zombie"}
  /\ parent[init] = None

(* The child of an unfinished fork() is USED and belongs to that fork()    *)
(* alone; once np->parent is set nobody but its parent can change it.      *)
Forks ==
  \A t \in Slots : Forking(t) =>
    /\ np[t] \in Slots /\ state[np[t]] = "USED"
    /\ pc[t] = "start" => parent[np[t]] = t
    /\ \A u \in Slots \ {t} : Forking(u) => np[u] # np[t]

(* A parent can still call wait(): it has not got past reparent().         *)
Parents ==
  \A s \in Slots :
    /\ parent[s] # None => Live(parent[s]) /\ pc[parent[s]] \notin {"notify", "zombie"}
    /\ s # init /\ state[s] \in {"RUNNABLE", "SLEEPING", "ZOMBIE"} => parent[s] # None
    /\ state[s] = "UNUSED" => parent[s] = None

(* The parent of a zombie, or of a process that is about to be one, is not *)
(* asleep, and not on its way to sleep when the zombie is there.           *)
Wakeups ==
  \A s \in Slots : parent[s] # None =>
    /\ state[s] = "ZOMBIE" \/ pc[s] = "zombie" => state[parent[s]] # "SLEEPING"
    /\ state[s] = "ZOMBIE" => pc[parent[s]] # "sleep"

(* What sys_getprocinfo() has read of the parent, while it is the parent.  *)
Ppids ==
  \A p \in Slots : pc[p] = "info" =>
    np[p] \in Slots /\ (parent[p] = np[p] => pid[np[p]] \in parents[p])

PInv ==
  TypeOK /\ Pids /\ Places /\ InitStays /\ Forks /\ Parents /\ Wakeups /\ Ppids

(* The flag of a killed process was set for its pid, and goes with it.     *)
Kills == \A s \in killed : pid[s] \in asked /\ pid[s] # 0

-----------------------------------------------------------------------------
(* A scan of the table that stops at the first slot of a kind finds one.   *)
LEMMA FirstSlot ==
  ASSUME NEW S \in SUBSET Slots, S # {}
  PROVE  Min(S) \in S
<1> DEFINE R == OpToRel(<, Nat)
<1>1. S \in SUBSET Nat
  BY DEF Slots
<1>2. \E x \in S : \A y \in S : ~(<<y, x>> \in R)
  <2> HIDE DEF R
  <2>1. IsWellFoundedOn(R, Nat)
    BY NatLessThanWellFounded DEF R
  <2> QED
    BY <1>1, <2>1, WFMin, Zenon
<1>3. PICK x \in S : \A y \in S : ~(<<y, x>> \in R)
  BY <1>2
<1>4. ASSUME NEW y \in S PROVE x <= y
  <2>1. ~(<<y, x>> \in R) /\ x \in Nat /\ y \in Nat
    BY <1>1, <1>3
  <2> QED
    BY <2>1 DEF OpToRel
<1> QED
  BY <1>4 DEF Min

(* init has a slot, and slots are not None. *)
LEMMA InitSlot == init \in Slots /\ None \notin Slots
BY ProcAssumption DEF init, None, Slots

-----------------------------------------------------------------------------
LEMMA Initially ==
  ASSUME Init
  PROVE  PInv /\ Kills
<1>1. TypeOK
  BY ProcAssumption DEF Init, TypeOK, Slots, init, None, States, PCs
<1>2. Pids
  BY DEF Init, Pids, UniquePids, init
<1>3. Places /\ InitStays /\ Forks /\ Parents /\ Wakeups /\ Ppids /\ Kills
  BY InitSlot DEF Init, Places, InitStays, Live, Forks, Forking, Parents, Wakeups, Ppids, Kills
<1> QED
  BY <1>1, <1>2, <1>3 DEF PInv

(* allocproc() gives out a slot that nobody has, with a new pid.           *)
LEMMA ForkAllocInv ==
  ASSUME PInv, NEW p \in Slots, ForkAlloc(p)
  PROVE  PInv'
<1> DEFINE q == Min(Unused)
<1>a. q \in Slots /\ state[q] = "UNUSED" /\ p # q /\ state[p] = "RUNNABLE" /\ pc[p] = "user"
  BY FirstSlot DEF ForkAlloc, Unused, At
<1>b. /\ pid' = [pid EXCEPT ![q] = nextpid]
      /\ state' = [state EXCEPT ![q] = "USED"]
      /\ plock' = [plock EXCEPT ![q] = p]
      /\ np' = [np EXCEPT ![p] = q]
      /\ pc' = [pc EXCEPT ![p] = "alloc"]
      /\ nextpid' = nextpid + 1 /\ nextpid <= MAXPID
      /\ UNCHANGED <<parent, killed, waitlock, asked, parents>>
  BY DEF ForkAlloc, Goto
<1> HIDE DEF q
<1>1. TypeOK'
  BY InitSlot, <1>a, <1>b, ProcAssumption DEF PInv, TypeOK, States, PCs
<1>2. Pids'
  BY InitSlot, <1>a, <1>b DEF PInv, Pids, UniquePids, TypeOK
<1>3. Places'
  BY InitSlot, <1>a, <1>b DEF PInv, Places, TypeOK, Forks, Forking
<1>4. InitStays'
  BY InitSlot, <1>a, <1>b DEF PInv, InitStays, Live, TypeOK, Forks, Forking, Places
<1>5. Forks'
  BY InitSlot, <1>a, <1>b DEF PInv, Forks, Forking, TypeOK, Places
<1>6. Parents'
  BY InitSlot, <1>a, <1>b DEF PInv, Parents, Live, Forks, Forking, InitStays, Places, TypeOK
<1>7. Wakeups'
  BY InitSlot, <1>a, <1>b DEF PInv, Wakeups, Parents, Live, Forks, Forking, InitStays,
     Places, TypeOK
<1>8. Ppids'
  BY InitSlot, <1>a, <1>b DEF PInv, Ppids, Parents, Live, Forks, Forking, Places, TypeOK,
     Pids, UniquePids
<1> QED
  BY <1>1, <1>2, <1>3, <1>4, <1>5, <1>6, <1>7, <1>8 DEF PInv

(* A fork() that fails gives back the slot it had, and no other.           *)
LEMMA ForkFailInv ==
  ASSUME PInv, NEW p \in Slots, ForkFail(p)
  PROVE  PInv'
<1>1. TypeOK'
  BY InitSlot, ProcAssumption DEF PInv, TypeOK, States, PCs, ForkFail, At, Goto, freeproc,
     Forks, Forking
<1>2. Pids'
  BY InitSlot DEF PInv, Pids, UniquePids, TypeOK, ForkFail, At, Goto, freeproc, Forks, Forking
<1>3. Places'
  BY InitSlot DEF PInv, Places, TypeOK, Forks, Forking, ForkFail, At, Goto, freeproc
<1>4. InitStays'
  BY InitSlot DEF PInv, InitStays, Live, TypeOK, Forks, Forking, Places, ForkFail, At, Goto,
     freeproc
<1>5. Forks'
  BY InitSlot DEF PInv, Forks, Forking, TypeOK, Places, ForkFail, At, Goto, freeproc
<1>6. Parents'
  BY InitSlot DEF PInv, Parents, Live, Forks, Forking, InitStays, Places, TypeOK, ForkFail,
     At, Goto, freeproc
<1>7. Wakeups'
  BY InitSlot DEF PInv, Wakeups, Parents, Live, Forks, Forking, InitStays, Places, TypeOK,
     ForkFail, At, Goto, freeproc
<1>8. Ppids'
  BY InitSlot DEF PInv, Ppids, Parents, Live, Forks, Forking, Places, TypeOK, Pids,
     UniquePids, ForkFail, At, Goto, freeproc
<1> QED
  BY <1>1, <1>2, <1>3, <1>4, <1>5, <1>6, <1>7, <1>8 DEF PInv

(* The child stays USED when fork() releases np->lock.                     *)
LEMMA ForkReleaseInv ==
  ASSUME PInv, NEW p \in Slots, ForkRelease(p)
  PROVE  PInv'
<1>1. TypeOK'
  BY InitSlot, ProcAssumption DEF PInv, TypeOK, States, PCs, ForkRelease, At, Goto
<1>2. Pids'
  BY InitSlot DEF PInv, Pids, UniquePids, TypeOK, ForkRelease, At, Goto
<1>3. Places'
  BY InitSlot DEF PInv, Places, TypeOK, Forks, Forking, ForkRelease, At, Goto
<1>4. InitStays'
  BY InitSlot DEF PInv, InitStays, Live, TypeOK, Forks, Forking, Places, ForkRelease, At, Goto
<1>5. Forks'
  BY InitSlot DEF PInv, Forks, Forking, TypeOK, Places, ForkRelease, At, Goto
<1>6. Parents'
  BY InitSlot DEF PInv, Parents, Live, Forks, Forking, InitStays, Places, TypeOK,
     ForkRelease, At, Goto
<1>7. Wakeups'
  BY InitSlot DEF PInv, Wakeups, Parents, Live, Forks, Forking, InitStays, Places, TypeOK,
     ForkRelease, At, Goto
<1>8. Ppids'
  BY InitSlot DEF PInv, Ppids, Parents, Live, Forks, Forking, Places, TypeOK, Pids,
     UniquePids, ForkRelease, At, Goto
<1> QED
  BY <1>1, <1>2, <1>3, <1>4, <1>5, <1>6, <1>7, <1>8 DEF PInv

(* The child gets a parent that is not in exit().                          *)
LEMMA ForkParentInv ==
  ASSUME PInv, NEW p \in Slots, ForkParent(p)
  PROVE  PInv'
<1>1. TypeOK'
  BY InitSlot, ProcAssumption DEF PInv, TypeOK, States, PCs, ForkParent, At, Goto
<1>2. Pids'
  BY InitSlot DEF PInv, Pids, UniquePids, TypeOK, ForkParent, At, Goto
<1>3. Places'
  BY InitSlot DEF PInv, Places, TypeOK, Forks, Forking, ForkParent, At, Goto
<1>4. InitStays'
  BY InitSlot DEF PInv, InitStays, Live, TypeOK, Forks, Forking, Places, ForkParent, At, Goto
<1>5. Forks'
  BY InitSlot DEF PInv, Forks, Forking, TypeOK, Places, ForkParent, At, Goto
<1>6. Parents'
  BY InitSlot DEF PInv, Parents, Live, Forks, Forking, InitStays, Places, TypeOK,
     ForkParent, At, Goto
<1>7. Wakeups'
  BY InitSlot DEF PInv, Wakeups, Parents, Live, Forks, Forking, InitStays, Places, TypeOK,
     ForkParent, At, Goto
<1>8. Ppids'
  BY InitSlot DEF PInv, Ppids, Parents, Live, Forks, Forking, Places, TypeOK, Pids,
     UniquePids, ForkParent, At, Goto
<1> QED
  BY <1>1, <1>2, <1>3, <1>4, <1>5, <1>6, <1>7, <1>8 DEF PInv

(* The child gets its thread.                                              *)
LEMMA ForkStartInv ==
  ASSUME PInv, NEW p \in Slots, ForkStart(p)
  PROVE  PInv'
<1>1. TypeOK'
  BY InitSlot, ProcAssumption DEF PInv, TypeOK, States, PCs, ForkStart, At, Goto, Forks,
     Forking, Places
<1>2. Pids'
  BY InitSlot DEF PInv, Pids, UniquePids, TypeOK, ForkStart, At, Goto, Forks, Forking, Places
<1>3. Places'
  BY InitSlot DEF PInv, Places, TypeOK, Forks, Forking, ForkStart, At, Goto
<1>4. InitStays'
  BY InitSlot DEF PInv, InitStays, Live, TypeOK, Forks, Forking, Places, ForkStart, At, Goto
<1>5. Forks'
  BY InitSlot DEF PInv, Forks, Forking, TypeOK, Places, ForkStart, At, Goto
<1>6. Parents'
  BY InitSlot DEF PInv, Parents, Live, Forks, Forking, InitStays, Places, TypeOK, ForkStart,
     At, Goto
<1>7. Wakeups'
  BY InitSlot DEF PInv, Wakeups, Parents, Live, Forks, Forking, InitStays, Places, TypeOK,
     ForkStart, At, Goto
<1>8. Ppids'
  BY InitSlot DEF PInv, Ppids, Parents, Live, Forks, Forking, Places, TypeOK, Pids,
     UniquePids, ForkStart, At, Goto
<1> QED
  BY <1>1, <1>2, <1>3, <1>4, <1>5, <1>6, <1>7, <1>8 DEF PInv

(* init does not exit.                                                     *)
LEMMA ExitBeginInv ==
  ASSUME PInv, NEW p \in Slots, ExitBegin(p)
  PROVE  PInv'
<1>1. TypeOK'
  BY InitSlot, ProcAssumption DEF PInv, TypeOK, States, PCs, ExitBegin, At, Goto
<1>2. Pids'
  BY InitSlot DEF PInv, Pids, UniquePids, TypeOK, ExitBegin, At, Goto
<1>3. Places'
  BY InitSlot DEF PInv, Places, TypeOK, Forks, Forking, ExitBegin, At, Goto
<1>4. InitStays'
  BY InitSlot DEF PInv, InitStays, Live, TypeOK, Forks, Forking, Places, ExitBegin, At, Goto
<1>5. Forks'
  BY InitSlot DEF PInv, Forks, Forking, TypeOK, Places, ExitBegin, At, Goto
<1>6. Parents'
  BY InitSlot DEF PInv, Parents, Live, Forks, Forking, InitStays, Places, TypeOK, ExitBegin,
     At, Goto
<1>7. Wakeups'
  BY InitSlot DEF PInv, Wakeups, Parents, Live, Forks, Forking, InitStays, Places, TypeOK,
     ExitBegin, At, Goto
<1>8. Ppids'
  BY InitSlot DEF PInv, Ppids, Parents, Live, Forks, Forking, Places, TypeOK, Pids,
     UniquePids, ExitBegin, At, Goto
<1> QED
  BY <1>1, <1>2, <1>3, <1>4, <1>5, <1>6, <1>7, <1>8 DEF PInv

(* reparent() leaves no child behind, and wakes init.                      *)
LEMMA ReparentInv ==
  ASSUME PInv, NEW p \in Slots, Reparent(p)
  PROVE  PInv'
<1>1. TypeOK'
  BY InitSlot, ProcAssumption DEF PInv, TypeOK, States, PCs, Reparent, At, Goto, Reparented,
     Woken, CanScan
<1>2. Pids'
  BY InitSlot DEF PInv, Pids, UniquePids, TypeOK, Reparent, At, Goto, Reparented, Woken, CanScan
<1>3. Places'
  BY InitSlot DEF PInv, Places, TypeOK, Forks, Forking, Reparent, At, Goto, Reparented,
     Woken, CanScan
<1>4. InitStays'
  BY InitSlot DEF PInv, InitStays, Live, TypeOK, Forks, Forking, Places, Reparent, At, Goto,
     Reparented, Woken, CanScan
<1>5. Forks'
  BY InitSlot DEF PInv, Forks, Forking, TypeOK, Places, Reparent, At, Goto, Reparented,
     Woken, CanScan
<1>6. Parents'
  BY InitSlot DEF PInv, Parents, Live, Forks, Forking, InitStays, Places, TypeOK, Reparent,
     At, Goto, Reparented, Woken, CanScan
<1>7. Wakeups'
  BY InitSlot DEF PInv, Wakeups, Parents, Live, Forks, Forking, InitStays, Places, TypeOK,
     Reparent, At, Goto, Reparented, Woken, CanScan
<1>8. Ppids'
  BY InitSlot DEF PInv, Ppids, Parents, Live, Forks, Forking, Places, TypeOK, Pids,
     UniquePids, Reparent, At, Goto, Reparented, Woken, CanScan
<1> QED
  BY <1>1, <1>2, <1>3, <1>4, <1>5, <1>6, <1>7, <1>8 DEF PInv

(* The parent is awake before its child is a zombie.                       *)
LEMMA ExitNotifyInv ==
  ASSUME PInv, NEW p \in Slots, ExitNotify(p)
  PROVE  PInv'
<1>1. TypeOK'
  BY InitSlot, ProcAssumption DEF PInv, TypeOK, States, PCs, ExitNotify, At, Goto, Woken, CanScan
<1>2. Pids'
  BY InitSlot DEF PInv, Pids, UniquePids, TypeOK, ExitNotify, At, Goto, Woken, CanScan
<1>3. Places'
  BY InitSlot DEF PInv, Places, TypeOK, Forks, Forking, ExitNotify, At, Goto, Woken, CanScan
<1>4. InitStays'
  BY InitSlot DEF PInv, InitStays, Live, TypeOK, Forks, Forking, Places, ExitNotify, At,
     Goto, Woken, CanScan
<1>5. Forks'
  BY InitSlot DEF PInv, Forks, Forking, TypeOK, Places, ExitNotify, At, Goto, Woken, CanScan
<1>6. Parents'
  BY InitSlot DEF PInv, Parents, Live, Forks, Forking, InitStays, Places, TypeOK,
     ExitNotify, At, Goto, Woken, CanScan
<1>7. Wakeups'
  BY InitSlot DEF PInv, Wakeups, Parents, Live, Forks, Forking, InitStays, Places, TypeOK,
     ExitNotify, At, Goto, Woken, CanScan
<1>8. Ppids'
  BY InitSlot DEF PInv, Ppids, Parents, Live, Forks, Forking, Places, TypeOK, Pids,
     UniquePids, ExitNotify, At, Goto, Woken, CanScan
<1> QED
  BY <1>1, <1>2, <1>3, <1>4, <1>5, <1>6, <1>7, <1>8 DEF PInv

(* A zombie has no children, and its parent is not asleep.                 *)
LEMMA ExitZombieInv ==
  ASSUME PInv, NEW p \in Slots, ExitZombie(p)
  PROVE  PInv'
<1>1. TypeOK'
  BY InitSlot, ProcAssumption DEF PInv, TypeOK, States, PCs, ExitZombie, At, Goto
<1>2. Pids'
  BY InitSlot DEF PInv, Pids, UniquePids, TypeOK, ExitZombie, At, Goto
<1>3. Places'
  BY InitSlot DEF PInv, Places, TypeOK, Forks, Forking, ExitZombie, At, Goto
<1>4. InitStays'
  BY InitSlot DEF PInv, InitStays, Live, TypeOK, Forks, Forking, Places, ExitZombie, At, Goto
<1>5. Forks'
  BY InitSlot DEF PInv, Forks, Forking, TypeOK, Places, ExitZombie, At, Goto
<1>6. Parents'
  BY InitSlot DEF PInv, Parents, Live, Forks, Forking, InitStays, Places, TypeOK,
     ExitZombie, At, Goto
<1>7. Wakeups'
  BY InitSlot DEF PInv, Wakeups, Parents, Live, Forks, Forking, InitStays, Places, TypeOK,
     ExitZombie, At, Goto
<1>8. Ppids'
  BY InitSlot DEF PInv, Ppids, Parents, Live, Forks, Forking, Places, TypeOK, Pids,
     UniquePids, ExitZombie, At, Goto
<1> QED
  BY <1>1, <1>2, <1>3, <1>4, <1>5, <1>6, <1>7, <1>8 DEF PInv

(* The thread of a zombie leaves its stack.                                *)
LEMMA ExitSwtchInv ==
  ASSUME PInv, NEW p \in Slots, ExitSwtch(p)
  PROVE  PInv'
<1>1. TypeOK'
  BY InitSlot, ProcAssumption DEF PInv, TypeOK, States, PCs, ExitSwtch, At, Goto
<1>2. Pids'
  BY InitSlot DEF PInv, Pids, UniquePids, TypeOK, ExitSwtch, At, Goto
<1>3. Places'
  BY InitSlot DEF PInv, Places, TypeOK, Forks, Forking, ExitSwtch, At, Goto
<1>4. InitStays'
  BY InitSlot DEF PInv, InitStays, Live, TypeOK, Forks, Forking, Places, ExitSwtch, At, Goto
<1>5. Forks'
  BY InitSlot DEF PInv, Forks, Forking, TypeOK, Places, ExitSwtch, At, Goto
<1>6. Parents'
  BY InitSlot DEF PInv, Parents, Live, Forks, Forking, InitStays, Places, TypeOK, ExitSwtch,
     At, Goto
<1>7. Wakeups'
  BY InitSlot DEF PInv, Wakeups, Parents, Live, Forks, Forking, InitStays, Places, TypeOK,
     ExitSwtch, At, Goto
<1>8. Ppids'
  BY InitSlot DEF PInv, Ppids, Parents, Live, Forks, Forking, Places, TypeOK, Pids,
     UniquePids, ExitSwtch, At, Goto
<1> QED
  BY <1>1, <1>2, <1>3, <1>4, <1>5, <1>6, <1>7, <1>8 DEF PInv

(* wait() takes wait_lock.                                                 *)
LEMMA WaitLockInv ==
  ASSUME PInv, NEW p \in Slots, WaitLock(p)
  PROVE  PInv'
<1>1. TypeOK'
  BY InitSlot, ProcAssumption DEF PInv, TypeOK, States, PCs, WaitLock, At, Goto
<1>2. Pids'
  BY InitSlot DEF PInv, Pids, UniquePids, TypeOK, WaitLock, At, Goto
<1>3. Places'
  BY InitSlot DEF PInv, Places, TypeOK, Forks, Forking, WaitLock, At, Goto
<1>4. InitStays'
  BY InitSlot DEF PInv, InitStays, Live, TypeOK, Forks, Forking, Places, WaitLock, At, Goto
<1>5. Forks'
  BY InitSlot DEF PInv, Forks, Forking, TypeOK, Places, WaitLock, At, Goto
<1>6. Parents'
  BY InitSlot DEF PInv, Parents, Live, Forks, Forking, InitStays, Places, TypeOK, WaitLock, At, Goto
<1>7. Wakeups'
  BY InitSlot DEF PInv, Wakeups, Parents, Live, Forks, Forking, InitStays, Places, TypeOK,
     WaitLock, At, Goto
<1>8. Ppids'
  BY InitSlot DEF PInv, Ppids, Parents, Live, Forks, Forking, Places, TypeOK, Pids,
     UniquePids, WaitLock, At, Goto
<1> QED
  BY <1>1, <1>2, <1>3, <1>4, <1>5, <1>6, <1>7, <1>8 DEF PInv

(* wait() frees a zombie whose thread has left its stack.                  *)
LEMMA WaitReapInv ==
  ASSUME PInv, NEW p \in Slots, WaitReap(p)
  PROVE  PInv'
<1> DEFINE q == Min(Zombies(p))
<1>a. /\ q \in Slots /\ parent[q] = p /\ state[q] = "ZOMBIE" /\ plock[q] = None
      /\ state[p] = "RUNNABLE" /\ pc[p] = "scan"
  BY FirstSlot DEF WaitReap, Zombies, Children, ChildrenFree, At
<1>b. /\ \/ /\ pid' = [pid EXCEPT ![q] = 0]
            /\ parent' = [parent EXCEPT ![q] = None]
            /\ killed' = killed \ {q}
            /\ state' = [state EXCEPT ![q] = "UNUSED"]
         \/ UNCHANGED <<pid, parent, killed, state>>
      /\ waitlock' = None
      /\ pc' = [pc EXCEPT ![p] = "user"]
      /\ UNCHANGED <<nextpid, plock, np, asked, parents>>
  BY DEF WaitReap, freeproc, Goto
<1>c. pc[q] = "gone" /\ q # init /\ \A s \in Slots : parent[s] # q
  BY <1>a, InitSlot DEF PInv, Places, InitStays, Live, Parents
<1> HIDE DEF q
<1>1. TypeOK'
  BY InitSlot, <1>a, <1>b, <1>c, ProcAssumption DEF PInv, TypeOK, States, PCs
<1>2. Pids'
  BY InitSlot, <1>a, <1>b, <1>c DEF PInv, Pids, UniquePids, TypeOK
<1>3. Places'
  BY InitSlot, <1>a, <1>b, <1>c DEF PInv, Places, TypeOK, Forks, Forking
<1>4. InitStays'
  BY InitSlot, <1>a, <1>b, <1>c DEF PInv, InitStays, Live, TypeOK, Forks, Forking, Places
<1>5. Forks'
  BY InitSlot, <1>a, <1>b, <1>c DEF PInv, Forks, Forking, TypeOK, Places
<1>6. Parents'
  BY InitSlot, <1>a, <1>b, <1>c DEF PInv, Parents, Live, Forks, Forking, InitStays, Places, TypeOK
<1>7. Wakeups'
  BY InitSlot, <1>a, <1>b, <1>c DEF PInv, Wakeups, Parents, Live, Forks, Forking, InitStays,
     Places, TypeOK
<1>8. Ppids'
  BY InitSlot, <1>a, <1>b, <1>c DEF PInv, Ppids, Parents, Live, Forks, Forking, Places,
     TypeOK, Pids, UniquePids
<1> QED
  BY <1>1, <1>2, <1>3, <1>4, <1>5, <1>6, <1>7, <1>8 DEF PInv

(* wait() gives up.                                                        *)
LEMMA WaitNoneInv ==
  ASSUME PInv, NEW p \in Slots, WaitNone(p)
  PROVE  PInv'
<1>1. TypeOK'
  BY InitSlot, ProcAssumption DEF PInv, TypeOK, States, PCs, WaitNone, At, Goto
<1>2. Pids'
  BY InitSlot DEF PInv, Pids, UniquePids, TypeOK, WaitNone, At, Goto
<1>3. Places'
  BY InitSlot DEF PInv, Places, TypeOK, Forks, Forking, WaitNone, At, Goto
<1>4. InitStays'
  BY InitSlot DEF PInv, InitStays, Live, TypeOK, Forks, Forking, Places, WaitNone, At, Goto
<1>5. Forks'
  BY InitSlot DEF PInv, Forks, Forking, TypeOK, Places, WaitNone, At, Goto
<1>6. Parents'
  BY InitSlot DEF PInv, Parents, Live, Forks, Forking, InitStays, Places, TypeOK, WaitNone, At, Goto
<1>7. Wakeups'
  BY InitSlot DEF PInv, Wakeups, Parents, Live, Forks, Forking, InitStays, Places, TypeOK,
     WaitNone, At, Goto
<1>8. Ppids'
  BY InitSlot DEF PInv, Ppids, Parents, Live, Forks, Forking, Places, TypeOK, Pids,
     UniquePids, WaitNone, At, Goto
<1> QED
  BY <1>1, <1>2, <1>3, <1>4, <1>5, <1>6, <1>7, <1>8 DEF PInv

(* wait() decides to sleep when there is no zombie to reap.                *)
LEMMA WaitForChildInv ==
  ASSUME PInv, NEW p \in Slots, WaitForChild(p)
  PROVE  PInv'
<1>1. TypeOK'
  BY InitSlot, ProcAssumption DEF PInv, TypeOK, States, PCs, WaitForChild, At, Goto,
     Zombies, Children
<1>2. Pids'
  BY InitSlot DEF PInv, Pids, UniquePids, TypeOK, WaitForChild, At, Goto, Zombies, Children
<1>3. Places'
  BY InitSlot DEF PInv, Places, TypeOK, Forks, Forking, WaitForChild, At, Goto, Zombies, Children
<1>4. InitStays'
  BY InitSlot DEF PInv, InitStays, Live, TypeOK, Forks, Forking, Places, WaitForChild, At,
     Goto, Zombies, Children
<1>5. Forks'
  BY InitSlot DEF PInv, Forks, Forking, TypeOK, Places, WaitForChild, At, Goto, Zombies, Children
<1>6. Parents'
  BY InitSlot DEF PInv, Parents, Live, Forks, Forking, InitStays, Places, TypeOK,
     WaitForChild, At, Goto, Zombies, Children
<1>7. Wakeups'
  BY InitSlot DEF PInv, Wakeups, Parents, Live, Forks, Forking, InitStays, Places, TypeOK,
     WaitForChild, At, Goto, Zombies, Children
<1>8. Ppids'
  BY InitSlot DEF PInv, Ppids, Parents, Live, Forks, Forking, Places, TypeOK, Pids,
     UniquePids, WaitForChild, At, Goto, Zombies, Children
<1> QED
  BY <1>1, <1>2, <1>3, <1>4, <1>5, <1>6, <1>7, <1>8 DEF PInv

(* wait() sleeps; wait_lock has kept its children from exiting.            *)
LEMMA WaitSleepInv ==
  ASSUME PInv, NEW p \in Slots, WaitSleep(p)
  PROVE  PInv'
<1>1. TypeOK'
  BY InitSlot, ProcAssumption DEF PInv, TypeOK, States, PCs, WaitSleep, At, Goto
<1>2. Pids'
  BY InitSlot DEF PInv, Pids, UniquePids, TypeOK, WaitSleep, At, Goto
<1>3. Places'
  BY InitSlot DEF PInv, Places, TypeOK, Forks, Forking, WaitSleep, At, Goto
<1>4. InitStays'
  BY InitSlot DEF PInv, InitStays, Live, TypeOK, Forks, Forking, Places, WaitSleep, At, Goto
<1>5. Forks'
  BY InitSlot DEF PInv, Forks, Forking, TypeOK, Places, WaitSleep, At, Goto
<1>6. Parents'
  BY InitSlot DEF PInv, Parents, Live, Forks, Forking, InitStays, Places, TypeOK, WaitSleep,
     At, Goto
<1>7. Wakeups'
  BY InitSlot DEF PInv, Wakeups, Parents, Live, Forks, Forking, InitStays, Places, TypeOK,
     WaitSleep, At, Goto
<1>8. Ppids'
  BY InitSlot DEF PInv, Ppids, Parents, Live, Forks, Forking, Places, TypeOK, Pids,
     UniquePids, WaitSleep, At, Goto
<1> QED
  BY <1>1, <1>2, <1>3, <1>4, <1>5, <1>6, <1>7, <1>8 DEF PInv

(* kill() wakes a process, and frees none.                                 *)
LEMMA KillInv ==
  ASSUME PInv, NEW p \in Slots, NEW k \in KillArgs, Kill(p, k)
  PROVE  PInv'
<1> DEFINE q == Min(HasPid(k))
<1>a. q \in Slots
  BY FirstSlot DEF Kill, HasPid
<1>b. /\ state' = [state EXCEPT ![q] = IF state[q] = "SLEEPING" THEN "RUNNABLE" ELSE state[q]]
      /\ killed' = killed \cup {q}
      /\ asked' = asked \cup {k}
      /\ UNCHANGED <<pid, parent, nextpid, plock, waitlock, pc, np, parents>>
  BY DEF Kill, Woken
<1> HIDE DEF q
<1>1. TypeOK'
  BY InitSlot, <1>a, <1>b, ProcAssumption DEF PInv, TypeOK, States, PCs
<1>2. Pids'
  BY InitSlot, <1>a, <1>b DEF PInv, Pids, UniquePids, TypeOK
<1>3. Places'
  BY InitSlot, <1>a, <1>b DEF PInv, Places, TypeOK, Forks, Forking
<1>4. InitStays'
  BY InitSlot, <1>a, <1>b DEF PInv, InitStays, Live, TypeOK, Forks, Forking, Places
<1>5. Forks'
  BY InitSlot, <1>a, <1>b DEF PInv, Forks, Forking, TypeOK, Places
<1>6. Parents'
  BY InitSlot, <1>a, <1>b DEF PInv, Parents, Live, Forks, Forking, InitStays, Places, TypeOK
<1>7. Wakeups'
  BY InitSlot, <1>a, <1>b DEF PInv, Wakeups, Parents, Live, Forks, Forking, InitStays,
     Places, TypeOK
<1>8. Ppids'
  BY InitSlot, <1>a, <1>b DEF PInv, Ppids, Parents, Live, Forks, Forking, Places, TypeOK,
     Pids, UniquePids
<1> QED
  BY <1>1, <1>2, <1>3, <1>4, <1>5, <1>6, <1>7, <1>8 DEF PInv

(* sys_getprocinfo() reads p->parent.                                      *)
LEMMA InfoParentInv ==
  ASSUME PInv, NEW p \in Slots, InfoParent(p)
  PROVE  PInv'
<1>1. TypeOK'
  BY InitSlot, ProcAssumption DEF PInv, TypeOK, States, PCs, InfoParent, At, Goto
<1>2. Pids'
  BY InitSlot DEF PInv, Pids, UniquePids, TypeOK, InfoParent, At, Goto
<1>3. Places'
  BY InitSlot DEF PInv, Places, TypeOK, Forks, Forking, InfoParent, At, Goto
<1>4. InitStays'
  BY InitSlot DEF PInv, InitStays, Live, TypeOK, Forks, Forking, Places, InfoParent, At, Goto
<1>5. Forks'
  BY InitSlot DEF PInv, Forks, Forking, TypeOK, Places, InfoParent, At, Goto
<1>6. Parents'
  BY InitSlot DEF PInv, Parents, Live, Forks, Forking, InitStays, Places, TypeOK,
     InfoParent, At, Goto
<1>7. Wakeups'
  BY InitSlot DEF PInv, Wakeups, Parents, Live, Forks, Forking, InitStays, Places, TypeOK,
     InfoParent, At, Goto
<1>8. Ppids'
  BY InitSlot DEF PInv, Ppids, Parents, Live, Forks, Forking, Places, TypeOK, Pids,
     UniquePids, InfoParent, At, Goto
<1> QED
  BY <1>1, <1>2, <1>3, <1>4, <1>5, <1>6, <1>7, <1>8 DEF PInv

(* sys_getprocinfo() returns.                                              *)
LEMMA InfoPidInv ==
  ASSUME PInv, NEW p \in Slots, InfoPid(p)
  PROVE  PInv'
<1>1. TypeOK'
  BY InitSlot, ProcAssumption DEF PInv, TypeOK, States, PCs, InfoPid, At, Goto
<1>2. Pids'
  BY InitSlot DEF PInv, Pids, UniquePids, TypeOK, InfoPid, At, Goto
<1>3. Places'
  BY InitSlot DEF PInv, Places, TypeOK, Forks, Forking, InfoPid, At, Goto
<1>4. InitStays'
  BY InitSlot DEF PInv, InitStays, Live, TypeOK, Forks, Forking, Places, InfoPid, At, Goto
<1>5. Forks'
  BY InitSlot DEF PInv, Forks, Forking, TypeOK, Places, InfoPid, At, Goto
<1>6. Parents'
  BY InitSlot DEF PInv, Parents, Live, Forks, Forking, InitStays, Places, TypeOK, InfoPid, At, Goto
<1>7. Wakeups'
  BY InitSlot DEF PInv, Wakeups, Parents, Live, Forks, Forking, InitStays, Places, TypeOK,
     InfoPid, At, Goto
<1>8. Ppids'
  BY InitSlot DEF PInv, Ppids, Parents, Live, Forks, Forking, Places, TypeOK, Pids,
     UniquePids, InfoPid, At, Goto
<1> QED
  BY <1>1, <1>2, <1>3, <1>4, <1>5, <1>6, <1>7, <1>8 DEF PInv

(* Every step keeps the invariant. *)
LEMMA StepInv ==
  ASSUME PInv, [Next]_vars
  PROVE  PInv'
<1>1. CASE UNCHANGED vars
  BY <1>1 DEF vars, PInv, TypeOK, Pids, UniquePids, Places, InitStays, Live, Forks, Forking,
     Parents, Wakeups, Ppids
<1>2. ASSUME NEW p \in Slots, Fork(p) PROVE PInv'
  BY <1>2, ForkAllocInv, ForkFailInv, ForkReleaseInv, ForkParentInv, ForkStartInv, Zenon DEF Fork
<1>3. ASSUME NEW p \in Slots, Exit(p) PROVE PInv'
  BY <1>3, ExitBeginInv, ReparentInv, ExitNotifyInv, ExitZombieInv, ExitSwtchInv, Zenon DEF Exit
<1>4. ASSUME NEW p \in Slots, Wait(p) PROVE PInv'
  BY <1>4, WaitLockInv, WaitReapInv, WaitNoneInv, WaitForChildInv, WaitSleepInv, Zenon DEF Wait
<1>5. ASSUME NEW p \in Slots, GetProcInfo(p) PROVE PInv'
  BY <1>5, InfoParentInv, InfoPidInv, Zenon DEF GetProcInfo
<1>6. ASSUME NEW p \in Slots, NEW k \in KillArgs, Kill(p, k) PROVE PInv'
  BY <1>6, KillInv, Zenon
<1> QED
  BY <1>1, <1>2, <1>3, <1>4, <1>5, <1>6, Zenon DEF Next

-----------------------------------------------------------------------------
(* The flag of a killed process: freeproc() clears it, so that allocproc() *)
(* finds it clear, unless somebody calls kill(0).                          *)
LEMMA StepKills ==
  ASSUME PInv, Kills, 0 \notin KillArgs, [Next]_vars
  PROVE  Kills'
<1>1. CASE UNCHANGED <<pid, killed, asked>>
  BY <1>1 DEF Kills
<1>2. ASSUME NEW p \in Slots, ForkAlloc(p) PROVE Kills'
  <2>1. Min(Unused) \in Slots /\ pid[Min(Unused)] = 0
    BY <1>2, FirstSlot DEF ForkAlloc, Unused, PInv, Pids, UniquePids
  <2>2. Min(Unused) \notin killed
    BY <2>1 DEF Kills
  <2> QED
    BY <1>2, <2>1, <2>2 DEF ForkAlloc, Kills, PInv, TypeOK
<1>3. ASSUME NEW p \in Slots, ForkFail(p) PROVE Kills'
  BY <1>3 DEF ForkFail, freeproc, Kills, PInv, TypeOK
<1>4. ASSUME NEW p \in Slots, WaitReap(p) PROVE Kills'
  BY <1>4 DEF WaitReap, freeproc, Kills, PInv, TypeOK
<1>5. ASSUME NEW p \in Slots, NEW k \in KillArgs, Kill(p, k) PROVE Kills'
  <2>1. pid[Min(HasPid(k))] = k
    BY <1>5, FirstSlot DEF Kill, HasPid
  <2> QED
    BY <1>5, <2>1 DEF Kill, Kills
<1>6. ASSUME NEW p \in Slots, Fork(p) PROVE Kills'
  BY <1>6, <1>1, <1>2, <1>3 DEF Fork, ForkRelease, ForkParent, ForkStart
<1>7. ASSUME NEW p \in Slots, Exit(p) PROVE Kills'
  BY <1>7, <1>1 DEF Exit, ExitBegin, Reparent, ExitNotify, ExitZombie, ExitSwtch
<1>8. ASSUME NEW p \in Slots, Wait(p) PROVE Kills'
  BY <1>8, <1>1, <1>4 DEF Wait, WaitLock, WaitNone, WaitForChild, WaitSleep
<1>9. ASSUME NEW p \in Slots, GetProcInfo(p) PROVE Kills'
  BY <1>9, <1>1 DEF GetProcInfo, InfoParent, InfoPid
<1>10. CASE UNCHANGED vars
  BY <1>10, <1>1 DEF vars
<1> QED
  BY <1>5, <1>6, <1>7, <1>8, <1>9, <1>10, Zenon DEF Next

-----------------------------------------------------------------------------
(* The inductive invariant gives the parts of TableSound that concern      *)
(* pids, parents, wakeups and ppids.                                       *)
LEMMA InvSound ==
  ASSUME PInv
  PROVE  TypeOK /\ UniquePids /\ NoOrphan /\ NoLostWakeup /\ PpidStaleIfReparented /\ StackIsFree
<1>1. NoOrphan
  BY InitSlot DEF PInv, Parents, Live, NoOrphan
<1>2. NoLostWakeup
  BY InitSlot DEF PInv, Wakeups, NoLostWakeup, Zombies, Children
<1>3. PpidStaleIfReparented
  BY DEF PInv, Ppids, PpidStaleIfReparented, At, ppid
<1>4. StackIsFree
  BY DEF PInv, Places, StackIsFree
<1> QED
  BY <1>1, <1>2, <1>3, <1>4 DEF PInv, Pids

(* exit() and wait() for any number of slots and pids, whatever kill() is  *)
(* called with: pids are unique, exit() leaves no orphan, no zombie waits  *)
(* for a parent that sleeps, and a stale ppid comes from a reparent().     *)
THEOREM FamiliesAreSound ==
  Spec => [](TypeOK /\ UniquePids /\ NoOrphan /\ NoLostWakeup /\ PpidStaleIfReparented)
<1>1. Init => PInv
  BY Initially
<1>2. PInv /\ [Next]_vars => PInv'
  BY StepInv
<1>3. PInv => TypeOK /\ UniquePids /\ NoOrphan /\ NoLostWakeup /\ PpidStaleIfReparented
  BY InvSound
<1> QED
  BY <1>1, <1>2, <1>3, PTL DEF Spec

(* A slot is never freed or given out while a thread is on its kernel      *)
(* stack, for any number of slots.                                         *)
THEOREM StacksAreFree == Spec => []StackIsFree
<1>1. Init => PInv
  BY Initially
<1>2. PInv /\ [Next]_vars => PInv'
  BY StepInv
<1>3. PInv => StackIsFree
  BY InvSound
<1> QED
  BY <1>1, <1>2, <1>3, PTL DEF Spec

(* With kill(0) left out, a process is killed only by its own pid too.     *)
THEOREM TableIsSound ==
  ASSUME 0 \notin KillArgs
  PROVE  Spec => []TableSound
<1>1. Init => PInv /\ Kills
  BY Initially
<1>2. PInv /\ Kills /\ [Next]_vars => (PInv /\ Kills)'
  BY StepInv, StepKills
<1>3. PInv /\ Kills => TableSound
  BY InvSound DEF TableSound, Kills, KilledByPid
<1> QED
  BY <1>1, <1>2, <1>3, PTL DEF Spec
=============================================================================
