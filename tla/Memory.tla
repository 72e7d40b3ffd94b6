------------------------------- MODULE Memory -------------------------------
(***************************************************************************)
(* Physical memory and address spaces: kernel/kalloc.c, kernel/vm.c,       *)
(* exec() and sys_exec(), and from kernel/proc.c the memory side of        *)
(* allocproc(), freeproc(), fork() and growproc().                         *)
(*                                                                         *)
(* Pages have no identity: kmem.freelist is the number `free', and a page  *)
(* table is the set of the tables it is made of and the set of user pages  *)
(* it maps.  A page that is lost, or freed twice, shows as a sum that is   *)
(* wrong (Accounting).  Every turn of an allocating loop is an action, so  *)
(* that other processes take memory in between; a run of kfree()s is one.  *)
(* Addresses are counted in units of which PGSIZE make a page.             *)
(*                                                                         *)
(* A definition X_Y is a faulty variant of X; no specification uses it.    *)
(***************************************************************************)
EXTENDS Integers, Sequences, FiniteSets, FiniteSetsExt

CONSTANTS Procs,     \* slots of the process table
          initproc,  \* the first process
          NPAGES,    \* pages kinit() puts on the free list
          PGSIZE,    \* units in a page
          NPTE,      \* leaf entries in a page-table page (512)
          UINTMOD,   \* growproc() computes sizes modulo UINTMOD (2^32)
          SbrkArgs,  \* arguments of sbrk()
          Images,    \* program files: sequences of segments
          MAXARG,    \* bound: most arguments of exec()
          None       \* the null pointer

MemoryConstants ==
  /\ initproc \in Procs /\ None \notin Procs
  /\ NPAGES \in Nat /\ PGSIZE \in Nat \ {0} /\ NPTE \in Nat \ {0} /\ MAXARG \in Nat
  /\ UINTMOD > PGSIZE * NPAGES /\ UINTMOD % PGSIZE = 0
  /\ SbrkArgs \subseteq Int

VARIABLES
  free,   \* pages on kmem.freelist
  st,     \* [Procs -> {"unused", "used", "run", "zombie"}]
  tf,     \* [Procs -> BOOLEAN], is there a page p->trapframe?
  pt,     \* p->pagetable under <<p, "cur">>, exec()'s under <<p, "new">>
  sz,     \* [Procs -> Nat], p->sz
  pc,     \* [Procs -> where the process is in its system call]
  l,      \* [Procs -> its local variables]
  panic   \* has the kernel panicked?

vars == <<free, st, tf, pt, sz, pc, l, panic>>

(* The locals of fork(), growproc(), sys_exec() and exec(): the child; the *)
(* image, the argument pages held, the next segment, exec()'s sz; the page *)
(* table t being filled, the page mem just allocated, the a, oldsz and     *)
(* newsz of uvmalloc()'s loop (a is i of uvmcopy()) and where it returns.  *)
NoLocals == [child |-> None, img |-> <<>>, args |-> 0, seg |-> 1, sz |-> 0,
             t |-> None, mem |-> 0, a |-> 0, old |-> 0, new |-> 0, ret |-> "user"]

PGROUNDUP(a) == ((a + PGSIZE - 1) \div PGSIZE) * PGSIZE
Pages(a) == PGROUNDUP(a) \div PGSIZE
UserPages(a, b) == Pages(a)..(Pages(b) - 1)

(* uvmcreate(); and the tables walk() passes on its way to user page v or  *)
(* to the trampoline and the trapframe, which share theirs.                *)
EmptyTable == [tables |-> {}, map |-> {}, guard |-> {}]
High == -1
Path(v) == IF v = High THEN {<<1, 1>>, <<0, High>>} ELSE {<<1, 0>>, <<0, v \div NPTE>>}
Owned(T) == IF T = None THEN 0 ELSE 1 + Cardinality(T.tables) + Cardinality(T.map)

(* walk() with alloc, with f pages free: the missing tables are allocated  *)
(* from the top, and the first stays if there is no page for the second.   *)
WalkFails(T, f, v) == f < Cardinality(Path(v) \ T.tables)
Walk(T, f, v) ==
  [T EXCEPT !.tables = @ \cup {d \in Path(v) : WalkFails(T, f, v) => f > 0 /\ d[1] = 1}]

(* uvmunmap() with do_free, of the pages V; it panics on one not mapped.   *)
Unmap(T, V) == [T EXCEPT !.map = @ \ V, !.guard = @ \ V]

(* uvmdealloc(): what it unmaps.                                           *)
Uvmdealloc(oldsz, newsz) == IF newsz >= oldsz THEN {} ELSE UserPages(newsz, oldsz)

(* uvmfree(): freewalk() panics on a page uvmunmap() was not told of.      *)
UvmfreePanics(T, s) == T.map # UserPages(0, s)

-----------------------------------------------------------------------------
(* userinit() after kinit(): one page of initcode.                         *)
InitTable == [tables |-> Path(High) \cup Path(0), map |-> {0}, guard |-> {}]

Init ==
  /\ free = NPAGES - Owned(InitTable) - 1
  /\ st = [p \in Procs |-> IF p = initproc THEN "run" ELSE "unused"]
  /\ tf = [p \in Procs |-> p = initproc]
  /\ pt = [x \in Procs \X {"cur", "new"} |->
             IF x = <<initproc, "cur">> THEN InitTable ELSE None]
  /\ sz = [p \in Procs |-> IF p = initproc THEN PGSIZE ELSE 0]
  /\ pc = [p \in Procs |-> "user"]
  /\ l = [p \in Procs |-> NoLocals]
  /\ panic = FALSE

Goto(p, lab) == pc' = [pc EXCEPT ![p] = lab]
Return(p) == Goto(p, "user") /\ l' = [l EXCEPT ![p] = NoLocals]
Set(p, r) == l' = [l EXCEPT ![p] = r]
Running(p) == st[p] = "run" /\ pc[p] = "user"

-----------------------------------------------------------------------------
(* kalloc(); the caller goes on at lab, or at bad when there is no page.   *)
Kalloc(p, lab, bad) ==
  IF free > 0 THEN free' = free - 1 /\ Goto(p, lab) ELSE UNCHANGED free /\ Goto(p, bad)

(* kfree() of n pages.                                                     *)
Kfree(n) == free' = free + n

(* mappages() of the one page v of table t: on success the caller goes on  *)
(* at lab with record r, else at bad with its locals as they are.          *)
Mappages(p, t, v, T, lab, r, bad) ==
  LET W == Walk(pt[t], free, v) IN
  /\ free' = free - Cardinality(W.tables \ pt[t].tables)
  /\ IF WalkFails(pt[t], free, v)
     THEN pt' = [pt EXCEPT ![t] = W] /\ Goto(p, bad) /\ UNCHANGED <<l, panic>>
     ELSE /\ pt' = [pt EXCEPT ![t] = [T EXCEPT !.tables = W.tables]]
          /\ panic' = (panic \/ v \in pt[t].map)
          /\ Goto(p, lab) /\ Set(p, r)

(* freeproc(c), with the pages of mem and the user pages V already freed.  *)
Freeproc(c, V, mem) ==
  LET t == <<c, "cur">> IN
  /\ Kfree(mem + Owned(pt[t]) + (IF tf[c] THEN 1 ELSE 0))
  /\ panic' = (panic \/ (pt[t] # None /\ (~(V \subseteq pt[t].map)
                                           \/ UvmfreePanics(Unmap(pt[t], V), sz[c]))))
  /\ tf' = [tf EXCEPT ![c] = FALSE]
  /\ pt' = [pt EXCEPT ![t] = None]
  /\ sz' = [sz EXCEPT ![c] = 0]
  /\ st' = [st EXCEPT ![c] = "unused"]

-----------------------------------------------------------------------------
(* proc_pagetable(), for allocproc() and for exec().                       *)

(* uvmcreate().                                                            *)
Uvmcreate(p) ==
  /\ pc[p] = "pagetable"
  /\ Kalloc(p, "trampoline", IF l[p].ret = "fork" THEN "fork.bad" ELSE "exec.bad")
  /\ pt' = IF free > 0 THEN [pt EXCEPT ![l[p].t] = EmptyTable] ELSE pt
  /\ UNCHANGED <<st, tf, sz, l, panic>>

(* The trampoline; the trapframe needs no further table.                   *)
MapTrampoline(p) ==
  /\ pc[p] = "trampoline"
  /\ Mappages(p, l[p].t, High, pt[l[p].t],
              IF l[p].ret = "fork" THEN "uvmcopy" ELSE "load", l[p], "pagetable.bad")
  /\ UNCHANGED <<st, tf, sz>>

(* uvmfree() of a page table with no user page.                            *)
PagetableBad(p) ==
  LET t == l[p].t IN
  /\ pc[p] = "pagetable.bad"
  /\ Kfree(Owned(pt[t]))
  /\ panic' = (panic \/ UvmfreePanics(pt[t], 0))
  /\ pt' = [pt EXCEPT ![t] = None]
  /\ Goto(p, IF l[p].ret = "fork" THEN "fork.bad" ELSE "exec.bad")
  /\ UNCHANGED <<st, tf, sz, l>>

-----------------------------------------------------------------------------

(* fork(): allocproc() takes an UNUSED slot and a page for the trapframe.  *)
Fork(p) ==
  /\ Running(p)
  /\ \E c \in Procs :
       /\ st[c] = "unused"
       /\ st' = [st EXCEPT ![c] = "used"]
       /\ tf' = [tf EXCEPT ![c] = free > 0]
       /\ Set(p, [NoLocals EXCEPT !.child = c, !.t = <<c, "cur">>, !.ret = "fork"])
  /\ Kalloc(p, "pagetable", "fork.bad")
  /\ UNCHANGED <<pt, sz, panic>>

(* uvmcopy(): the head of its loop; after the last page, the rest of       *)
(* fork().                                                                 *)
Uvmcopy(p) ==
  LET c == l[p].child IN
  /\ pc[p] = "uvmcopy"
  /\ \/ /\ l[p].a >= sz[p]
        /\ sz' = [sz EXCEPT ![c] = sz[p]]
        /\ st' = [st EXCEPT ![c] = "run"]
        /\ Return(p)
        /\ UNCHANGED <<free, panic>>
     \/ /\ l[p].a < sz[p]
        /\ panic' = (panic \/ l[p].a \div PGSIZE \notin pt[<<p, "cur">>].map)
        /\ Kalloc(p, "uvmcopy.map", "uvmcopy.bad")
        /\ Set(p, [l[p] EXCEPT !.mem = IF free > 0 THEN 1 ELSE 0])
        /\ UNCHANGED <<sz, st>>
  /\ UNCHANGED <<tf, pt>>

(* mappages() of the copy, with the flags of the original.                 *)
UvmcopyMap(p) ==
  LET t == l[p].t
      v == l[p].a \div PGSIZE IN
  /\ pc[p] = "uvmcopy.map"
  /\ Mappages(p, t, v,
              [pt[t] EXCEPT !.map = @ \cup {v}, !.guard = @ \cup ({v} \cap pt[<<p, "cur">>].guard)],
              "uvmcopy", [l[p] EXCEPT !.mem = 0, !.a = @ + PGSIZE], "uvmcopy.bad")
  /\ UNCHANGED <<st, tf, sz>>

ForkBad_NoKfree(p) ==
  /\ pc[p] \in {"uvmcopy.bad", "fork.bad"}
  /\ Freeproc(l[p].child, 0..(l[p].a \div PGSIZE - 1), 0)
  /\ Return(p)

(* uvmcopy()'s err: and what fork() does on it; fork() when allocproc()    *)
(* fails is the same with nothing mapped.                                  *)
ForkBad(p) ==
  /\ pc[p] \in {"uvmcopy.bad", "fork.bad"}
  /\ Freeproc(l[p].child, 0..(l[p].a \div PGSIZE - 1), l[p].mem)
  /\ Return(p)

-----------------------------------------------------------------------------
(* A call of uvmalloc(t, old, new), with the caller's locals r; a smaller  *)
(* new makes it return old.                                                *)
CallUvmalloc(p, r, t, old, new, ret) ==
  /\ Goto(p, "uvmalloc")
  /\ Set(p, [r EXCEPT !.t = t, !.a = PGROUNDUP(old), !.old = PGROUNDUP(old),
                      !.new = Max({old, new}), !.ret = ret])

(* uvmalloc(): the head of its loop, and after the loop the caller, for    *)
(* whom a size of zero is a failure: growproc(), or exec() after a segment *)
(* or the stack, whose lower page becomes the guard page.                  *)
Uvmalloc(p) ==
  LET t == l[p].t
      r == l[p].new IN
  /\ pc[p] = "uvmalloc"
  /\ \/ /\ l[p].a < r
        /\ Kalloc(p, "uvmalloc.map", "uvmalloc.bad")
        /\ Set(p, [l[p] EXCEPT !.mem = IF free > 0 THEN 1 ELSE 0])
        /\ UNCHANGED <<pt, sz>>
     \/ /\ l[p].a >= r /\ l[p].ret = "growproc"
        /\ sz' = [sz EXCEPT ![p] = IF r = 0 THEN @ ELSE r]
        /\ Return(p)
        /\ UNCHANGED <<free, pt>>
     \/ /\ l[p].a >= r /\ l[p].ret # "growproc"
        /\ Goto(p, IF r = 0 THEN "exec.bad" ELSE l[p].ret)
        /\ Set(p, [l[p] EXCEPT !.sz = r])
        /\ pt' = IF l[p].ret = "push"
                 THEN [pt EXCEPT ![t].guard = @ \cup {Pages(r) - 2}] ELSE pt
        /\ UNCHANGED <<free, sz>>
  /\ UNCHANGED <<st, tf, panic>>

UvmallocMap(p) ==
  LET t == l[p].t
      v == l[p].a \div PGSIZE IN
  /\ pc[p] = "uvmalloc.map"
  /\ Mappages(p, t, v, [pt[t] EXCEPT !.map = @ \cup {v}],
              "uvmalloc", [l[p] EXCEPT !.mem = 0, !.a = @ + PGSIZE], "uvmalloc.bad")
  /\ UNCHANGED <<st, tf, sz>>

(* uvmalloc() out of memory: the pages it mapped are unmapped again.       *)
UvmallocBad(p) ==
  LET t == l[p].t
      V == Uvmdealloc(l[p].a, l[p].old) IN
  /\ pc[p] = "uvmalloc.bad"
  /\ Kfree(l[p].mem + Cardinality(V))
  /\ panic' = (panic \/ ~(V \subseteq pt[t].map))
  /\ pt' = [pt EXCEPT ![t] = Unmap(@, V)]
  /\ IF l[p].ret = "growproc" THEN Return(p)
     ELSE Goto(p, "exec.bad") /\ Set(p, [l[p] EXCEPT !.mem = 0])
  /\ UNCHANGED <<st, tf, sz>>

(* growproc(n): sizes are 32-bit there.                                    *)
Growproc(p, n) ==
  LET new == (sz[p] + n) % UINTMOD
      V == Uvmdealloc(sz[p], new) IN
  \/ /\ n > 0
     /\ CallUvmalloc(p, NoLocals, <<p, "cur">>, sz[p], new, "growproc")
     /\ UNCHANGED <<free, pt, sz, panic>>
  \/ /\ n < 0
     /\ Kfree(Cardinality(V))
     /\ panic' = (panic \/ ~(V \subseteq pt[<<p, "cur">>].map))
     /\ pt' = [pt EXCEPT ![<<p, "cur">>] = Unmap(@, V)]
     /\ sz' = [sz EXCEPT ![p] = Min({sz[p], new})]
     /\ UNCHANGED <<pc, l>>

(* sys_sbrk().                                                             *)
SysSbrk(p) ==
  /\ Running(p)
  /\ \E n \in SbrkArgs : Growproc(p, n)
  /\ UNCHANGED <<st, tf>>

-----------------------------------------------------------------------------
(* sys_exec(): a page for each argument.  A bad pointer, and too many      *)
(* arguments, end in bad:.                                                 *)
SysExec(p) ==
  /\ Running(p)
  /\ Goto(p, "args")
  /\ UNCHANGED <<free, st, tf, pt, sz, l, panic>>

SysExecArg(p) ==
  /\ pc[p] = "args"
  /\ IF l[p].args >= MAXARG THEN Goto(p, "freeargs") /\ UNCHANGED <<free, l>>
     ELSE \/ Goto(p, "freeargs") /\ UNCHANGED <<free, l>>
          \/ Goto(p, "exec") /\ UNCHANGED <<free, l>>
          \/ \E lab \in {"args", "freeargs"} :
               /\ Kalloc(p, lab, "freeargs")
               /\ Set(p, [l[p] EXCEPT !.args = @ + (IF free > 0 THEN 1 ELSE 0)])
  /\ UNCHANGED <<st, tf, pt, sz, panic>>

(* exec(): the file may be missing or not be a program.                    *)
Exec(p) ==
  /\ pc[p] = "exec"
  /\ \/ Goto(p, "exec.bad") /\ UNCHANGED l
     \/ /\ Goto(p, "pagetable")
        /\ \E img \in Images :
             Set(p, [l[p] EXCEPT !.img = img, !.t = <<p, "new">>, !.ret = "exec"])
  /\ UNCHANGED <<free, st, tf, pt, sz, panic>>

(* The head of exec()'s loop over the program headers.  A segment is       *)
(* "early" when its header is rejected, "skip" when it is not loaded, and  *)
(* "late" when it is rejected after the memory for it was allocated.       *)
ExecLoad(p) ==
  LET s == l[p].img[l[p].seg]
      top == PGROUNDUP(l[p].sz) IN
  /\ pc[p] = "load"
  /\ IF l[p].seg > Len(l[p].img)
     THEN CallUvmalloc(p, [l[p] EXCEPT !.sz = top], <<p, "new">>, top, top + 2 * PGSIZE, "push")
     ELSE \/ s.kind = "early" /\ Goto(p, "exec.bad") /\ UNCHANGED l
          \/ s.kind = "skip" /\ UNCHANGED pc /\ Set(p, [l[p] EXCEPT !.seg = @ + 1])
          \/ /\ s.kind \in {"ok", "late"}
             /\ CallUvmalloc(p, l[p], <<p, "new">>, l[p].sz, s.end, "loadseg")
  /\ UNCHANGED <<free, st, tf, pt, sz, panic>>

ExecLoadseg_Ignored(p) ==
  LET s == l[p].img[l[p].seg] IN
  /\ pc[p] = "loadseg"
  /\ panic' = (panic \/ ~(UserPages(0, s.end) \subseteq pt[<<p, "new">>].map))
  /\ Goto(p, "load")
  /\ Set(p, [l[p] EXCEPT !.seg = @ + 1])
  /\ UNCHANGED <<free, st, tf, pt, sz>>

(* loadseg(): it panics on a page that is not mapped.                      *)
ExecLoadseg(p) ==
  LET s == l[p].img[l[p].seg] IN
  /\ pc[p] = "loadseg"
  /\ panic' = (panic \/ ~(UserPages(0, s.end) \subseteq pt[<<p, "new">>].map))
  /\ Goto(p, IF s.kind = "late" THEN "exec.bad" ELSE "load")
  /\ Set(p, [l[p] EXCEPT !.seg = @ + 1])
  /\ UNCHANGED <<free, st, tf, pt, sz>>

(* The arguments are pushed on the new stack, and may not fit; then the    *)
(* new image replaces the old.                                             *)
ExecCommit(p) ==
  LET old == pt[<<p, "cur">>] IN
  /\ pc[p] = "push"
  /\ \/ Goto(p, "exec.bad") /\ UNCHANGED <<free, pt, sz, panic>>
     \/ /\ pt' = [pt EXCEPT ![<<p, "cur">>] = pt[<<p, "new">>], ![<<p, "new">>] = None]
        /\ sz' = [sz EXCEPT ![p] = l[p].sz]
        /\ Kfree(Owned(old))
        /\ panic' = (panic \/ UvmfreePanics(old, sz[p]))
        /\ Goto(p, "freeargs")
  /\ UNCHANGED <<st, tf, l>>

(* exec()'s bad:.                                                          *)
ExecBad(p) ==
  LET T == pt[<<p, "new">>] IN
  /\ pc[p] = "exec.bad"
  /\ Kfree(Owned(T))
  /\ panic' = (panic \/ (T # None /\ UvmfreePanics(T, l[p].sz)))
  /\ pt' = [pt EXCEPT ![<<p, "new">>] = None]
  /\ Goto(p, "freeargs")
  /\ Set(p, [NoLocals EXCEPT !.args = l[p].args])
  /\ UNCHANGED <<st, tf, sz>>

(* sys_exec() frees the arguments, however exec() ended.                   *)
SysExecFree(p) ==
  /\ pc[p] = "freeargs"
  /\ Kfree(l[p].args)
  /\ Return(p)
  /\ UNCHANGED <<st, tf, pt, sz, panic>>

-----------------------------------------------------------------------------
(* exit(), and wait() in the parent, which frees the zombie.               *)
Exit(p) ==
  /\ Running(p) /\ p # initproc
  /\ st' = [st EXCEPT ![p] = "zombie"]
  /\ UNCHANGED <<free, tf, pt, sz, pc, l, panic>>

Reap(p) ==
  /\ st[p] = "zombie"
  /\ Freeproc(p, {}, 0)
  /\ UNCHANGED <<pc, l>>

Next ==
  \E p \in Procs :
    \/ Uvmcreate(p) \/ MapTrampoline(p) \/ PagetableBad(p)
    \/ Fork(p) \/ Uvmcopy(p) \/ UvmcopyMap(p) \/ ForkBad(p)
    \/ Uvmalloc(p) \/ UvmallocMap(p) \/ UvmallocBad(p) \/ SysSbrk(p)
    \/ SysExec(p) \/ SysExecArg(p) \/ Exec(p) \/ ExecLoad(p) \/ ExecLoadseg(p)
    \/ ExecCommit(p) \/ ExecBad(p) \/ SysExecFree(p)
    \/ Exit(p) \/ Reap(p)

Spec == Init /\ [][Next]_vars

-----------------------------------------------------------------------------
Tables == DOMAIN pt

TypeOK ==
  /\ free \in 0..NPAGES
  /\ st \in [Procs -> {"unused", "used", "run", "zombie"}]
  /\ tf \in [Procs -> BOOLEAN]
  /\ \A t \in Tables : pt[t] # None =>
       /\ pt[t].guard \subseteq pt[t].map
       /\ \A v \in pt[t].map : Path(v) \subseteq pt[t].tables
  /\ \A p \in Procs : sz[p] \in Nat /\ l[p].args \in 0..MAXARG /\ l[p].mem \in 0..1

(* No page is lost and none is freed twice, whatever failed on the way:    *)
(* every page of kinit() is on the free list, in one page table, a         *)
(* trapframe, an argument of exec() or in the hands of an allocating loop; *)
(* and a process in user space holds nothing but its image.                *)
Accounting ==
  /\ NPAGES = free + MapThenSumSet(LAMBDA t : Owned(pt[t]), Tables)
             + MapThenSumSet(LAMBDA p : l[p].args + l[p].mem + (IF tf[p] THEN 1 ELSE 0), Procs)
  /\ \A p \in Procs : pc[p] = "user" => l[p] = NoLocals /\ pt[<<p, "new">>] = None

(* p->sz says which pages are mapped: uvmunmap() relies on it when the     *)
(* image is freed, and so does exec() with its own sz.  Only inside        *)
(* uvmalloc() are there more, the ones it will give back if it fails.      *)
SzMapped ==
  \A p \in Procs :
    LET Loop(t) == IF l[p].t = t /\ pc[p] \in {"uvmalloc", "uvmalloc.map", "uvmalloc.bad"}
                   THEN UserPages(l[p].old, l[p].a) ELSE {} IN
    /\ st[p] \in {"run", "zombie"} =>
         pt[<<p, "cur">>].map = UserPages(0, sz[p]) \cup Loop(<<p, "cur">>)
    /\ pt[<<p, "new">>] # None =>
         pt[<<p, "new">>].map = UserPages(0, l[p].sz) \cup Loop(<<p, "new">>)

(* None of the panics of vm.c is reached: remap, not mapped, leaf, page    *)
(* not present, address should exist.                                      *)
NoPanic == ~panic

(* A child starts with the pages, the guard page and the size its parent   *)
(* has at that moment, and only with all of them.                          *)
ForkIsCopy ==
  [][\A p \in Procs : LET c == l[p].child IN
       c # None /\ st[c] = "used" /\ st'[c] = "run" =>
         /\ sz'[c] = sz'[p] /\ tf'[c]
         /\ pt'[<<c, "cur">>].map = pt'[<<p, "cur">>].map
         /\ pt'[<<c, "cur">>].guard = pt'[<<p, "cur">>].guard]_vars

(* exec() replaces the image in one step and only by a complete one, with  *)
(* every segment loaded and a guard page right below the stack; otherwise  *)
(* only sbrk() touches the image of a running process.                     *)
ExecAllOrNothing ==
  [][\A p \in Procs : st[p] = "run" /\ st'[p] = "run" =>
       \/ UNCHANGED <<pt[<<p, "cur">>], sz[p]>>
       \/ pc[p] = "user" \/ l[p].ret = "growproc"
       \/ LET T == pt'[<<p, "cur">>] IN
          /\ l[p].seg > Len(l[p].img)
          /\ \A i \in DOMAIN l[p].img : l[p].img[i].kind \in {"ok", "skip"}
          /\ T.map = UserPages(0, sz'[p]) /\ T.guard = {Pages(sz'[p]) - 2}]_vars

(* The memory in every state, whatever allocation failed before: the pages *)
(* add up, p->sz says what is mapped, and nothing in vm.c has panicked.    *)
MemorySound == TypeOK /\ Accounting /\ SzMapped /\ NoPanic

(* A process starts, and goes on, with a whole image: fork() gives a child *)
(* all of its parent's or no child, exec() all of the file's or the old.   *)
WholeImages == ForkIsCopy /\ ExecAllOrNothing
=============================================================================
