----------------------------- MODULE PipeProofs -----------------------------
(***************************************************************************)
(* Proofs about the pipe of module Pipe, for any number of readers and     *)
(* writers and any size of the ring that divides the range of nread and    *)
(* nwrite: a call waits as long as it has to, the pipe is freed with its   *)
(* last descriptor, and the ring implements the queue of module ByteQueue. *)
(***************************************************************************)
EXTENDS Pipe, TLAPS

(* pi->lock and who is inside it. *)
Locked ==
  \A p \in Procs :
    /\ pc[p] \in {"loop", "copy", "sleep"} <=> lock = p
    /\ pc[p] = "copy" => p \in Readers
    /\ pc[p] = "closed" <=> p \notin open

(* What a process knows that is about to sleep, or asleep. *)
Waiting ==
  /\ \A r \in Readers :
       /\ pc[r] = "sleep" => Empty /\ writeopen
       /\ pc[r] = "asleep" => \/ writeopen /\ (Empty \/ killed \cap Writers # {})
                              \/ lock \in Writers /\ pc[lock] = "loop"
  /\ \A w \in Writers :
       /\ pc[w] = "sleep" => Full /\ readopen
       /\ pc[w] = "asleep" => \/ Full /\ readopen
                              \/ lock \in Readers /\ pc[lock] = "copy"
       /\ pc[w] \in {"sleep", "asleep"} => \A r \in Readers : pc[r] # "asleep"

(* The bytes in the ring fit into it. *)
Fits == Count <= PIPESIZE

(* The inductive invariant. *)
PInv == TypeOK /\ Locked /\ Waiting /\ NoFalseEof /\ FreedWhenUnused /\ Fits

-----------------------------------------------------------------------------
(* The remainder of a quotient. *)
LEMMA ModUnique ==
  ASSUME NEW m \in Nat \ {0}, NEW q \in Int, NEW r \in 0..(m - 1)
  PROVE  (q * m + r) % m = r
OBVIOUS

(* Quotient and remainder. *)
LEMMA ModDiv ==
  ASSUME NEW m \in Nat \ {0}, NEW a \in Int
  PROVE  a \div m \in Int /\ a % m \in 0..(m - 1) /\ a = (a \div m) * m + (a % m)
OBVIOUS

(* Remainders do not notice a multiple of the modulus. *)
LEMMA ModShift ==
  ASSUME NEW m \in Nat \ {0}, NEW a \in Int, NEW u \in Int, u % m = 0
  PROVE  (a + u) % m = a % m
<1> DEFINE q == a \div m
           r == a % m
           k == u \div m
<1>1. q \in Int /\ r \in 0..(m - 1) /\ a = q * m + r
  BY ModDiv
<1>2. k \in Int /\ u = k * m
  BY ModDiv
<1> HIDE DEF q, r, k
<1>3. a + u = (q + k) * m + r
  BY <1>1, <1>2
<1>4. (a + u) % m = r
  BY <1>1, <1>2, <1>3, ModUnique
<1> QED
  BY <1>4 DEF r

(* The same place in the ring, if the counter wraps around at u or not. *)
LEMMA ModWrap ==
  ASSUME NEW m \in Nat \ {0}, NEW x \in Int, NEW y \in Int, NEW u \in Int,
         u % m = 0, x = y \/ x = y + u
  PROVE  x % m = y % m
BY ModShift, Zenon

(* Numbers less than the modulus apart have different remainders. *)
LEMMA ModDistinct ==
  ASSUME NEW m \in Nat \ {0}, NEW a \in Int, NEW b \in Int, a < b, b < a + m
  PROVE  a % m # b % m
<1> SUFFICES ASSUME a % m = b % m PROVE FALSE
  OBVIOUS
<1> DEFINE q == a \div m
           k == b \div m
           r == a % m
<1>1. q \in Int /\ k \in Int /\ r \in Int /\ a = q * m + r /\ b = k * m + r
  BY ModDiv
<1> HIDE DEF q, k, r
<1>2. b - a = (k - q) * m
  BY <1>1
<1>3. CASE k - q >= 1
  <2>1. (k - q) * m >= m
    BY <1>1, <1>3
  <2> QED
    BY <1>2, <2>1
<1>4. CASE k - q <= 0
  <2>1. (k - q) * m <= 0
    BY <1>1, <1>4
  <2> QED
    BY <1>2, <2>1
<1> QED
  BY <1>1, <1>3, <1>4

(* Arithmetic modulo UINTMOD without remainders. *)
Arithmetic ==
  /\ Count = IF nwrite >= nread THEN nwrite - nread ELSE nwrite - nread + UINTMOD
  /\ Count \in Nat
  /\ Full <=> Count = PIPESIZE
  /\ Empty <=> Count = 0
  /\ \A k \in 0..(UINTMOD - 1) : Incr(k) = IF k + 1 = UINTMOD THEN 0 ELSE k + 1

(* What the counters say of the ring. *)
LEMMA CountIs ==
  ASSUME PipeConstants
  PROVE  TypeOK => Arithmetic
<1> SUFFICES ASSUME TypeOK PROVE Arithmetic
  OBVIOUS
<1>1. /\ \A a \in 0..(UINTMOD - 1) : a % UINTMOD = a
      /\ \A a \in UINTMOD..(2 * UINTMOD - 1) : a % UINTMOD = a - UINTMOD
      /\ \A a \in (-UINTMOD)..(-1) : a % UINTMOD = a + UINTMOD
  BY DEF PipeConstants
<1>2. /\ nread \in 0..(UINTMOD - 1) /\ nwrite \in 0..(UINTMOD - 1)
      /\ UINTMOD \in Nat /\ PIPESIZE \in Nat /\ PIPESIZE > 0 /\ UINTMOD > PIPESIZE
  BY DEF TypeOK, PipeConstants
<1>3. Count = IF nwrite >= nread THEN nwrite - nread ELSE nwrite - nread + UINTMOD
  BY <1>1, <1>2 DEF Count
<1>4. (nread + PIPESIZE) % UINTMOD = IF nread + PIPESIZE < UINTMOD THEN nread + PIPESIZE
                                     ELSE nread + PIPESIZE - UINTMOD
  BY <1>1, <1>2
<1>5. \A k \in 0..(UINTMOD - 1) : Incr(k) = IF k + 1 = UINTMOD THEN 0 ELSE k + 1
  BY <1>1, <1>2 DEF Incr
<1> QED
  BY <1>2, <1>3, <1>4, <1>5 DEF Full, Empty, Arithmetic

(* The same in the next state. *)
LEMMA CountIsNext ==
  ASSUME PipeConstants
  PROVE  TypeOK' => Arithmetic'
BY CountIs, PTL

-----------------------------------------------------------------------------
(* The invariant holds after pipealloc(). *)
LEMMA InitPInv ==
  ASSUME PipeConstants, Init
  PROVE  PInv
<1>1. TypeOK
  <2>1. data \in [0..(PIPESIZE - 1) -> Bytes]
    BY DEF Init
  <2> QED
    BY <2>1 DEF TypeOK, Init, PCs, PipeConstants
<1>2. Locked /\ Waiting /\ NoFalseEof
  BY DEF Init, Locked, Waiting, NoFalseEof, PipeConstants, Procs
<1>3. FreedWhenUnused
  BY DEF Init, FreedWhenUnused, PipeConstants, Procs
<1>4. Fits
  BY <1>1, CountIs DEF Init, Fits, Empty, PipeConstants, Arithmetic
<1> QED
  BY <1>1, <1>2, <1>3, <1>4 DEF PInv

(* While a process has its descriptor, the pipe is not freed. *)
LEMMA StillThere ==
  ASSUME PInv, NEW p \in Procs, pc[p] # "closed"
  PROVE  p \in open /\ ~freed
BY DEF PInv, Locked, FreedWhenUnused

(* A step of a process inside the kernel or on its way there, that changes *)
(* neither bytes nor descriptors, keeps what is not about waiting.         *)
LEMMA ControlStep ==
  ASSUME PipeConstants, PInv, NEW p \in Procs, pc[p] # "closed",
         UNCHANGED <<data, nread, nwrite, open, freed, killed, last>>
  PROVE  /\ Fits' /\ FreedWhenUnused'
         /\ Empty' = Empty /\ Full' = Full /\ readopen' = readopen /\ writeopen' = writeopen
<1>1. p \in open /\ ~freed
  BY StillThere
<1> QED
  BY <1>1 DEF PInv, Fits, Count, FreedWhenUnused, Empty, Full, readopen, writeopen

(* The call begins. *)
LEMMA CallInv ==
  ASSUME PipeConstants, PInv, NEW p \in Procs, NEW m \in 0..MAXN, Call(p, m)
  PROVE  PInv'
<1>1. TypeOK /\ pc[p] = "user" /\ pc' = [pc EXCEPT ![p] = "call"] /\ n' = [n EXCEPT ![p] = m]
      /\ UNCHANGED <<data, nread, nwrite, open, freed, lock, i, killed, last>>
  BY DEF Call, Goto, PInv
<1>2. TypeOK'
  BY <1>1 DEF TypeOK, PCs
<1>3. Fits' /\ FreedWhenUnused'
  BY <1>1, ControlStep
<1>4. Locked'
  BY <1>1 DEF PInv, Locked, TypeOK
<1>5. Waiting' /\ NoFalseEof'
  BY <1>1, ControlStep DEF PInv, Waiting, NoFalseEof, TypeOK, Procs
<1> QED
  BY <1>2, <1>3, <1>4, <1>5 DEF PInv

(* acquire(&pi->lock) *)
LEMMA LockInv ==
  ASSUME PipeConstants, PInv, NEW p \in Procs, Lock(p)
  PROVE  PInv'
<1>1. TypeOK /\ pc[p] = "call" /\ lock = Nobody /\ lock' = p /\ pc' = [pc EXCEPT ![p] = "loop"]
      /\ UNCHANGED <<data, nread, nwrite, open, freed, n, i, killed, last>>
  BY DEF Lock, Goto, PInv
<1>2. TypeOK'
  BY <1>1 DEF TypeOK, PCs
<1>3. /\ Fits' /\ FreedWhenUnused'
      /\ Empty' = Empty /\ Full' = Full /\ readopen' = readopen /\ writeopen' = writeopen
  BY <1>1, ControlStep, Zenon
<1>4. Locked'
  BY <1>1 DEF PInv, Locked, TypeOK, PipeConstants, Procs
<1>5. \A q \in Procs : pc'[q] = IF q = p THEN "loop" ELSE pc[q]
  BY <1>1 DEF TypeOK
<1>6. /\ \A r \in Readers : pc[r] = "asleep" => writeopen /\ (Empty \/ killed \cap Writers # {})
      /\ \A w \in Writers : pc[w] = "asleep" => Full /\ readopen
  BY <1>1 DEF PInv, Waiting, PipeConstants, Procs
<1>7. Waiting'
  <2>1. killed' = killed
    BY <1>1
  <2>2. \A r \in Readers : /\ pc'[r] = "sleep" => Empty /\ writeopen
                           /\ pc'[r] = "asleep" => pc[r] = "asleep"
    BY <1>5 DEF PInv, Waiting, Procs
  <2>3. \A w \in Writers : /\ pc'[w] = "sleep" => Full /\ readopen
                           /\ pc'[w] = "asleep" => pc[w] = "asleep"
                           /\ pc'[w] \in {"sleep", "asleep"} => \A r \in Readers : pc[r] # "asleep"
    BY <1>5 DEF PInv, Waiting, Procs
  <2> QED
    BY <1>3, <1>6, <2>1, <2>2, <2>3, Zenon DEF Waiting
<1>8. NoFalseEof'
  <2>1. \A r \in Readers : pc'[r] = "copy" => pc[r] = "copy"
    BY <1>5 DEF Procs
  <2>2. i' = i
    BY <1>1
  <2> QED
    BY <1>3, <2>1, <2>2 DEF PInv, NoFalseEof
<1> QED
  BY <1>2, <1>3, <1>4, <1>7, <1>8 DEF PInv

(* sleep() *)
LEMMA SleepInv ==
  ASSUME PipeConstants, PInv, NEW p \in Procs, Sleep(p)
  PROVE  PInv'
<1>1. TypeOK /\ pc[p] = "sleep" /\ lock' = Nobody /\ pc' = [pc EXCEPT ![p] = "asleep"]
      /\ UNCHANGED <<data, nread, nwrite, open, freed, n, i, killed, last>>
  BY DEF Sleep, Goto, PInv
<1>2. TypeOK'
  BY <1>1 DEF TypeOK, PCs
<1>3. Fits' /\ FreedWhenUnused'
  BY <1>1, ControlStep
<1>4. lock = p
  BY <1>1 DEF PInv, Locked
<1>5. Locked'
  BY <1>1, <1>4 DEF PInv, Locked, TypeOK, PipeConstants, Procs
<1>6. ~(Empty /\ Full)
  BY <1>1, CountIs DEF PipeConstants, Arithmetic
<1>7. NoFalseEof'
  BY <1>1, ControlStep, Zenon DEF PInv, NoFalseEof, TypeOK, Procs
<1>8. Waiting'
  <2>1. \A q \in Procs : pc'[q] = IF q = p THEN "asleep" ELSE pc[q]
    BY <1>1 DEF TypeOK
  <2>2. \A q \in Procs : q # p => pc[q] # "sleep"
    BY <1>4 DEF PInv, Locked
  <2>3. CASE p \in Readers
    <3>1. p \notin Writers /\ Empty /\ writeopen
      BY <1>1, <2>3 DEF PInv, Waiting, PipeConstants
    <3>2. \A w \in Writers : pc[w] \notin {"sleep", "asleep"}
      BY <1>1, <1>4, <1>6, <2>2, <2>3, <3>1 DEF PInv, Waiting, Procs
    <3>3. \A r \in Readers : pc[r] = "asleep" => writeopen /\ (Empty \/ killed \cap Writers # {})
      BY <3>1
    <3> QED
      BY <1>1, <2>1, <2>2, <3>1, <3>2, <3>3, ControlStep, Zenon DEF Waiting, Procs
  <2>4. CASE p \in Writers
    <3>1. p \notin Readers /\ Full /\ readopen /\ \A r \in Readers : pc[r] # "asleep"
      BY <1>1, <2>4 DEF PInv, Waiting, PipeConstants
    <3>2. \A w \in Writers : pc'[w] # "sleep"
      BY <2>1, <2>2 DEF Procs
    <3>3. \A r \in Readers : pc'[r] \notin {"sleep", "asleep"}
      BY <2>1, <2>2, <3>1 DEF Procs
    <3> QED
      BY <1>1, <3>1, <3>2, <3>3, ControlStep, Zenon DEF Waiting
  <2> QED
    BY <2>3, <2>4 DEF Procs
<1> QED
  BY <1>2, <1>3, <1>5, <1>7, <1>8 DEF PInv

(* A call returns, when those left asleep have reason to wait. *)
LEMMA ReturnInv ==
  ASSUME PipeConstants, PInv, NEW p \in Procs, pc[p] \in {"loop", "copy"},
         NEW S \in SUBSET Procs, Return(p, S),
         UNCHANGED <<data, nread, nwrite, open, freed, killed, last>>,
         \A r \in Readers \ S : pc[r] = "asleep" => writeopen /\ (Empty \/ killed \cap Writers # {}),
         \A w \in Writers \ S : pc[w] = "asleep" => Full /\ readopen
  PROVE  PInv'
<1>1. TypeOK /\ lock = p /\ lock' = Nobody /\ n' = [n EXCEPT ![p] = 0] /\ i' = [i EXCEPT ![p] = 0]
      /\ pc' = [q \in Procs |-> IF q = p THEN "user"
                                ELSE IF q \in S /\ pc[q] = "asleep" THEN "call" ELSE pc[q]]
  BY DEF Return, WakeupGoto, PInv, Locked
<1>2. TypeOK'
  BY <1>1 DEF TypeOK, PCs, PipeConstants
<1>3. Fits' /\ FreedWhenUnused'
  BY ControlStep
<1>4. ASSUME NEW q \in Procs
      PROVE  /\ pc'[q] = "asleep" => pc[q] = "asleep" /\ q \notin S
             /\ pc'[q] \notin {"loop", "copy", "sleep"}
  <2>1. q # p => pc[q] \notin {"loop", "copy", "sleep"}
    BY <1>1 DEF PInv, Locked
  <2> QED
    BY <1>1, <2>1
<1>5. Locked'
  <2>1. \A q \in Procs : q # Nobody /\ (pc'[q] = "closed" <=> pc[q] = "closed")
    BY <1>1 DEF PipeConstants, Procs
  <2> QED
    BY <1>1, <1>4, <2>1 DEF PInv, Locked
<1>6. NoFalseEof'
  BY <1>4 DEF NoFalseEof, Procs
<1>7. Waiting'
  <2>1. \A r \in Readers : pc'[r] = "asleep" =>
          pc[r] = "asleep" /\ writeopen /\ (Empty \/ killed \cap Writers # {})
    BY <1>4 DEF Procs
  <2>2. \A w \in Writers : pc'[w] = "asleep" => pc[w] = "asleep" /\ Full /\ readopen
    BY <1>4 DEF Procs
  <2>3. \A q \in Readers \cup Writers : pc'[q] # "sleep"
    BY <1>4 DEF Procs
  <2>4. Empty' = Empty /\ Full' = Full /\ readopen' = readopen /\ writeopen' = writeopen
        /\ killed' = killed
    BY ControlStep
  <2>5. \A w \in Writers : pc'[w] = "asleep" => \A r \in Readers : pc'[r] # "asleep"
    BY <2>1, <2>2 DEF PInv, Waiting
  <2> QED
    BY <2>1, <2>2, <2>3, <2>4, <2>5 DEF Waiting
<1> QED
  BY <1>2, <1>3, <1>5, <1>6, <1>7 DEF PInv

(* pipewrite() returns: with nobody left to read, killed, or done. *)
LEMMA WriteReturnInv ==
  ASSUME PipeConstants, PInv, NEW p \in Procs, WriteFail(p) \/ WriteDone(p)
  PROVE  PInv'
<1>1. p \in Writers /\ p \notin Readers /\ pc[p] = "loop" /\ lock = p /\ p \in open
  BY DEF WriteFail, WriteDone, Writing, PInv, Locked, PipeConstants
<1>2. \A w \in Writers : pc[w] = "asleep" => Full /\ readopen
  BY <1>1 DEF PInv, Waiting
<1>3. CASE WriteFail(p)
  <2>1. \A r \in Readers : pc[r] = "asleep" => writeopen /\ (Empty \/ killed \cap Writers # {})
    <3> SUFFICES ASSUME NEW r \in Readers, pc[r] = "asleep"
                 PROVE  writeopen /\ (Empty \/ killed \cap Writers # {})
      OBVIOUS
    <3>1. r \in open
      BY DEF PInv, Locked, Procs
    <3>2. p \in killed
      BY <1>3, <3>1 DEF WriteFail, readopen
    <3> QED
      BY <1>1, <3>2 DEF writeopen
  <2> QED
    BY <1>1, <1>2, <1>3, <2>1, ReturnInv DEF WriteFail
<1>4. CASE WriteDone(p)
  BY <1>1, <1>2, <1>4, ReturnInv DEF WriteDone, Procs
<1> QED
  BY <1>3, <1>4

(* pipewrite() finds the pipe full, wakes up the readers and goes to sleep. *)
LEMMA WriteFullInv ==
  ASSUME PipeConstants, PInv, NEW p \in Procs, WriteFull(p)
  PROVE  PInv'
<1>1. TypeOK /\ p \in Writers /\ p \notin Readers /\ pc[p] = "loop" /\ lock = p
      /\ Full /\ readopen
      /\ pc' = [q \in Procs |-> IF q = p THEN "sleep"
                                ELSE IF q \in Readers /\ pc[q] = "asleep" THEN "call" ELSE pc[q]]
      /\ UNCHANGED <<data, nread, nwrite, open, freed, lock, n, i, killed, last>>
  BY DEF WriteFull, Writing, WakeupGoto, PInv, Locked, PipeConstants
<1>2. TypeOK'
  BY <1>1 DEF TypeOK, PCs
<1>3. Fits' /\ FreedWhenUnused'
  BY <1>1, ControlStep, Zenon
<1>4. Locked'
  BY <1>1 DEF PInv, Locked
<1>5. \A r \in Readers : pc'[r] \notin {"loop", "copy", "sleep", "asleep"}
  BY <1>1 DEF PInv, Locked, Procs
<1>6. \A w \in Writers : pc'[w] = "asleep" => pc[w] = "asleep"
  BY <1>1 DEF Procs
<1>7. Waiting' /\ NoFalseEof'
  BY <1>1, <1>5, <1>6, ControlStep, Zenon DEF PInv, Waiting, NoFalseEof
<1> QED
  BY <1>2, <1>3, <1>4, <1>7 DEF PInv

(* piperead() waits for a writer, or goes because it was killed. *)
LEMMA ReadWaitInv ==
  ASSUME PipeConstants, PInv, NEW p \in Procs, ReadWait(p)
  PROVE  PInv'
<1>1. TypeOK /\ p \in Readers /\ p \notin Writers /\ pc[p] = "loop" /\ lock = p
      /\ Empty /\ writeopen
      /\ UNCHANGED <<data, nread, nwrite, open, freed, killed, last>>
  BY DEF ReadWait, PInv, Locked, PipeConstants
<1>2. \A w \in Writers : pc[w] = "asleep" => Full /\ readopen
  BY <1>1 DEF PInv, Waiting
<1>3. CASE Return(p, {})
  BY <1>1, <1>2, <1>3, ReturnInv
<1>4. CASE Goto(p, "sleep") /\ UNCHANGED <<lock, n, i>>
  <2>1. \A q \in Procs : pc'[q] = IF q = p THEN "sleep" ELSE pc[q]
    BY <1>1, <1>4 DEF Goto, TypeOK
  <2>2. TypeOK'
    BY <1>1, <1>4 DEF Goto, TypeOK, PCs
  <2>3. Fits' /\ FreedWhenUnused'
    BY <1>1, ControlStep, Zenon
  <2>4. Locked'
    BY <1>1, <1>4, <2>1 DEF PInv, Locked
  <2>5. NoFalseEof'
    BY <1>1, <1>4, <2>1, ControlStep DEF PInv, NoFalseEof, Procs
  <2>6. Waiting'
    <3>1. \A r \in Readers : pc[r] = "asleep" => writeopen /\ (Empty \/ killed \cap Writers # {})
      BY <1>1 DEF PInv, Waiting
    <3>2. \A w \in Writers : pc'[w] = pc[w] /\ pc[w] # "sleep"
      BY <1>1, <2>1 DEF PInv, Locked, Procs
    <3>3. \A r \in Readers : pc'[r] = "asleep" => pc[r] = "asleep"
      BY <2>1 DEF Procs
    <3>4. Empty' = Empty /\ Full' = Full /\ readopen' = readopen /\ writeopen' = writeopen
      BY <1>1, ControlStep, Zenon
    <3> QED
      BY <1>1, <1>2, <3>1, <3>2, <3>3, <3>4 DEF PInv, Waiting
  <2> QED
    BY <2>2, <2>3, <2>4, <2>5, <2>6 DEF PInv
<1> QED
  BY <1>3, <1>4 DEF ReadWait

(* piperead() begins to copy: there is something, or nothing will come. *)
LEMMA ReadReadyInv ==
  ASSUME PipeConstants, PInv, NEW p \in Procs, ReadReady(p)
  PROVE  PInv'
<1>1. TypeOK /\ p \in Readers /\ p \notin Writers /\ pc[p] = "loop" /\ lock = p
      /\ (~Empty \/ ~writeopen) /\ pc' = [pc EXCEPT ![p] = "copy"]
      /\ UNCHANGED <<data, nread, nwrite, open, freed, lock, n, i, killed, last>>
  BY DEF ReadReady, Goto, PInv, Locked, PipeConstants
<1>2. \A q \in Procs : pc'[q] = IF q = p THEN "copy" ELSE pc[q]
  BY <1>1 DEF TypeOK
<1>3. TypeOK'
  BY <1>1 DEF TypeOK, PCs
<1>4. Fits' /\ FreedWhenUnused'
  BY <1>1, ControlStep
<1>5. Locked'
  BY <1>1, <1>2 DEF PInv, Locked
<1>6. NoFalseEof'
  BY <1>1, <1>2, ControlStep, Zenon DEF PInv, NoFalseEof, Procs
<1>7. Waiting'
  BY <1>1, <1>2, ControlStep DEF PInv, Waiting, Procs
<1> QED
  BY <1>3, <1>4, <1>5, <1>6, <1>7 DEF PInv

(* piperead() has copied what it wanted, or all there is. *)
LEMMA ReadDoneInv ==
  ASSUME PipeConstants, PInv, NEW p \in Procs, ReadDone(p)
  PROVE  PInv'
<1>1. p \in Readers /\ p \notin Writers /\ pc[p] = "copy" /\ lock = p
  BY DEF ReadDone, PInv, Locked, PipeConstants
<1>2. \A r \in Readers : pc[r] = "asleep" => writeopen /\ (Empty \/ killed \cap Writers # {})
  BY <1>1 DEF PInv, Waiting
<1> QED
  BY <1>1, <1>2, ReturnInv DEF ReadDone, Procs

(* pipewrite() adds a byte, and piperead() takes one out. *)
LEMMA CountAfter ==
  ASSUME PipeConstants, TypeOK, TypeOK', Fits
  PROVE  /\ ~Full /\ nwrite' = Incr(nwrite) /\ nread' = nread => Count' = Count + 1 /\ Fits'
         /\ ~Empty /\ nread' = Incr(nread) /\ nwrite' = nwrite => Count' = Count - 1 /\ Fits'
<1>1. Arithmetic /\ Arithmetic'
  BY CountIs, CountIsNext
<1>2. /\ nread \in 0..(UINTMOD - 1) /\ nwrite \in 0..(UINTMOD - 1)
      /\ UINTMOD \in Nat /\ PIPESIZE \in Nat /\ PIPESIZE > 0 /\ UINTMOD > PIPESIZE
  BY DEF TypeOK, PipeConstants
<1>3. /\ Incr(nread) = IF nread + 1 = UINTMOD THEN 0 ELSE nread + 1
      /\ Incr(nwrite) = IF nwrite + 1 = UINTMOD THEN 0 ELSE nwrite + 1
  BY <1>1, <1>2 DEF Arithmetic
<1>4. /\ Count' = IF nwrite' >= nread' THEN nwrite' - nread' ELSE nwrite' - nread' + UINTMOD
      /\ Count = IF nwrite >= nread THEN nwrite - nread ELSE nwrite - nread + UINTMOD
      /\ Full <=> Count = PIPESIZE
      /\ Empty <=> Count = 0
      /\ Count <= PIPESIZE
  BY <1>1 DEF Arithmetic, Fits
<1> QED
  BY <1>2, <1>3, <1>4 DEF Fits

(* A byte goes into the ring. *)
LEMMA WriteByteInv ==
  ASSUME PipeConstants, PInv, NEW p \in Procs, NEW b \in Bytes, WriteByte(p, b)
  PROVE  PInv'
<1>1. TypeOK /\ p \in Writers /\ p \notin Readers /\ pc[p] = "loop" /\ lock = p /\ p \in open
      /\ ~Full /\ i[p] < n[p]
      /\ data' = [data EXCEPT ![nwrite % PIPESIZE] = b] /\ nwrite' = Incr(nwrite)
      /\ i' = [i EXCEPT ![p] = @ + 1]
      /\ UNCHANGED <<nread, open, freed, lock, pc, n, killed, last>>
  BY DEF WriteByte, Writing, PInv, Locked, PipeConstants
<1>2. TypeOK'
  <2>1. Incr(nwrite) \in 0..(UINTMOD - 1)
    BY <1>1 DEF TypeOK, Incr, PipeConstants
  <2>2. i[p] + 1 \in 0..MAXN
    BY <1>1 DEF TypeOK, PipeConstants
  <2> QED
    BY <1>1, <2>1, <2>2, Zenon DEF TypeOK
<1>3. Fits'
  BY <1>1, <1>2, CountAfter DEF PInv
<1>4. Locked' /\ FreedWhenUnused'
  BY <1>1 DEF PInv, Locked, FreedWhenUnused
<1>5. \A q \in Procs : pc[q] \notin {"copy", "sleep"}
  BY <1>1 DEF PInv, Locked
<1>6. \A w \in Writers : pc[w] # "asleep"
  BY <1>1 DEF PInv, Waiting
<1>7. NoFalseEof' /\ Waiting'
  BY <1>1, <1>5, <1>6 DEF NoFalseEof, Waiting, Procs
<1> QED
  BY <1>2, <1>3, <1>4, <1>7 DEF PInv

(* A byte comes out of the ring. *)
LEMMA ReadByteInv ==
  ASSUME PipeConstants, PInv, NEW p \in Procs, ReadByte(p) \/ ReadFault(p)
  PROVE  PInv'
<1>1. TypeOK /\ p \in Readers /\ p \notin Writers /\ pc[p] = "copy" /\ lock = p /\ p \in open
      /\ ~freed /\ ~Empty /\ i[p] < n[p] /\ nread' = Incr(nread) /\ last' = <<Take>>
      /\ UNCHANGED <<data, nwrite, open, freed, killed>>
  BY StillThere DEF ReadByte, ReadFault, PInv, Locked, PipeConstants
<1>2. Incr(nread) \in 0..(UINTMOD - 1) /\ Take \in Bytes
  BY <1>1 DEF TypeOK, Incr, Take, PipeConstants
<1>3. \A r \in Readers : pc[r] = "asleep" => writeopen /\ killed \cap Writers # {}
  BY <1>1 DEF PInv, Waiting
<1>4. \A q \in Procs : q # p => pc[q] \notin {"loop", "copy", "sleep"}
  BY <1>1 DEF PInv, Locked
<1>5. writeopen' = writeopen /\ killed' = killed
  BY <1>1 DEF writeopen
<1>6. CASE ReadByte(p)
  <2>1. i' = [i EXCEPT ![p] = @ + 1] /\ UNCHANGED <<lock, pc, n>>
    BY <1>6 DEF ReadByte
  <2>2. i[p] + 1 \in 0..MAXN /\ i[p] + 1 # 0
    BY <1>1 DEF TypeOK, PipeConstants
  <2>3. TypeOK'
    BY <1>1, <1>2, <2>1, <2>2 DEF TypeOK
  <2>4. Fits'
    BY <1>1, <2>3, CountAfter DEF PInv
  <2>5. Locked' /\ FreedWhenUnused'
    BY <1>1, <2>1 DEF PInv, Locked, FreedWhenUnused
  <2>6. NoFalseEof'
    BY <1>1, <1>4, <2>1, <2>2 DEF NoFalseEof, Procs, TypeOK
  <2>7. \A q \in Procs : pc[q] # "sleep"
    BY <1>1, <1>4
  <2>8. Waiting'
    BY <1>1, <1>3, <1>5, <2>1, <2>7 DEF PInv, Waiting, Procs
  <2> QED
    BY <2>3, <2>4, <2>5, <2>6, <2>8 DEF PInv
<1>7. CASE ReadFault(p)
  <2>1. lock' = Nobody /\ n' = [n EXCEPT ![p] = 0] /\ i' = [i EXCEPT ![p] = 0]
        /\ pc' = [q \in Procs |-> IF q = p THEN "user"
                                  ELSE IF q \in Writers /\ pc[q] = "asleep" THEN "call" ELSE pc[q]]
    BY <1>7 DEF ReadFault, Return, WakeupGoto
  <2>2. TypeOK'
    BY <1>1, <1>2, <2>1 DEF TypeOK, PCs, PipeConstants
  <2>3. Fits'
    BY <1>1, <2>2, CountAfter DEF PInv
  <2>4. \A q \in Procs : pc'[q] \notin {"loop", "copy", "sleep"} /\ q # Nobody
                        /\ (pc'[q] = "closed" <=> pc[q] = "closed")
    BY <1>1, <1>4, <2>1 DEF PipeConstants, Procs
  <2>5. Locked' /\ FreedWhenUnused'
    BY <1>1, <2>1, <2>4 DEF PInv, Locked, FreedWhenUnused
  <2>6. NoFalseEof'
    BY <2>4 DEF NoFalseEof, Procs
  <2>7. /\ \A r \in Readers : pc'[r] = "asleep" => pc[r] = "asleep"
        /\ \A w \in Writers : pc'[w] \notin {"sleep", "asleep"}
        /\ \A r \in Readers : pc'[r] # "sleep"
    BY <1>1, <2>1, <2>4 DEF Procs
  <2>8. Waiting'
    BY <1>3, <1>5, <2>7 DEF Waiting
  <2> QED
    BY <2>2, <2>3, <2>5, <2>6, <2>8 DEF PInv
<1> QED
  BY <1>6, <1>7

(* fileclose(), with pipeclose() for the last descriptor of an end. *)
LEMMA CloseInv ==
  ASSUME PipeConstants, PInv, NEW p \in Procs, pipeclose(p)
  PROVE  PInv'
<1> DEFINE S == IF LastOfEnd(p) THEN Other(p) ELSE {}
<1>1. TypeOK /\ pc[p] = "user" /\ p \in open /\ ~freed /\ open' = open \ {p}
      /\ freed' = (freed \/ open = {p})
      /\ (LastOfEnd(p) => lock = Nobody)
      /\ pc' = [q \in Procs |-> IF q = p THEN "closed"
                                ELSE IF q \in S /\ pc[q] = "asleep" THEN "call" ELSE pc[q]]
      /\ UNCHANGED <<data, nread, nwrite, lock, n, i, killed, last>>
  BY StillThere DEF pipeclose, WakeupGoto, Freed, PInv
<1>2. Fits' /\ Empty' = Empty /\ Full' = Full
  BY <1>1 DEF PInv, Fits, Count, Empty, Full
<1>3. TypeOK'
  BY <1>1 DEF TypeOK, PCs
<1>4. lock # p /\ \A q \in Procs : q # p =>
        /\ pc[q] # "asleep" => pc'[q] = pc[q]
        /\ pc[q] = "asleep" => pc'[q] = IF q \in S THEN "call" ELSE "asleep"
  BY <1>1 DEF PInv, Locked
<1>5. Locked'
  BY <1>1, <1>4 DEF PInv, Locked
<1>6. FreedWhenUnused'
  <2>1. freed' <=> open' = {}
    BY <1>1, Zenon
  <2>2. ASSUME open = {p} PROVE lock = Nobody /\ \A q \in Procs : pc'[q] = "closed"
    <3>1. \A q \in Procs : q # p => pc[q] = "closed" /\ pc'[q] = "closed" /\ lock # q
      BY <1>4, <2>2 DEF PInv, Locked
    <3> QED
      BY <1>1, <1>4, <3>1 DEF TypeOK
  <2> QED
    BY <1>1, <2>1, <2>2 DEF FreedWhenUnused
<1>7. \A q \in Procs : lock = q => pc'[q] = pc[q] /\ q # p
  BY <1>4 DEF PInv, Locked
<1>8. /\ p \in Writers /\ writeopen => writeopen' \/ (LastOfEnd(p) /\ S = Readers)
      /\ p \in Readers /\ readopen => readopen' \/ (LastOfEnd(p) /\ S = Writers)
      /\ p \in Writers => (readopen' <=> readopen)
      /\ p \in Readers => (writeopen' <=> writeopen)
      /\ writeopen' => writeopen
  <2>1. open \subseteq Writers \cup Readers /\ Writers \cap Readers = {}
    BY <1>1 DEF TypeOK, Procs, PipeConstants
  <2> QED
    BY <1>1, <2>1 DEF writeopen, readopen, LastOfEnd, Other
<1>9. NoFalseEof'
  BY <1>1, <1>2, <1>4, <1>8 DEF PInv, NoFalseEof, Procs
<1>10. ASSUME NEW r \in Readers
       PROVE  /\ pc'[r] = "sleep" => Empty /\ writeopen'
              /\ pc'[r] = "asleep" => \/ writeopen' /\ (Empty \/ killed \cap Writers # {})
                                      \/ lock \in Writers /\ pc'[lock] = "loop"
  <2>1. r # p /\ pc'[r] \in {"sleep", "asleep"} => pc'[r] = pc[r] /\ (pc[r] = "asleep" => r \notin S)
    BY <1>4 DEF Procs
  <2>2. pc'[p] = "closed"
    BY <1>1
  <2>3. pc'[r] \in {"sleep", "asleep"} /\ writeopen => writeopen'
    <3>1. pc[r] = "sleep" => lock = r /\ lock # Nobody
      BY DEF PInv, Locked, Procs, PipeConstants
    <3> QED
      BY <1>1, <1>8, <2>1, <2>2, <3>1 DEF Procs
  <2>4. lock \in Writers /\ pc[lock] = "loop" => pc'[lock] = "loop"
    BY <1>7 DEF Procs
  <2> QED
    BY <2>1, <2>2, <2>3, <2>4 DEF PInv, Waiting
<1>11. ASSUME NEW w \in Writers
       PROVE  /\ pc'[w] = "sleep" => Full /\ readopen'
              /\ pc'[w] = "asleep" => \/ Full /\ readopen'
                                      \/ lock \in Readers /\ pc'[lock] = "copy"
  <2>1. w # p /\ pc'[w] \in {"sleep", "asleep"} => pc'[w] = pc[w] /\ (pc[w] = "asleep" => w \notin S)
    BY <1>4 DEF Procs
  <2>2. pc'[p] = "closed"
    BY <1>1
  <2>3. pc'[w] \in {"sleep", "asleep"} /\ readopen => readopen'
    <3>1. pc[w] = "sleep" => lock = w /\ lock # Nobody
      BY DEF PInv, Locked, Procs, PipeConstants
    <3> QED
      BY <1>1, <1>8, <2>1, <2>2, <3>1 DEF Procs
  <2>4. lock \in Readers /\ pc[lock] = "copy" => pc'[lock] = "copy"
    BY <1>7 DEF Procs
  <2> QED
    BY <2>1, <2>2, <2>3, <2>4 DEF PInv, Waiting
<1>12. \A w \in Writers, r \in Readers : pc'[w] \in {"sleep", "asleep"} => pc'[r] # "asleep"
  <2>1. \A q \in Procs : pc'[q] \in {"sleep", "asleep"} => pc'[q] = pc[q]
    BY <1>1
  <2> QED
    BY <2>1 DEF PInv, Waiting, Procs
<1>13. Waiting'
  BY <1>1, <1>2, <1>10, <1>11, <1>12 DEF Waiting
<1> QED
  BY <1>2, <1>3, <1>5, <1>6, <1>9, <1>13 DEF PInv

(* kill() wakes its victim up, wherever the others are. *)
LEMMA KillInv ==
  ASSUME PipeConstants, PInv, NEW p \in Procs, Kill(p)
  PROVE  PInv'
<1>1. TypeOK /\ p \in Victims /\ pc[p] # "closed" /\ killed' = killed \cup {p}
      /\ pc' = [pc EXCEPT ![p] = IF pc[p] = "asleep" THEN "call" ELSE pc[p]]
      /\ UNCHANGED <<data, nread, nwrite, open, freed, lock, n, i, last>>
  BY DEF Kill, Goto, PInv
<1>2. TypeOK'
  BY <1>1 DEF TypeOK, PCs
<1>3. Fits' /\ Empty' = Empty /\ Full' = Full /\ readopen' = readopen /\ writeopen' = writeopen
  <2>1. Fits'
    BY <1>1 DEF PInv, Fits, Count
  <2> QED
    BY <1>1, <2>1 DEF Empty, Full, readopen, writeopen
<1>4. \A q \in Procs : pc'[q] = pc[q] \/ (pc[q] = "asleep" /\ pc'[q] = "call")
  BY <1>1 DEF TypeOK
<1>5. Locked' /\ FreedWhenUnused'
  BY <1>1, <1>4, StillThere DEF PInv, Locked, FreedWhenUnused
<1>6. NoFalseEof'
  <2>1. \A r \in Readers : pc'[r] = "copy" => pc[r] = "copy"
    BY <1>4 DEF Procs
  <2>2. i' = i
    BY <1>1
  <2> QED
    BY <1>3, <2>1, <2>2 DEF PInv, NoFalseEof
<1>7. Waiting'
  <2>1. /\ \A q \in Procs : pc'[q] \in {"sleep", "asleep"} => pc'[q] = pc[q]
        /\ lock \in Procs /\ pc[lock] \in {"loop", "copy"} => pc'[lock] = pc[lock]
        /\ killed \cap Writers # {} => killed' \cap Writers # {}
    BY <1>1, <1>4
  <2> QED
    BY <1>1, <1>3, <2>1 DEF PInv, Waiting, Procs
<1> QED
  BY <1>2, <1>3, <1>5, <1>6, <1>7 DEF PInv

-----------------------------------------------------------------------------
(* Every step keeps the invariant. *)
LEMMA NextPInv ==
  ASSUME PipeConstants, PInv, [Next]_vars
  PROVE  PInv'
<1>1. CASE UNCHANGED vars
  <2>1. TypeOK' /\ Locked' /\ Fits' /\ FreedWhenUnused'
    BY <1>1 DEF vars, PInv, TypeOK, Locked, Fits, Count, FreedWhenUnused
  <2>2. Waiting' /\ NoFalseEof'
    BY <1>1 DEF vars, PInv, Waiting, NoFalseEof, Empty, Full, readopen, writeopen
  <2> QED
    BY <2>1, <2>2 DEF PInv
<1>2. CASE Next
  <2>1. PICK p \in Procs : InKernel(p) \/ pipeclose(p) \/ Kill(p) \/ \E m \in 0..MAXN : Call(p, m)
    BY <1>2 DEF Next
  <2> QED
    BY <2>1, CallInv, LockInv, SleepInv, WriteReturnInv, WriteFullInv, WriteByteInv, ReadWaitInv,
       ReadReadyInv, ReadByteInv, ReadDoneInv, CloseInv, KillInv DEF InKernel, pipewrite, piperead
<1> QED
  BY <1>1, <1>2

(* The invariant of the pipe, in every state. *)
LEMMA PipeInv ==
  ASSUME PipeConstants
  PROVE  Spec => []PInv
<1>1. Init => PInv
  BY InitPInv
<1>2. PInv /\ [Next]_vars => PInv'
  BY NextPInv
<1> QED
  BY <1>1, <1>2, PTL DEF Spec

(* The pipe is freed with its last descriptor, while nobody is in          *)
(* pipewrite() or piperead().                                              *)
THEOREM PipeFreedWhenUnused ==
  ASSUME PipeConstants
  PROVE  Spec => []FreedWhenUnused
<1>1. PInv => FreedWhenUnused
  BY DEF PInv
<1> QED
  BY <1>1, PipeInv, PTL

(* A call on the pipe waits exactly as long as it has to, for every number *)
(* of readers and writers and every size of the ring: no wakeup is lost    *)
(* but the one a killed writer leaves out, no read ends early, and the two *)
(* ends do not wait for each other.                                        *)
THEOREM PipeWaitsExact ==
  ASSUME PipeConstants
  PROVE  Spec => []WaitsExact
<1>1. ASSUME PInv PROVE WaitsExact
  <2>1. WakeupUnlessKilled
    BY <1>1 DEF PInv, Waiting, WakeupUnlessKilled, Procs, Other, PipeConstants
  <2>2. NotBothAsleep
    BY <1>1 DEF PInv, Waiting, NotBothAsleep
  <2> QED
    BY <1>1, <2>1, <2>2 DEF PInv, WaitsExact
<1>2. PInv => WaitsExact
  BY <1>1
<1> QED
  BY <1>2, PipeInv, PTL

-----------------------------------------------------------------------------
(* The ring as a sequence of bytes. *)
RingType == Ring \in Seq(Bytes) /\ Len(Ring) = Count /\ DOMAIN Ring = 1..Count

(* The bytes between nread and nwrite are a sequence. *)
LEMMA RingIsSeq ==
  ASSUME PipeConstants
  PROVE  PInv => RingType
<1> SUFFICES ASSUME PInv PROVE RingType
  OBVIOUS
<1>1. Count \in Nat
  BY CountIs DEF PInv, Arithmetic
<1>2. \A k \in 1..Count : data[(nread + k - 1) % PIPESIZE] \in Bytes
  <2> TAKE k \in 1..Count
  <2>1. nread + k - 1 \in Int /\ PIPESIZE \in Nat \ {0}
    BY <1>1 DEF PInv, TypeOK, PipeConstants
  <2>2. (nread + k - 1) % PIPESIZE \in 0..(PIPESIZE - 1)
    BY <2>1, ModDiv, Zenon
  <2> QED
    BY <2>2 DEF PInv, TypeOK
<1>3. Ring \in [1..Count -> Bytes]
  BY <1>2 DEF Ring
<1> QED
  BY <1>1, <1>3 DEF RingType

(* The same in the next state. *)
LEMMA RingIsSeqNext ==
  ASSUME PipeConstants
  PROVE  PInv' => RingType'
BY RingIsSeq, PTL

(* pipewrite() appends to the queue: it overwrites no byte between nread   *)
(* and nwrite, also where these have wrapped around.                       *)
LEMMA WriteByteEnqueues ==
  ASSUME PipeConstants, PInv, NEW p \in Procs, NEW b \in Bytes, WriteByte(p, b)
  PROVE  Queue!Enqueue(b)
<1>1. TypeOK /\ ~Full /\ data' = [data EXCEPT ![nwrite % PIPESIZE] = b] /\ nwrite' = Incr(nwrite)
      /\ UNCHANGED <<nread, last>>
  BY DEF WriteByte, PInv
<1>2. PInv' /\ RingType /\ RingType' /\ Arithmetic
  BY WriteByteInv, RingIsSeq, RingIsSeqNext, CountIs DEF PInv
<1>3. Count' = Count + 1 /\ Count \in Nat /\ Count < PIPESIZE
  <2>1. Count \in Nat /\ Count <= PIPESIZE /\ Count # PIPESIZE /\ PIPESIZE \in Nat
    BY <1>1, <1>2 DEF PInv, Fits, Arithmetic, PipeConstants
  <2>2. Count' = Count + 1
    BY <1>1, <1>2, CountAfter DEF PInv
  <2> QED
    BY <2>1, <2>2
<1>4. /\ PIPESIZE \in Nat \ {0} /\ UINTMOD \in Nat /\ UINTMOD % PIPESIZE = 0
      /\ nread \in Nat /\ nwrite \in Nat
      /\ nread + Count = nwrite \/ nread + Count = nwrite + UINTMOD
  BY <1>1, <1>2 DEF PipeConstants, TypeOK, Arithmetic
<1>5. nwrite % PIPESIZE = (nread + Count) % PIPESIZE
  <2>1. nwrite \in Int /\ UINTMOD \in Int
    BY <1>4
  <2>2. (nwrite + UINTMOD) % PIPESIZE = nwrite % PIPESIZE
    BY <1>4, <2>1, ModShift, Zenon
  <2> QED
    BY <1>4, <2>2
<1>6. nwrite % PIPESIZE \in 0..(PIPESIZE - 1)
  BY <1>4, ModDiv
<1>7. ASSUME NEW k \in 1..(Count + 1)
      PROVE  Ring'[k] = IF k = Count + 1 THEN b ELSE Ring[k]
  <2> DEFINE at == (nread + k - 1) % PIPESIZE
  <2>1. Ring'[k] = data'[at]
    BY <1>1, <1>3 DEF Ring
  <2>2. CASE k = Count + 1
    <3>1. nread + k - 1 = nread + Count
      BY <1>3, <1>4, <2>2
    <3>2. at = nwrite % PIPESIZE
      BY <1>5, <3>1
    <3> QED
      BY <1>1, <1>6, <2>1, <2>2, <3>2 DEF TypeOK
  <2>3. CASE k # Count + 1
    <3>1. k \in 1..Count /\ nread + k - 1 \in Int /\ nread + Count \in Int
          /\ nread + k - 1 < nread + Count /\ nread + Count < nread + k - 1 + PIPESIZE
      BY <1>3, <1>4, <2>3
    <3>2. at # nwrite % PIPESIZE
      BY <1>4, <1>5, <3>1, ModDistinct, Zenon
    <3>3. at \in 0..(PIPESIZE - 1)
      BY <1>4, <3>1, ModDiv
    <3>4. data'[at] = data[at]
      BY <1>1, <3>2, <3>3 DEF TypeOK
    <3> QED
      BY <2>1, <2>3, <3>1, <3>4 DEF Ring
  <2> QED
    BY <2>2, <2>3
<1>8. Ring' = Append(Ring, b)
  <2> DEFINE s == Ring
             t == Ring'
  <2>1. s \in Seq(Bytes) /\ t \in Seq(Bytes) /\ Len(s) = Count /\ Len(t) = Count + 1
    BY <1>2, <1>3 DEF RingType
  <2>2. \A k \in 1..(Count + 1) : t[k] = IF k = Count + 1 THEN b ELSE s[k]
    BY <1>7
  <2> HIDE DEF s, t
  <2>3. t = Append(s, b)
    BY <1>3, <2>1, <2>2
  <2> QED
    BY <2>3 DEF s, t
<1> QED
  BY <1>1, <1>2, <1>3, <1>8 DEF Queue!Enqueue, RingType

(* piperead() takes the oldest byte. *)
LEMMA ReadByteDequeues ==
  ASSUME PipeConstants, PInv, NEW p \in Procs, ReadByte(p) \/ ReadFault(p)
  PROVE  Queue!Dequeue
<1>1. TypeOK /\ ~Empty /\ nread' = Incr(nread) /\ last' = <<Take>> /\ UNCHANGED <<data, nwrite>>
  BY DEF ReadByte, ReadFault, PInv
<1>2. PInv' /\ RingType /\ RingType' /\ Arithmetic
  BY ReadByteInv, RingIsSeq, RingIsSeqNext, CountIs DEF PInv
<1>3. Count' = Count - 1 /\ Count \in Nat /\ Count > 0
  <2>1. Count \in Nat /\ Count # 0
    BY <1>1, <1>2 DEF Arithmetic
  <2>2. Count' = Count - 1
    BY <1>1, <1>2, CountAfter DEF PInv
  <2> QED
    BY <2>1, <2>2
<1>4. nread \in Int /\ nread' \in Int /\ UINTMOD \in Int
      /\ (nread + 1 = nread' \/ nread + 1 = nread' + UINTMOD)
  <2>1. nread \in 0..(UINTMOD - 1)
    BY <1>1 DEF TypeOK
  <2>2. nread' = IF nread + 1 = UINTMOD THEN 0 ELSE nread + 1
    BY <1>1, <1>2, <2>1 DEF Arithmetic
  <2> QED
    BY <2>1, <2>2 DEF PipeConstants
<1>5. ASSUME NEW k \in Int, k \in 1..(Count - 1) PROVE Ring'[k] = Ring[k + 1]
  <2>1. (nread + (k + 1) - 1) % PIPESIZE = (nread' + k - 1) % PIPESIZE
    <3>1. PIPESIZE \in Nat \ {0} /\ UINTMOD % PIPESIZE = 0
      BY DEF PipeConstants
    <3>2. PICK a \in Int, c \in Int : a = nread /\ c = nread' /\ (a + 1 = c \/ a + 1 = c + UINTMOD)
      BY <1>4, Zenon
    <3>3. UINTMOD \in Int /\ (a + 1 = c \/ a + 1 = c + UINTMOD)
      BY <1>4, <3>2, Zenon
    <3> DEFINE x == a + (k + 1) - 1
               y == c + k - 1
    <3>4. x \in Int /\ y \in Int /\ (x = y \/ x = y + UINTMOD)
      BY <3>3
    <3> HIDE DEF x, y
    <3>5. x % PIPESIZE = y % PIPESIZE
      BY <3>1, <3>3, <3>4, ModWrap, Zenon
    <3> QED
      BY <3>2, <3>5 DEF x, y
  <2>2. k + 1 \in 1..Count
    BY <1>3, <1>5
  <2>3. Ring'[k] = data'[(nread' + k - 1) % PIPESIZE]
    BY <1>3, <1>5 DEF Ring
  <2> QED
    BY <1>1, <2>1, <2>2, <2>3 DEF Ring
<1>6. Ring[1] = Take
  <2>1. nread + 1 - 1 = nread
    BY <1>4
  <2> QED
    BY <1>3, <2>1 DEF Ring, Take
<1>7. Ring' = Tail(Ring) /\ Head(Ring) = Ring[1] /\ Ring # <<>>
  <2> DEFINE s == Ring
             t == Ring'
  <2>1. s \in Seq(Bytes) /\ t \in Seq(Bytes) /\ Len(s) = Count /\ Len(t) = Count - 1
    BY <1>2, <1>3 DEF RingType
  <2>2. \A k \in 1..(Count - 1) : t[k] = s[k + 1]
    BY <1>5
  <2> HIDE DEF s, t
  <2>3. t = Tail(s) /\ Head(s) = s[1] /\ s # <<>>
    BY <1>3, <2>1, <2>2
  <2> QED
    BY <2>3 DEF s, t
<1> QED
  BY <1>1, <1>6, <1>7 DEF Queue!Dequeue

(* The pipe implements a bounded queue: bytes come out in the order they   *)
(* went in, none is lost, overwritten or read twice, for every size of the *)
(* ring that divides the range of the unsigned counters.                   *)
THEOREM PipeIsQueue ==
  ASSUME PipeConstants
  PROVE  Spec => IsQueue
<1>1. ASSUME Init PROVE Queue!Init
  <2>1. Count = 0
    BY <1>1, InitPInv, CountIs, Zenon DEF Init, PInv, Arithmetic, Empty
  <2>2. Ring \in Seq(Bytes) /\ Len(Ring) = 0
    BY <1>1, <2>1, InitPInv, RingIsSeq DEF RingType
  <2> QED
    BY <1>1, <2>2 DEF Queue!Init, Init
<1>2. ASSUME PInv, [Next]_vars PROVE [Queue!Next]_(Queue!absvars)
  <2>1. CASE UNCHANGED <<data, nread, nwrite, last>>
    BY <2>1 DEF Queue!absvars, Ring, Count
  <2>2. CASE \E p \in Procs, b \in Bytes : WriteByte(p, b)
    BY <1>2, <2>2, WriteByteEnqueues DEF Queue!Next
  <2>3. CASE \E p \in Procs : ReadByte(p) \/ ReadFault(p)
    BY <1>2, <2>3, ReadByteDequeues DEF Queue!Next
  <2> QED
    BY <1>2, <2>1, <2>2, <2>3, Zenon
    DEF vars, Next, InKernel, pipewrite, piperead, Call, Lock, Sleep, WriteFail, WriteFull,
        WriteDone, ReadWait, ReadReady, ReadDone, pipeclose, Kill
<1>3. (Init => Queue!Init) /\ (PInv /\ [Next]_vars => [Queue!Next]_(Queue!absvars))
  BY <1>1, <1>2
<1> QED
  BY <1>3, PipeInv, PTL DEF Spec, IsQueue, Queue!Spec

=============================================================================
