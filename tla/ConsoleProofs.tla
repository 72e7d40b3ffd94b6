--------------------------- MODULE ConsoleProofs ---------------------------
(***************************************************************************)
(* Proofs about console input, module Console, for any number of readers   *)
(* and any size of cons.buf that divides the range of its indices: readers *)
(* wake up, and the buffer implements the line discipline of LineInput.    *)
(***************************************************************************)
EXTENDS Console, TLAPS

(* The types of all variables. *)
Types ==
  /\ r \in 0..(UINTMOD - 1) /\ w \in 0..(UINTMOD - 1) /\ e \in 0..(UINTMOD - 1)
  /\ buf \in [0..(INPUT_BUF - 1) -> Chars]
  /\ lock \in Readers \cup {None}
  /\ pc \in [Readers -> {"user", "acquire", "loop", "sleep"}]
  /\ n \in [Readers -> 0..MAXN] /\ got \in [Readers -> BOOLEAN]
  /\ asleep \in SUBSET Readers /\ killed \in [Readers -> BOOLEAN] /\ missed \in SUBSET Readers

(* r, w and e are in this order, at most a buffer apart. *)
Ordered == Dist(r, w) <= Dist(r, e) /\ Dist(r, e) <= INPUT_BUF

(* Where readers are: the one that has cons.lock, and those in sleep().    *)
Reading ==
  \A p \in Readers :
    /\ pc[p] \in {"loop", "sleep"} <=> lock = p
    /\ pc[p] # "user" => n[p] > 0
    /\ p \in asleep => pc[p] = "acquire"

(* What a reader knows that is asleep, or about to be. *)
Sleeping ==
  \A p \in Readers : p \in asleep \/ pc[p] = "sleep" => r = w /\ (killed[p] => p \in missed)

(* The line that is being edited has no newline in it, so that CtrlU takes *)
(* all of it.                                                              *)
Edited == \A k \in 0..(UINTMOD - 1) : k < Dist(w, e) => buf[Slot(w + k)] # Newline

(* The inductive invariant. *)
KInv == Types /\ Ordered /\ Reading /\ Sleeping /\ Edited

-----------------------------------------------------------------------------
(* Quotient and remainder. *)
LEMMA ModDiv ==
  ASSUME NEW m \in Nat \ {0}, NEW a \in Int
  PROVE  a \div m \in Int /\ a % m \in 0..(m - 1) /\ a = (a \div m) * m + (a % m)
OBVIOUS

(* The remainder of a multiple and less. *)
LEMMA ModUnique ==
  ASSUME NEW m \in Nat \ {0}, NEW q \in Int, NEW d \in 0..(m - 1)
  PROVE  (q * m + d) % m = d
OBVIOUS

(* An index that has wrapped around names the same slot. *)
LEMMA SlotWraps ==
  ASSUME NEW i \in Int
  PROVE  Slot(i + UINTMOD) = Slot(i) /\ Slot(i) \in 0..(INPUT_BUF - 1)
<1> DEFINE m == INPUT_BUF
           q == i \div m
           d == i % m
           k == UINTMOD \div m
<1>1. m \in Nat \ {0} /\ UINTMOD \in Nat /\ UINTMOD % m = 0
  BY ConsoleAssumption
<1>2. q \in Int /\ d \in 0..(m - 1) /\ i = q * m + d
  BY <1>1, ModDiv
<1>3. k \in Int /\ UINTMOD = k * m
  BY <1>1, ModDiv
<1> HIDE DEF q, d, k
<1>4. i + UINTMOD = (q + k) * m + d
  BY <1>1, <1>2, <1>3
<1>5. (i + UINTMOD) % m = d
  BY <1>1, <1>2, <1>3, <1>4, ModUnique
<1> QED
  BY <1>2, <1>5 DEF Slot, d

(* Indices less than a buffer apart name different slots. *)
LEMMA SlotsDiffer ==
  ASSUME NEW i \in Int, NEW j \in Int, i < j, j < i + INPUT_BUF
  PROVE  Slot(i) # Slot(j)
<1> DEFINE m == INPUT_BUF
           q == i \div m
           k == j \div m
           d == i % m
<1>0. m \in Nat \ {0}
  BY ConsoleAssumption
<1> SUFFICES ASSUME i % m = j % m PROVE FALSE
  BY DEF Slot
<1>1. q \in Int /\ k \in Int /\ d \in Int /\ i = q * m + d /\ j = k * m + d
  BY <1>0, ModDiv
<1> HIDE DEF q, k, d
<1>2. j - i = (k - q) * m
  BY <1>0, <1>1
<1>3. CASE k - q >= 1
  <2>1. (k - q) * m >= m
    BY <1>0, <1>1, <1>3
  <2> QED
    BY <1>0, <1>2, <2>1
<1>4. CASE k - q <= 0
  <2>1. (k - q) * m <= 0
    BY <1>0, <1>1, <1>4
  <2> QED
    BY <1>2, <2>1
<1> QED
  BY <1>1, <1>3, <1>4

(* Indices modulo UINTMOD. *)
Index == 0..(UINTMOD - 1)

(* Arithmetic on indices without remainders. *)
LEMMA Indices ==
  /\ UINTMOD \in Nat /\ INPUT_BUF \in Nat /\ 0 < INPUT_BUF /\ INPUT_BUF < UINTMOD
  /\ \A i, j \in Index : Dist(i, j) = IF j >= i THEN j - i ELSE j - i + UINTMOD
  /\ \A i \in Index : (i + 1) % UINTMOD = IF i + 1 = UINTMOD THEN 0 ELSE i + 1
  /\ \A i \in Index, d \in Index : (i - d) % UINTMOD = IF d <= i THEN i - d ELSE i - d + UINTMOD
<1>1. UINTMOD \in Nat /\ INPUT_BUF \in Nat /\ 0 < INPUT_BUF /\ INPUT_BUF < UINTMOD
  BY ConsoleAssumption
<1>2. /\ \A a \in 0..(UINTMOD - 1) : a % UINTMOD = a
      /\ \A a \in UINTMOD..(2 * UINTMOD - 1) : a % UINTMOD = a - UINTMOD
      /\ \A a \in (-UINTMOD)..(-1) : a % UINTMOD = a + UINTMOD
  BY <1>1
<1>3. ASSUME NEW i \in Index, NEW j \in Index
      PROVE  /\ Dist(i, j) = IF j >= i THEN j - i ELSE j - i + UINTMOD
             /\ (i - j) % UINTMOD = IF j <= i THEN i - j ELSE i - j + UINTMOD
  BY <1>1, <1>2 DEF Dist, Index
<1>4. ASSUME NEW i \in Index PROVE (i + 1) % UINTMOD = IF i + 1 = UINTMOD THEN 0 ELSE i + 1
  BY <1>1, <1>2 DEF Index
<1> QED
  BY <1>1, <1>3, <1>4

(* From one index to another: the second is as far from a third as the     *)
(* distances say, and names the slot that many after the first.            *)
LEMMA Distance ==
  ASSUME NEW i \in Index, NEW j \in Index
  PROVE  /\ Dist(i, j) \in Index
         /\ Dist(i, j) = 0 <=> i = j
         /\ i + Dist(i, j) = j \/ i + Dist(i, j) = j + UINTMOD
         /\ \A k \in Int : Slot(i + Dist(i, j) + k) = Slot(j + k)
<1>1. /\ Dist(i, j) \in Index
      /\ Dist(i, j) = 0 <=> i = j
      /\ i + Dist(i, j) = j \/ i + Dist(i, j) = j + UINTMOD
  BY Indices DEF Index
<1>2. ASSUME NEW k \in Int PROVE Slot(i + Dist(i, j) + k) = Slot(j + k)
  <2>1. j + k \in Int /\ (i + Dist(i, j) + k = j + k \/ i + Dist(i, j) + k = (j + k) + UINTMOD)
    BY <1>1, Indices DEF Index
  <2> QED
    BY <2>1, SlotWraps
<1> QED
  BY <1>1, <1>2

-----------------------------------------------------------------------------
(* The invariant at boot. *)
LEMMA Initially ==
  ASSUME Init
  PROVE  KInv
<1>1. Types
  BY Indices, ConsoleAssumption DEF Init, Types, Chars
<1>2. r \in Index /\ r = w /\ w = e
  BY Indices DEF Init, Index
<1>3. Dist(r, w) = 0 /\ Dist(r, e) = 0 /\ Dist(w, e) = 0
  BY <1>2, Distance
<1>4. Ordered /\ Edited
  BY <1>3, Indices DEF Ordered, Edited
<1>5. Reading /\ Sleeping
  BY ConsoleAssumption DEF Init, Reading, Sleeping
<1> QED
  BY <1>1, <1>4, <1>5 DEF KInv

(* The distances between r, w and e add up. *)
LEMMA Sums ==
  ASSUME Types, Ordered
  PROVE  /\ r \in Index /\ w \in Index /\ e \in Index
         /\ Dist(r, w) \in Index /\ Dist(w, e) \in Index /\ Dist(r, e) \in Index
         /\ Dist(r, e) = Dist(r, w) + Dist(w, e) /\ Dist(r, e) <= INPUT_BUF
<1>1. r \in Index /\ w \in Index /\ e \in Index
  BY DEF Types, Index
<1>2. /\ Dist(r, w) = IF w >= r THEN w - r ELSE w - r + UINTMOD
      /\ Dist(w, e) = IF e >= w THEN e - w ELSE e - w + UINTMOD
      /\ Dist(r, e) = IF e >= r THEN e - r ELSE e - r + UINTMOD
      /\ Dist(r, w) <= Dist(r, e) /\ Dist(r, e) <= INPUT_BUF
  BY <1>1, Indices DEF Ordered
<1>3. Dist(r, e) = Dist(r, w) + Dist(w, e)
  BY <1>1, <1>2, Indices DEF Index
<1> QED
  BY <1>1, <1>2, <1>3, Distance

(* One more character before e: it is as far from r as from w. *)
LEMMA OneMore ==
  ASSUME Types, Ordered, Dist(r, e) < INPUT_BUF
  PROVE  LET f == (e + 1) % UINTMOD IN
         /\ f \in Index
         /\ Dist(r, f) = Dist(r, e) + 1 /\ Dist(w, f) = Dist(w, e) + 1 /\ Dist(f, f) = 0
<1> DEFINE f == (e + 1) % UINTMOD
<1>1. r \in Index /\ w \in Index /\ e \in Index /\ f = IF e + 1 = UINTMOD THEN 0 ELSE e + 1
  BY Sums, Indices
<1>2. f \in Index
  BY <1>1, Indices DEF Index
<1> HIDE DEF f
<1>3. Dist(r, e) < INPUT_BUF /\ Dist(w, e) < INPUT_BUF
  <2>1. Dist(w, e) \in Int /\ Dist(r, w) \in Int /\ Dist(r, w) >= 0 /\ Dist(r, e) = Dist(r, w) + Dist(w, e)
    BY Sums, Indices DEF Index
  <2> QED
    BY <2>1, Indices
<1>4. ASSUME NEW i \in Index, Dist(i, e) < INPUT_BUF PROVE Dist(i, f) = Dist(i, e) + 1
  <2>1. /\ Dist(i, e) = IF e >= i THEN e - i ELSE e - i + UINTMOD
        /\ Dist(i, f) = IF f >= i THEN f - i ELSE f - i + UINTMOD
    BY <1>1, <1>2, Indices
  <2> QED
    BY <1>1, <1>2, <1>4, <2>1, Indices DEF Index
<1>5. Dist(f, f) = 0
  BY <1>2, Distance
<1> QED
  BY <1>1, <1>2, <1>3, <1>4, <1>5 DEF f

(* One less. *)
LEMMA OneLess ==
  ASSUME Types, Ordered, e # w
  PROVE  LET f == (e - 1) % UINTMOD IN
         f \in Index /\ Dist(r, f) = Dist(r, e) - 1 /\ Dist(w, f) = Dist(w, e) - 1
<1> DEFINE f == (e - 1) % UINTMOD
<1>1. /\ r \in Index /\ w \in Index /\ e \in Index /\ 1 \in Index
      /\ f = IF 1 <= e THEN e - 1 ELSE e - 1 + UINTMOD
  <2>1. r \in Index /\ w \in Index /\ e \in Index /\ 1 \in Index
    BY Sums, Indices DEF Index
  <2> QED
    BY <2>1, Indices
<1>2. f \in Index
  BY <1>1, Indices DEF Index
<1> HIDE DEF f
<1>3. Dist(r, e) > 0 /\ Dist(w, e) > 0
  <2>1. /\ Dist(w, e) \in Int /\ Dist(r, w) \in Int /\ Dist(r, w) >= 0 /\ Dist(w, e) >= 0
        /\ Dist(r, e) = Dist(r, w) + Dist(w, e)
    BY Sums, Indices DEF Index
  <2>2. Dist(w, e) # 0
    BY <1>1, Distance
  <2> QED
    BY <2>1, <2>2
<1>4. ASSUME NEW i \in Index, Dist(i, e) > 0 PROVE Dist(i, f) = Dist(i, e) - 1
  <2>1. /\ Dist(i, e) = IF e >= i THEN e - i ELSE e - i + UINTMOD
        /\ Dist(i, f) = IF f >= i THEN f - i ELSE f - i + UINTMOD
    BY <1>1, <1>2, Indices
  <2> QED
    BY <1>1, <1>2, <1>4, <2>1, Indices DEF Index
<1> QED
  BY <1>1, <1>2, <1>3, <1>4 DEF f

(* A character taken: w and e are one nearer to r. *)
LEMMA OneTaken ==
  ASSUME Types, Ordered, r # w
  PROVE  LET f == (r + 1) % UINTMOD IN
         f \in Index /\ Dist(f, w) = Dist(r, w) - 1 /\ Dist(f, e) = Dist(r, e) - 1
<1> DEFINE f == (r + 1) % UINTMOD
<1>1. r \in Index /\ w \in Index /\ e \in Index /\ f = IF r + 1 = UINTMOD THEN 0 ELSE r + 1
  BY Sums, Indices
<1>2. f \in Index
  BY <1>1, Indices DEF Index
<1> HIDE DEF f
<1>3. Dist(r, w) > 0 /\ Dist(r, e) > 0
  <2>1. Dist(r, w) \in Index /\ Dist(r, w) # 0
    BY <1>1, Distance
  <2> QED
    BY <2>1, Sums, Indices DEF Index
<1>4. ASSUME NEW i \in Index, Dist(r, i) > 0 PROVE Dist(f, i) = Dist(r, i) - 1
  <2>1. /\ Dist(r, i) = IF i >= r THEN i - r ELSE i - r + UINTMOD
        /\ Dist(f, i) = IF i >= f THEN i - f ELSE i - f + UINTMOD
    BY <1>1, <1>2, Indices
  <2> QED
    BY <1>1, <1>2, <1>4, <2>1, Indices DEF Index
<1> QED
  BY <1>1, <1>2, <1>3, <1>4 DEF f

(* CtrlU goes back to w. *)
LEMMA KillsLine ==
  ASSUME KInv, IntrKill
  PROVE  e' = w
<1> DEFINE D == Dist(w, e)
           stop == {d \in 0..D : d = D \/ buf[Slot(e - d - 1)] = Newline}
<1>1. w \in Index /\ e \in Index /\ D \in Index
  BY Sums DEF KInv
<1>2. ASSUME NEW d \in 0..D, d # D PROVE buf[Slot(e - d - 1)] # Newline
  <2>0. d \in 0..D /\ d # D /\ D \in Index
    BY <1>1, <1>2
  <2> HIDE DEF D
  <2>1. D - d - 1 \in Index /\ D - d - 1 < D /\ -d - 1 \in Int
    BY <2>0, Indices DEF Index
  <2>2. Slot(w + D + (-d - 1)) = Slot(e + (-d - 1))
    BY <1>1, <2>1, Distance DEF D
  <2>3. w + D + (-d - 1) = w + (D - d - 1) /\ e + (-d - 1) = e - d - 1
    BY <1>1, <2>0 DEF Index
  <2>4. buf[Slot(w + (D - d - 1))] # Newline
    BY <2>1 DEF KInv, Edited, Index, D
  <2> QED
    BY <2>2, <2>3, <2>4
<1>3. stop = {D}
  BY <1>1, <1>2, Indices DEF Index
<1>4. Min(stop) = D
  BY <1>1, <1>3 DEF Min, Index
<1>5. e' = (e - D) % UINTMOD
  BY <1>4 DEF IntrKill
<1>6. (e - D) % UINTMOD = IF D <= e THEN e - D ELSE e - D + UINTMOD
  BY <1>1, Indices
<1>7. w + D = e \/ w + D = e + UINTMOD
  BY <1>1, Distance
<1> QED
  BY <1>1, <1>5, <1>6, <1>7, Indices DEF Index

-----------------------------------------------------------------------------
(* A typed character. *)
LEMMA TypedInv ==
  ASSUME KInv, NEW c \in Chars \cup {CtrlU, CtrlH}, Consoleintr(c)
  PROVE  KInv'
<1>1. lock = None /\ UNCHANGED <<r, lock, pc, n, got, killed, missed>>
  BY DEF Consoleintr
<1>2. Types /\ Ordered /\ \A p \in Readers : pc[p] \notin {"loop", "sleep"}
  BY <1>1, ConsoleAssumption DEF KInv, Reading
<1>3. Reading' /\ Sleeping' /\ Types' /\ Ordered' /\ Edited' => KInv'
  BY DEF KInv
<1>4. CASE c = CtrlU /\ IntrKill
  <2>1. e' = w /\ UNCHANGED <<buf, w, asleep>>
    BY <1>4, KillsLine DEF IntrKill
  <2>2. Types' /\ Reading' /\ Sleeping'
    BY <1>1, <2>1 DEF KInv, Types, Reading, Sleeping
  <2>3. r \in Index /\ w \in Index /\ Dist(r, w) <= INPUT_BUF /\ Dist(r, w) \in Index
    BY <1>2, Sums, Indices DEF Index
  <2>4. Dist(w, w) = 0
    BY <2>3, Distance
  <2>5. Ordered' /\ Edited'
    BY <1>1, <2>1, <2>3, <2>4, Indices DEF Ordered, Edited, Index
  <2> QED
    BY <1>3, <2>2, <2>5
<1>5. CASE c = CtrlH /\ IntrErase
  <2>1. e # w /\ e' = (e - 1) % UINTMOD /\ UNCHANGED <<buf, w, asleep>>
    BY <1>5 DEF IntrErase
  <2>2. e' \in Index /\ Dist(r, e') = Dist(r, e) - 1 /\ Dist(w, e') = Dist(w, e) - 1
    BY <1>2, <2>1, OneLess
  <2>3. Types' /\ Reading' /\ Sleeping'
    BY <1>1, <2>1, <2>2 DEF KInv, Types, Reading, Sleeping, Index
  <2>4. /\ Dist(r, w) \in Int /\ Dist(w, e) \in Int /\ Dist(r, e) \in Int
        /\ Dist(r, e) = Dist(r, w) + Dist(w, e) /\ Dist(r, e) <= INPUT_BUF /\ w \in Index /\ e \in Index
    BY <1>2, Sums, Indices DEF Index
  <2>5. Dist(w, e) > 0
    <3>1. Dist(w, e) # 0 /\ Dist(w, e) \in Index
      BY <2>1, <2>4, Distance
    <3> QED
      BY <3>1 DEF Index
  <2>6. Ordered'
    BY <1>1, <2>1, <2>2, <2>4, <2>5, Indices DEF Ordered
  <2>7. Edited'
    BY <2>1, <2>2, <2>4, Indices DEF KInv, Edited
  <2> QED
    BY <1>3, <2>3, <2>6, <2>7
<1>6. CASE c \in Chars /\ IntrChar(c)
  <2> DEFINE f == (e + 1) % UINTMOD
  <2>1. /\ Dist(r, e) < INPUT_BUF /\ buf' = [buf EXCEPT ![Slot(e)] = c] /\ e' = f
        /\ \/ w' = e' /\ asleep' = {}
           \/ c # Newline /\ UNCHANGED <<w, asleep>>
    BY <1>6 DEF IntrChar
  <2>2. /\ f \in Index /\ Dist(r, f) = Dist(r, e) + 1 /\ Dist(w, f) = Dist(w, e) + 1
        /\ Dist(f, f) = 0
    BY <1>2, <2>1, OneMore
  <2> HIDE DEF f
  <2>3. /\ r \in Index /\ w \in Index /\ e \in Index
        /\ Dist(r, w) \in Int /\ Dist(w, e) \in Int /\ Dist(r, e) \in Int /\ Dist(r, w) >= 0
        /\ Dist(r, e) = Dist(r, w) + Dist(w, e) /\ Dist(w, e) >= 0 /\ Dist(w, e) < INPUT_BUF
    BY <1>2, <2>1, Sums, Indices DEF Index
  <2>4. Slot(e) \in 0..(INPUT_BUF - 1)
    BY <2>3, SlotWraps DEF Index
  <2>5. Types'
    BY <1>1, <1>6, <2>1, <2>2, <2>4 DEF KInv, Types, Index
  <2>6. Ordered'
    BY <1>1, <2>1, <2>2, <2>3, Indices DEF Ordered
  <2>7. Reading' /\ Sleeping'
    BY <1>1, <1>2, <2>1 DEF KInv, Reading, Sleeping
  <2>8. ASSUME w' = e' PROVE Edited'
    <3>1. e' = f /\ w' = f /\ Dist(f, f) = 0
      BY <2>1, <2>2, <2>8
    <3> QED
      BY <3>1, Indices DEF Edited
  <2>9. ASSUME c # Newline, w' = w PROVE Edited'
    <3>1. ASSUME NEW k \in 0..(UINTMOD - 1), k < Dist(w, e) + 1
          PROVE  buf'[Slot(w + k)] # Newline
      <4>1. w + k \in Int /\ Slot(w + k) \in 0..(INPUT_BUF - 1)
        BY <2>3, SlotWraps, Indices DEF Index
      <4>2. CASE k < Dist(w, e)
        <5>1. Slot(w + k) # Slot(w + Dist(w, e))
          BY <2>3, <4>2, SlotsDiffer, Indices DEF Index
        <5>2. w + Dist(w, e) + 0 = w + Dist(w, e) /\ e + 0 = e
          BY <2>3 DEF Index
        <5>3. Slot(w + Dist(w, e)) = Slot(e)
          BY <2>3, <5>2, Distance
        <5> QED
          BY <1>2, <2>1, <2>4, <4>1, <4>2, <5>1, <5>3 DEF KInv, Edited, Types
      <4>3. CASE k = Dist(w, e)
        <5>1. w + k + 0 = w + k /\ e + 0 = e
          BY <2>3 DEF Index
        <5>2. Slot(w + k) = Slot(e)
          BY <2>3, <4>3, <5>1, Distance
        <5> QED
          BY <1>2, <2>1, <2>4, <2>9, <5>2 DEF Types
      <4> QED
        BY <2>3, <3>1, <4>2, <4>3
    <3> QED
      BY <2>1, <2>2, <2>9, <3>1 DEF Edited
  <2> QED
    BY <1>3, <2>1, <2>5, <2>6, <2>7, <2>8, <2>9
<1> QED
  BY <1>4, <1>5, <1>6 DEF Consoleintr

(* What a return leaves behind has its type. *)
LEMMA ReturnTypes ==
  ASSUME Types, NEW p \in Readers, Return(p)
  PROVE  /\ lock' \in Readers \cup {None} /\ pc' \in [Readers -> {"user", "acquire", "loop", "sleep"}]
         /\ n' \in [Readers -> 0..MAXN] /\ got' \in [Readers -> BOOLEAN]
<1>1. lock' \in Readers \cup {None} /\ pc' \in [Readers -> {"user", "acquire", "loop", "sleep"}]
  BY DEF Types, Return, Goto
<1>2. 0 \in 0..MAXN
  BY ConsoleAssumption
<1>3. n' \in [Readers -> 0..MAXN] /\ got' \in [Readers -> BOOLEAN]
  BY <1>2 DEF Types, Return
<1> QED
  BY <1>1, <1>3

(* Steps of a reader that leave the buffer alone. *)
LEMMA ReaderInv ==
  ASSUME KInv, NEW p \in Readers, Read(p) \/ Acquire(p) \/ Empty(p) \/ Sleep(p)
  PROVE  KInv'
<1>1. UNCHANGED <<buf, r, w, e, killed, missed>>
  BY DEF Read, Acquire, Empty, Sleep
<1>2. Ordered' /\ Edited'
  BY <1>1 DEF KInv, Ordered, Edited
<1>3. Types'
  <2>1. CASE Read(p)
    BY <2>1 DEF KInv, Types, Read, Goto
  <2>2. CASE Acquire(p)
    BY <2>2 DEF KInv, Types, Acquire, Goto
  <2>3. CASE Empty(p)
    <3>1. CASE Return(p)
      BY <1>1, <2>3, <3>1, ReturnTypes DEF KInv, Types, Empty
    <3>2. CASE Goto(p, "sleep") /\ UNCHANGED <<lock, n, got>>
      BY <1>1, <2>3, <3>2 DEF KInv, Types, Empty, Goto
    <3> QED
      BY <2>3, <3>1, <3>2 DEF Empty
  <2>4. CASE Sleep(p)
    BY <2>4 DEF KInv, Types, Sleep, Goto
  <2> QED
    BY <2>1, <2>2, <2>3, <2>4
<1>4. Reading'
  <2>1. CASE Read(p)
    BY <2>1 DEF KInv, Types, Reading, Read, Goto
  <2>2. CASE Acquire(p)
    BY <2>2, ConsoleAssumption DEF KInv, Types, Reading, Acquire, Goto
  <2>3. CASE Empty(p)
    BY <2>3, ConsoleAssumption DEF KInv, Types, Reading, Empty, Return, Goto
  <2>4. CASE Sleep(p)
    BY <2>4, ConsoleAssumption DEF KInv, Types, Reading, Sleep, Goto
  <2> QED
    BY <2>1, <2>2, <2>3, <2>4
<1>5. Sleeping'
  BY <1>1 DEF KInv, Types, Sleeping, Read, Acquire, Empty, Sleep, Return, Goto
<1> QED
  BY <1>2, <1>3, <1>4, <1>5 DEF KInv

(* A reader takes a character. *)
LEMMA TakeInv ==
  ASSUME KInv, NEW p \in Readers, Take(p)
  PROVE  KInv'
<1>1. /\ Types /\ Ordered /\ pc[p] = "loop" /\ lock = p /\ r # w /\ n[p] > 0
      /\ UNCHANGED <<buf, w, e, asleep, killed, missed>>
      /\ r' = r \/ r' = (r + 1) % UINTMOD
      /\ \/ Return(p)
         \/ got' = [got EXCEPT ![p] = TRUE] /\ n' = [n EXCEPT ![p] = @ - 1] /\ n[p] # 1
            /\ UNCHANGED <<pc, lock>>
  BY DEF Take, KInv, Reading, AfterEof
<1>2. Reading'
  BY <1>1, ConsoleAssumption DEF KInv, Types, Reading, Return, Goto
<1>3. Sleeping'
  <2>1. \A q \in Readers : q \notin asleep /\ pc[q] # "sleep"
    BY <1>1 DEF KInv, Sleeping
  <2> QED
    BY <1>1, <2>1 DEF Types, Sleeping, Return, Goto
<1>4. r' \in Index /\ Dist(r', w) <= Dist(r', e) /\ Dist(r', e) <= INPUT_BUF
  <2>1. CASE r' = r
    BY <1>1, <2>1 DEF Ordered, Types, Index
  <2>2. CASE r' = (r + 1) % UINTMOD
    <3>1. r' \in Index /\ Dist(r', w) = Dist(r, w) - 1 /\ Dist(r', e) = Dist(r, e) - 1
      BY <1>1, <2>2, OneTaken
    <3>2. Dist(r, w) \in Int /\ Dist(r, e) \in Int /\ Dist(r, w) <= Dist(r, e) /\ Dist(r, e) <= INPUT_BUF
      BY <1>1, Sums DEF Ordered, Index
    <3> QED
      BY <3>1, <3>2, Indices
  <2> QED
    BY <1>1, <2>1, <2>2
<1>5. Ordered' /\ Edited'
  BY <1>1, <1>4 DEF KInv, Ordered, Edited
<1>6. Types'
  <2>1. CASE Return(p)
    BY <1>1, <1>4, <2>1, ReturnTypes DEF Types, Index
  <2>2. CASE got' = [got EXCEPT ![p] = TRUE] /\ n' = [n EXCEPT ![p] = @ - 1] /\ UNCHANGED <<pc, lock>>
    <3>1. n[p] - 1 \in 0..MAXN
      BY <1>1, ConsoleAssumption DEF Types
    <3>2. n' \in [Readers -> 0..MAXN] /\ got' \in [Readers -> BOOLEAN]
      BY <1>1, <2>2, <3>1 DEF Types
    <3> QED
      BY <1>1, <1>4, <2>2, <3>2 DEF Types, Index
  <2> QED
    BY <1>1, <2>1, <2>2
<1> QED
  BY <1>2, <1>3, <1>5, <1>6 DEF KInv

(* kill(), and the end of a killed process. *)
LEMMA KilledInv ==
  ASSUME KInv, NEW p \in Readers, KillReader(p) \/ Replace(p)
  PROVE  KInv'
<1>1. UNCHANGED <<buf, r, w, e, lock, pc, n, got>>
  BY DEF KillReader, Replace
<1>2. Ordered' /\ Edited'
  BY <1>1 DEF KInv, Ordered, Edited
<1>3. Types' /\ Reading'
  BY <1>1 DEF KInv, Types, Reading, KillReader, Replace
<1>4. Sleeping'
  <2>1. CASE KillReader(p)
    BY <1>1, <2>1 DEF KInv, Types, Sleeping, KillReader
  <2>2. CASE Replace(p)
    BY <1>1, <2>2 DEF KInv, Types, Sleeping, Reading, Replace
  <2> QED
    BY <2>1, <2>2
<1> QED
  BY <1>2, <1>3, <1>4 DEF KInv

(* Every step keeps the invariant. *)
LEMMA StepInv ==
  ASSUME KInv, [Next]_vars
  PROVE  KInv'
<1>1. CASE UNCHANGED vars
  BY <1>1 DEF vars, KInv, Types, Ordered, Reading, Sleeping, Edited
<1> QED
  BY <1>1, TypedInv, ReaderInv, TakeInv, KilledInv, Zenon DEF Next

(* The invariant in every state. *)
LEMMA ConsoleInv == Spec => []KInv
<1>1. Init => KInv
  BY Initially
<1>2. KInv /\ [Next]_vars => KInv'
  BY StepInv
<1> QED
  BY <1>1, <1>2, PTL DEF Spec

(* A reader sleeps only while there is nothing to read, and a killed one   *)
(* only if kill() came between its test of p->killed and sleep(), for any  *)
(* number of readers and any size of the buffer.                           *)
THEOREM ReadersAlwaysWake == Spec => []ReadersWake
<1>1. ASSUME KInv PROVE ReadersWake
  <2>1. TypeOK
    BY <1>1 DEF KInv, Types, Ordered, TypeOK
  <2>2. NoLostWakeup /\ KilledSleepsOnlyIfMissed
    BY <1>1 DEF KInv, Types, Sleeping, NoLostWakeup, KilledSleepsOnlyIfMissed
  <2> QED
    BY <2>1, <2>2 DEF ReadersWake
<1>2. KInv => ReadersWake
  BY <1>1
<1> QED
  BY <1>2, ConsoleInv, PTL

-----------------------------------------------------------------------------
(* The characters of a buffer b from index i up to index j. *)
Part(b, i, j) == [k \in 1..Dist(i, j) |-> b[Slot(i + k - 1)]]
Buffers == [0..(INPUT_BUF - 1) -> Chars]
Stored(b2, b, j, c) == b2 = [b EXCEPT ![Slot(j)] = c]

(* They are a sequence. *)
LEMMA PartIsSeq ==
  ASSUME NEW b \in Buffers, NEW i \in Index, NEW j \in Index
  PROVE  Part(b, i, j) \in Seq(Chars) /\ Dist(i, j) \in Nat /\ Len(Part(b, i, j)) = Dist(i, j)
<1>1. Dist(i, j) \in Nat /\ i \in Int
  BY Distance, Indices DEF Index
<1>2. ASSUME NEW k \in 1..Dist(i, j) PROVE b[Slot(i + k - 1)] \in Chars
  <2>1. i + k - 1 \in Int
    BY <1>1
  <2> QED
    BY <2>1, SlotWraps DEF Buffers
<1>3. Part(b, i, j) \in [1..Dist(i, j) -> Chars]
  BY <1>2 DEF Part
<1> QED
  BY <1>1, <1>3

(* One of them. *)
LEMMA PartAt ==
  ASSUME NEW b, NEW i, NEW j, NEW k \in 1..Dist(i, j)
  PROVE  Part(b, i, j)[k] = b[Slot(i + k - 1)]
BY DEF Part

(* Equal sequences. *)
LEMMA SameSeq ==
  ASSUME NEW S, NEW s \in Seq(S), NEW t \in Seq(S), Len(s) = Len(t),
         \A k \in 1..Len(s) : s[k] = t[k]
  PROVE  s = t
OBVIOUS

(* A concatenation. *)
LEMMA ConcatSeq ==
  ASSUME NEW S, NEW s \in Seq(S), NEW t \in Seq(S)
  PROVE  /\ s \o t \in Seq(S) /\ Len(s \o t) = Len(s) + Len(t)
         /\ \A k \in 1..Len(s) : (s \o t)[k] = s[k]
         /\ \A k \in 1..Len(t) : (s \o t)[Len(s) + k] = t[k]
OBVIOUS

(* Indices that move together. *)
LEMMA Shifted ==
  ASSUME NEW i \in Int, NEW f \in Int, NEW k \in Int, NEW m \in Int, i + 1 = f \/ i + 1 = f + m
  PROVE  /\ f + k - 1 \in Int
         /\ i + (k + 1) - 1 = f + k - 1 \/ i + (k + 1) - 1 = (f + k - 1) + m
OBVIOUS

(* Writing the slot of index j leaves what is before it in a buffer. *)
LEMMA WriteKeeps ==
  ASSUME NEW b \in Buffers, NEW i \in Index, NEW j \in Index, NEW c \in Chars,
         NEW k \in Int, 0 <= k, k < Dist(i, j), Dist(i, j) < INPUT_BUF,
         NEW b2, Stored(b2, b, j, c)
  PROVE  b2[Slot(i + k)] = b[Slot(i + k)]
<1>1. i \in Int /\ Dist(i, j) \in Int /\ j + 0 = j /\ i + Dist(i, j) + 0 = i + Dist(i, j)
  BY Distance, Indices DEF Index
<1>2. i + k \in Int /\ i + Dist(i, j) \in Int /\ i + k < i + Dist(i, j)
      /\ i + Dist(i, j) < (i + k) + INPUT_BUF
  BY <1>1, Indices
<1>3. Slot(i + k) # Slot(i + Dist(i, j)) /\ Slot(i + k) \in 0..(INPUT_BUF - 1)
  BY <1>2, SlotsDiffer, SlotWraps
<1>4. Slot(i + Dist(i, j)) = Slot(j)
  BY <1>1, Distance
<1> QED
  BY <1>3, <1>4 DEF Buffers, Stored

(* A character stored at index j comes after what was there up to j. *)
LEMMA PartAppend ==
  ASSUME NEW b \in Buffers, NEW i \in Index, NEW j \in Index, NEW c \in Chars,
         NEW f \in Index, Dist(i, j) < INPUT_BUF, Dist(i, f) = Dist(i, j) + 1,
         NEW b2 \in Buffers, Stored(b2, b, j, c)
  PROVE  Part(b2, i, f) = Append(Part(b, i, j), c)
<1> DEFINE s == Part(b2, i, f)
           t == Append(Part(b, i, j), c)
           d == Dist(i, j)
<1>1. s \in Seq(Chars) /\ Len(s) = d + 1 /\ d \in Nat /\ Part(b, i, j) \in Seq(Chars)
      /\ Len(Part(b, i, j)) = d /\ i \in Int
  BY PartIsSeq DEF Index
<1>2. t \in Seq(Chars) /\ Len(t) = d + 1
  BY <1>1
<1>3. ASSUME NEW k \in 1..(d + 1) PROVE s[k] = t[k]
  <2>1. s[k] = b2[Slot(i + k - 1)]
    BY PartAt
  <2>2. CASE k = d + 1
    <3>1. t[k] = c
      BY <1>1, <2>2
    <3>2. i + k - 1 = i + d + 0 /\ j + 0 = j /\ j \in Int
      BY <1>1, <2>2 DEF Index
    <3>3. Slot(i + k - 1) = Slot(j) /\ Slot(j) \in 0..(INPUT_BUF - 1)
      BY <3>2, Distance, SlotWraps
    <3> QED
      BY <2>1, <3>1, <3>3 DEF Buffers, Stored
  <2>3. CASE k # d + 1
    <3>1. k \in 1..d /\ k - 1 \in Int /\ 0 <= k - 1 /\ k - 1 < d /\ i + (k - 1) = i + k - 1
      BY <1>1, <2>3
    <3>2. t[k] = b[Slot(i + k - 1)]
      <4>1. t[k] = Part(b, i, j)[k]
        BY <1>1, <3>1
      <4> QED
        BY <3>1, <4>1, PartAt
    <3>3. b2[Slot(i + (k - 1))] = b[Slot(i + (k - 1))]
      BY <3>1, WriteKeeps
    <3> QED
      BY <2>1, <3>1, <3>2, <3>3
  <2> QED
    BY <2>2, <2>3
<1> HIDE DEF s, t, d
<1>4. s = t
  BY <1>1, <1>2, <1>3, SameSeq
<1> QED
  BY <1>4 DEF s, t

(* A part that ends before index j is left alone. *)
LEMMA PartKept ==
  ASSUME NEW b \in Buffers, NEW i \in Index, NEW h \in Index, NEW j \in Index, NEW c \in Chars,
         Dist(i, h) <= Dist(i, j), Dist(i, j) < INPUT_BUF,
         NEW b2 \in Buffers, Stored(b2, b, j, c)
  PROVE  Part(b2, i, h) = Part(b, i, h)
<1> DEFINE s == Part(b2, i, h)
           t == Part(b, i, h)
           d == Dist(i, h)
<1>1. s \in Seq(Chars) /\ Len(s) = d /\ t \in Seq(Chars) /\ Len(t) = d /\ d \in Nat /\ i \in Int
      /\ Dist(i, j) \in Nat
  BY PartIsSeq DEF Index
<1>2. ASSUME NEW k \in 1..d PROVE s[k] = t[k]
  <2>1. s[k] = b2[Slot(i + k - 1)] /\ t[k] = b[Slot(i + k - 1)]
    BY PartAt
  <2>2. k - 1 \in Int /\ 0 <= k - 1 /\ k - 1 < Dist(i, j) /\ i + (k - 1) = i + k - 1
    BY <1>1
  <2> QED
    BY <2>1, <2>2, WriteKeeps
<1> HIDE DEF s, t, d
<1>3. s = t
  BY <1>1, <1>2, SameSeq
<1> QED
  BY <1>3 DEF s, t

(* Two adjacent parts. *)
LEMMA PartConcat ==
  ASSUME NEW b \in Buffers, NEW i \in Index, NEW h \in Index, NEW j \in Index,
         Dist(i, j) = Dist(i, h) + Dist(h, j)
  PROVE  Part(b, i, j) = Part(b, i, h) \o Part(b, h, j)
<1> DEFINE s == Part(b, i, j)
           u == Part(b, i, h)
           v == Part(b, h, j)
           t == u \o v
           d == Dist(i, h)
           g == Dist(h, j)
<1>1. /\ s \in Seq(Chars) /\ Len(s) = d + g /\ d \in Nat /\ g \in Nat /\ i \in Int /\ h \in Int
      /\ u \in Seq(Chars) /\ v \in Seq(Chars) /\ Len(u) = d /\ Len(v) = g
  BY PartIsSeq DEF Index
<1>2. /\ \A k \in 1..(d + g) : s[k] = b[Slot(i + k - 1)]
      /\ \A k \in 1..d : u[k] = b[Slot(i + k - 1)]
      /\ \A k \in 1..g : v[k] = b[Slot(h + k - 1)]
  BY PartAt
<1>3. \A k \in Int : Slot(i + d + k) = Slot(h + k)
  BY Distance
<1> HIDE DEF s, u, v, d, g
<1>4. t \in Seq(Chars) /\ Len(t) = d + g
  BY <1>1, ConcatSeq
<1>5. (\A k \in 1..d : t[k] = u[k]) /\ (\A k \in 1..g : t[d + k] = v[k])
  <2>1. /\ \A k \in 1..Len(u) : t[k] = u[k]
        /\ \A k \in 1..Len(v) : t[Len(u) + k] = v[k]
    BY <1>1, ConcatSeq
  <2> QED
    BY <1>1, <2>1, Zenon
<1>6. ASSUME NEW k \in 1..(d + g) PROVE s[k] = t[k]
  <2> HIDE DEF t
  <2>1. CASE k <= d
    <3>1. k \in 1..d
      BY <1>1, <2>1
    <3> QED
      BY <1>2, <1>5, <3>1
  <2>2. CASE ~(k <= d)
    <3>1. k - d \in 1..g /\ i + k - 1 = i + d + (k - d - 1) /\ h + (k - d) - 1 = h + (k - d - 1)
          /\ k - d - 1 \in Int /\ d + (k - d) = k
      BY <1>1, <2>2
    <3>2. t[k] = v[k - d]
      BY <1>5, <3>1
    <3>3. v[k - d] = b[Slot(h + (k - d - 1))]
      BY <1>2, <3>1
    <3>4. s[k] = b[Slot(i + d + (k - d - 1))]
      BY <1>2, <3>1
    <3> QED
      BY <1>3, <3>1, <3>2, <3>3, <3>4
  <2> QED
    BY <2>1, <2>2
<1>7. s = t
  <2> HIDE DEF t
  <2> QED
    BY <1>1, <1>4, <1>6, SameSeq
<1> QED
  BY <1>7 DEF s, u, v

(* A part without its first character. *)
LEMMA PartTail ==
  ASSUME NEW b \in Buffers, NEW i \in Index, NEW j \in Index, NEW f \in Index,
         i + 1 = f \/ i + 1 = f + UINTMOD, Dist(f, j) = Dist(i, j) - 1, i # j
  PROVE  Part(b, i, j) # <<>> /\ Part(b, f, j) = Tail(Part(b, i, j))
<1> DEFINE s == Part(b, f, j)
           u == Part(b, i, j)
           t == Tail(u)
           d == Dist(i, j)
<1>1. s \in Seq(Chars) /\ Len(s) = d - 1 /\ u \in Seq(Chars) /\ Len(u) = d /\ d \in Nat /\ d # 0
      /\ i \in Int /\ f \in Int
  BY PartIsSeq, Distance DEF Index
<1>2. u # <<>> /\ t \in Seq(Chars) /\ Len(t) = d - 1
  <2> HIDE DEF u, d
  <2> QED
    BY <1>1
<1>3. UINTMOD \in Int
  BY Indices
<1>4. ASSUME NEW k \in 1..(d - 1) PROVE s[k] = t[k]
  <2>1. s[k] = b[Slot(f + k - 1)]
    BY PartAt
  <2>2. k + 1 \in 1..d
    BY <1>1
  <2>3. u[k + 1] = b[Slot(i + (k + 1) - 1)]
    BY <2>2, PartAt
  <2>4. t[k] = u[k + 1]
    <3> HIDE DEF u, d
    <3> QED
      BY <1>1, <1>2
  <2>5. f + k - 1 \in Int /\ (i + (k + 1) - 1 = f + k - 1 \/ i + (k + 1) - 1 = (f + k - 1) + UINTMOD)
    BY <1>1, <1>3, Shifted
  <2>6. Slot(i + (k + 1) - 1) = Slot(f + k - 1)
    BY <2>5, SlotWraps
  <2> QED
    BY <2>1, <2>3, <2>4, <2>6
<1> HIDE DEF s, u, d, t
<1>5. s = t
  BY <1>1, <1>2, <1>4, SameSeq
<1> QED
  BY <1>2, <1>5 DEF s, u, t

(* A part without its last character. *)
LEMMA PartFront ==
  ASSUME NEW b \in Buffers, NEW i \in Index, NEW j \in Index, NEW f \in Index,
         Dist(i, f) = Dist(i, j) - 1
  PROVE  /\ Part(b, i, j) # <<>>
         /\ Part(b, i, f) = SubSeq(Part(b, i, j), 1, Len(Part(b, i, j)) - 1)
<1> DEFINE s == Part(b, i, f)
           u == Part(b, i, j)
           t == SubSeq(u, 1, Len(u) - 1)
           d == Dist(i, j)
<1>1. s \in Seq(Chars) /\ Len(s) = d - 1 /\ u \in Seq(Chars) /\ Len(u) = d /\ d - 1 \in Nat /\ d \in Nat
  BY PartIsSeq
<1>2. u # <<>> /\ t \in Seq(Chars) /\ Len(t) = d - 1
  <2> HIDE DEF u, d
  <2> QED
    BY <1>1
<1>3. ASSUME NEW k \in 1..(d - 1) PROVE s[k] = t[k]
  <2>1. k \in 1..d
    BY <1>1
  <2>2. s[k] = b[Slot(i + k - 1)] /\ u[k] = b[Slot(i + k - 1)]
    BY <2>1, PartAt
  <2>3. t[k] = u[k]
    <3> HIDE DEF u, d
    <3> QED
      BY <1>1
  <2> QED
    BY <2>2, <2>3
<1> HIDE DEF s, u, d, t
<1>4. s = t
  BY <1>1, <1>2, <1>3, SameSeq
<1> QED
  BY <1>2, <1>4 DEF s, u, t

-----------------------------------------------------------------------------
(* What the abstract queue and line are. *)
LEMMA Abstract ==
  /\ Between(r, w) = Part(buf, r, w) /\ Between(w, e) = Part(buf, w, e)
  /\ Between(r, w)' = Part(buf', r', w') /\ Between(w, e)' = Part(buf', w', e')
BY DEF Between, Part

(* A stored character is typed into the line, or ends it. *)
LEMMA CharTypes ==
  ASSUME KInv, NEW c \in Chars, Consoleintr(c), IntrChar(c)
  PROVE  L!Type(c)
<1> DEFINE f == (e + 1) % UINTMOD
           q == Part(buf, r, w)
           t == Part(buf, w, e)
<1>1. /\ Types /\ Ordered /\ r' = r /\ e' = f /\ Dist(r, e) < INPUT_BUF
      /\ buf' = [buf EXCEPT ![Slot(e)] = c]
      /\ IF c \in {Newline, CtrlD} \/ Dist(r, e) + 1 = INPUT_BUF THEN w' = e' ELSE w' = w
  BY DEF IntrChar, Consoleintr, KInv
<1>2. /\ f \in Index /\ Dist(r, f) = Dist(r, e) + 1 /\ Dist(w, f) = Dist(w, e) + 1
      /\ Dist(f, f) = 0
  BY <1>1, OneMore
<1> HIDE DEF f
<1>3. /\ r \in Index /\ w \in Index /\ e \in Index /\ buf \in Buffers
      /\ Dist(r, e) = Dist(r, w) + Dist(w, e)
  BY <1>1, Sums DEF Types, Buffers, Index
<1>4. buf' \in Buffers
  <2>1. Slot(e) \in 0..(INPUT_BUF - 1)
    BY <1>3, SlotWraps DEF Index
  <2> QED
    BY <1>1, <1>3, <2>1 DEF Buffers
<1>5. PICK b2 \in Buffers : b2 = buf' /\ Stored(b2, buf, e, c)
  BY <1>1, <1>4 DEF Stored
<1>6. Dist(r, e) < INPUT_BUF
  BY <1>1
<1>7. /\ q \in Seq(Chars) /\ t \in Seq(Chars) /\ Len(q) = Dist(r, w) /\ Len(t) = Dist(w, e)
      /\ Dist(r, w) \in Nat /\ Dist(w, e) \in Nat
  BY <1>3, PartIsSeq
<1>8. Len(q) + Len(t) = Dist(r, e)
  BY <1>3, <1>7
<1>9. /\ Between(r, w) = q /\ Between(w, e) = t
      /\ Between(r, w)' = Part(buf', r, w') /\ Between(w, e)' = Part(buf', w', f)
  BY <1>1, Abstract
<1>10. CASE c \in {Newline, CtrlD} \/ Dist(r, e) + 1 = INPUT_BUF
  <2>1. w' = f
    BY <1>1, <1>10
  <2>2. Part(buf', r, f) = Append(Part(buf, r, e), c)
    <3>1. Part(b2, r, f) = Append(Part(buf, r, e), c)
      BY <1>2, <1>3, <1>5, <1>6, PartAppend
    <3> QED
      BY <1>5, <3>1
  <2>3. Part(buf, r, e) = q \o t
    BY <1>3, PartConcat
  <2> HIDE DEF q, t
  <2>4. Append(q \o t, c) = q \o Append(t, c)
    BY <1>7
  <2>5. Part(buf', f, f) = <<>>
    <3>1. Part(buf', f, f) \in Seq(Chars) /\ Len(Part(buf', f, f)) = 0
      BY <1>2, <1>4, PartIsSeq
    <3> QED
      BY <3>1
  <2> QED
    BY <1>1, <1>8, <1>9, <1>10, <2>1, <2>2, <2>3, <2>4, <2>5 DEF L!Type, L!Room
<1>11. CASE ~(c \in {Newline, CtrlD} \/ Dist(r, e) + 1 = INPUT_BUF)
  <2>1. w' = w
    BY <1>1, <1>11
  <2>2. Dist(w, e) < INPUT_BUF /\ Dist(r, w) <= Dist(r, e)
    BY <1>1, <1>3, <1>7, Indices
  <2>3. Part(buf', w, f) = Append(t, c)
    <3>1. Part(b2, w, f) = Append(t, c)
      BY <1>2, <1>3, <1>5, <1>6, <2>2, PartAppend
    <3> QED
      BY <1>5, <3>1
  <2>4. Part(buf', r, w) = q
    <3>1. Part(b2, r, w) = q
      BY <1>3, <1>5, <1>6, <2>2, PartKept
    <3> QED
      BY <1>5, <3>1
  <2> HIDE DEF q, t
  <2> QED
    BY <1>1, <1>8, <1>9, <1>11, <2>1, <2>3, <2>4 DEF L!Type, L!Room
<1> QED
  BY <1>10, <1>11

(* CtrlU and CtrlH edit the line and nothing else. *)
LEMMA LineEdited ==
  ASSUME KInv, KInv', NEW c, Consoleintr(c), IntrKill \/ IntrErase
  PROVE  L!Kill \/ L!Erase
<1>1. /\ Types /\ Ordered /\ UNCHANGED <<buf, r, w>> /\ r \in Index /\ w \in Index /\ e \in Index
      /\ e' \in Index /\ buf \in Buffers
  BY DEF Consoleintr, IntrKill, IntrErase, KInv, Types, Index, Buffers
<1>2. /\ Between(r, w)' = Between(r, w) /\ Between(w, e) = Part(buf, w, e)
      /\ Between(w, e)' = Part(buf, w, e')
  BY <1>1, Abstract
<1>3. CASE IntrKill
  <2>1. e' = w
    BY <1>3, KillsLine
  <2>2. Part(buf, w, w) \in Seq(Chars) /\ Len(Part(buf, w, w)) = 0
    BY <1>1, PartIsSeq, Distance
  <2>3. Part(buf, w, w) = <<>>
    BY <2>2
  <2> QED
    BY <1>2, <2>1, <2>3 DEF L!Kill
<1>4. CASE IntrErase
  <2>1. Dist(w, e') = Dist(w, e) - 1
    BY <1>1, <1>4, OneLess DEF IntrErase
  <2>2. /\ Part(buf, w, e) # <<>>
        /\ Part(buf, w, e') = SubSeq(Part(buf, w, e), 1, Len(Part(buf, w, e)) - 1)
    BY <1>1, <2>1, PartFront
  <2> QED
    BY <1>2, <2>2 DEF L!Erase
<1> QED
  BY <1>3, <1>4

(* A reader takes the first character of the queue, or leaves a CtrlD. *)
LEMMA TakeTakes ==
  ASSUME KInv, NEW p \in Readers, Take(p)
  PROVE  L!Take \/ UNCHANGED <<Between(r, w), Between(w, e)>>
<1>1. /\ Types /\ Ordered /\ r # w /\ UNCHANGED <<buf, w, e>> /\ r \in Index /\ w \in Index
      /\ buf \in Buffers /\ (r' = r \/ r' = (r + 1) % UINTMOD)
  BY DEF Take, AfterEof, KInv, Types, Index, Buffers
<1>2. /\ Between(w, e)' = Between(w, e) /\ Between(r, w) = Part(buf, r, w)
      /\ Between(r, w)' = Part(buf, r', w)
  BY <1>1, Abstract
<1>3. CASE r' = r
  BY <1>2, <1>3
<1>4. CASE r' = (r + 1) % UINTMOD
  <2>1. r' \in Index /\ Dist(r', w) = Dist(r, w) - 1
    BY <1>1, <1>4, OneTaken
  <2>3. r + 1 = r' \/ r + 1 = r' + UINTMOD
    <3>1. r' = IF r + 1 = UINTMOD THEN 0 ELSE r + 1
      BY <1>1, <1>4, Indices, Zenon
    <3> QED
      BY <1>1, <3>1, Indices DEF Index
  <2>2. Part(buf, r, w) # <<>> /\ Part(buf, r', w) = Tail(Part(buf, r, w))
    BY <1>1, <2>1, <2>3, PartTail
  <2> QED
    BY <1>2, <2>2 DEF L!Take
<1> QED
  BY <1>1, <1>3, <1>4

(* Console input implements LineInput: what is typed is edited in a line   *)
(* of its own, complete lines are read in order and once, and CtrlD is     *)
(* used up only by a read that has got nothing.                            *)
THEOREM InputImplementsLines == Spec => InputIsLines
<1>1. ASSUME Init PROVE L!Init
  <2>1. r \in Index /\ buf \in Buffers /\ w = r /\ e = r
    BY <1>1, Initially DEF Init, KInv, Types, Index, Buffers
  <2>2. Part(buf, r, r) \in Seq(Chars) /\ Len(Part(buf, r, r)) = 0
    BY <2>1, PartIsSeq, Distance
  <2>3. Part(buf, r, r) = <<>>
    BY <2>2
  <2> QED
    BY <2>1, <2>3, Abstract DEF L!Init
<1>2. ASSUME KInv, [Next]_vars
      PROVE  [L!Next]_<<Between(r, w), Between(w, e)>>
  <2>1. ASSUME NEW c \in Chars \cup {CtrlU, CtrlH}, Consoleintr(c) PROVE L!Next
    <3>1. KInv'
      BY <1>2, <2>1, TypedInv
    <3>2. CASE IntrKill \/ IntrErase
      BY <1>2, <2>1, <3>1, <3>2, LineEdited, Zenon DEF L!Next
    <3>3. CASE c \in Chars /\ IntrChar(c)
      BY <1>2, <2>1, <3>3, CharTypes, Zenon DEF L!Next
    <3> QED
      BY <2>1, <3>2, <3>3, Zenon DEF Consoleintr
  <2>2. ASSUME NEW p \in Readers, Take(p)
        PROVE  L!Next \/ UNCHANGED <<Between(r, w), Between(w, e)>>
    BY <1>2, <2>2, TakeTakes, Zenon DEF L!Next
  <2>3. ASSUME NEW p \in Readers,
               Read(p) \/ Acquire(p) \/ Empty(p) \/ Sleep(p) \/ KillReader(p) \/ Replace(p)
        PROVE  UNCHANGED <<Between(r, w), Between(w, e)>>
    <3>1. UNCHANGED <<buf, r, w, e>>
      BY <2>3 DEF Read, Acquire, Empty, Sleep, KillReader, Replace
    <3> QED
      BY <3>1, Abstract
  <2>4. ASSUME UNCHANGED vars PROVE UNCHANGED <<Between(r, w), Between(w, e)>>
    BY <2>4, Abstract DEF vars
  <2> QED
    BY <1>2, <2>1, <2>2, <2>3, <2>4, Zenon DEF Next
<1>3. ASSUME KInv, [Next]_vars
      PROVE  [\A p \in Readers : lock = p /\ r' # r /\ buf[Slot(r)] = CtrlD => ~got[p]]_vars
  <2>1. ASSUME NEW p \in Readers, lock = p, r' # r, buf[Slot(r)] = CtrlD, Next PROVE ~got[p]
    <3>1. PICK q \in Readers : Take(q)
      BY <2>1 DEF Next, Consoleintr, Read, Acquire, Empty, Sleep, KillReader, Replace
    <3>2. q = p
      BY <1>3, <2>1, <3>1 DEF Take, KInv, Reading
    <3> QED
      BY <2>1, <3>1, <3>2 DEF Take, AfterEof
  <2> QED
    BY <1>3, <2>1
<1>4. /\ Init => L!Init
      /\ KInv /\ [Next]_vars => [L!Next]_<<Between(r, w), Between(w, e)>>
      /\ KInv /\ [Next]_vars
           => [\A p \in Readers : lock = p /\ r' # r /\ buf[Slot(r)] = CtrlD => ~got[p]]_vars
  BY <1>1, <1>2, <1>3
<1> QED
  BY <1>4, ConsoleInv, PTL DEF Spec, InputIsLines, ImplementsLineInput, L!Spec, EofIsZeroRead
=============================================================================
