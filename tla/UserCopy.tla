------------------------------ MODULE UserCopy ------------------------------
(***************************************************************************)
(* How the kernel moves bytes across a page table: copyin(), copyout() and *)
(* copyinstr() of kernel/vm.c, fetchaddr() and fetchstr() of               *)
(* kernel/syscall.c, and the numbers that printint() of kernel/printf.c    *)
(* and user/printf.c writes.                                               *)
(*                                                                         *)
(* A page table pt maps the pages that walkaddr() accepts to frames;       *)
(* mem[f] is the content of frame f, a function on 0..PGSIZE-1.  Addresses *)
(* are numbers modulo ADDRMOD, as a uint64 is modulo 2^64.                 *)
(***************************************************************************)
EXTENDS Integers, Sequences, FiniteSets, FiniteSetsExt

CONSTANTS PGSIZE, ADDRMOD, WORD, UINT32

\* walkaddr() of the page of va, and the offset in it.
IsMapped(pt, va) == va \div PGSIZE \in DOMAIN pt
Frame(pt, va) == pt[va \div PGSIZE]
Offset(va) == va % PGSIZE

\* n in the loops: up to the end of the page, or what is left.
Piece(va, len) == IF PGSIZE - Offset(va) < len THEN PGSIZE - Offset(va) ELSE len

NextPage_Unaligned(va) == (va + PGSIZE) % ADDRMOD
NextPage(va) == ((va - Offset(va)) + PGSIZE) % ADDRMOD

\* copyin(): what it returns, and the bytes it has stored.
Copyin(pt, mem, srcva, length) ==
  LET loop[va \in 0..ADDRMOD-1, len \in 0..length] ==
        IF len = 0 THEN [ret |-> 0, bytes |-> <<>>]
        ELSE IF ~IsMapped(pt, va) THEN [ret |-> -1, bytes |-> <<>>]
        ELSE [loop[NextPage(va), len - Piece(va, len)] EXCEPT
                !.bytes = [k \in 1..Piece(va, len) |-> mem[Frame(pt, va)][Offset(va) + k - 1]] \o @]
  IN loop[srcva, length]

\* copyout(): what it returns, and the places it has written, in order.
Copyout(pt, dstva, length) ==
  LET loop[va \in 0..ADDRMOD-1, len \in 0..length] ==
        IF len = 0 THEN [ret |-> 0, places |-> <<>>]
        ELSE IF ~IsMapped(pt, va) THEN [ret |-> -1, places |-> <<>>]
        ELSE [loop[NextPage(va), len - Piece(va, len)] EXCEPT
                !.places = [k \in 1..Piece(va, len) |-> <<Frame(pt, va), Offset(va) + k - 1>>] \o @]
  IN loop[dstva, length]

\* copyinstr(): the same up to a NUL, which it stores, or for max bytes.
Copyinstr(pt, mem, srcva, max) ==
  LET Nul(va, n) == {k \in 0..n-1 : mem[Frame(pt, va)][Offset(va) + k] = 0}
      Bytes(va, n) == [k \in 1..n |-> mem[Frame(pt, va)][Offset(va) + k - 1]]
      loop[va \in 0..ADDRMOD-1, left \in 0..max] ==
        IF left = 0 \/ ~IsMapped(pt, va) THEN [ret |-> -1, bytes |-> <<>>]
        ELSE IF Nul(va, Piece(va, left)) # {}
        THEN [ret |-> 0, bytes |-> Bytes(va, Min(Nul(va, Piece(va, left))) + 1)]
        ELSE [loop[NextPage(va), left - Piece(va, left)] EXCEPT
                !.bytes = Bytes(va, Piece(va, left)) \o @]
  IN loop[srcva, max]

\* fetchstr(): the length without the NUL.
Fetchstr(pt, mem, addr, max) ==
  LET r == Copyinstr(pt, mem, addr, max) IN
  IF r.ret < 0 THEN r.ret ELSE Len(r.bytes) - 1

\* fetchaddr(): one word below the process's size.
Fetchaddr(pt, mem, sz, addr) ==
  IF addr >= sz \/ (addr + WORD) % ADDRMOD > sz THEN -1 ELSE Copyin(pt, mem, addr, WORD).ret

-----------------------------------------------------------------------------
(* printint(): the digits of an int, the sign first. *)

\* -xx of the least int wraps to itself, and read as a uint it is its magnitude.
Magnitude(xx) == (UINT32 + xx) % UINT32

Printint(xx, b, sign) ==
  LET neg == sign /\ xx < 0
      digits[x \in 0..UINT32-1] == IF x < b THEN <<x>> ELSE Append(digits[x \div b], x % b) IN
  [neg |-> neg, digits |-> digits[Magnitude(IF neg THEN -xx ELSE xx)]]

-----------------------------------------------------------------------------
(* What they are meant to do, byte by byte. *)

\* The mapped bytes from va on, up to the first that is not mapped.
Reach(pt, va, n) ==
  Min({k \in 0..n : k = n \/ ~IsMapped(pt, (va + k) % ADDRMOD)})

ByteAt(pt, mem, va) == mem[Frame(pt, va % ADDRMOD)][Offset(va % ADDRMOD)]
=============================================================================
