------------------------------ MODULE Console -------------------------------
(***************************************************************************)
(* Console input: consoleread() and consoleintr() of kernel/console.c,     *)
(* with readers that can be killed.                                        *)
(*                                                                         *)
(* Both run under cons.lock.  consoleintr() is one action; consoleread()   *)
(* keeps the lock from character to character and gives it up only in      *)
(* sleep().  Its test of p->killed and sleep() are two steps, since kill() *)
(* does not take cons.lock.  The echo is in Uart.                          *)
(*                                                                         *)
(* A definition X_Y is a faulty variant of X; no specification uses it.    *)
(***************************************************************************)
EXTENDS Integers, Sequences, FiniteSets, FiniteSetsExt

CONSTANTS Readers,    \* processes that read the console
          Letters,    \* ordinary characters
          Newline, CtrlD, CtrlU, CtrlH,
          INPUT_BUF,  \* size of cons.buf
          UINTMOD,    \* indices are kept modulo UINTMOD (2^32)
          MAXN,       \* bound: most characters a read asks for
          None        \* no value

ASSUME ConsoleAssumption ==
  /\ INPUT_BUF \in Nat \ {0} /\ UINTMOD \in Nat
  /\ UINTMOD % INPUT_BUF = 0 /\ UINTMOD > INPUT_BUF
  /\ MAXN \in Nat \ {0} /\ None \notin Readers
  /\ Cardinality({Newline, CtrlD, CtrlU, CtrlH} \cup Letters) = 4 + Cardinality(Letters)

VARIABLES
  buf, r, w, e,  \* cons
  lock,          \* the reader that holds cons.lock, or None
  pc,            \* [Readers -> where it is in consoleread()]
  n, got,        \* [Readers -> its n, and whether it has got any character]
  asleep,        \* the readers asleep on &cons.r
  killed,        \* [Readers -> BOOLEAN], p->killed
  missed         \* history: the readers whose kill() came between test and sleep

vars == <<buf, r, w, e, lock, pc, n, got, asleep, killed, missed>>

Chars == Letters \cup {Newline, CtrlD}
Slot(i) == i % INPUT_BUF
Dist(i, j) == (j - i) % UINTMOD       \* j - i in a uint
Goto(p, lab) == pc' = [pc EXCEPT ![p] = lab]

Init ==
  /\ buf = [i \in 0..INPUT_BUF - 1 |-> Newline] /\ r = 0 /\ w = 0 /\ e = 0 /\ lock = None
  /\ pc = [p \in Readers |-> "user"]
  /\ n = [p \in Readers |-> 0] /\ got = [p \in Readers |-> FALSE]
  /\ asleep = {} /\ killed = [p \in Readers |-> FALSE] /\ missed = {}

-----------------------------------------------------------------------------

IntrChar_Late(c) ==
  /\ Dist(r, e) < INPUT_BUF
  /\ buf' = [buf EXCEPT ![Slot(e)] = c]
  /\ e' = (e + 1) % UINTMOD
  /\ IF c \in {Newline, CtrlD} \/ Dist(r, e) + 1 = INPUT_BUF
     THEN w' = e /\ asleep' = {} ELSE UNCHANGED <<w, asleep>>

IntrChar_FullSilent(c) ==
  /\ Dist(r, e) < INPUT_BUF
  /\ buf' = [buf EXCEPT ![Slot(e)] = c]
  /\ e' = (e + 1) % UINTMOD
  /\ w' = IF c \in {Newline, CtrlD} \/ Dist(r, e) + 1 = INPUT_BUF THEN e' ELSE w
  /\ asleep' = IF c \in {Newline, CtrlD} THEN {} ELSE asleep

(* consoleintr(), the default case: no room, or the character is stored,   *)
(* and made visible to the readers at the end of a line, at CtrlD and when *)
(* the buffer is full.                                                     *)
IntrChar(c) ==
  /\ Dist(r, e) < INPUT_BUF
  /\ buf' = [buf EXCEPT ![Slot(e)] = c]
  /\ e' = (e + 1) % UINTMOD
  /\ IF c \in {Newline, CtrlD} \/ Dist(r, e) + 1 = INPUT_BUF
     THEN w' = e' /\ asleep' = {} ELSE UNCHANGED <<w, asleep>>

(* CtrlU: e goes back to w, or to a newline before that.                   *)
IntrKill ==
  /\ e' = LET stop == {d \in 0..Dist(w, e) :
                         d = Dist(w, e) \/ buf[Slot(e - d - 1)] = Newline}
          IN (e - Min(stop)) % UINTMOD
  /\ UNCHANGED <<buf, w, asleep>>

(* CtrlH.                                                                  *)
IntrErase ==
  /\ e # w
  /\ e' = (e - 1) % UINTMOD
  /\ UNCHANGED <<buf, w, asleep>>

Consoleintr(c) ==
  /\ lock = None
  /\ \/ c = CtrlU /\ IntrKill
     \/ c = CtrlH /\ IntrErase
     \/ c \in Chars /\ IntrChar(c)
  /\ UNCHANGED <<r, lock, pc, n, got, killed, missed>>

-----------------------------------------------------------------------------
(* A process calls consoleread().                                          *)
Read(p) ==
  /\ pc[p] = "user" /\ ~killed[p]
  /\ \E k \in 1..MAXN : n' = [n EXCEPT ![p] = k]
  /\ Goto(p, "acquire")
  /\ UNCHANGED <<buf, r, w, e, lock, got, asleep, killed, missed>>

(* It takes the lock, at first or when sleep() is over.                    *)
Acquire(p) ==
  /\ pc[p] = "acquire" /\ p \notin asleep /\ lock = None
  /\ lock' = p
  /\ Goto(p, "loop")
  /\ UNCHANGED <<buf, r, w, e, n, got, asleep, killed, missed>>

(* consoleread() returns; the caller has what it got.                      *)
Return(p) ==
  /\ Goto(p, "user") /\ lock' = None
  /\ n' = [n EXCEPT ![p] = 0] /\ got' = [got EXCEPT ![p] = FALSE]

(* Nothing to read: a killed reader leaves, with -1; any other goes to     *)
(* sleep ...                                                               *)
Empty(p) ==
  /\ pc[p] = "loop" /\ r = w
  /\ IF killed[p] THEN Return(p) ELSE Goto(p, "sleep") /\ UNCHANGED <<lock, n, got>>
  /\ UNCHANGED <<buf, r, w, e, asleep, killed, missed>>

(* ... and sleeps.                                                         *)
Sleep(p) ==
  /\ pc[p] = "sleep"
  /\ asleep' = asleep \cup {p}
  /\ lock' = None
  /\ Goto(p, "acquire")
  /\ UNCHANGED <<buf, r, w, e, n, got, killed, missed>>

(* Where r is after a CtrlD: it stays for the next read if there were      *)
(* characters before it.                                                   *)
AfterEof(p) == IF got[p] THEN r ELSE (r + 1) % UINTMOD

(* A character is taken.  CtrlD ends the read; a newline ends it too,      *)
(* and so does a failing copy.                                             *)
Take(p) ==
  LET c == buf[Slot(r)]
      c_last == c = Newline \/ n[p] = 1 IN
  /\ pc[p] = "loop" /\ r # w
  /\ \/ /\ c = CtrlD
        /\ r' = AfterEof(p)
        /\ Return(p)
     \/ /\ c # CtrlD
        /\ r' = (r + 1) % UINTMOD
        /\ Return(p)
     \/ /\ c # CtrlD /\ ~c_last
        /\ r' = (r + 1) % UINTMOD
        /\ got' = [got EXCEPT ![p] = TRUE] /\ n' = [n EXCEPT ![p] = @ - 1]
        /\ UNCHANGED <<pc, lock>>
  /\ UNCHANGED <<buf, w, e, asleep, killed, missed>>

(* kill(): a sleeping process is made runnable.                            *)
KillReader(p) ==
  /\ ~killed[p]
  /\ killed' = [killed EXCEPT ![p] = TRUE]
  /\ asleep' = asleep \ {p}
  /\ missed' = IF pc[p] = "sleep" THEN missed \cup {p} ELSE missed
  /\ UNCHANGED <<buf, r, w, e, lock, pc, n, got>>

(* A killed process exits when it is back in user space, and another takes *)
(* its place.                                                              *)
Replace(p) ==
  /\ killed[p] /\ pc[p] = "user"
  /\ killed' = [killed EXCEPT ![p] = FALSE]
  /\ missed' = missed \ {p}
  /\ UNCHANGED <<buf, r, w, e, lock, pc, n, got, asleep>>

Next ==
  \/ \E c \in Chars \cup {CtrlU, CtrlH} : Consoleintr(c)
  \/ \E p \in Readers : Read(p) \/ Acquire(p) \/ Empty(p) \/ Sleep(p) \/ Take(p)
  \/ \E p \in Readers : KillReader(p) \/ Replace(p)

Spec == Init /\ [][Next]_vars

-----------------------------------------------------------------------------
TypeOK ==
  /\ {r, w, e} \subseteq 0..UINTMOD - 1
  /\ Dist(r, w) <= Dist(r, e) /\ Dist(r, e) <= INPUT_BUF
  /\ lock \in Readers \cup {None} /\ asleep \subseteq Readers
  /\ \A p \in Readers : n[p] \in 0..MAXN

(* The indices r <= w <= e delimit the lines ready to be read and the line *)
(* being edited, also when they wrap; nothing typed is lost, reordered or  *)
(* edited after its line was complete.                                     *)
Between(i, j) == [k \in 1..Dist(i, j) |-> buf[Slot(i + k - 1)]]
L == INSTANCE LineInput WITH SIZE <- INPUT_BUF, queue <- Between(r, w), line <- Between(w, e)
ImplementsLineInput == L!Spec

(* A reader sleeps only while there is nothing to read.                    *)
NoLostWakeup == asleep # {} => r = w

(* End of file is a read of length zero: a CtrlD is used up only by a read *)
(* that has got nothing.                                                   *)
EofIsZeroRead ==
  [][\A p \in Readers : lock = p /\ r' # r /\ buf[Slot(r)] = CtrlD => ~got[p]]_vars

(* A killed reader sleeps on only if kill() found it between the test of   *)
(* p->killed and sleep(), the window consoleread() leaves open.            *)
KilledSleepsOnlyIfMissed == \A p \in Readers : killed[p] /\ p \in asleep => p \in missed

(* A reader sleeps only while there is nothing to read, and a killed one   *)
(* only if kill() came inside that window.                                 *)
ReadersWake == TypeOK /\ NoLostWakeup /\ KilledSleepsOnlyIfMissed

(* The input is a line discipline: lines come out as they were edited, and *)
(* CtrlD ends one read and no more.                                        *)
InputIsLines == ImplementsLineInput /\ EofIsZeroRead
=============================================================================
