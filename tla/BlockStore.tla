----------------------------- MODULE BlockStore -----------------------------
(***************************************************************************)
(* What the buffer cache of kernel/bio.c promises to its callers, with no  *)
(* buffers in it: every disk block can be held by one user at a time, its  *)
(* holder sees the contents its last holder left, and bwrite() makes these *)
(* contents the disk's.  What is pinned is kept; of another block the      *)
(* store may forget what was not written, once nobody holds it.            *)
(***************************************************************************)
CONSTANTS Users, Blocks, Values, InitVal, NoProc

VARIABLES owner,    \* [Blocks -> Users or NoProc], who is using the block
          view,     \* [Blocks -> Values], its current contents
          home,     \* [Blocks -> Values], its contents on disk
          kept      \* the blocks that are pinned

absvars == <<owner, view, home, kept>>

Init ==
  /\ owner = [n \in Blocks |-> NoProc]
  /\ view = [n \in Blocks |-> InitVal]
  /\ home = view
  /\ kept = {}

Held(n) == owner[n] # NoProc

Get(n) ==
  /\ ~Held(n)
  /\ \E u \in Users : owner' = [owner EXCEPT ![n] = u]
  /\ UNCHANGED <<view, home, kept>>

(* The rest is done by the user that holds the block, but for Forget. *)
Change(n) ==
  /\ Held(n)
  /\ \E v \in Values : view' = [view EXCEPT ![n] = v]
  /\ UNCHANGED <<owner, home, kept>>

(* bpin() *)
Pin(n) ==
  /\ Held(n)
  /\ kept' = kept \cup {n}
  /\ UNCHANGED <<owner, view, home>>

(* bwrite(), after which the block may be unpinned. *)
Flush(n) ==
  /\ Held(n)
  /\ home' = [home EXCEPT ![n] = view[n]]
  /\ kept' \in {kept, kept \ {n}}
  /\ UNCHANGED <<owner, view>>

Put(n) ==
  /\ Held(n)
  /\ owner' = [owner EXCEPT ![n] = NoProc]
  /\ UNCHANGED <<view, home, kept>>

Forget(n) ==
  /\ ~Held(n)
  /\ n \notin kept
  /\ view' = [view EXCEPT ![n] = home[n]]
  /\ UNCHANGED <<owner, home, kept>>

Next == \E n \in Blocks : Get(n) \/ Change(n) \/ Pin(n) \/ Flush(n) \/ Put(n) \/ Forget(n)

Spec == Init /\ [][Next]_absvars
=============================================================================
