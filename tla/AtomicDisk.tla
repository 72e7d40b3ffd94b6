----------------------------- MODULE AtomicDisk -----------------------------
(***************************************************************************)
(* What the logging layer of kernel/log.c promises to the file system: a   *)
(* disk whose durable contents change only at commits, each of which makes *)
(* durable, in one step, every block the completed FS system calls have    *)
(* given to log_write().  A crash brings back the contents of the last     *)
(* commit, whole.  A block changed without log_write() is seen by the      *)
(* other calls until it is forgotten, at any time.                         *)
(***************************************************************************)
CONSTANTS Procs,    \* processes that make FS system calls
          Blocks,   \* home blocks of the file system
          Values,   \* contents a block can have
          InitVal   \* contents of every block in a fresh file system

VARIABLES stable,   \* contents that a crash now would leave
          vol,      \* contents the FS system calls see
          active,   \* processes between begin_op() and end_op()
          logged    \* blocks the next commit makes durable

absvars == <<stable, vol, active, logged>>

Init ==
  /\ stable = [b \in Blocks |-> InitVal]
  /\ vol = stable
  /\ active = {}
  /\ logged = {}

Begin(p) ==
  /\ active' = active \cup {p}
  /\ UNCHANGED <<stable, vol, logged>>

Write(p, b, v) ==
  /\ p \in active
  /\ vol' = [vol EXCEPT ![b] = v]
  /\ UNCHANGED <<stable, active, logged>>

(* log_write() *)
Log(p, b) ==
  /\ p \in active
  /\ logged' = logged \cup {b}
  /\ UNCHANGED <<stable, vol, active>>

End(p) ==
  /\ active' = active \ {p}
  /\ UNCHANGED <<stable, vol, logged>>

(* No FS system call is ever half durable: commits wait for all of them. *)
Commit ==
  /\ active = {}
  /\ stable' = [b \in Blocks |-> IF b \in logged THEN vol[b] ELSE stable[b]]
  /\ logged' = {}
  /\ UNCHANGED <<vol, active>>

(* The cache drops a block that no log_write() holds there. *)
Forget(b) ==
  /\ b \notin logged
  /\ vol' = [vol EXCEPT ![b] = stable[b]]
  /\ UNCHANGED <<stable, active, logged>>

Crash ==
  /\ vol' = stable
  /\ active' = {}
  /\ logged' = {}
  /\ UNCHANGED stable

Next ==
  \/ \E p \in Procs : Begin(p) \/ End(p)
  \/ \E p \in Procs, b \in Blocks : Log(p, b) \/ \E v \in Values : Write(p, b, v)
  \/ \E b \in Blocks : Forget(b)
  \/ Commit
  \/ Crash

Spec == Init /\ [][Next]_absvars
=============================================================================
