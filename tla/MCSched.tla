------------------------------- MODULE MCSched ------------------------------
(***************************************************************************)
(* The scheduler, and a pipe.  The two share no variable, so a behaviour   *)
(* runs one of them.                                                       *)
(***************************************************************************)
EXTENDS Sched, TLC

CONSTANTS Writers, Readers, Bytes, PIPESIZE, UINTMOD, MAXBYTES, Victims, Nobody

VARIABLES
  part,  \* the part that runs
  data, nread, nwrite, open, freed, pilock, at, todo, i, victims, last

pipeVars == <<data, nread, nwrite, open, freed, pilock, at, todo, i, victims, last>>

P == INSTANCE Pipe WITH MAXN <- MAXBYTES, lock <- pilock, pc <- at, n <- todo, killed <- victims

ASSUME PipeAssumption == P!PipeConstants

(* The processes of one end of the pipe are interchangeable. *)
Sym == Permutations(Writers)

(* A pipe that does not run has one initial state, and one that is freed   *)
(* is left alone.                                                          *)
MCInit ==
  /\ part \in {"sched", "pipe"}
  /\ Init /\ P!Init
  /\ part # "pipe" => data[0] = 0

MCNext ==
  \/ part = "sched" /\ Next /\ UNCHANGED <<part, pipeVars>>
  \/ part = "pipe" /\ P!Next /\ UNCHANGED <<part, vars>>
  \/ part = "pipe" /\ freed /\ UNCHANGED <<part, vars, pipeVars>>

MCSpec == MCInit /\ [][MCNext]_<<part, vars, pipeVars>>

(* The pipe is freed with its last descriptor and never used after.        *)
FreedWhenUnused == P!FreedWhenUnused

(* A process sleeps on the pipe only while it has to, but for what killed  *)
(* writers leave, and the two ends never wait for each other.              *)
WaitsExact == P!WaitsExact

(* The pipe's ring is a bounded queue of bytes. *)
IsQueue == P!IsQueue

=============================================================================
