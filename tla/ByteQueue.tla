----------------------------- MODULE ByteQueue -----------------------------
(***************************************************************************)
(* What a pipe promises about its bytes: a bounded queue.  A byte taken    *)
(* out reaches the reader (last) or is lost with a bad address.            *)
(***************************************************************************)
EXTENDS Naturals, Sequences

CONSTANTS Bytes, SIZE

VARIABLES queue,  \* bytes written and not yet read
          last    \* the byte taken out last, <<>> at first

absvars == <<queue, last>>

Init == queue = <<>> /\ last = <<>>

Enqueue(b) ==
  /\ Len(queue) < SIZE
  /\ queue' = Append(queue, b)
  /\ UNCHANGED last

Dequeue ==
  /\ queue # <<>>
  /\ last' = <<Head(queue)>>
  /\ queue' = Tail(queue)

Next == Dequeue \/ \E b \in Bytes : Enqueue(b)

Spec == Init /\ [][Next]_absvars
=============================================================================
