------------------------------ MODULE LineInput ------------------------------
(***************************************************************************)
(* What the console promises its readers: typed characters are edited in a *)
(* line of their own; a complete line joins the queue that readers take    *)
(* from, from the front, and can not be edited any more.  Console          *)
(* implements this.                                                        *)
(***************************************************************************)
EXTENDS Integers, Sequences

CONSTANTS Chars,  \* what can be typed into a line, CtrlD and Newline included
          Newline, CtrlD,
          SIZE    \* characters there is room for

VARIABLES queue,  \* complete lines, not read yet
          line    \* the line being edited

Room == Len(queue) + Len(line) < SIZE

Type(c) ==
  /\ Room
  /\ IF c \in {Newline, CtrlD} \/ Len(queue) + Len(line) + 1 = SIZE
     THEN queue' = queue \o Append(line, c) /\ line' = <<>>
     ELSE line' = Append(line, c) /\ UNCHANGED queue

Erase ==
  /\ line # <<>>
  /\ line' = SubSeq(line, 1, Len(line) - 1)
  /\ UNCHANGED queue

Kill == line' = <<>> /\ UNCHANGED queue

(* A reader takes a character, for itself or to find that it is CtrlD.     *)
Take ==
  /\ queue # <<>>
  /\ queue' = Tail(queue)
  /\ UNCHANGED line

Init == queue = <<>> /\ line = <<>>
Next == (\E c \in Chars : Type(c)) \/ Erase \/ Kill \/ Take

Spec == Init /\ [][Next]_<<queue, line>>

=============================================================================
