----------------------------- MODULE UndoTimeline ----------------------------
(***************************************************************************)
(* What undo and redo promise the user: a line of the screens he has had,  *)
(* and a place on it.  A change drops what was after the place and adds    *)
(* its screen at the end; undo and redo move by one and alter no screen.   *)
(* The line remembers at most MaxHistory screens before the present one.   *)
(***************************************************************************)
EXTENDS Integers, Sequences

CONSTANTS
  Screens,              \* What a change may put on screen.
  MaxHistory            \* The number of changes that can be undone.

VARIABLES line, at

timelineVars == <<line, at>>

Init == \E s \in Screens : line = <<s>> /\ at = 1

\* The first screens of the line give way when it is full.
Change(s) ==
  LET first == IF at > MaxHistory THEN at - MaxHistory + 1 ELSE 1
  IN  /\ line' = Append(SubSeq(line, first, at), s)
      /\ at' = Len(line')

Undo == at > 1 /\ at' = at - 1 /\ UNCHANGED line

Redo == at < Len(line) /\ at' = at + 1 /\ UNCHANGED line

\* Another route or a restored draft: nothing before it can be undone.
Restart(s) == line' = <<s>> /\ at' = 1

Next ==
  \/ \E s \in Screens : Change(s) \/ Restart(s)
  \/ Undo
  \/ Redo

Spec == Init /\ [][Next]_timelineVars

=============================================================================
