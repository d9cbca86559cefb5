---------------------------- MODULE MCRouteEditor ---------------------------
(***************************************************************************)
(* Instances of RouteEditor.  Points: none and two pairs, enough for a     *)
(* route of the wrong points.  At most one row is saved when the page is   *)
(* opened.                                                                 *)
(***************************************************************************)
EXTENDS RouteEditor, TLC

CONSTANTS none, noRoute, noRow, notServed, noDraft

TwoPointLists == {"none", "ab", "cd"}
TwoNumPoints == [none |-> 0, ab |-> 2, cd |-> 2]

Plain == [zone |-> FALSE, limit |-> "default", ev |-> FALSE]
Avoiding == [Plain EXCEPT !.zone = TRUE]

PlainOnly == {Plain}
Zones == {Plain, Avoiding}

MCRouteIds == 1..2

Row(p, o) ==
  [points |-> p, options |-> o,
   route |-> [points |-> p, options |-> o, kind |-> "loaded"]]

OneRow == [i \in MCRouteIds |-> IF i = 1 THEN Row("ab", Plain) ELSE NoRow]
NoRows == [i \in MCRouteIds |-> NoRow]

AllWrites == {"whole", "withoutRoute", "refused"}
WholeWrites == {"whole"}

Spent == [b \in Bounded |-> 0]

\* Computations, alternatives, imports and openings in each other's way.
AnswersBudget ==
  [Spent EXCEPT !["edits"] = 1, !["opens"] = 2, !["picks"] = 1,
                !["imports"] = 1]

\* Saving, deleting and losing the page at any moment.
ReloadBudget ==
  [Spent EXCEPT !["edits"] = 1, !["opens"] = 1, !["saves"] = 1,
                !["deletes"] = 1, !["loops"] = 1, !["reloads"] = 1]

\* The shortest history of a save during a computation.
SaveBudget == [Spent EXCEPT !["edits"] = 2, !["saves"] = 1]

=============================================================================
