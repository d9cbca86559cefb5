--------------------------- MODULE MCDraftAutosave --------------------------
(* Two contents, two routes, two saved routes and a loop: enough for a      *)
(* draft to be about something else than the screen in each of its parts.   *)
EXTENDS DraftAutosave, TLC

CONSTANTS u0, u1, u2, r0, r1, r2, e0, e1, e2, l0, l1, none

MCUsers == {u0, u1, u2}
MCEmptyUsers == {u0}
MCRoutes == {r0, r1, r2}
MCEditingIds == {e0, e1, e2}
MCLoops == {l0, l1}
AllWrites == {"whole", "withoutRoute", "refused"}

Symmetry ==
  Permutations({u1, u2}) \cup Permutations({r1, r2}) \cup Permutations({e1, e2})

=============================================================================
