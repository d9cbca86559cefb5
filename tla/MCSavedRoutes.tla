--------------------------- MODULE MCSavedRoutes ----------------------------
(* Instance of SavedRoutes for TLC. *)
EXTENDS SavedRoutes

MCIds == 1..2

\* A route without charging stops, the same points on a longer line with two
\* stops, and other points.
Short == [points |-> "here", line |-> "short", stops |-> "none"]
Long == [points |-> "here", line |-> "long", stops |-> "two"]
Far == [points |-> "there", line |-> "far", stops |-> "none"]

MCContents == {Short, Long, Far}
MCNewContents == {Long}

\* One route saved earlier.
MCStock == {[i \in MCIds |-> IF i = 1 THEN Row(Short, FALSE, 0) ELSE Absent]}
=============================================================================
