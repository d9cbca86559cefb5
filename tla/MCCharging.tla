----------------------------- MODULE MCCharging -----------------------------
(* Instance of Charging for TLC. *)
EXTENDS Charging, TLC

\* There and back past the same stations, where the cap is met; a trip whose reserve
\* spares the last recharge, with a point where the other is due; one that needs none;
\* and settings that are refused.
There == [length |-> 19, turn |-> 9, interval |-> 6, autonomy |-> 6, waypoints |-> <<0, 19>>]
Loose == [length |-> 16, turn |-> 16, interval |-> 6, autonomy |-> 10, waypoints |-> <<0, 6, 16>>]
Short == [length |-> 6, turn |-> 6, interval |-> 6, autonomy |-> 6, waypoints |-> <<0, 6>>]
Wrong == [length |-> 12, turn |-> 12, interval |-> 6, autonomy |-> 4, waypoints |-> <<0, 12>>]

MCTrips == {There, Loose, Short, Wrong}

\* A degree shorter than it is taken for: each box ends one unit short of its radius.
MCBoxSpan == (6 :> 5) @@ (12 :> 11)

\* One station near, one on the edge of the wider box, and one between its end and its
\* radius; or three in one cell, the nearest of them past the budget of pages.
MCStations == 1..5
MCPosition == <<4, 17, -12, 16, 15>>
MCSources == {{1, 2, 3}, {2, 4, 5}}
=============================================================================
