-------------------------- MODULE MCWaypointHistory --------------------------
(***************************************************************************)
(* Instance of WaypointHistory: two undos, two points, two places.         *)
(***************************************************************************)
EXTENDS WaypointHistory

CONSTANTS here, there, zone

MCPlaces == {here, there}
MCZones == {zone}

\* A draft with the same id twice, and one that mixes ids and their absence.
MCDrafts ==
  { << [id |-> 1, place |-> here], [id |-> 1, place |-> there] >>,
    << [id |-> 0, place |-> here], [id |-> 2, place |-> there] >> }

=============================================================================
