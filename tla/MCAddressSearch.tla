-------------------------- MODULE MCAddressSearch ---------------------------
(* Instance of AddressSearch for TLC. *)
EXTENDS AddressSearch

CONSTANTS a, b

MCQueries == {a, b}

MCElsewhere == {<<>>, <<a>>, <<b, a>>}

\* One query has two suggestions, the other one.
MCFound == [q \in MCQueries |-> IF q = a THEN 2 ELSE 1]
=============================================================================
