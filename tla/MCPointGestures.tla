-------------------------- MODULE MCPointGestures ---------------------------
(* Instance of PointGestures for TLC. *)
EXTENDS PointGestures

\* A loop too dense, which ends where it began, and a track that is not.
MCGenerated == {<<0, 1, 2, 2, 1, 0>>, <<0, 2>>}

MCViaPoints == {<<>>, <<1, 2>>}

MCSaved == {<<0, 2, 1>>, <<1>>}
=============================================================================
