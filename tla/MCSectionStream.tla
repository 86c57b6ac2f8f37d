--------------------------- MODULE MCSectionStream ---------------------------
(* Two clients in a world of two sections, the join block being the *)
(* first.                                                                      *)
EXTENDS SectionStream

MCSpawnBlock == {0}
=============================================================================
