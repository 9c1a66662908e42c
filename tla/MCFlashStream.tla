--------------------------- MODULE MCFlashStream ---------------------------
(* Instances of FlashStream for TLC. *)
EXTENDS FlashStream

\* Three sectors with a short last one, one full sector, one sector too many
\* for the flash, and an empty file.
MCGeometries ==
  {[ns |-> 3, last |-> 1], [ns |-> 1, last |-> 2], [ns |-> 4, last |-> 1],
   [ns |-> 0, last |-> 0]}

\* One full sector.
MCOneSector == {[ns |-> 1, last |-> 2]}

\* One and two sectors of three pages.
MCTwoSectors == {[ns |-> 1, last |-> 3], [ns |-> 2, last |-> 3]}
=============================================================================
