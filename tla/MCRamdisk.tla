------------------------------ MODULE MCRamdisk ------------------------------
(* A writer and a reader on a disk of two pages of two bytes: buffers that  *)
(* fill a part of a page, cross a page end, and are empty.                  *)
EXTENDS Ramdisk

CONSTANTS w, r

MCProcs == {w, r}
MCWriters == {w}
MCData == {<<>>, <<1, 2, 1>>}
MCMoves == {-1, 1}

\* The condition under which the ramdisk is proved to be a file.
ASSUME OneWriterAssumption == OneWriter
=============================================================================
