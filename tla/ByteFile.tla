------------------------------ MODULE ByteFile ------------------------------
(***************************************************************************)
(* What a ramdisk promises: one file of bytes that several processes read  *)
(* and write, each at a position of its own.                               *)
(***************************************************************************)
EXTENDS Integers, Sequences

CONSTANTS Byte, Proc

VARIABLES file,  \* the bytes of the file
          pos,   \* where each process reads and writes next, from zero
          got,   \* what the last read of each process has got so far
          left   \* what the current write of each process has still to write

FileInit ==
  /\ file = <<>>
  /\ pos = [p \in Proc |-> 0]
  /\ got = [p \in Proc |-> <<>>]
  /\ left = [p \in Proc |-> <<>>]

\* A call begins or ends, or moves the position: the file is left alone.
Place(p) ==
  /\ pos'[p] \in Nat /\ pos' = [pos EXCEPT ![p] = pos'[p]]
  /\ got' \in {got, [got EXCEPT ![p] = <<>>]}
  /\ left' = [left EXCEPT ![p] = left'[p]]
  /\ UNCHANGED file

\* A part of a read: the bytes at the position, in order.
Read(p) ==
  /\ \E n \in 1..(Len(file) - pos[p]) :
       /\ got' = [got EXCEPT ![p] = @ \o SubSeq(file, pos[p] + 1, pos[p] + n)]
       /\ pos' = [pos EXCEPT ![p] = @ + n]
  /\ UNCHANGED <<file, left>>

\* A part of a write, of n bytes: those from the position on are replaced, all
\* others stay.  A position beyond the end makes a hole, which may hold anything.
Write(p) ==
  /\ \E n \in 0..Len(left[p]) :
       LET end == pos[p] + n
       IN  /\ Len(file') = IF end > Len(file) THEN end ELSE Len(file)
           /\ \A i \in DOMAIN file' :
                file'[i] = IF i \in (pos[p] + 1)..end THEN left[p][i - pos[p]]
                           ELSE IF i <= Len(file) THEN file[i]
                           ELSE file'[i]
           /\ pos' = [pos EXCEPT ![p] = end]
           /\ left' = [left EXCEPT ![p] = SubSeq(@, n + 1, Len(@))]
  /\ UNCHANGED got

\* A store through a mapping.
Store ==
  /\ \E i \in DOMAIN file, b \in Byte : file' = [file EXCEPT ![i] = b]
  /\ UNCHANGED <<pos, got, left>>

\* Opened for writing only, the file is emptied.
Truncate(p) ==
  /\ file' = <<>>
  /\ pos' = [pos EXCEPT ![p] = 0]
  /\ UNCHANGED <<got, left>>

FileNext == Store \/ \E p \in Proc : Place(p) \/ Read(p) \/ Write(p) \/ Truncate(p)

FileSpec == FileInit /\ [][FileNext]_<<file, pos, got, left>>
=============================================================================
