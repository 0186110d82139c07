----------------------------- MODULE MCBoot -----------------------------
(* One-cell sectors; a cell has two bits.                                  *)
EXTENDS BootLive, FiniteSetsExt

MCData == {{0}, {1}}
MCWord(cell) == 3 - SumSet({2 ^ b : b \in cell})
MCCrc32(cells) == IF Len(cells) = 1 THEN MCWord(cells[1]) ELSE 0

(* A neighbour, one cell of image, the descriptor, another neighbour; a    *)
(* partition too small for a descriptor; and no factory partition at all.  *)
MCPartitions == {[offset |-> 1, size |-> 3], [offset |-> 1, size |-> 1],
                 [offset |-> 0, size |-> 0]}

(* A blank chip, and one whose image is valid.                             *)
MCInitialFlash == {[a \in 0 .. 4 |-> {}], [a \in 0 .. 4 |-> {1}]}
=============================================================================
