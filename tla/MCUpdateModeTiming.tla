----------------------- MODULE MCUpdateModeTiming -----------------------
(* A driver that demands aligned writes, an old image {0} that is not      *)
(* valid, and frames that can replace it by one that is.                   *)
EXTENDS UpdateModeTiming, SequencesExt

MCData == {{0}, {1}}
MCWord(cell) == 3 - SumSet({2 ^ b : b \in cell})
MCCrc32(cells) == FoldSeq(LAMBDA cell, sum : sum + MCWord(cell), 0, cells) % 4
MCCrc16(data) == MCCrc32(data) % 2
MCInitialFlash == {[a \in 0 .. FlashSize - 1 |-> {0}]}

(* A partition and a sector after it, and the tables the setup refuses.    *)
MCPartitions == {[offset |-> 0, size |-> 4],
                 [offset |-> 0, size |-> 3],
                 [offset |-> 0, size |-> 6]}

(* The two frames of a whole image; an odd offset and one past the end.    *)
MCHeaders == {[len |-> s[1], off |-> s[2], crc |-> 0] :
                  s \in {<<2, 0>>, <<2, 2>>, <<2, 1>>, <<2, 4>>}}
=============================================================================
