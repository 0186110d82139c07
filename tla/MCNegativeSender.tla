------------------------ MODULE MCNegativeSender ------------------------
(* The instance of MCUpdateTransfer, with the frames of the negative cases *)
(* among the headers.                                                      *)
EXTENDS NegativeSender

MCData == SUBSET {0, 1}
MCWord(cell) == 3 - SumSet({2 ^ b : b \in cell})
CheckSum(cells) == FoldSeq(LAMBDA cell, sum : sum + MCWord(cell), 0, cells)
MCCrc16(data) == CheckSum(data) % 2
MCCrc32(cells) == CheckSum(cells) % 4
MCInitialFlash == {[a \in 0 .. 3 |-> {0}]}
MCPartitions == {[offset |-> 0, size |-> 4], [offset |-> 0, size |-> 3]}

(* image_size and crc32 of the descriptor, for an image of two cells.      *)
Cell4(n) == CHOOSE d \in MCData : MCWord(d) = n
ImageOf(a, b) == <<a, b, Cell4(2), Cell4((MCWord(a) + MCWord(b)) % 4)>>

(* An ESP image starts with 16#E9: bit 0, which tampering flips, is set,   *)
(* that is, not programmed.                                                *)
MCImages == {ImageOf({1}, {0})}

MCFill == {0, 1}

(* The scripts send some of these.                                         *)
MCHeaders == {[len |-> l, off |-> o, crc |-> c] : l \in 1 .. 3, o \in 0 .. 4, c \in {0, 1}}
=============================================================================
