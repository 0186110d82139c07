------------------------ MODULE MCUpdateTransfer ------------------------
(* A partition of two sectors, and one that is no multiple of a sector;    *)
(* images of two cells and a descriptor, sent in a chunk of three cells,   *)
(* across both sectors, and one of one cell.                               *)
EXTENDS UpdateTransfer

MCData == SUBSET {0, 1}
MCWord(cell) == 3 - SumSet({2 ^ b : b \in cell})
CheckSum(cells) == FoldSeq(LAMBDA cell, sum : sum + MCWord(cell), 0, cells)
MCCrc16(data) == CheckSum(data) % 2
MCCrc32(cells) == CheckSum(cells) % 4
MCInitialFlash == {[a \in 0 .. 3 |-> {0}]}
MCPartitions == {[offset |-> 0, size |-> 4], [offset |-> 0, size |-> 3]}

(* image_size and crc32 of the descriptor, for an image of two cells.      *)
Cell4(n) == CHOOSE d \in MCData : MCWord(d) = n
ImageOf(a, b) == <<a, b, Cell4(2), Cell4((MCWord(a) + MCWord(b)) % 4)>>
MCImages == {ImageOf({0}, {1}), ImageOf({}, {0})}
OneImage == {ImageOf({0}, {1})}

HeaderFrom(i, o) ==
    LET data == SubSeq(i, o + 1, Min({o + 3, Len(i)}))
    IN [len |-> Len(data), off |-> o, crc |-> MCCrc16(data)]
MCHeaders == UNION {{HeaderFrom(i, o) : o \in 0 .. Len(i) - 1} : i \in MCImages}
=============================================================================
