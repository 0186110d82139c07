-------------------------- MODULE MCUpdateMode --------------------------
(* Small instances of UpdateMode: a cell has two bits, so a word is 0..3   *)
(* and an erased cell reads 3, as 0xFFFFFFFF does.                         *)
EXTENDS UpdateMode, FiniteSetsExt

MCData == {{0}, {1}}

MCWord(cell) == 3 - SumSet({2 ^ b : b \in cell})

(* A check sum: like the real ones it lets some corruption through.        *)
CheckSum(cells) == LET word[i \in 0 .. Len(cells)] ==
                           IF i = 0 THEN 0 ELSE word[i - 1] + MCWord(cells[i])
                   IN word[Len(cells)] % 4

MCCrc16(data) == CheckSum(data) % 2

(* The flash before the update: {0} everywhere, so the old image {0} is    *)
(* not a valid one ...                                                     *)
Filled(size) == [a \in 0 .. size - 1 |-> {0}]
MCInitialFlash == {Filled(FlashSize)}

(* A partition of two sectors with a sector of neighbours on either side,  *)
(* and the tables the setup refuses: a size that is no multiple of the     *)
(* sector, and one of more sectors than the bitmap tracks.                 *)
MCPartitions == {[offset |-> 2, size |-> 4],
                 [offset |-> 2, size |-> 3],
                 [offset |-> 2, size |-> 6]}

(* Frames inside a sector, across both sectors, and every way to be out of *)
(* shape: empty, too long, past the end, straddling the end.               *)
Frames(shapes) == {[len |-> s[1], off |-> s[2], crc |-> c] : s \in shapes, c \in 0 .. 1}
Misfits == {[len |-> 0, off |-> 0, crc |-> 0], [len |-> 3, off |-> 0, crc |-> 0],
            [len |-> 1, off |-> 4, crc |-> 0], [len |-> 2, off |-> 3, crc |-> 0]}

MCHeaders == Frames({<<1, 1>>, <<2, 1>>, <<2, 2>>}) \cup Misfits
=============================================================================
