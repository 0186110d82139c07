---------------------------- MODULE MCBringup ----------------------------
(* A partition of four cells: two of payload, two of descriptor.           *)
EXTENDS Bringup

MCData == SUBSET {0, 1}
MCWord(cell) == 3 - SumSet({2 ^ b : b \in cell})
MCCrc32(cells) == FoldSeq(LAMBDA cell, sum : sum + MCWord(cell), 0, cells) % 4
MCPart == {[offset |-> 0, size |-> 4]}
MCInitialFlash == {[a \in 0 .. 3 |-> {}]}

(* No binary, one that leaves room, one that ends erased, one too long;    *)
(* images of earlier tools whose descriptor is erased or zero; an erased   *)
(* partition.                                                              *)
MCInputs == {<<>>, <<{0}>>, <<{1}, {}>>, <<{0}, {1}, {0}>>,
             <<{0}, {}, {}, {}>>, <<{1}, {0}, {0, 1}, {}>>, <<{}, {}, {}, {}>>}

Row(name, size) == <<name, "app", "factory", "offset", size>>
MCTables == {<<<<"# Name">>, <<"nvs", "data", "nvs", "offset", 2>>, Row("factory", 4), Row("factory", 8)>>,
             <<<<"nvs", "data", "nvs", "offset", 2>>, Row("app", 4)>>}
=============================================================================
