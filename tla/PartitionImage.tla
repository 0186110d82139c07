------------------------- MODULE PartitionImage -------------------------
(***************************************************************************)
(* append_crc.py: the image of the application partition that is built     *)
(* from an application binary, or rebuilt in place from an image of an     *)
(* earlier run, with a good or (--bad-crc) a deliberately wrong CRC.       *)
(***************************************************************************)
EXTENDS AppImage, FiniteSetsExt

CONSTANT MaxWord   \* 16#FFFFFFFF

(* Every number of 32 bits can be stored, and all bits are set in the      *)
(* largest.                                                                *)
ASSUME WordAssumption ==
    /\ MaxWord \in Nat /\ MaxWord % 2 = 1
    /\ \A n \in 0 .. MaxWord : \E cell \in SUBSET UNION Data : Word(cell) = n

(* The cell that holds n, as struct.pack writes it.                        *)
CellOf(n) == CHOOSE cell \in SUBSET UNION Data : Word(cell) = n

Erased == {}

-----------------------------------------------------------------------------
(* partitions.csv: rows of fields, shorter ones being comments.            *)

IsFactory(row) == /\ Len(row) >= 5
                  /\ row[1] = "factory" /\ row[2] = "app" /\ row[3] = "factory"

(* The first row of the factory application decides; the script raises     *)
(* ValueError when there is none.                                          *)
HasFactorySize(rows) == \E i \in DOMAIN rows : IsFactory(rows[i])

FactorySize(rows) == rows[Min({i \in DOMAIN rows : IsFactory(rows[i])})][5]

-----------------------------------------------------------------------------
(* build_partition_image.                                                  *)

PayloadSize(size) == size - DescriptorSize

StripErased(cells) ==
    SubSeq(cells, 1, Max({0} \cup {i \in DOMAIN cells : cells[i] # Erased}))

StoredSize(image) == Word(image[Len(image) - 1])

(* The size a partition-sized input states; an uninitialized descriptor    *)
(* makes it what is left of the payload without its erased end.            *)
SizeInPlace(image) ==
    IF StoredSize(image) \in 1 .. PayloadSize(Len(image))
    THEN StoredSize(image)
    ELSE Len(StripErased(SubSeq(image, 1, PayloadSize(Len(image)))))

StatedCrc(app, bad) == IF bad THEN MaxWord - Crc32(app) ELSE Crc32(app)

DescriptorOf(app, bad) == <<CellOf(Len(app)), CellOf(StatedCrc(app, bad))>>

(* Mutant of InPlace: --bad-crc flips the CRC that is there.               *)
Toggled(image, bad) ==
    IF bad THEN [image EXCEPT ![Len(image)] = CellOf(MaxWord - Word(@))] ELSE image

InPlace(image, bad) ==
    SubSeq(image, 1, PayloadSize(Len(image)))
        \o DescriptorOf(SubSeq(image, 1, SizeInPlace(image)), bad)

(* Mutant of Padded: the descriptor follows the binary.                    *)
Unpadded(app, size) == app

Padded(app, size) == app \o [i \in 1 .. PayloadSize(size) - Len(app) |-> Erased]

Fits(app, size) == Len(app) = size \/ Len(app) <= PayloadSize(size)

Build(app, size, bad) ==
    IF Len(app) = size THEN InPlace(app, bad)
                       ELSE Padded(app, size) \o DescriptorOf(app, bad)

(* The flash after esptool wrote the image at the start of partition p.    *)
FlashWith(image, p) ==
    [a \in 0 .. FlashSize - 1 |->
        IF a \in Span(p.offset, Len(image)) THEN image[a - p.offset + 1] ELSE Erased]
=============================================================================
