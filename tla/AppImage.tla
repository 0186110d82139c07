---------------------------- MODULE AppImage ----------------------------
(***************************************************************************)
(* The application image check of main.c: run_app_crc_check and            *)
(* compute_flash_crc32.  The last two cells of the partition are the       *)
(* descriptor (image size, CRC-32); the check passes when the image of     *)
(* that size at the start of the partition has that CRC.                   *)
(***************************************************************************)
EXTENDS NorFlash

CONSTANTS
    FlashSize,     \* cells of the flash
    Data,          \* the values a host can send for a cell
    InitialFlash,  \* flash contents the device may be delivered with
    Partitions,    \* application partitions [offset, size] of partition tables
    Word(_),       \* the number a cell holds
    Crc32(_)       \* CRC-32 of a sequence of cells

ASSUME FlashSizeAssumption == FlashSize \in Nat

FlashStates == [0 .. FlashSize - 1 -> SUBSET UNION Data]

ASSUME InitialFlashAssumption == InitialFlash \subseteq FlashStates

(* Partition tables place a partition on a sector boundary, inside the     *)
(* flash (gen_esp32part.py, bootloader_utility_load_partition_table).      *)
ASSUME PartitionsAssumption ==
    /\ Partitions \subseteq [offset : Nat, size : Nat]
    /\ \A p \in Partitions : /\ p.offset % SectorSize = 0
                             /\ p.offset + p.size <= FlashSize

(* sizeof(app_crc_descriptor_t): one cell for each of its two words.       *)
DescriptorSize == 2

(* The addresses of partition p = [offset, size].                          *)
Partition(p) == Span(p.offset, p.size)

Descriptor(f, p) ==
    LET at == p.offset + p.size - DescriptorSize
    IN [image_size |-> Word(f[at]), crc32 |-> Word(f[at + 1])]

ImageSizeSane(p, n) == n # 0 /\ n <= p.size - DescriptorSize

ImageValid(f, p) ==
    /\ p.size >= DescriptorSize
    /\ LET d == Descriptor(f, p)
       IN /\ ImageSizeSane(p, d.image_size)
          /\ Crc32(Read(f, p.offset, d.image_size)) = d.crc32

(* Mutant of CrcCheckOutcomes: the CRC is not compared.                    *)
SizeCheckOutcomes(f, p) == {FALSE, ImageSizeSane(p, Descriptor(f, p).image_size)}

(* Mutant of CrcCheckOutcomes: CONFIG_BOOTLOADER_TEST_CRC_FORCE_FAIL is on. *)
ForcedFail(f, p) == {FALSE}

(* What run_app_crc_check may return: a flash read error is a failed       *)
(* check, never a passed one.                                              *)
CrcCheckOutcomes(f, p) == {FALSE} \cup {ImageValid(f, p)}
=============================================================================
