---------------------------- MODULE NorFlash ----------------------------
(***************************************************************************)
(* The SPI NOR flash behind bootloader_flash_erase_sector,                 *)
(* bootloader_flash_write and bootloader_flash_read (ESP-IDF: external),   *)
(* modelled from how main.c and update_mode.c use them.  A cell is the set *)
(* of bits programmed since its last erase: {} is an erased cell, and      *)
(* programming only ever adds bits, so writing twice without an erase      *)
(* leaves a mixture of both values, as the AND of two bytes does.          *)
(***************************************************************************)
EXTENDS Integers, Sequences

CONSTANTS
    SectorSize,    \* FLASH_SECTOR_SIZE: the cells one erase clears
    Align          \* alignment the driver demands of a write (4 bytes)

ASSUME SectorSizeAssumption == SectorSize \in Nat \ {0}
ASSUME AlignAssumption == Align \in Nat \ {0} /\ SectorSize % Align = 0

Aligned(n) == n % Align = 0

(* The addresses of flash f that absolute sector s covers.                 *)
SectorCells(f, s) == {a \in DOMAIN f : a \div SectorSize = s}

(* The cells a write of n cells at address at covers.                      *)
Span(at, n) == at .. at + n - 1

Erase(f, cells) == [a \in DOMAIN f |-> IF a \in cells THEN {} ELSE f[a]]

(* Program the given cells of the write of data at address at.             *)
Program(f, at, data, cells) ==
    [a \in DOMAIN f |-> IF a \in cells THEN f[a] \cup data[a - at + 1] ELSE f[a]]

(* A read of n cells at address at.                                        *)
Read(f, at, n) == [i \in 1 .. n |-> f[at + i - 1]]
=============================================================================
