-------------------------- MODULE FlashProofs --------------------------
(***************************************************************************)
(* Facts about sectors, erases and writes that the proofs about Boot and   *)
(* UpdateMode share.                                                       *)
(***************************************************************************)
EXTENDS AppImage, TLAPS

(* Division by the sector size, as far as the proofs need it.              *)
LEMMA DivBounds ==
    ASSUME NEW a \in Nat
    PROVE  /\ a \div SectorSize \in Nat
           /\ SectorSize * (a \div SectorSize) <= a
           /\ a < SectorSize * (a \div SectorSize) + SectorSize
BY SectorSizeAssumption, SMT

LEMMA DivMonotone ==
    ASSUME NEW x \in Nat, NEW y \in Nat, x <= y
    PROVE  x \div SectorSize <= y \div SectorSize
BY SectorSizeAssumption, DivBounds, SMT

LEMMA WholeSectors ==
    ASSUME NEW n \in Nat, n % SectorSize = 0
    PROVE  n = SectorSize * (n \div SectorSize)
BY SectorSizeAssumption, SMT

(* The sector of the last cell of a partition of whole sectors is below    *)
(* its number of sectors.                                                  *)
LEMMA LastBelowCount ==
    ASSUME NEW n \in Nat, n % SectorSize = 0, NEW x \in Nat, x < n
    PROVE  x \div SectorSize < n \div SectorSize
<1>1. n = SectorSize * (n \div SectorSize)
  BY WholeSectors
<1>2. SectorSize * (x \div SectorSize) < SectorSize * (n \div SectorSize)
  BY <1>1, DivBounds, SectorSizeAssumption, SMT
<1>3. x \div SectorSize \in Nat /\ n \div SectorSize \in Nat
  BY DivBounds
<1> DEFINE q == x \div SectorSize
           k == n \div SectorSize
<1> HIDE DEF q, k
<1>4. SectorSize * q < SectorSize * k /\ q \in Nat /\ k \in Nat
  BY <1>2, <1>3 DEF q, k
<1>5. q < k
  BY <1>4, SectorSizeAssumption, SMT
<1> QED
  BY <1>5 DEF q, k

(* Every cell of sector r of a partition of whole sectors is a cell of the *)
(* partition: this is what keeps an erase inside.                          *)
LEMMA SectorInside ==
    ASSUME NEW p \in Partitions, p.size % SectorSize = 0,
           NEW r \in Nat, r < p.size \div SectorSize,
           NEW a \in Nat, a \div SectorSize = p.offset \div SectorSize + r
    PROVE  a \in Partition(p)
<1> DEFINE q == a \div SectorSize
           b == p.offset \div SectorSize
           k == p.size \div SectorSize
<1>1. p.offset \in Nat /\ p.size \in Nat /\ p.offset % SectorSize = 0
  BY PartitionsAssumption
<1>2. /\ p.offset = SectorSize * b /\ p.size = SectorSize * k
      /\ b \in Nat /\ k \in Nat
  BY <1>1, WholeSectors, DivBounds
<1>3. SectorSize * q <= a /\ a < SectorSize * q + SectorSize /\ q = b + r
  BY DivBounds
<1> HIDE DEF q, b, k
<1>4. SectorSize * b <= a /\ a < SectorSize * b + SectorSize * k
  <2>1. SectorSize * q = SectorSize * b + SectorSize * r
    BY <1>2, <1>3, SectorSizeAssumption, SMT
  <2>2. r + 1 <= k
    BY <1>2, SMT DEF k
  <2>3. SectorSize * r + SectorSize <= SectorSize * k
    BY <1>2, <2>2, SectorSizeAssumption, SMT
  <2>4. SectorSize * r >= 0
    BY SectorSizeAssumption, SMT
  <2> QED
    BY <1>2, <1>3, <2>1, <2>3, <2>4, SectorSizeAssumption, SMT
<1>5. p.offset <= a /\ a < p.offset + p.size
  BY <1>2, <1>4
<1> QED
  BY <1>1, <1>5, SMT DEF Partition, Span

(* A quotient is known by its bounds.                                      *)
LEMMA DivUnique ==
    ASSUME NEW a \in Nat, NEW q \in Nat,
           SectorSize * q <= a, a < SectorSize * q + SectorSize
    PROVE  a \div SectorSize = q
<1> DEFINE d == a \div SectorSize
<1>1. d \in Nat /\ SectorSize * d <= a /\ a < SectorSize * d + SectorSize
  BY DivBounds
<1> HIDE DEF d
<1>2. SectorSize * d < SectorSize * q + SectorSize /\ SectorSize * q < SectorSize * d + SectorSize
  BY <1>1, SectorSizeAssumption, SMT
<1>3. SectorSize * d < SectorSize * (q + 1) /\ SectorSize * q < SectorSize * (d + 1)
  BY <1>1, <1>2, SectorSizeAssumption, SMT
<1>4. d < q + 1 /\ q < d + 1
  BY <1>1, <1>3, SectorSizeAssumption, SMT
<1>5. d = q
  BY <1>1, <1>4
<1> QED
  BY <1>5 DEF d

(* The sector of a cell counted from the start of its partition.           *)
LEMMA SectorShift ==
    ASSUME NEW p \in Partitions, NEW o \in Nat
    PROVE  (p.offset + o) \div SectorSize = p.offset \div SectorSize + o \div SectorSize
<1> DEFINE b == p.offset \div SectorSize
           d == o \div SectorSize
<1>1. p.offset \in Nat /\ p.offset % SectorSize = 0
  BY PartitionsAssumption
<1>2. p.offset = SectorSize * b /\ b \in Nat
  BY <1>1, WholeSectors, DivBounds
<1>3. d \in Nat /\ SectorSize * d <= o /\ o < SectorSize * d + SectorSize
  BY DivBounds
<1> HIDE DEF b, d
<1>4. SectorSize * (b + d) = SectorSize * b + SectorSize * d
  BY <1>2, <1>3, SectorSizeAssumption, SMT
<1>5. SectorSize * (b + d) <= p.offset + o /\ p.offset + o < SectorSize * (b + d) + SectorSize
  BY <1>1, <1>2, <1>3, <1>4, SectorSizeAssumption, SMT
<1>6. (p.offset + o) \div SectorSize = b + d
  BY <1>1, <1>2, <1>3, <1>5, DivUnique
<1> QED
  BY <1>6 DEF b, d

(* Partitions start on an aligned address: sectors are whole units of      *)
(* alignment.                                                              *)
LEMMA Multiples ==
    ASSUME NEW n \in Nat \ {0}, NEW x \in Nat, x % n = 0
    PROVE  \E k \in Nat : x = n * k
<1>1. x \div n \in Nat /\ x = n * (x \div n)
  BY SMT
<1> QED
  BY <1>1

LEMMA MultipleMod ==
    ASSUME NEW n \in Nat \ {0}, NEW k \in Nat
    PROVE  (n * k) % n = 0
BY SMT

LEMMA AlignedSum ==
    ASSUME NEW p \in Partitions, NEW o \in Nat, Aligned(o)
    PROVE  Aligned(p.offset + o)
<1>1. p.offset \in Nat /\ p.offset % SectorSize = 0
  BY PartitionsAssumption
<1>2. PICK b \in Nat : p.offset = SectorSize * b
  BY <1>1, Multiples, SectorSizeAssumption
<1>3. PICK u \in Nat : SectorSize = Align * u
  BY Multiples, SectorSizeAssumption, AlignAssumption
<1>4. PICK k \in Nat : o = Align * k
  BY Multiples, AlignAssumption DEF Aligned
<1>5. p.offset + o = Align * (u * b + k) /\ u * b + k \in Nat
  BY <1>2, <1>3, <1>4, AlignAssumption, SMT
<1> QED
  BY <1>5, MultipleMod, AlignAssumption DEF Aligned

-----------------------------------------------------------------------------
(* Erases and writes.                                                      *)

(* Erasing cells of a flash leaves a flash.                                *)
LEMMA EraseType ==
    ASSUME NEW f \in FlashStates, NEW cells
    PROVE  Erase(f, cells) \in FlashStates
BY DEF Erase, FlashStates

(* So does writing values of Data.                                         *)
LEMMA ProgramType ==
    ASSUME NEW f \in FlashStates, NEW at \in Nat, NEW data \in Seq(Data),
           NEW cells \in SUBSET Span(at, Len(data))
    PROVE  Program(f, at, data, cells) \in FlashStates
<1> SUFFICES ASSUME NEW a \in 0 .. FlashSize - 1
             PROVE  (IF a \in cells THEN f[a] \cup data[a - at + 1] ELSE f[a])
                        \subseteq UNION Data
  BY DEF Program, FlashStates
<1>1. f[a] \subseteq UNION Data
  BY DEF FlashStates
<1>2. CASE a \in cells
  <2>1. a - at + 1 \in 1 .. Len(data)
    BY <1>2, FlashSizeAssumption DEF Span
  <2>2. data[a - at + 1] \in Data
    BY <2>1
  <2> QED
    BY <1>1, <1>2, <2>2
<1> QED
  BY <1>1, <1>2
=============================================================================
