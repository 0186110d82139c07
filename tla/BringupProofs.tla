-------------------------- MODULE BringupProofs --------------------------
(***************************************************************************)
(* Proofs about Bringup.  What append_crc.py builds is what                *)
(* run_app_crc_check takes, and the image on the bench is what it says,    *)
(* for every partition table, binary or old image, any number of runs on   *)
(* its own output, every word and CRC function.  The verdict on a boot log *)
(* is true to the boots that were captured, however many boots, commands,  *)
(* chunks, stalls and lost lines there are.                                *)
(***************************************************************************)
EXTENDS Bringup, FiniteSetTheorems, WellFoundedInduction, TLAPS

-----------------------------------------------------------------------------
(* What append_crc.py builds.                                              *)

Cells == SUBSET UNION Data

(* A binary whose size and CRC are numbers of a word and that leaves room  *)
(* for the descriptor.                                                     *)
Fitting(binary, size) ==
    /\ binary \in Seq(Cells)
    /\ Len(binary) \in 0 .. MaxWord /\ Len(binary) <= size - 2
    /\ Crc32(binary) \in 0 .. MaxWord

(* The image of a partition that starts with binary and states the size of *)
(* binary and the given CRC.                                               *)
States(image, binary, size, crc) ==
    /\ image \in Seq(Cells) /\ Len(image) = size
    /\ \A i \in 1 .. Len(binary) : image[i] = binary[i]
    /\ Word(image[size - 1]) = Len(binary)
    /\ Word(image[size]) = crc

(* One that holds nothing else.                                            *)
HoldsOnly(image, binary, size, crc) ==
    /\ States(image, binary, size, crc)
    /\ \A i \in Len(binary) + 1 .. size - 2 : image[i] = Erased

(* struct.unpack reads what struct.pack wrote.                             *)
LEMMA CellHoldsWord ==
    ASSUME NEW n \in 0 .. MaxWord
    PROVE  CellOf(n) \in Cells /\ Word(CellOf(n)) = n
BY WordAssumption DEF CellOf, Cells

(* --bad-crc changes the CRC, and keeps it a word.                         *)
LEMMA BadIsDifferent ==
    ASSUME NEW c \in 0 .. MaxWord
    PROVE  MaxWord - c \in 0 .. MaxWord /\ MaxWord - c # c
BY WordAssumption

(* A payload and its descriptor make an image of the partition.            *)
LEMMA WithDescriptor ==
    ASSUME NEW binary, NEW size \in Nat, Fitting(binary, size), NEW wrong \in BOOLEAN,
           NEW payload \in Seq(Cells), Len(payload) = size - 2,
           \A i \in 1 .. Len(binary) : payload[i] = binary[i]
    PROVE  LET image == payload \o DescriptorOf(binary, wrong)
           IN /\ States(image, binary, size, StatedCrc(binary, wrong))
              /\ \A i \in 1 .. size - 2 : image[i] = payload[i]
<1> DEFINE n == CellOf(Len(binary))
           c == CellOf(StatedCrc(binary, wrong))
           image == payload \o <<n, c>>
<1>1. Len(binary) \in 0 .. MaxWord /\ Len(binary) <= size - 2
      BY DEF Fitting
<1>2. StatedCrc(binary, wrong) \in 0 .. MaxWord
      BY BadIsDifferent DEF StatedCrc, Fitting
<1>3. n \in Cells /\ Word(n) = Len(binary)
      BY <1>1, CellHoldsWord
<1>4. c \in Cells /\ Word(c) = StatedCrc(binary, wrong)
      BY <1>2, CellHoldsWord
<1>5. payload \o DescriptorOf(binary, wrong) = image
      BY DEF DescriptorOf
<1> HIDE DEF n, c
<1>6. /\ image \in Seq(Cells) /\ Len(image) = size
      /\ \A i \in 1 .. size - 2 : image[i] = payload[i]
      /\ image[size - 1] = n /\ image[size] = c
      BY <1>3, <1>4
<1> HIDE DEF image
<1>7. \A i \in 1 .. Len(binary) : image[i] = binary[i]
      BY <1>1, <1>6
<1>8. States(image, binary, size, StatedCrc(binary, wrong))
      BY <1>3, <1>4, <1>6, <1>7 DEF States
<1> QED BY <1>5, <1>6, <1>8

(* A fresh build.                                                          *)
LEMMA FreshBuild ==
    ASSUME NEW binary, NEW size \in Nat, Fitting(binary, size), NEW wrong \in BOOLEAN
    PROVE  HoldsOnly(Build(binary, size, wrong), binary, size, StatedCrc(binary, wrong))
<1> DEFINE rest == [i \in 1 .. size - 2 - Len(binary) |-> Erased]
           payload == binary \o rest
           image == Build(binary, size, wrong)
<1>1. /\ binary \in Seq(Cells) /\ Len(binary) \in Nat
      /\ Len(binary) <= size - 2 /\ Len(binary) # size
      BY DEF Fitting
<1>2. Erased \in Cells
      BY DEF Erased, Cells
<1>3. /\ rest \in Seq(Cells) /\ Len(rest) = size - 2 - Len(binary)
      /\ \A i \in 1 .. size - 2 - Len(binary) : rest[i] = Erased
      BY <1>1, <1>2
<1> HIDE DEF rest
<1>4. /\ payload \in Seq(Cells) /\ Len(payload) = size - 2
      /\ \A i \in 1 .. Len(binary) : payload[i] = binary[i]
      /\ \A i \in Len(binary) + 1 .. size - 2 : payload[i] = Erased
      BY <1>1, <1>3
<1>5. image = payload \o DescriptorOf(binary, wrong)
      BY <1>1 DEF rest, Build, Padded, PayloadSize, DescriptorSize
<1> HIDE DEF payload, image
<1>6. /\ States(image, binary, size, StatedCrc(binary, wrong))
      /\ \A i \in 1 .. size - 2 : image[i] = payload[i]
      BY <1>4, <1>5, WithDescriptor
<1>7. \A i \in Len(binary) + 1 .. size - 2 : image[i] = Erased
      BY <1>1, <1>4, <1>6
<1> QED BY <1>6, <1>7 DEF HoldsOnly, image

(* A run of the script on an image, in place: the payload stays, the CRC   *)
(* is computed anew, whatever it was.                                      *)
LEMMA BuildInPlace ==
    ASSUME NEW size \in Nat, NEW wrong \in BOOLEAN,
           NEW image \in Seq(Cells), Len(image) = size,
           NEW n \in 0 .. size - 2, n = SizeInPlace(image),
           Fitting(SubSeq(image, 1, n), size)
    PROVE  LET inner == SubSeq(image, 1, n)
               built == Build(image, size, wrong)
           IN /\ Len(inner) = n
              /\ States(built, inner, size, StatedCrc(inner, wrong))
              /\ \A i \in 1 .. size - 2 : built[i] = image[i]
<1> DEFINE payload == SubSeq(image, 1, size - 2)
           inner == SubSeq(image, 1, n)
           built == Build(image, size, wrong)
<1>1. /\ payload \in Seq(Cells) /\ Len(payload) = size - 2
      /\ \A i \in 1 .. size - 2 : payload[i] = image[i]
      OBVIOUS
<1>2. Len(inner) = n /\ \A i \in 1 .. Len(inner) : inner[i] = image[i]
      OBVIOUS
<1>3. built = payload \o DescriptorOf(inner, wrong)
      BY DEF Build, InPlace, PayloadSize, DescriptorSize
<1>4. Fitting(inner, size)
      OBVIOUS
<1> HIDE DEF payload, inner, built
<1>5. \A i \in 1 .. Len(inner) : payload[i] = inner[i]
      BY <1>1, <1>2
<1>6. /\ States(built, inner, size, StatedCrc(inner, wrong))
      /\ \A i \in 1 .. size - 2 : built[i] = payload[i]
  <2> DEFINE joined == payload \o DescriptorOf(inner, wrong)
  <2>1. /\ States(joined, inner, size, StatedCrc(inner, wrong))
        /\ \A i \in 1 .. size - 2 : joined[i] = payload[i]
        BY <1>1, <1>4, <1>5, WithDescriptor
  <2> QED BY <2>1, <1>3
<1>7. \A i \in 1 .. size - 2 : built[i] = image[i]
      BY <1>1, <1>6
<1> QED BY <1>2, <1>6, <1>7 DEF inner, built

(* Running the script on the output of a run gives what a run on the       *)
(* binary gives: the size comes from the descriptor.                       *)
THEOREM RebuildKeepsBinary ==
    ASSUME NEW binary, NEW size \in Nat, Fitting(binary, size), binary # <<>>,
           NEW wrong \in BOOLEAN,
           NEW image, NEW crc, HoldsOnly(image, binary, size, crc)
    PROVE  HoldsOnly(Build(image, size, wrong), binary, size, StatedCrc(binary, wrong))
<1> DEFINE inner == SubSeq(image, 1, Len(binary))
           built == Build(image, size, wrong)
<1>1. /\ binary \in Seq(Cells) /\ Len(binary) \in 1 .. size - 2
      /\ image \in Seq(Cells) /\ Len(image) = size
      /\ \A i \in 1 .. Len(binary) : image[i] = binary[i]
      BY DEF Fitting, HoldsOnly, States
<1>2. inner = binary
      BY <1>1
<1>3. SizeInPlace(image) = Len(binary)
      BY <1>1
      DEF SizeInPlace, StoredSize, HoldsOnly, States, PayloadSize, DescriptorSize
<1>4. /\ States(built, inner, size, StatedCrc(inner, wrong))
      /\ \A i \in 1 .. size - 2 : built[i] = image[i]
  <2>1. Len(binary) \in 0 .. size - 2
        BY <1>1
  <2>2. Fitting(inner, size)
        BY <1>2
  <2> QED BY <2>1, <2>2, <1>1, <1>3, BuildInPlace
<1> HIDE DEF inner, built
<1>5. \A i \in Len(binary) + 1 .. size - 2 : built[i] = Erased
      BY <1>1, <1>4 DEF HoldsOnly
<1> QED BY <1>2, <1>4, <1>5 DEF HoldsOnly, built

(* The device's view of an image, once esptool wrote it.                   *)
LEMMA CheckOfImage ==
    ASSUME NEW p \in Partitions, NEW binary, Fitting(binary, p.size),
           NEW image, NEW crc, States(image, binary, p.size, crc)
    PROVE  ImageValid(FlashWith(image, p), p)
                <=> Len(binary) # 0 /\ Crc32(binary) = crc
<1> DEFINE f == FlashWith(image, p)
           o == p.offset
           s == p.size
<1>1. /\ o \in Nat /\ s \in Nat /\ o + s <= FlashSize /\ FlashSize \in Nat
      BY PartitionsAssumption, FlashSizeAssumption
<1>2. /\ binary \in Seq(Cells) /\ Len(binary) \in Nat /\ Len(binary) <= s - 2
      /\ Len(image) = s
      BY DEF Fitting, States
<1>3. \A i \in 1 .. s : f[o + i - 1] = image[i]
  <2> SUFFICES ASSUME NEW i \in 1 .. s PROVE f[o + i - 1] = image[i]
      OBVIOUS
  <2> DEFINE a == o + i - 1
  <2>1. a \in 0 .. FlashSize - 1 /\ a \in Span(o, Len(image)) /\ a - o + 1 = i
        BY <1>1, <1>2 DEF Span
  <2> HIDE DEF a
  <2>2. f[a] = image[a - o + 1]
        BY <2>1 DEF FlashWith
  <2> QED BY <2>1, <2>2 DEF a
<1> HIDE DEF f
<1>4. Read(f, o, Len(binary)) = binary
  <2>1. \A i \in 1 .. Len(binary) : f[o + i - 1] = binary[i]
        BY <1>2, <1>3, <1>1 DEF States
  <2>2. Read(f, o, Len(binary)) = [i \in 1 .. Len(binary) |-> binary[i]]
        BY <2>1 DEF Read
  <2> QED BY <2>2, <1>2
<1>5. f[o + s - 2] = image[s - 1] /\ f[o + s - 1] = image[s]
  <2>1. s - 1 \in 1 .. s /\ s \in 1 .. s /\ o + (s - 1) - 1 = o + s - 2
        BY <1>1, <1>2
  <2> QED BY <2>1, <1>3
<1>6. Descriptor(f, p) = [image_size |-> Len(binary), crc32 |-> crc]
  <2>1. o + s - 2 + 1 = o + s - 1
        BY <1>1
  <2> QED BY <1>5, <2>1 DEF Descriptor, DescriptorSize, States
<1>7. s >= DescriptorSize /\ (ImageSizeSane(p, Len(binary)) <=> Len(binary) # 0)
      BY <1>1, <1>2 DEF ImageSizeSane, DescriptorSize
<1> QED BY <1>4, <1>6, <1>7 DEF ImageValid, f

(* The device takes the image of a good build and refuses the image of a   *)
(* build with --bad-crc: the test of the refusal cannot pass by accident.  *)
THEOREM BuiltImageBoots ==
    ASSUME NEW p \in Partitions, NEW binary, Fitting(binary, p.size), binary # <<>>,
           NEW wrong \in BOOLEAN
    PROVE  ImageValid(FlashWith(Build(binary, p.size, wrong), p), p) <=> ~wrong
<1>1. p.size \in Nat
      BY PartitionsAssumption
<1>2. States(Build(binary, p.size, wrong), binary, p.size, StatedCrc(binary, wrong))
      BY <1>1, FreshBuild DEF HoldsOnly
<1>3. Crc32(binary) = StatedCrc(binary, wrong) <=> ~wrong
      BY BadIsDifferent DEF StatedCrc, Fitting
<1>4. Len(binary) # 0
      BY DEF Fitting
<1> QED BY <1>2, <1>3, <1>4, CheckOfImage

-----------------------------------------------------------------------------
(* Payloads without their erased end.                                      *)

(* A bounded set of numbers has a greatest one.                            *)
LEMMA GreatestNumber ==
    ASSUME NEW n \in Nat, NEW T, T \subseteq 0 .. n, T # {}
    PROVE  Max(T) \in T /\ \A x \in T : x <= Max(T)
<1> DEFINE U == {n - x : x \in T}
<1>1. U \subseteq Nat /\ U # {}
  <2>1. U \subseteq Nat
    <3> SUFFICES ASSUME NEW x \in T PROVE n - x \in Nat
        OBVIOUS
    <3> QED OBVIOUS
  <2>2. PICK t \in T : TRUE
        OBVIOUS
  <2>3. n - t \in U
        OBVIOUS
  <2> QED BY <2>1, <2>3
<1>2. PICK u \in U : \A y \in U : ~(<<y, u>> \in OpToRel(<, Nat))
      BY <1>1, NatLessThanWellFounded, WFMin, Zenon
<1>3. \A y \in U : ~(y < u)
      BY <1>1, <1>2 DEF OpToRel
<1>4. PICK t \in T : u = n - t
      OBVIOUS
<1>5. \A x \in T : t >= x
  <2> SUFFICES ASSUME NEW x \in T PROVE t >= x
      OBVIOUS
  <2>1. n - x \in U
        OBVIOUS
  <2>2. ~(n - x < n - t)
        BY <2>1, <1>3, <1>4
  <2> QED BY <2>2
<1>6. Max(T) \in T /\ \A x \in T : Max(T) >= x
      BY <1>5 DEF Max
<1> QED BY <1>6

Programmed(cells) == {i \in DOMAIN cells : cells[i] # Erased}

Used(cells) == Max({0} \cup Programmed(cells))

(* What rstrip leaves ends with the last cell that is not erased.          *)
LEMMA Stripped ==
    ASSUME NEW cells \in Seq(Cells)
    PROVE  /\ Used(cells) \in 0 .. Len(cells)
           /\ \A i \in Used(cells) + 1 .. Len(cells) : cells[i] = Erased
           /\ StripErased(cells) = SubSeq(cells, 1, Used(cells))
           /\ Len(StripErased(cells)) = Used(cells)
<1> DEFINE T == {0} \cup Programmed(cells)
<1>1. T \subseteq 0 .. Len(cells) /\ T # {} /\ Len(cells) \in Nat
      BY DEF Programmed
<1>2. Used(cells) \in T /\ \A x \in T : x <= Used(cells)
      BY <1>1, GreatestNumber DEF Used
<1>3. \A i \in Used(cells) + 1 .. Len(cells) : cells[i] = Erased
  <2> SUFFICES ASSUME NEW i \in Used(cells) + 1 .. Len(cells), cells[i] # Erased
               PROVE  FALSE
      OBVIOUS
  <2>1. Used(cells) \in 0 .. Len(cells)
        BY <1>1, <1>2
  <2>2. i \in T
        BY <2>1 DEF Programmed
  <2> QED BY <2>1, <2>2, <1>2
<1>4. StripErased(cells) = SubSeq(cells, 1, Used(cells))
      BY DEF StripErased, Used, Programmed
<1> HIDE DEF T
<1>5. Used(cells) \in 0 .. Len(cells)
      BY <1>1, <1>2
<1> QED BY <1>3, <1>4, <1>5

(* Erased cells behind a payload make no difference.                       *)
LEMMA SameStripped ==
    ASSUME NEW a \in Seq(Cells), NEW b \in Seq(Cells), Len(b) <= Len(a),
           \A i \in 1 .. Len(b) : a[i] = b[i],
           \A i \in Len(b) + 1 .. Len(a) : a[i] = Erased
    PROVE  StripErased(a) = StripErased(b)
<1>1. Programmed(a) = Programmed(b)
  <2>1. \A i \in DOMAIN a : a[i] # Erased => i \in DOMAIN b /\ b[i] # Erased
        OBVIOUS
  <2>2. \A i \in DOMAIN b : i \in DOMAIN a /\ a[i] = b[i]
        OBVIOUS
  <2> QED BY <2>1, <2>2 DEF Programmed
<1>2. Used(a) = Used(b)
      BY <1>1 DEF Used
<1> DEFINE m == Used(b)
<1>3. /\ m \in 0 .. Len(b)
      /\ StripErased(a) = SubSeq(a, 1, m) /\ StripErased(b) = SubSeq(b, 1, m)
      BY <1>2, Stripped
<1> HIDE DEF m
<1>4. SubSeq(a, 1, m) = SubSeq(b, 1, m)
      BY <1>3
<1> QED BY <1>3, <1>4

LEMMA NothingStripped ==
    ASSUME NEW cells \in Seq(Cells), \A i \in 1 .. Len(cells) : cells[i] = Erased
    PROVE  StripErased(cells) = <<>>
<1>1. {0} \cup Programmed(cells) = {0}
      BY DEF Programmed
<1>2. Used(cells) = 0
  <2>1. {0} \subseteq 0 .. 0 /\ {0} # {}
        OBVIOUS
  <2> QED BY <2>1, <1>1, GreatestNumber DEF Used
<1>3. StripErased(cells) = SubSeq(cells, 1, 0)
      BY <1>2, Stripped
<1> QED BY <1>3

(* The size an image states is one of its payload, and no size means that  *)
(* there is nothing in it.                                                 *)
LEMMA SizeOfImage ==
    ASSUME NEW size \in Nat, size >= 2, NEW image \in Seq(Cells), Len(image) = size
    PROVE  /\ SizeInPlace(image) \in 0 .. size - 2
           /\ SizeInPlace(image) = 0
                => \A i \in 1 .. size - 2 : image[i] = Erased
<1> DEFINE payload == SubSeq(image, 1, size - 2)
<1>1. /\ payload \in Seq(Cells) /\ Len(payload) = size - 2
      /\ \A i \in 1 .. size - 2 : payload[i] = image[i]
      OBVIOUS
<1>2. SizeInPlace(image) = IF StoredSize(image) \in 1 .. size - 2
                           THEN StoredSize(image) ELSE Len(StripErased(payload))
      BY DEF SizeInPlace, PayloadSize, DescriptorSize
<1> HIDE DEF payload
<1>3. CASE StoredSize(image) \in 1 .. size - 2
      BY <1>2, <1>3
<1>4. CASE StoredSize(image) \notin 1 .. size - 2
  <2>1. SizeInPlace(image) = Used(payload)
        BY <1>1, <1>2, <1>4, Stripped
  <2>2. /\ Used(payload) \in 0 .. size - 2
        /\ \A i \in Used(payload) + 1 .. size - 2 : payload[i] = Erased
        BY <1>1, Stripped
  <2> QED BY <1>1, <2>1, <2>2
<1> QED BY <1>3, <1>4

-----------------------------------------------------------------------------
(* The file on the bench.                                                  *)

(* partitions.csv gives the size of the partition the device boots from,   *)
(* its cells can be counted in a word, and a CRC-32 is a word.             *)
BenchFits ==
    /\ Part.size >= DescriptorSize /\ Part.size - DescriptorSize <= MaxWord
    /\ \A table \in Tables : HasFactorySize(table) => FactorySize(table) = Part.size
    /\ \A cells \in Seq(Cells) : Crc32(cells) \in 0 .. MaxWord

LEMMA PartIsPartition == Part \in Partitions /\ Part.size \in Nat
<1>1. Part \in Partitions
      BY BringupAssumption DEF Part
<1> QED BY <1>1, PartitionsAssumption

(* An image that holds the payload of original and describes itself.       *)
ImageFrom(image, original, flipped) ==
    LET n == StoredSize(image)
        inner == SubSeq(image, 1, n)
    IN /\ n \in 0 .. Part.size - 2
       /\ States(image, inner, Part.size, StatedCrc(inner, flipped))
       /\ \A i \in 1 .. Part.size - 2 :
              image[i] = IF i <= Len(original) THEN original[i] ELSE Erased
       /\ n = 0 => \A i \in 1 .. Part.size - 2 : image[i] = Erased

BenchInv ==
    /\ bad \in BOOLEAN
    /\ pc \in {"bench", "built"} => app \in Seq(Cells)
    /\ pc = "bench" => file = app
    /\ pc = "built" => ImageFrom(file, app, bad)

(* What fits the payload fits a descriptor.                                *)
LEMMA PayloadFits ==
    ASSUME BenchFits, NEW inner \in Seq(Cells), Len(inner) <= Part.size - 2
    PROVE  Fitting(inner, Part.size)
BY PartIsPartition, WordAssumption DEF BenchFits, Fitting, DescriptorSize

LEMMA FreshIsFrom ==
    ASSUME BenchFits, NEW original \in Seq(Cells), NEW flipped \in BOOLEAN,
           Len(original) <= Part.size - 2
    PROVE  ImageFrom(Build(original, Part.size, flipped), original, flipped)
<1> DEFINE image == Build(original, Part.size, flipped)
           size == Part.size
<1>1. size \in Nat /\ size >= 2
      BY PartIsPartition DEF BenchFits, DescriptorSize
<1>2. HoldsOnly(image, original, size, StatedCrc(original, flipped))
      BY <1>1, PayloadFits, FreshBuild
<1> HIDE DEF image, size
<1>3. /\ image \in Seq(Cells) /\ Len(image) = size
      /\ \A i \in 1 .. Len(original) : image[i] = original[i]
      /\ \A i \in Len(original) + 1 .. size - 2 : image[i] = Erased
      /\ StoredSize(image) = Len(original)
      BY <1>2 DEF HoldsOnly, States, StoredSize
<1>4. SubSeq(image, 1, Len(original)) = original
      BY <1>3 DEF size
<1>5. \A i \in 1 .. size - 2 :
          image[i] = IF i <= Len(original) THEN original[i] ELSE Erased
      BY <1>1, <1>3
<1>6. Len(original) = 0 => \A i \in 1 .. size - 2 : image[i] = Erased
      BY <1>1, <1>3
<1>7. Len(original) \in 0 .. size - 2
      BY <1>1 DEF size
<1> QED BY <1>2, <1>3, <1>4, <1>5, <1>6, <1>7 DEF ImageFrom, HoldsOnly, image, size

LEMMA InPlaceIsFrom ==
    ASSUME BenchFits, NEW original \in Seq(Cells), NEW flipped \in BOOLEAN,
           NEW input \in Seq(Cells), Len(input) = Part.size,
           \A i \in 1 .. Part.size - 2 :
               input[i] = IF i <= Len(original) THEN original[i] ELSE Erased
    PROVE  ImageFrom(Build(input, Part.size, flipped), original, flipped)
<1> DEFINE size == Part.size
           image == Build(input, size, flipped)
           n == SizeInPlace(input)
           inner == SubSeq(input, 1, n)
<1>1. size \in Nat /\ size >= 2 /\ Len(input) = size
      BY PartIsPartition DEF BenchFits, DescriptorSize
<1>2. /\ n \in 0 .. size - 2
      /\ n = 0 => \A i \in 1 .. size - 2 : input[i] = Erased
      BY <1>1, SizeOfImage
<1>3. inner \in Seq(Cells) /\ Len(inner) = n /\ \A i \in 1 .. n : inner[i] = input[i]
      BY <1>1, <1>2
<1>4. Fitting(inner, size)
  <2> HIDE DEF inner, n
  <2> QED BY <1>1, <1>2, <1>3, PayloadFits
<1>5. /\ States(image, inner, size, StatedCrc(inner, flipped))
      /\ \A i \in 1 .. size - 2 : image[i] = input[i]
      BY <1>1, <1>2, <1>4, BuildInPlace
<1> HIDE DEF image, n, inner
<1>6. StoredSize(image) = n /\ image \in Seq(Cells) /\ Len(image) = size
      BY <1>3, <1>5 DEF StoredSize, States
<1>7. SubSeq(image, 1, n) = inner
      BY <1>1, <1>2, <1>3, <1>5, <1>6
<1>8. /\ \A i \in 1 .. size - 2 :
             image[i] = IF i <= Len(original) THEN original[i] ELSE Erased
      /\ n = 0 => \A i \in 1 .. size - 2 : image[i] = Erased
      BY <1>2, <1>5
<1> QED BY <1>2, <1>5, <1>6, <1>7, <1>8 DEF ImageFrom, image

LEMMA BenchInvInit == Init => BenchInv
BY BringupAssumption DEF Init, BenchInv, Cells

(* Every run of the script, on the binary or on its own output.            *)
LEMMA BuildsKeeps == BenchFits /\ BenchInv /\ Builds => BenchInv'
<1> SUFFICES ASSUME BenchFits, BenchInv, Builds PROVE BenchInv'
    OBVIOUS
<1> DEFINE size == Part.size
<1>1. PICK input \in {app, file} :
          /\ Fits(input, size) /\ bad' \in BOOLEAN
          /\ file' = Build(input, size, bad')
      BY DEF Builds, BenchFits
<1>2. /\ app' = app /\ pc' = "built" /\ app \in Seq(Cells)
      /\ size \in Nat /\ size >= 2
      BY PartIsPartition DEF Builds, BenchInv, BenchFits, DescriptorSize
<1>3. ImageFrom(file', app, bad')
  <2>1. CASE input = app /\ Len(app) # size
    <3>1. Len(app) <= size - 2
          BY <1>1, <2>1 DEF Fits, PayloadSize, DescriptorSize
    <3> QED BY <3>1, <2>1, <1>1, <1>2, FreshIsFrom
  <2>2. CASE input = app /\ Len(app) = size
    <3>1. \A i \in 1 .. size - 2 :
              app[i] = IF i <= Len(app) THEN app[i] ELSE Erased
          BY <1>2, <2>2
    <3> QED BY <3>1, <2>2, <1>1, <1>2, InPlaceIsFrom
  <2>3. CASE input = file /\ pc = "built"
    <3>1. /\ file \in Seq(Cells) /\ Len(file) = size
          /\ \A i \in 1 .. size - 2 :
                 file[i] = IF i <= Len(app) THEN app[i] ELSE Erased
          BY <2>3 DEF BenchInv, ImageFrom, States
    <3> QED BY <3>1, <2>3, <1>1, <1>2, InPlaceIsFrom
  <2>4. pc = "built" \/ file = app
        BY DEF Builds, BenchInv
  <2> QED BY <2>1, <2>2, <2>3, <2>4, <1>1
<1> QED BY <1>1, <1>2, <1>3 DEF BenchInv

(* Once the image is flashed nobody comes back to the bench.               *)
LEMMA OthersKeep ==
    BenchInv /\ (Flashes \/ PortReturns \/ Stalls \/ Boots \/ UNCHANGED vars)
        => BenchInv'
<1> SUFFICES ASSUME BenchInv,
                    Flashes \/ PortReturns \/ Stalls \/ Boots \/ UNCHANGED vars
             PROVE  BenchInv'
    OBVIOUS
<1>1. CASE Flashes
      BY <1>1 DEF Flashes, BenchInv
<1>2. CASE PortReturns \/ Stalls \/ UNCHANGED vars
      BY <1>2 DEF PortReturns, Stalls, vars, bench, BenchInv
<1>3. CASE Boots
  <2>1. pc' \notin {"bench", "built"} /\ bad' = bad
        BY <1>3
        DEF Boots, SelectNormal, SelectUpdate, SelectRecovery, CheckPasses, CheckFails,
            ReadyForChunk, SessionAccepts, SessionFails, CommandStatus, CommandUpdate,
            CommandErase, CommandBoot, Handoff, AppStarts, Resets, Device,
            EntersRecovery, LeavesRecovery, bench
  <2> QED BY <2>1 DEF BenchInv
<1> QED BY <1>1, <1>2, <1>3

(* The smaller of two numbers.                                             *)
LEMMA MinOfTwo ==
    ASSUME NEW x \in Nat, NEW y \in Nat
    PROVE  Min({x, y}) = IF x <= y THEN x ELSE y
BY DEF Min

(* An image that describes itself is one the device understands.           *)
LEMMA FromIsTrue == BenchFits /\ BenchInv => BuiltImageIsTrue
<1> SUFFICES ASSUME BenchFits, BenchInv, pc = "built" PROVE BuiltImageIsTrue
    BY DEF BuiltImageIsTrue
<1> DEFINE size == Part.size
           n == StoredSize(file)
           inner == SubSeq(file, 1, n)
           payload == SubSeq(file, 1, PayloadSize(Len(file)))
           body == SubSeq(app, 1, Min({Len(app), PayloadSize(Len(file))}))
<1>1. /\ size \in Nat /\ size >= 2 /\ bad \in BOOLEAN /\ app \in Seq(Cells)
      /\ n \in 0 .. size - 2
      /\ States(file, inner, size, StatedCrc(inner, bad))
      /\ file \in Seq(Cells) /\ Len(file) = size
      /\ \A i \in 1 .. size - 2 : file[i] = IF i <= Len(app) THEN app[i] ELSE Erased
      /\ n = 0 => \A i \in 1 .. size - 2 : file[i] = Erased
      BY PartIsPartition DEF BenchInv, BenchFits, DescriptorSize, ImageFrom, States
<1> HIDE DEF n
<1>2. inner \in Seq(Cells) /\ Len(inner) = n
      BY <1>1
<1>3. ImageValid(FlashWith(file, Part), Part) = (~bad /\ n # 0)
  <2> HIDE DEF inner
  <2>1. Fitting(inner, size)
        BY <1>1, <1>2, PayloadFits
  <2>2. ImageValid(FlashWith(file, Part), Part)
            <=> Len(inner) # 0 /\ Crc32(inner) = StatedCrc(inner, bad)
        BY <1>1, <2>1, CheckOfImage, PartIsPartition
  <2>3. Crc32(inner) = StatedCrc(inner, bad) <=> ~bad
        BY <1>1, <2>1, BadIsDifferent DEF StatedCrc, Fitting
  <2> QED BY <1>2, <2>2, <2>3 DEF ImageValid
<1>4. /\ payload \in Seq(Cells) /\ Len(payload) = size - 2
      /\ \A i \in 1 .. size - 2 : payload[i] = file[i]
      BY <1>1 DEF PayloadSize, DescriptorSize
<1>5. /\ body \in Seq(Cells) /\ Len(body) <= size - 2
      /\ Len(body) = IF Len(app) <= size - 2 THEN Len(app) ELSE size - 2
      /\ \A i \in 1 .. Len(body) : body[i] = app[i]
  <2>1. PayloadSize(Len(file)) = size - 2 /\ size - 2 \in Nat /\ Len(app) \in Nat
        BY <1>1 DEF PayloadSize, DescriptorSize
  <2> DEFINE m == IF Len(app) <= size - 2 THEN Len(app) ELSE size - 2
  <2>2. body = SubSeq(app, 1, m)
        BY <2>1, MinOfTwo
  <2>3. m \in 0 .. Len(app) /\ m <= size - 2
        BY <1>1, <2>1
  <2> HIDE DEF m, body
  <2>4. body \in Seq(Cells) /\ Len(body) = m /\ \A i \in 1 .. m : body[i] = app[i]
        BY <1>1, <2>2, <2>3
  <2> QED BY <2>3, <2>4 DEF m
<1> HIDE DEF size, inner, payload, body
<1>6. /\ \A i \in 1 .. Len(body) : payload[i] = body[i]
      /\ \A i \in Len(body) + 1 .. Len(payload) : payload[i] = Erased
  <2>1. Len(app) \in Nat /\ Len(body) \in Nat /\ Len(payload) = size - 2
        BY <1>1, <1>4, <1>5
  <2>2. ASSUME NEW i \in 1 .. Len(body) PROVE payload[i] = body[i]
    <3>1. i \in 1 .. size - 2 /\ i <= Len(app)
          BY <1>1, <1>5, <2>1
    <3>2. payload[i] = file[i] /\ file[i] = app[i] /\ body[i] = app[i]
          BY <1>1, <1>4, <1>5, <3>1
    <3> QED BY <3>2
  <2>3. ASSUME NEW i \in Len(body) + 1 .. Len(payload) PROVE payload[i] = Erased
    <3>1. i \in 1 .. size - 2 /\ ~(i <= Len(app))
          BY <1>1, <1>5, <2>1
    <3>2. payload[i] = file[i] /\ file[i] = Erased
          BY <1>1, <1>4, <3>1
    <3> QED BY <3>2
  <2> QED BY <2>2, <2>3
<1>7. StripErased(payload) = StripErased(body)
      BY <1>4, <1>5, <1>6, SameStripped
<1>8. n = 0 => StripErased(body) = <<>>
  <2>1. n = 0 => \A i \in 1 .. Len(payload) : payload[i] = Erased
        BY <1>1, <1>4
  <2> QED BY <1>4, <1>7, <2>1, NothingStripped
<1> QED BY <1>3, <1>7, <1>8 DEF BuiltImageIsTrue, n, payload, body

(* However often append_crc.py is run on its own output, the image holds   *)
(* the application and the device's verdict is the one the last run asked  *)
(* for.                                                                    *)
THEOREM BenchBuildsTrueImages ==
    ASSUME BenchFits
    PROVE  Spec => []BuiltImageIsTrue
<1>1. BenchInv /\ [Next]_vars => BenchInv'
      BY BuildsKeeps, OthersKeep DEF Next
<1>2. BenchInv => BuiltImageIsTrue
      BY FromIsTrue
<1> QED BY <1>1, <1>2, BenchInvInit, PTL DEF Spec

-----------------------------------------------------------------------------
(* What find_in_order finds.                                               *)

Start == [at |-> 0, missing |-> {}]

(* The states of its loop up to round n.                                   *)
Rounds(g, lines, profile, n) ==
    g = [k \in 0 .. n |-> IF k = 0
                          THEN Start
                          ELSE Find(lines, profile, g[k - 1], Required(profile)[k])]

LEMMA OneMoreRound ==
    ASSUME NEW lines, NEW profile, NEW n \in Nat, NEW g, Rounds(g, lines, profile, n)
    PROVE  \E h : Rounds(h, lines, profile, n + 1)
<1> DEFINE h == [k \in 0 .. n + 1 |->
                    IF k <= n THEN g[k]
                    ELSE Find(lines, profile, g[n], Required(profile)[n + 1])]
<1>1. ASSUME NEW k \in 0 .. n + 1
      PROVE  h[k] = IF k = 0
                    THEN Start
                    ELSE Find(lines, profile, h[k - 1], Required(profile)[k])
  <2>1. CASE k = 0
        BY <2>1 DEF Rounds
  <2>2. CASE k \in 1 .. n
    <3>1. k - 1 \in 0 .. n /\ k \in 0 .. n
          BY <2>2
    <3>2. g[k] = Find(lines, profile, g[k - 1], Required(profile)[k])
          BY <2>2, <3>1 DEF Rounds
    <3> QED BY <2>2, <3>1, <3>2
  <2>3. CASE k = n + 1
    <3>1. k # 0 /\ k - 1 = n /\ n \in 0 .. n /\ ~(k <= n)
          BY <2>3
    <3>2. h[n] = g[n]
          BY <3>1
    <3> QED BY <2>3, <3>1, <3>2
  <2> QED BY <2>1, <2>2, <2>3
<1>2. Rounds(h, lines, profile, n + 1)
      BY <1>1 DEF Rounds
<1> QED BY <1>2

(* The least number of a set.                                              *)
LEMMA LeastNumber ==
    ASSUME NEW T, T \subseteq Nat, T # {}
    PROVE  Min(T) \in T /\ \A x \in T : Min(T) <= x
<1>1. PICK t \in T : \A y \in T : ~(<<y, t>> \in OpToRel(<, Nat))
      BY NatLessThanWellFounded, WFMin, Zenon
<1>2. \A y \in T : ~(y < t)
      BY <1>1 DEF OpToRel
<1>3. \A y \in T : t <= y
      BY <1>2
<1> QED BY <1>3 DEF Min

LEMMA RoundsExist ==
    ASSUME NEW lines, NEW profile, NEW n \in Nat
    PROVE  \E g : Rounds(g, lines, profile, n)
<1> DEFINE T == {k \in Nat : ~ \E g : Rounds(g, lines, profile, k)}
<1>1. SUFFICES ASSUME T # {} PROVE FALSE
      OBVIOUS
<1>2. PICK t \in T : \A k \in T : t <= k
      BY <1>1, LeastNumber
<1>3. t \in Nat /\ ~ \E g : Rounds(g, lines, profile, t)
      OBVIOUS
<1>4. CASE t = 0
  <2> DEFINE g == [k \in 0 .. 0 |-> Start]
  <2>1. Rounds(g, lines, profile, 0)
        BY DEF Rounds
  <2> QED BY <1>3, <1>4, <2>1
<1>5. CASE t # 0
  <2>1. t - 1 \in Nat /\ ~(t <= t - 1) /\ (t - 1) + 1 = t
        BY <1>3, <1>5
  <2>2. t - 1 \notin T
        BY <1>2, <2>1
  <2>3. PICK g : Rounds(g, lines, profile, t - 1)
        BY <2>1, <2>2
  <2> QED BY <1>3, <2>1, <2>3, OneMoreRound
<1> QED BY <1>4, <1>5

LEMMA ScansRounds ==
    ASSUME NEW lines, NEW profile, Len(Required(profile)) \in Nat
    PROVE  Rounds(Scans(lines, profile), lines, profile, Len(Required(profile)))
<1>1. PICK n \in Nat : n = Len(Required(profile))
      OBVIOUS
<1>2. Scans(lines, profile) = CHOOSE g : Rounds(g, lines, profile, n)
      BY <1>1 DEF Scans, Rounds, Start
<1>3. \E g : Rounds(g, lines, profile, n)
      BY RoundsExist
<1> QED BY <1>1, <1>2, <1>3

Scan(at, missing) == [at |-> at, missing |-> missing]

IsScan(x) == \E a, m : x = Scan(a, m)

LEMMA FindShape ==
    ASSUME NEW lines, NEW profile, NEW at, NEW missing, NEW token
    PROVE  \E a, m : Find(lines, profile, Scan(at, missing), token) = Scan(a, m)
<1> DEFINE found == Later(lines, at, token)
<1>1. Scan(at, missing).at = at /\ Scan(at, missing).missing = missing
      BY DEF Scan
<1>2. CASE found # {}
  <2>1. Find(lines, profile, Scan(at, missing), token) = Scan(Min(found), missing)
        BY <1>1, <1>2 DEF Find, Scan
  <2> QED BY <2>1
<1>3. CASE found = {} /\ token \in Optional(profile)
  <2>1. Find(lines, profile, Scan(at, missing), token) = Scan(at, missing)
        BY <1>1, <1>3 DEF Find
  <2> QED BY <2>1
<1>4. CASE found = {} /\ token \notin Optional(profile)
  <2>1. Find(lines, profile, Scan(at, missing), token) = Scan(at, missing \cup {token})
        BY <1>1, <1>4 DEF Find, Scan
  <2> QED BY <2>1
<1> QED BY <1>2, <1>3, <1>4

LEMMA RoundsShape ==
    ASSUME NEW lines, NEW profile, NEW n \in Nat, NEW g, Rounds(g, lines, profile, n),
           NEW k \in 0 .. n
    PROVE  IsScan(g[k])
<1> DEFINE T == {j \in 0 .. n : ~IsScan(g[j])}
<1>1. SUFFICES ASSUME T # {} PROVE FALSE
      OBVIOUS
<1>2. PICK t \in T : \A j \in T : t <= j
  <2>1. T \subseteq Nat
        OBVIOUS
  <2> HIDE DEF T
  <2> QED BY <1>1, <2>1, LeastNumber
<1>3. t \in 0 .. n /\ ~IsScan(g[t])
      OBVIOUS
<1>4. t # 0
  <2>1. g[0] = Scan(0, {})
        BY DEF Rounds, Start, Scan
  <2> QED BY <1>3, <2>1 DEF IsScan
<1>5. t - 1 \in 0 .. n /\ ~(t <= t - 1)
      BY <1>3, <1>4
<1>6. PICK a, m : g[t - 1] = Scan(a, m)
      BY <1>2, <1>5 DEF IsScan
<1>7. g[t] = Find(lines, profile, Scan(a, m), Required(profile)[t])
      BY <1>3, <1>4, <1>6 DEF Rounds
<1> QED BY <1>3, <1>7, FindShape DEF IsScan

(* A token that must be there, and comes after what was found so far, is   *)
(* found no later than there.                                              *)
LEMMA FindHits ==
    ASSUME NEW lines, DOMAIN lines \subseteq Nat, NEW profile, NEW at \in Nat, NEW token,
           NEW i \in DOMAIN lines, i > at, Carries(lines[i], token)
    PROVE  \E a \in Nat : a <= i /\ Find(lines, profile, Scan(at, {}), token) = Scan(a, {})
<1> DEFINE found == Later(lines, at, token)
<1>1. i \in found /\ found \subseteq Nat
      BY DEF Later
<1>2. Min(found) \in Nat /\ Min(found) <= i
      BY <1>1, LeastNumber
<1>3. Find(lines, profile, Scan(at, {}), token) = Scan(Min(found), {})
      BY <1>1 DEF Find, Scan
<1> QED BY <1>2, <1>3

(* The lines at the places of f carry the tokens from first to last of the *)
(* profile, in order.                                                      *)
InOrder(f, lines, profile, first, last) ==
    /\ f \in [first .. last -> DOMAIN lines]
    /\ \A k \in first .. last : Carries(lines[f[k]], Required(profile)[k])
    /\ \A k \in first + 1 .. last : f[k - 1] < f[k]

(* Then find_in_order gets no further than they are, and misses none.      *)
LEMMA OrderIsFound ==
    ASSUME NEW lines, DOMAIN lines \subseteq Nat \ {0}, NEW profile,
           NEW n \in Nat, n = Len(Required(profile)), NEW first \in 1 .. n,
           Scans(lines, profile)[first - 1] = Scan(0, {}),
           NEW f, InOrder(f, lines, profile, first, n)
    PROVE  FindInOrder(lines, profile)
<1> DEFINE g == Scans(lines, profile)
<1>0. Rounds(g, lines, profile, n)
      BY ScansRounds
<1> HIDE DEF g
<1> DEFINE Hit(k) == \E a \in Nat : a <= f[k] /\ g[k] = Scan(a, {})
           T == {k \in first .. n : ~Hit(k)}
<1>1. T = {}
  <2>1. SUFFICES ASSUME T # {} PROVE FALSE
        OBVIOUS
  <2>2. PICK t \in T : \A j \in T : t <= j
    <3>1. T \subseteq Nat
          OBVIOUS
    <3> HIDE DEF T
    <3> QED BY <2>1, <3>1, LeastNumber
  <2>3. t \in first .. n /\ ~Hit(t) /\ f[t] \in DOMAIN lines
        BY DEF InOrder
  <2>4. PICK at \in Nat : at < f[t] /\ g[t - 1] = Scan(at, {})
    <3>1. CASE t = first
      <4>1. g[t - 1] = Scan(0, {}) /\ 0 < f[t]
            BY <2>3, <3>1 DEF g
      <4> QED BY <4>1
    <3>2. CASE t # first
      <4>1. t - 1 \in first .. n /\ t \in first + 1 .. n /\ ~(t <= t - 1)
            BY <2>3, <3>2
      <4>2. Hit(t - 1) /\ f[t - 1] < f[t] /\ f[t - 1] \in Nat /\ f[t] \in Nat
            BY <2>2, <4>1 DEF InOrder
      <4>3. PICK a \in Nat : a <= f[t - 1] /\ g[t - 1] = Scan(a, {})
            BY <4>2
      <4>4. a < f[t]
            BY <4>2, <4>3
      <4> QED BY <4>3, <4>4
    <3> QED BY <3>1, <3>2
  <2>5. g[t] = Find(lines, profile, Scan(at, {}), Required(profile)[t])
    <3>1. t \in 0 .. n /\ t # 0
          BY <2>3
    <3> QED BY <1>0, <2>4, <3>1 DEF Rounds
  <2>6. Carries(lines[f[t]], Required(profile)[t])
        BY <2>3 DEF InOrder
  <2>7. DOMAIN lines \subseteq Nat
        OBVIOUS
  <2>8. Hit(t)
        BY <2>3, <2>4, <2>5, <2>6, <2>7, FindHits
  <2> QED BY <2>3, <2>8
<1>2. n \in first .. n
      OBVIOUS
<1>3. g[n].missing = {}
  <2>1. Hit(n)
        BY <1>1, <1>2
  <2> QED BY <2>1 DEF Scan
<1> QED BY <1>3 DEF FindInOrder, g

(* What must be found last is somewhere.                                   *)
LEMMA FoundLast ==
    ASSUME NEW lines, NEW profile, NEW n \in Nat, n = Len(Required(profile)), n # 0,
           Required(profile)[n] \notin Optional(profile), FindInOrder(lines, profile)
    PROVE  \E i \in DOMAIN lines : Carries(lines[i], Required(profile)[n])
<1> DEFINE token == Required(profile)[n]
<1> PICK g : g = Scans(lines, profile)
    OBVIOUS
<1>1. Rounds(g, lines, profile, n) /\ g[n].missing = {}
      BY ScansRounds DEF FindInOrder
<1>2. PICK k \in 0 .. n : k = n - 1
      OBVIOUS
<1>3. PICK a, m : g[k] = Scan(a, m)
  <2>1. IsScan(g[k])
        BY <1>1, RoundsShape
  <2> QED BY <2>1 DEF IsScan
<1>4. g[n] = Find(lines, profile, Scan(a, m), token)
  <2>1. n \in 0 .. n
        OBVIOUS
  <2> QED BY <1>1, <1>2, <1>3, <2>1 DEF Rounds
<1>5. CASE Later(lines, a, token) # {}
      BY <1>5 DEF Later
<1>6. CASE Later(lines, a, token) = {}
  <2>1. g[n] = Scan(a, m \cup {token})
        BY <1>4, <1>6 DEF Find, Scan
  <2> QED BY <1>1, <2>1 DEF Scan
<1> QED BY <1>5, <1>6

(* What the profiles ask for.                                              *)
LEMMA NormalAsks ==
    LET required == Required("normal")
    IN /\ Len(required) = 8
       /\ required[1] = "DECISION_ANY" /\ required[2] = "APP_CRC_CHECK"
       /\ required[3] = "APP_CRC_OK" /\ required[4] = "LOAD_APP" /\ required[5] = "HANDOFF"
       /\ required[6] = "HANDOFF_APP" /\ required[7] = "START"
       /\ required[8] = "BOOTLOADER_HANDOFF_OK"
BY DEF Required

LEMMA UpdateAsks ==
    LET required == Required("update")
    IN /\ Len(required) = 3
       /\ required[1] = "READY_FOR_UPDATE" /\ required[2] = "READY_FOR_CHUNK"
       /\ required[3] = "UPDATE_SESSION_END"
BY DEF Required

(* What a board says.                                                      *)
Said == {"DECISION_NORMAL", "DECISION_UPDATE", "DECISION_RECOVERY", "READY_FOR_UPDATE",
         "READY_FOR_CHUNK", "UPDATE_SESSION_END", "RECOVERY_CMD_STATUS", "APP_CRC_CHECK",
         "APP_CRC_OK", "APP_CRC_FAIL", "LOAD_APP", "HANDOFF", "HANDOFF_APP", "START",
         "BOOTLOADER_HANDOFF_OK"}

Captured == [token : Said, stall : BOOLEAN]

(* No line of recovery or of a failed check: both other tests pass.        *)
LEMMA QuietPasses ==
    ASSUME log \in Seq(Captured), Tokens \cap {"DECISION_RECOVERY", "APP_CRC_FAIL"} = {}
    PROVE  CheckRecovery(log, FALSE) /\ CheckCrcFailSafety(log)
<1>1. ASSUME NEW i \in DOMAIN log, NEW t \in {"DECISION_RECOVERY", "APP_CRC_FAIL"},
             Carries(log[i], t)
      PROVE  FALSE
  <2>1. log[i].token = t /\ log[i].token \in Tokens
        BY <1>1 DEF Carries, Tokens
  <2> QED BY <2>1
<1> QED BY <1>1 DEF CheckRecovery, CheckCrcFailSafety, HandoffAfter

(* A session without its prompt: the prompt is optional, and the rest is   *)
(* looked for from the start of the log.                                   *)
LEMMA LatePasses == log \in Seq(Captured) => LateCapturePasses
<1> SUFFICES ASSUME log \in Seq(Captured), NEW i \in DOMAIN log, NEW j \in DOMAIN log, i < j,
                    log[i].token = "READY_FOR_CHUNK", log[j].token = "UPDATE_SESSION_END",
                    "READY_FOR_UPDATE" \notin Tokens,
                    Tokens \cap {"DECISION_RECOVERY", "APP_CRC_FAIL"} = {}
             PROVE  Validates(log, "update", FALSE)
    BY DEF LateCapturePasses
<1> DEFINE g == Scans(log, "update")
           f == [k \in 2 .. 3 |-> IF k = 2 THEN i ELSE j]
<1>1. Rounds(g, log, "update", 3)
  <2>1. Len(Required("update")) = 3
        BY UpdateAsks
  <2> HIDE DEF g
  <2>2. Rounds(Scans(log, "update"), log, "update", Len(Required("update")))
        BY <2>1, ScansRounds
  <2> QED BY <2>1, <2>2 DEF g
<1>2. g[1] = Scan(0, {})
  <2>1. Later(log, 0, "READY_FOR_UPDATE") = {}
    <3>1. ASSUME NEW k \in DOMAIN log, Carries(log[k], "READY_FOR_UPDATE")
          PROVE  FALSE
      <4>1. log[k].token = "READY_FOR_UPDATE"
            BY <3>1 DEF Carries
      <4> QED BY <4>1 DEF Tokens
    <3> QED BY <3>1 DEF Later
  <2>2. "READY_FOR_UPDATE" \in Optional("update")
        BY DEF Optional
  <2>3. g[0] = Scan(0, {}) /\ g[1] = Find(log, "update", g[0], "READY_FOR_UPDATE")
    <3> HIDE DEF g
    <3>1. 0 \in 0 .. 3 /\ 1 \in 0 .. 3 /\ 1 - 1 = 0
          OBVIOUS
    <3> QED BY <1>1, <3>1, UpdateAsks DEF Rounds, Start, Scan
  <2>4. Find(log, "update", Scan(0, {}), "READY_FOR_UPDATE") = Scan(0, {})
        BY <2>1, <2>2 DEF Find, Scan
  <2> HIDE DEF g
  <2> QED BY <2>3, <2>4
<1>3. InOrder(f, log, "update", 2, 3)
  <2>1. f \in [2 .. 3 -> DOMAIN log] /\ f[2] = i /\ f[3] = j
        OBVIOUS
  <2>2. Carries(log[i], Required("update")[2]) /\ Carries(log[j], Required("update")[3])
        BY UpdateAsks DEF Carries
  <2> HIDE DEF f
  <2>3. \A k \in 2 .. 3 : k = 2 \/ k = 3
        OBVIOUS
  <2>4. \A k \in 2 + 1 .. 3 : k = 3 /\ k - 1 = 2
        OBVIOUS
  <2> QED BY <2>1, <2>2, <2>3, <2>4 DEF InOrder
<1>4. FindInOrder(log, "update")
  <2>1. DOMAIN log \subseteq Nat \ {0}
        OBVIOUS
  <2>2. Scans(log, "update")[2 - 1] = Scan(0, {})
        BY <1>2
  <2>3. 3 \in Nat /\ 2 \in 1 .. 3 /\ 3 = Len(Required("update"))
        BY UpdateAsks
  <2> HIDE DEF f, g
  <2> QED BY <1>3, <2>1, <2>2, <2>3, OrderIsFound
<1> QED BY <1>4, QuietPasses DEF Validates

-----------------------------------------------------------------------------
(* What a log shows of the boots.                                          *)

(* The log shows a boot up to token n of the profile "normal".             *)
Shows(n) == \E f : InOrder(f, log, "normal", 1, n)

HandedOff == HandoffAfter(log, "DECISION_RECOVERY")

(* The tokens are behind what was captured before.                         *)
Extended(tokens) ==
    /\ DOMAIN log' = 1 .. Len(log) + Len(tokens)
    /\ \A i \in DOMAIN log : i \in DOMAIN log' /\ log'[i] = log[i]
    /\ \A k \in DOMAIN tokens : /\ Len(log) + k \in DOMAIN log'
                                /\ log'[Len(log) + k].token = tokens[k]
    /\ Tokens' = Tokens \cup ToSet(tokens)

LEMMA JoinedAt ==
    ASSUME NEW S, NEW s \in Seq(S), NEW t \in Seq(S)
    PROVE  /\ Len(s) \in Nat /\ Len(t) \in Nat
           /\ DOMAIN s = 1 .. Len(s) /\ DOMAIN t = 1 .. Len(t)
           /\ s \o t \in Seq(S) /\ DOMAIN (s \o t) = 1 .. Len(s) + Len(t)
           /\ \A i \in 1 .. Len(s) : (s \o t)[i] = s[i]
           /\ \A k \in 1 .. Len(t) : (s \o t)[Len(s) + k] = t[k]
OBVIOUS

LEMMA CapturedJoined ==
    ASSUME NEW s \in Seq(Captured), NEW t \in Seq(Captured)
    PROVE  /\ Len(s) \in Nat /\ Len(t) \in Nat
           /\ DOMAIN s = 1 .. Len(s) /\ DOMAIN t = 1 .. Len(t)
           /\ s \o t \in Seq(Captured) /\ DOMAIN (s \o t) = 1 .. Len(s) + Len(t)
           /\ \A i \in 1 .. Len(s) : (s \o t)[i] = s[i]
           /\ \A k \in 1 .. Len(t) : (s \o t)[Len(s) + k] = t[k]
BY JoinedAt

LEMMA ExtendedBy ==
    ASSUME log \in Seq(Captured), NEW tokens \in Seq(Said), NEW new \in Seq(Captured),
           Len(new) = Len(tokens), log' = log \o new,
           \A k \in DOMAIN tokens : new[k].token = tokens[k]
    PROVE  log' \in Seq(Captured) /\ Extended(tokens)
<1>1. /\ Len(log) \in Nat /\ Len(new) \in Nat
      /\ DOMAIN log = 1 .. Len(log) /\ DOMAIN new = 1 .. Len(new)
      /\ DOMAIN tokens = 1 .. Len(new)
      /\ log' \in Seq(Captured) /\ DOMAIN log' = 1 .. Len(log) + Len(new)
      /\ \A i \in 1 .. Len(log) : log'[i] = log[i]
      /\ \A k \in 1 .. Len(new) : log'[Len(log) + k] = new[k]
  <2>1. DOMAIN tokens = 1 .. Len(new)
        OBVIOUS
  <2>2. PICK old \in Seq(Captured) : old = log
        OBVIOUS
  <2>3. /\ Len(old) \in Nat /\ Len(new) \in Nat
        /\ DOMAIN old = 1 .. Len(old) /\ DOMAIN new = 1 .. Len(new)
        /\ old \o new \in Seq(Captured) /\ DOMAIN (old \o new) = 1 .. Len(old) + Len(new)
        /\ \A i \in 1 .. Len(old) : (old \o new)[i] = old[i]
        /\ \A k \in 1 .. Len(new) : (old \o new)[Len(old) + k] = new[k]
        BY CapturedJoined
  <2> QED BY <2>1, <2>2, <2>3
<1>2. \A i \in DOMAIN log : i \in DOMAIN log' /\ log'[i] = log[i]
      BY <1>1
<1>3. \A k \in DOMAIN tokens : /\ Len(log) + k \in DOMAIN log'
                               /\ log'[Len(log) + k].token = tokens[k]
      BY <1>1
<1>4. \A i \in DOMAIN log' : i \in DOMAIN log \/ \E k \in DOMAIN tokens : i = Len(log) + k
  <2>1. TAKE i \in DOMAIN log'
  <2>2. CASE i <= Len(log)
        BY <1>1, <2>2
  <2>3. CASE i > Len(log)
    <3>1. i - Len(log) \in DOMAIN tokens /\ i = Len(log) + (i - Len(log))
          BY <1>1, <2>3
    <3> QED BY <3>1
  <2> QED BY <1>1, <2>2, <2>3
<1>5. Tokens' = Tokens \cup ToSet(tokens)
  <2>1. ASSUME NEW t \in Tokens' PROVE t \in Tokens \cup ToSet(tokens)
    <3>1. PICK i \in DOMAIN log' : t = log'[i].token
          BY <2>1 DEF Tokens
    <3> QED BY <1>2, <1>3, <1>4, <3>1 DEF Tokens, ToSet
  <2>2. ASSUME NEW t \in Tokens PROVE t \in Tokens'
        BY <1>2, <2>2 DEF Tokens
  <2>3. ASSUME NEW t \in ToSet(tokens) PROVE t \in Tokens'
    <3>1. PICK k \in DOMAIN tokens : t = tokens[k]
          BY <2>3 DEF ToSet
    <3> QED BY <1>3, <3>1 DEF Tokens
  <2> QED BY <2>1, <2>2, <2>3
<1> QED BY <1>1, <1>2, <1>3, <1>5 DEF Extended

LEMMA PrintsCaptured ==
    ASSUME log \in Seq(Captured), lost \in BOOLEAN, NEW tokens \in Seq(Said), Prints(tokens)
    PROVE  /\ log' \in Seq(Captured) /\ lost' \in BOOLEAN
           /\ \/ lost' = TRUE /\ log' = log /\ Tokens' = Tokens
              \/ lost' = lost /\ Extended(tokens)
<1>1. CASE port = "open"
  <2> DEFINE new == [i \in DOMAIN tokens |-> Line(tokens[i])]
  <2>1. /\ new \in Seq(Captured) /\ Len(new) = Len(tokens)
        /\ \A k \in DOMAIN tokens : new[k].token = tokens[k]
    <3>1. DOMAIN tokens = 1 .. Len(tokens) /\ Len(tokens) \in Nat
          OBVIOUS
    <3>2. \A k \in DOMAIN tokens : /\ new[k] = Line(tokens[k])
                                   /\ Line(tokens[k]) \in Captured /\ new[k].token = tokens[k]
          BY DEF Line, Captured
    <3> QED BY <3>1, <3>2
  <2>2. log' = log \o new /\ lost' = lost
        BY <1>1 DEF Prints
  <2> HIDE DEF new
  <2> QED BY <2>1, <2>2, ExtendedBy
<1>2. CASE port # "open"
      BY <1>2 DEF Prints, Tokens
<1> QED BY <1>1, <1>2

(* What the log showed it goes on to show.                                 *)
LEMMA StillShown ==
    ASSUME NEW tokens \in Seq(Said), Extended(tokens)
    PROVE  /\ HandedOff => HandedOff'
           /\ \A n \in Nat : Shows(n) => Shows(n)'
<1>1. \A i \in DOMAIN log : i \in DOMAIN log' /\ log'[i] = log[i]
      BY DEF Extended
<1>2. ASSUME NEW n \in Nat, NEW f, InOrder(f, log, "normal", 1, n)
      PROVE  InOrder(f, log', "normal", 1, n)
  <2>1. f \in [1 .. n -> DOMAIN log']
        BY <1>1, <1>2 DEF InOrder
  <2>2. \A k \in 1 .. n : f[k] \in DOMAIN log /\ log'[f[k]] = log[f[k]]
        BY <1>1, <1>2 DEF InOrder
  <2> QED BY <1>2, <2>1, <2>2 DEF InOrder
<1>3. HandedOff => HandedOff'
      BY <1>1 DEF HandedOff, HandoffAfter
<1> QED BY <1>2, <1>3 DEF Shows

(* The tokens to come, printed one behind the other, are shown then.       *)
LEMMA ShowsMore ==
    ASSUME log \in Seq(Captured), NEW tokens \in Seq(Said), Extended(tokens),
           NEW n \in Nat, NEW m \in Nat, NEW skip \in Nat, Shows(n),
           \A k \in n + 1 .. m : /\ skip + k - n \in DOMAIN tokens
                                 /\ Carries(Line(tokens[skip + k - n]), Required("normal")[k])
    PROVE  Shows(m)'
<1>1. PICK f : InOrder(f, log, "normal", 1, n)
      BY DEF Shows
<1>0. Len(log) \in Nat /\ DOMAIN log = 1 .. Len(log)
      OBVIOUS
<1> DEFINE h == [k \in 1 .. m |-> IF k <= n THEN f[k] ELSE Len(log) + (skip + k - n)]
<1>2. ASSUME NEW k \in 1 .. m, k <= n
      PROVE  /\ h[k] = f[k] /\ f[k] \in DOMAIN log /\ f[k] \in DOMAIN log'
             /\ Carries(log'[f[k]], Required("normal")[k])
  <2>1. k \in 1 .. n
        BY <1>2
  <2> QED BY <1>1, <1>2, <2>1 DEF InOrder, Extended
<1>3. ASSUME NEW k \in 1 .. m, k > n
      PROVE  /\ h[k] = Len(log) + (skip + k - n) /\ h[k] \in DOMAIN log'
             /\ Carries(log'[h[k]], Required("normal")[k])
  <2>1. k \in n + 1 .. m /\ h[k] = Len(log) + (skip + k - n)
        BY <1>3
  <2>2. PICK j \in DOMAIN tokens : /\ j = skip + k - n
                                   /\ Carries(Line(tokens[j]), Required("normal")[k])
        BY <2>1
  <2>3. h[k] \in DOMAIN log' /\ log'[h[k]].token = tokens[j]
        BY <2>1, <2>2 DEF Extended
  <2> HIDE DEF h
  <2> QED BY <2>1, <2>2, <2>3 DEF Carries, Line
<1>4. h \in [1 .. m -> DOMAIN log']
  <2>1. ASSUME NEW k \in 1 .. m
        PROVE  h[k] \in DOMAIN log'
    <3>1. CASE k <= n
          BY <1>2, <3>1
    <3>2. CASE k > n
          BY <1>3, <3>2
    <3> QED BY <3>1, <3>2
  <2>2. h = [k \in 1 .. m |-> h[k]]
        OBVIOUS
  <2> HIDE DEF h
  <2> QED BY <2>1, <2>2
<1>5. ASSUME NEW k \in 1 + 1 .. m
      PROVE  h[k - 1] < h[k]
  <2>1. k - 1 \in 1 .. m /\ k \in 1 .. m
        BY <1>5
  <2>2. CASE k <= n
    <3>1. k \in 1 + 1 .. n /\ k - 1 <= n
          BY <1>5, <2>2
    <3>2. f[k - 1] < f[k]
          BY <1>1, <3>1 DEF InOrder
    <3> QED BY <1>2, <2>1, <2>2, <3>1, <3>2
  <2>3. CASE k = n + 1
    <3>1. k - 1 = n /\ k - 1 <= n /\ k > n
          BY <2>3
    <3>2. h[k - 1] \in DOMAIN log
          BY <1>2, <2>1, <3>1
    <3>3. h[k] = Len(log) + (skip + k - n)
          BY <1>3, <2>1, <3>1
    <3>4. h[k] = Len(log) + (skip + 1)
          BY <2>3, <3>3
    <3> HIDE DEF h
    <3>5. h[k - 1] \in Nat /\ h[k - 1] <= Len(log)
          BY <1>0, <3>2
    <3> QED BY <1>0, <3>4, <3>5
  <2>4. CASE k > n + 1
    <3>1. k - 1 > n /\ k > n
          BY <2>4
    <3>2. h[k - 1] = Len(log) + (skip + (k - 1) - n) /\ h[k] = Len(log) + (skip + k - n)
          BY <1>3, <2>1, <3>1
    <3> HIDE DEF h
    <3> QED BY <1>0, <3>2
  <2> QED BY <2>2, <2>3, <2>4
<1> HIDE DEF h
<1>6. InOrder(h, log', "normal", 1, m)
  <2>1. \A k \in 1 .. m : Carries(log'[h[k]], Required("normal")[k])
    <3>1. TAKE k \in 1 .. m
    <3>2. CASE k <= n
          BY <1>2, <3>2
    <3>3. CASE k > n
          BY <1>3, <3>3
    <3> QED BY <3>2, <3>3
  <2> QED BY <1>4, <1>5, <2>1 DEF InOrder
<1> QED BY <1>6 DEF Shows

(* What a complete log shows of the boot that runs, and of the             *)
(* applications that were started.                                         *)
PathTrue ==
    /\ recovered => "DECISION_RECOVERY" \in Tokens
    /\ recovered /\ pc = "jump" => HandedOff
    /\ "recovered" \in ran => HandedOff
    /\ ~recovered /\ pc \in {"check", "session", "chunks"} => Shows(1)
    /\ ~recovered /\ pc = "load" => Shows(3)
    /\ ~recovered /\ pc = "jump" => Shows(6)
    /\ "direct" \in ran => Shows(8)

(* A stall quotes the line before it, and nothing comes between the two    *)
(* lines of a handoff.                                                     *)
Follows ==
    \A i \in DOMAIN log :
        /\ log[i].stall => i - 1 \in DOMAIN log /\ log[i - 1].token = log[i].token
        /\ ~log[i].stall /\ log[i].token = "HANDOFF_APP" =>
               i - 1 \in DOMAIN log /\ log[i - 1] = Line("HANDOFF")

LogTrue ==
    /\ log \in Seq(Captured) /\ Follows
    /\ lost \in BOOLEAN /\ recovered \in BOOLEAN
    /\ ran \subseteq {"direct", "recovered"}
    /\ pc = "recovery" => recovered
    /\ "BOOTLOADER_HANDOFF_OK" \in Tokens => ran # {}
    /\ ~lost => PathTrue

LEMMA PrintsFollow ==
    ASSUME log \in Seq(Captured), Follows, NEW tokens \in Seq(Said), Prints(tokens),
           \A k \in DOMAIN tokens : tokens[k] = "HANDOFF_APP" =>
                                        k - 1 \in DOMAIN tokens /\ tokens[k - 1] = "HANDOFF"
    PROVE  Follows'
<1>1. CASE port # "open"
  <2>1. log' = log
        BY <1>1 DEF Prints
  <2> QED BY <2>1 DEF Follows
<1>2. CASE port = "open"
  <2> DEFINE new == [i \in DOMAIN tokens |-> Line(tokens[i])]
  <2>1. DOMAIN tokens = 1 .. Len(tokens) /\ Len(tokens) \in Nat
        OBVIOUS
  <2>2. new \in Seq(Captured) /\ Len(new) = Len(tokens)
    <3>1. \A k \in DOMAIN tokens : Line(tokens[k]) \in Captured
          BY DEF Line, Captured
    <3> QED BY <2>1, <3>1
  <2>3. log' = log \o new /\ \A k \in DOMAIN tokens : new[k] = Line(tokens[k])
        BY <1>2 DEF Prints
  <2> HIDE DEF new
  <2>4. /\ Len(log) \in Nat /\ DOMAIN log = 1 .. Len(log)
        /\ DOMAIN log' = 1 .. Len(log) + Len(tokens)
        /\ \A i \in 1 .. Len(log) : log'[i] = log[i]
        /\ \A k \in 1 .. Len(tokens) : log'[Len(log) + k] = Line(tokens[k])
    <3>1. PICK old \in Seq(Captured) : old = log
          OBVIOUS
    <3>2. /\ Len(old) \in Nat /\ DOMAIN old = 1 .. Len(old)
          /\ DOMAIN (old \o new) = 1 .. Len(old) + Len(new)
          /\ \A i \in 1 .. Len(old) : (old \o new)[i] = old[i]
          /\ \A k \in 1 .. Len(new) : (old \o new)[Len(old) + k] = new[k]
          BY <2>2, CapturedJoined
    <3> QED BY <2>1, <2>2, <2>3, <3>1, <3>2
  <2>5. ASSUME NEW i \in DOMAIN log', i <= Len(log)
        PROVE  /\ log'[i].stall => i - 1 \in DOMAIN log' /\ log'[i - 1].token = log'[i].token
               /\ ~log'[i].stall /\ log'[i].token = "HANDOFF_APP" =>
                      i - 1 \in DOMAIN log' /\ log'[i - 1] = Line("HANDOFF")
    <3>1. i \in DOMAIN log /\ log'[i] = log[i]
          BY <2>4, <2>5
    <3>2. ASSUME i - 1 \in DOMAIN log
          PROVE  i - 1 \in DOMAIN log' /\ log'[i - 1] = log[i - 1]
          BY <2>1, <2>4, <3>2
    <3> QED BY <3>1, <3>2 DEF Follows
  <2>6. ASSUME NEW i \in DOMAIN log', ~(i <= Len(log))
        PROVE  /\ ~log'[i].stall
               /\ log'[i].token = "HANDOFF_APP" =>
                      i - 1 \in DOMAIN log' /\ log'[i - 1] = Line("HANDOFF")
    <3>1. PICK k \in DOMAIN tokens : k = i - Len(log) /\ i = Len(log) + k
          BY <2>1, <2>4, <2>6
    <3>2. log'[i] = Line(tokens[k])
          BY <2>1, <2>4, <3>1
    <3>3. ASSUME tokens[k] = "HANDOFF_APP"
          PROVE  i - 1 \in DOMAIN log' /\ log'[i - 1] = Line("HANDOFF")
      <4>1. k - 1 \in DOMAIN tokens /\ tokens[k - 1] = "HANDOFF"
            BY <3>3
      <4>2. i - 1 = Len(log) + (k - 1) /\ i - 1 \in DOMAIN log'
        <5>1. PICK n \in Nat : n = Len(log)
              BY <2>4
        <5>2. k \in 1 .. Len(tokens) /\ k - 1 \in 1 .. Len(tokens) /\ i = n + k
              BY <2>1, <3>1, <4>1, <5>1
        <5>3. i - 1 = n + (k - 1) /\ n + (k - 1) \in 1 .. n + Len(tokens)
              BY <2>1, <5>2
        <5> QED BY <2>4, <5>1, <5>3
      <4>3. log'[Len(log) + (k - 1)] = Line(tokens[k - 1])
            BY <2>1, <2>4, <4>1
      <4> QED BY <4>1, <4>2, <4>3
    <3> QED BY <3>2, <3>3 DEF Line
  <2> QED BY <2>5, <2>6 DEF Follows
<1> QED BY <1>1, <1>2

LEMMA StallFollows ==
    ASSUME log \in Seq(Captured), Follows, log # <<>>,
           log' = Append(log, StallLine(Quoted(log)))
    PROVE  Follows'
<1>1. /\ Len(log) \in Nat /\ DOMAIN log = 1 .. Len(log) /\ Len(log) \in DOMAIN log
      /\ DOMAIN log' = 1 .. Len(log) + 1
      /\ \A i \in 1 .. Len(log) : log'[i] = log[i]
      /\ log'[Len(log) + 1] = StallLine(Quoted(log))
      OBVIOUS
<1>2. Quoted(log) = log[Len(log)].token
      BY DEF Quoted, Last
<1>3. ASSUME NEW i \in DOMAIN log', i <= Len(log)
      PROVE  /\ log'[i].stall => i - 1 \in DOMAIN log' /\ log'[i - 1].token = log'[i].token
             /\ ~log'[i].stall /\ log'[i].token = "HANDOFF_APP" =>
                    i - 1 \in DOMAIN log' /\ log'[i - 1] = Line("HANDOFF")
  <2>1. i \in DOMAIN log /\ log'[i] = log[i]
        BY <1>1, <1>3
  <2>2. ASSUME i - 1 \in DOMAIN log
        PROVE  i - 1 \in DOMAIN log' /\ log'[i - 1] = log[i - 1]
        BY <1>1, <2>2
  <2> QED BY <2>1, <2>2 DEF Follows
<1>4. ASSUME NEW i \in DOMAIN log', ~(i <= Len(log))
      PROVE  /\ log'[i].stall
             /\ i - 1 \in DOMAIN log' /\ log'[i - 1].token = log'[i].token
  <2>1. i = Len(log) + 1 /\ i - 1 = Len(log) /\ i - 1 \in DOMAIN log'
        BY <1>1, <1>4
  <2>2. log'[i] = StallLine(Quoted(log)) /\ log'[i - 1] = log[Len(log)]
        BY <1>1, <2>1
  <2> QED BY <1>2, <2>1, <2>2 DEF StallLine
<1> QED BY <1>3, <1>4 DEF Follows

(* A step that prints and starts no application.                           *)
LEMMA PrintsTrue ==
    ASSUME LogTrue, NEW tokens \in Seq(Said), Prints(tokens), ran' = ran,
           ToSet(tokens) \cap {"HANDOFF_APP", "BOOTLOADER_HANDOFF_OK"} = {},
           recovered' \in BOOLEAN, pc' = "recovery" => recovered', pc' # "jump",
           recovered' => recovered \/ "DECISION_RECOVERY" \in ToSet(tokens),
           ~lost /\ ~recovered' /\ Extended(tokens) =>
               /\ pc' \in {"check", "session", "chunks"} => Shows(1)'
               /\ pc' = "load" => Shows(3)'
    PROVE  LogTrue'
<1>1. /\ log' \in Seq(Captured) /\ lost' \in BOOLEAN
      /\ \/ lost' = TRUE /\ Tokens' = Tokens
         \/ lost' = lost /\ Extended(tokens)
      BY PrintsCaptured DEF LogTrue
<1>2. Tokens' \subseteq Tokens \cup ToSet(tokens)
      BY <1>1 DEF Extended
<1>3. "BOOTLOADER_HANDOFF_OK" \in Tokens' => ran' # {}
      BY <1>2 DEF LogTrue
<1>4. ASSUME ~lost'
      PROVE  PathTrue'
  <2>1. ~lost /\ Extended(tokens) /\ PathTrue
        BY <1>1, <1>4 DEF LogTrue
  <2>2. HandedOff => HandedOff'
        BY <2>1, StillShown
  <2>3. Shows(8) => Shows(8)'
    <3>1. 8 \in Nat
          OBVIOUS
    <3> QED BY <2>1, <3>1, StillShown
  <2>4. recovered' => "DECISION_RECOVERY" \in Tokens'
        BY <2>1 DEF PathTrue, Extended
  <2> QED BY <2>1, <2>2, <2>3, <2>4 DEF PathTrue
<1>5. Follows'
  <2>1. \A k \in DOMAIN tokens : tokens[k] # "HANDOFF_APP"
        BY DEF ToSet
  <2> QED BY <2>1, PrintsFollow DEF LogTrue
<1> QED BY <1>1, <1>3, <1>4, <1>5 DEF LogTrue

(* The log grows by a line that says nothing new, or not at all.           *)
LEMMA QuietTrue ==
    ASSUME LogTrue, UNCHANGED <<lost, ran>>, pc' = pc \/ pc' \in {"built", "select"},
           recovered' = recovered \/ (recovered' = FALSE /\ pc' = "select"),
           log' = log \/ (log # <<>> /\ log' = Append(log, StallLine(Quoted(log))))
    PROVE  LogTrue'
<1>1. log \in Seq(Captured)
      BY DEF LogTrue
<1>2. PICK tokens \in Seq(Said) : /\ Extended(tokens) /\ log' \in Seq(Captured)
                                    /\ ToSet(tokens) \subseteq Tokens
  <2>1. CASE log' = log
    <3>1. Extended(<<>>) /\ <<>> \in Seq(Said) /\ ToSet(<<>>) = {}
          BY <1>1, <2>1 DEF Extended, Tokens, ToSet
    <3> QED BY <1>1, <2>1, <3>1
  <2>2. CASE log # <<>> /\ log' = Append(log, StallLine(Quoted(log)))
    <3>1. PICK t \in Tokens : log' = Append(log, StallLine(t))
      <4>1. Len(log) \in DOMAIN log
            BY <1>1, <2>2
      <4>2. Quoted(log) \in Tokens
            BY <4>1 DEF Quoted, Tokens, Last
      <4> QED BY <2>2, <4>2
    <3>2. t \in Said
      <4>1. PICK i \in DOMAIN log : t = log[i].token
            BY DEF Tokens
      <4>2. log[i] \in Captured
            BY <1>1
      <4> QED BY <4>1, <4>2 DEF Captured
    <3>3. StallLine(t) \in Captured /\ StallLine(t).token = t
          BY <3>2 DEF StallLine, Captured
    <3> DEFINE new == <<StallLine(t)>>
    <3>4. /\ new \in Seq(Captured) /\ Len(new) = 1 /\ new[1].token = t
          /\ <<t>> \in Seq(Said) /\ Len(<<t>>) = 1 /\ DOMAIN <<t>> = {1} /\ <<t>>[1] = t
          BY <3>2, <3>3
    <3>5. log' = log \o new
          BY <1>1, <3>1, <3>3
    <3> HIDE DEF new
    <3>6. Extended(<<t>>) /\ log' \in Seq(Captured)
          BY <1>1, <3>4, <3>5, ExtendedBy
    <3>7. ToSet(<<t>>) \subseteq Tokens
          BY <3>4 DEF ToSet
    <3> QED BY <3>4, <3>6, <3>7
  <2> QED BY <2>1, <2>2
<1>3. Tokens' = Tokens
      BY <1>2 DEF Extended
<1>4. HandedOff => HandedOff'
      BY <1>2, StillShown
<1>5. /\ Shows(1) => Shows(1)' 
      /\ Shows(3) => Shows(3)'
      /\ Shows(6) => Shows(6)'
      /\ Shows(8) => Shows(8)'
  <2>1. 1 \in Nat /\ 3 \in Nat /\ 6 \in Nat /\ 8 \in Nat
        OBVIOUS
  <2> QED BY <1>2, <2>1, StillShown
<1>6. PathTrue => PathTrue'
      BY <1>3, <1>4, <1>5 DEF PathTrue
<1>7. Follows'
  <2>1. CASE log' = log
        BY <2>1 DEF LogTrue, Follows
  <2>2. CASE log # <<>> /\ log' = Append(log, StallLine(Quoted(log)))
        BY <2>2, StallFollows DEF LogTrue
  <2> QED BY <2>1, <2>2
<1> QED BY <1>2, <1>3, <1>6, <1>7 DEF LogTrue

(* What a token list says.                                                 *)
LEMMA SaysOne ==
    ASSUME NEW S, NEW a \in S
    PROVE  /\ <<a>> \in Seq(S) /\ DOMAIN <<a>> = {1} /\ <<a>>[1] = a
           /\ ToSet(<<a>>) = {a}
<1>1. <<a>> \in Seq(S) /\ DOMAIN <<a>> = {1} /\ <<a>>[1] = a
      OBVIOUS
<1> QED BY <1>1 DEF ToSet

LEMMA SaysTwo ==
    ASSUME NEW S, NEW a \in S, NEW b \in S
    PROVE  /\ <<a, b>> \in Seq(S) /\ DOMAIN <<a, b>> = {1, 2}
           /\ <<a, b>>[1] = a /\ <<a, b>>[2] = b
           /\ ToSet(<<a, b>>) = {a, b}
<1>1. /\ <<a, b>> \in Seq(S) /\ DOMAIN <<a, b>> = {1, 2}
      /\ <<a, b>>[1] = a /\ <<a, b>>[2] = b
      OBVIOUS
<1> QED BY <1>1 DEF ToSet

LEMMA SaysThree ==
    ASSUME NEW S, NEW a \in S, NEW b \in S, NEW c \in S
    PROVE  /\ <<a, b, c>> \in Seq(S) /\ DOMAIN <<a, b, c>> = {1, 2, 3}
           /\ <<a, b, c>>[1] = a /\ <<a, b, c>>[2] = b /\ <<a, b, c>>[3] = c
           /\ ToSet(<<a, b, c>>) = {a, b, c}
<1>1. /\ <<a, b, c>> \in Seq(S) /\ DOMAIN <<a, b, c>> = {1, 2, 3}
      /\ <<a, b, c>>[1] = a /\ <<a, b, c>>[2] = b /\ <<a, b, c>>[3] = c
      OBVIOUS
<1> QED BY <1>1 DEF ToSet

LEMMA SaysMore ==
    ASSUME NEW S, NEW tokens \in Seq(S), NEW t \in S
    PROVE  /\ Append(tokens, t) \in Seq(S)
           /\ \A i \in DOMAIN tokens : /\ i \in DOMAIN Append(tokens, t)
                                       /\ Append(tokens, t)[i] = tokens[i]
           /\ ToSet(Append(tokens, t)) = ToSet(tokens) \cup {t}
<1>1. /\ Len(tokens) \in Nat /\ DOMAIN tokens = 1 .. Len(tokens)
      /\ Append(tokens, t) \in Seq(S)
      /\ DOMAIN Append(tokens, t) = 1 .. Len(tokens) + 1
      /\ \A i \in 1 .. Len(tokens) : Append(tokens, t)[i] = tokens[i]
      /\ Append(tokens, t)[Len(tokens) + 1] = t
      OBVIOUS
<1>2. \A i \in 1 .. Len(tokens) + 1 : i \in 1 .. Len(tokens) \/ i = Len(tokens) + 1
      BY <1>1
<1>3. \A x : x \in ToSet(Append(tokens, t)) <=> x \in ToSet(tokens) \/ x = t
  <2>1. TAKE x
  <2>2. ASSUME x \in ToSet(Append(tokens, t)) PROVE x \in ToSet(tokens) \/ x = t
    <3>1. PICK i \in 1 .. Len(tokens) + 1 : x = Append(tokens, t)[i]
          BY <1>1, <2>2 DEF ToSet
    <3> QED BY <1>1, <1>2, <3>1 DEF ToSet
  <2>3. ASSUME x \in ToSet(tokens) PROVE x \in ToSet(Append(tokens, t))
    <3>1. PICK i \in 1 .. Len(tokens) : x = tokens[i]
          BY <1>1, <2>3 DEF ToSet
    <3>2. i \in 1 .. Len(tokens) + 1
          BY <1>1
    <3> QED BY <1>1, <3>1, <3>2 DEF ToSet
  <2>4. t \in ToSet(Append(tokens, t))
    <3>1. Len(tokens) + 1 \in 1 .. Len(tokens) + 1
          BY <1>1
    <3> QED BY <1>1, <3>1 DEF ToSet
  <2> QED BY <2>2, <2>3, <2>4
<1> QED BY <1>1, <1>3

(* A decision begins a boot in the log.                                    *)
LEMMA DecisionShows ==
    ASSUME log \in Seq(Captured), NEW tokens \in Seq(Said), Extended(tokens),
           1 \in DOMAIN tokens, tokens[1] \in {"DECISION_NORMAL", "DECISION_UPDATE"}
    PROVE  Shows(1)'
<1> DEFINE f == [k \in 1 .. 0 |-> 0]
<1>1. Shows(0)
  <2>1. InOrder(f, log, "normal", 1, 0)
        BY DEF InOrder
  <2> QED BY <2>1 DEF Shows
<1>2. \A k \in 0 + 1 .. 1 : /\ 0 + k - 0 \in DOMAIN tokens
                            /\ Carries(Line(tokens[0 + k - 0]), Required("normal")[k])
  <2>1. TAKE k \in 0 + 1 .. 1
  <2>2. k = 1 /\ 0 + k - 0 = 1
        OBVIOUS
  <2> QED BY <2>2, NormalAsks DEF Carries, Line
<1>3. 0 \in Nat /\ 1 \in Nat
      OBVIOUS
<1> QED BY <1>1, <1>2, <1>3, ShowsMore

(* A check that passed, behind a line of the session or not.               *)
LEMMA CheckShows ==
    ASSUME log \in Seq(Captured), NEW tokens \in Seq(Said), Extended(tokens), Shows(1),
           NEW skip \in Nat, {skip + 1, skip + 2} \subseteq DOMAIN tokens,
           tokens[skip + 1] = "APP_CRC_CHECK", tokens[skip + 2] = "APP_CRC_OK"
    PROVE  Shows(3)'
<1>1. \A k \in 1 + 1 .. 3 : /\ skip + k - 1 \in DOMAIN tokens
                            /\ Carries(Line(tokens[skip + k - 1]), Required("normal")[k])
  <2>1. TAKE k \in 1 + 1 .. 3
  <2>2. (k = 2 /\ skip + k - 1 = skip + 1) \/ (k = 3 /\ skip + k - 1 = skip + 2)
        OBVIOUS
  <2> QED BY <2>2, NormalAsks DEF Carries, Line
<1>2. 1 \in Nat /\ 3 \in Nat
      OBVIOUS
<1> QED BY <1>1, <1>2, ShowsMore

(* The handoff, and the first lines of the application.                    *)
LEMMA HandoffShows ==
    ASSUME log \in Seq(Captured), Extended(<<"LOAD_APP", "HANDOFF", "HANDOFF_APP">>)
    PROVE  /\ Shows(3) => Shows(6)'
           /\ "DECISION_RECOVERY" \in Tokens => HandedOff'
<1> PICK tokens \in Seq(Said) : /\ tokens = <<"LOAD_APP", "HANDOFF", "HANDOFF_APP">>
                                 /\ DOMAIN tokens = {1, 2, 3}
  <2>1. <<"LOAD_APP", "HANDOFF", "HANDOFF_APP">> \in Seq(Said)
        BY SaysThree DEF Said
  <2>2. DOMAIN <<"LOAD_APP", "HANDOFF", "HANDOFF_APP">> = {1, 2, 3}
        BY SaysThree
  <2> QED BY <2>1, <2>2
<1>0. DOMAIN tokens = {1, 2, 3} /\ Extended(tokens)
      OBVIOUS
<1>1. ASSUME Shows(3) PROVE Shows(6)'
  <2>1. \A k \in 3 + 1 .. 6 : /\ 0 + k - 3 \in DOMAIN tokens
                              /\ Carries(Line(tokens[0 + k - 3]), Required("normal")[k])
    <3>1. TAKE k \in 3 + 1 .. 6
    <3>2. \/ k = 4 /\ 0 + k - 3 = 1
          \/ k = 5 /\ 0 + k - 3 = 2
          \/ k = 6 /\ 0 + k - 3 = 3
          OBVIOUS
    <3> QED BY <1>0, <3>2, NormalAsks DEF Carries, Line
  <2>2. 0 \in Nat /\ 3 \in Nat /\ 6 \in Nat
        OBVIOUS
  <2> QED BY <1>0, <1>1, <2>1, <2>2, ShowsMore
<1>2. ASSUME "DECISION_RECOVERY" \in Tokens PROVE HandedOff'
  <2>1. PICK i \in DOMAIN log : log[i].token = "DECISION_RECOVERY"
        BY <1>2 DEF Tokens
  <2>2. i \in DOMAIN log' /\ Carries(log'[i], "DECISION_RECOVERY")
        BY <1>0, <2>1 DEF Extended, Carries
  <2>3. PICK j \in DOMAIN log' : j = Len(log) + 3 /\ log'[j].token = "HANDOFF_APP"
        BY <1>0 DEF Extended
  <2>4. i < j
        BY <2>1, <2>3
  <2> QED BY <2>2, <2>3, <2>4 DEF HandedOff, HandoffAfter, Carries
<1> QED BY <1>1, <1>2

LEMMA StartShows ==
    ASSUME log \in Seq(Captured), Extended(<<"START", "BOOTLOADER_HANDOFF_OK">>), Shows(6)
    PROVE  Shows(8)'
<1> PICK tokens \in Seq(Said) : /\ tokens = <<"START", "BOOTLOADER_HANDOFF_OK">>
                                 /\ DOMAIN tokens = {1, 2}
  <2>1. <<"START", "BOOTLOADER_HANDOFF_OK">> \in Seq(Said)
        BY SaysTwo DEF Said
  <2>2. DOMAIN <<"START", "BOOTLOADER_HANDOFF_OK">> = {1, 2}
        BY SaysTwo
  <2> QED BY <2>1, <2>2
<1>0. DOMAIN tokens = {1, 2} /\ Extended(tokens)
      OBVIOUS
<1>1. \A k \in 6 + 1 .. 8 : /\ 0 + k - 6 \in DOMAIN tokens
                            /\ Carries(Line(tokens[0 + k - 6]), Required("normal")[k])
  <2>1. TAKE k \in 6 + 1 .. 8
  <2>2. (k = 7 /\ 0 + k - 6 = 1) \/ (k = 8 /\ 0 + k - 6 = 2)
        OBVIOUS
  <2> QED BY <1>0, <2>2, NormalAsks DEF Carries, Line
<1>2. 0 \in Nat /\ 6 \in Nat /\ 8 \in Nat
      OBVIOUS
<1> QED BY <1>0, <1>1, <1>2, ShowsMore

LEMMA SelectTrue ==
    ASSUME LogTrue, SelectNormal \/ SelectUpdate \/ SelectRecovery
    PROVE  LogTrue'
<1>1. CASE SelectNormal
  <2> DEFINE tokens == <<"DECISION_NORMAL">>
  <2>0. /\ tokens \in Seq(Said)
        /\ 1 \in DOMAIN tokens /\ tokens[1] = "DECISION_NORMAL"
        /\ ToSet(tokens) = {"DECISION_NORMAL"}
    <3>1. "DECISION_NORMAL" \in Said
          BY DEF Said
    <3> QED BY <3>1, SaysOne
  <2>1. Prints(tokens) /\ ran' = ran /\ pc' = "check" /\ recovered' = recovered
        BY <1>1 DEF SelectNormal, Device
  <2> HIDE DEF tokens
  <2>2. Extended(tokens) => Shows(1)'
        BY <2>0, DecisionShows DEF LogTrue
  <2> QED BY <2>0, <2>1, <2>2, PrintsTrue DEF LogTrue
<1>2. CASE SelectUpdate
  <2> DEFINE tokens == <<"DECISION_UPDATE", "READY_FOR_UPDATE">>
  <2>0. /\ tokens \in Seq(Said)
        /\ 1 \in DOMAIN tokens /\ tokens[1] = "DECISION_UPDATE"
        /\ ToSet(tokens) = {"DECISION_UPDATE", "READY_FOR_UPDATE"}
    <3>1. "DECISION_UPDATE" \in Said /\ "READY_FOR_UPDATE" \in Said
          BY DEF Said
    <3> QED BY <3>1, SaysTwo
  <2>1. Prints(tokens) /\ ran' = ran /\ pc' = "session" /\ recovered' = recovered
        BY <1>2 DEF SelectUpdate, Device
  <2> HIDE DEF tokens
  <2>2. Extended(tokens) => Shows(1)'
        BY <2>0, DecisionShows DEF LogTrue
  <2> QED BY <2>0, <2>1, <2>2, PrintsTrue DEF LogTrue
<1>3. CASE SelectRecovery
  <2> DEFINE tokens == <<"DECISION_RECOVERY">>
  <2>0. /\ tokens \in Seq(Said)
        /\ ToSet(tokens) = {"DECISION_RECOVERY"}
    <3>1. "DECISION_RECOVERY" \in Said
          BY DEF Said
    <3> QED BY <3>1, SaysOne
  <2>1. Prints(tokens) /\ ran' = ran /\ pc' = "recovery" /\ recovered' = TRUE
        BY <1>3 DEF SelectRecovery, EntersRecovery, Device
  <2> HIDE DEF tokens
  <2> QED BY <2>0, <2>1, PrintsTrue
<1> QED BY <1>1, <1>2, <1>3

LEMMA CheckTrue ==
    ASSUME LogTrue, CheckPasses \/ CheckFails
    PROVE  LogTrue'
<1>1. CASE CheckPasses
  <2> DEFINE tokens == <<"APP_CRC_CHECK", "APP_CRC_OK">>
  <2>0. /\ tokens \in Seq(Said)
        /\ DOMAIN tokens = {1, 2}
        /\ tokens[1] = "APP_CRC_CHECK" /\ tokens[2] = "APP_CRC_OK"
        /\ ToSet(tokens) = {"APP_CRC_CHECK", "APP_CRC_OK"}
    <3>1. "APP_CRC_CHECK" \in Said /\ "APP_CRC_OK" \in Said
          BY DEF Said
    <3> QED BY <3>1, SaysTwo
  <2>1. Prints(tokens) /\ ran' = ran /\ pc = "check" /\ pc' = "load" /\ recovered' = recovered
        BY <1>1 DEF CheckPasses, Device
  <2> HIDE DEF tokens
  <2>2. ASSUME ~lost, ~recovered, Extended(tokens) PROVE Shows(3)'
    <3>1. log \in Seq(Captured) /\ Shows(1)
          BY <2>1, <2>2 DEF LogTrue, PathTrue
    <3>2. 0 \in Nat /\ 0 + 1 = 1 /\ 0 + 2 = 2
          OBVIOUS
    <3> QED BY <2>0, <2>2, <3>1, <3>2, CheckShows
  <2> QED BY <2>0, <2>1, <2>2, PrintsTrue DEF LogTrue
<1>2. CASE CheckFails
  <2> DEFINE tokens == <<"APP_CRC_CHECK", "APP_CRC_FAIL", "DECISION_RECOVERY">>
  <2>0. /\ tokens \in Seq(Said)
        /\ ToSet(tokens) = {"APP_CRC_CHECK", "APP_CRC_FAIL", "DECISION_RECOVERY"}
    <3>1. {"APP_CRC_CHECK", "APP_CRC_FAIL", "DECISION_RECOVERY"} \subseteq Said
          BY DEF Said
    <3> QED BY <3>1, SaysThree
  <2>1. Prints(tokens) /\ ran' = ran /\ pc' = "recovery" /\ recovered' = TRUE
        BY <1>2 DEF CheckFails, EntersRecovery, Device
  <2> HIDE DEF tokens
  <2> QED BY <2>0, <2>1, PrintsTrue
<1> QED BY <1>1, <1>2

(* Out of recovery, whichever way.                                         *)
LEMMA LeavesTrue ==
    ASSUME LogTrue, recovered, recovered' = recovered, NEW tokens \in Seq(Said),
           ToSet(tokens) \cap {"HANDOFF_APP", "BOOTLOADER_HANDOFF_OK"} = {},
           LeavesRecovery(tokens)
    PROVE  LogTrue'
<1>1. CASE from = "select"
  <2> DEFINE more == Append(tokens, "DECISION_NORMAL")
  <2>0. /\ more \in Seq(Said)
        /\ ToSet(more) = ToSet(tokens) \cup {"DECISION_NORMAL"}
    <3>1. "DECISION_NORMAL" \in Said
          BY DEF Said
    <3> QED BY <3>1, SaysMore
  <2>1. Prints(more) /\ ran' = ran /\ pc' = "check"
        BY <1>1 DEF LeavesRecovery, Device
  <2> HIDE DEF more
  <2> QED BY <2>0, <2>1, PrintsTrue DEF LogTrue
<1>2. CASE from # "select"
  <2>1. Prints(tokens) /\ ran' = ran /\ pc' = "load"
        BY <1>2 DEF LeavesRecovery, Device
  <2> QED BY <2>1, PrintsTrue DEF LogTrue
<1> QED BY <1>1, <1>2

LEMMA ReadyTrue ==
    ASSUME LogTrue, ReadyForChunk
    PROVE  LogTrue'
<1> DEFINE tokens == <<"READY_FOR_CHUNK">>
<1>0. /\ tokens \in Seq(Said)
      /\ ToSet(tokens) = {"READY_FOR_CHUNK"}
  <2>1. "READY_FOR_CHUNK" \in Said
        BY DEF Said
  <2> QED BY <2>1, SaysOne
<1>1. /\ Prints(tokens) /\ ran' = ran /\ pc \in {"session", "chunks"} /\ pc' = "chunks"
      /\ recovered' = recovered
      BY DEF ReadyForChunk, Device
<1> HIDE DEF tokens
<1>2. ASSUME ~lost, ~recovered, Extended(tokens) PROVE Shows(1)'
  <2>1. Shows(1)
        BY <1>1, <1>2 DEF LogTrue, PathTrue
  <2>2. 1 \in Nat
        OBVIOUS
  <2> QED BY <1>0, <1>2, <2>1, <2>2, StillShown
<1> QED BY <1>0, <1>1, <1>2, PrintsTrue DEF LogTrue

LEMMA SessionTrue ==
    ASSUME LogTrue, SessionAccepts \/ SessionFails
    PROVE  LogTrue'
<1> USE DEF Accepted, Rejected
<1>1. CASE SessionAccepts
  <2> DEFINE tokens == <<"UPDATE_SESSION_END", "APP_CRC_CHECK", "APP_CRC_OK">>
  <2>0. /\ tokens \in Seq(Said)
        /\ DOMAIN tokens = {1, 2, 3}
        /\ tokens[2] = "APP_CRC_CHECK" /\ tokens[3] = "APP_CRC_OK"
        /\ ToSet(tokens) = {"UPDATE_SESSION_END", "APP_CRC_CHECK", "APP_CRC_OK"}
    <3>1. /\ "UPDATE_SESSION_END" \in Said /\ "APP_CRC_CHECK" \in Said
          /\ "APP_CRC_OK" \in Said
          BY DEF Said
    <3> QED BY <3>1, SaysThree
  <2>1. pc = "chunks" /\ recovered' = recovered
        BY <1>1 DEF SessionAccepts
  <2> HIDE DEF tokens
  <2>2. CASE recovered
    <3>1. LeavesRecovery(tokens)
          BY <1>1, <2>2 DEF SessionAccepts, tokens
    <3> QED BY <2>0, <2>1, <2>2, <3>1, LeavesTrue
  <2>3. CASE ~recovered
    <3>1. Prints(tokens) /\ ran' = ran /\ pc' = "load"
          BY <1>1, <2>3 DEF SessionAccepts, Device, tokens
    <3>2. ASSUME ~lost, Extended(tokens) PROVE Shows(3)'
      <4>1. log \in Seq(Captured) /\ Shows(1)
            BY <2>1, <2>3, <3>2 DEF LogTrue, PathTrue
      <4>2. 1 \in Nat /\ 1 + 1 = 2 /\ 1 + 2 = 3
            OBVIOUS
      <4> QED BY <2>0, <3>2, <4>1, <4>2, CheckShows
    <3> QED BY <2>0, <2>1, <2>3, <3>1, <3>2, PrintsTrue DEF LogTrue
  <2> QED BY <2>2, <2>3
<1>2. CASE SessionFails
  <2>1. PICK tokens \in {<<>>} \cup (IF pc = "chunks" THEN {Rejected} ELSE {}) :
            IF recovered
            THEN Prints(tokens) /\ Device("recovery") /\ UNCHANGED <<from, recovered>>
            ELSE Prints(Append(tokens, "DECISION_RECOVERY")) /\ EntersRecovery("update")
        BY <1>2 DEF SessionFails
  <2>2. /\ tokens \in Seq(Said)
        /\ ToSet(tokens) \cap {"HANDOFF_APP", "BOOTLOADER_HANDOFF_OK"} = {}
    <3>1. <<>> \in Seq(Said) /\ ToSet(<<>>) = {}
          BY DEF ToSet
    <3>2. /\ Rejected \in Seq(Said)
          /\ ToSet(Rejected) \cap {"HANDOFF_APP", "BOOTLOADER_HANDOFF_OK"} = {}
      <4>1. /\ "UPDATE_SESSION_END" \in Said /\ "APP_CRC_CHECK" \in Said
            /\ "APP_CRC_FAIL" \in Said
            BY DEF Said
      <4>2. /\ Rejected \in Seq(Said)
            /\ ToSet(Rejected) = {"UPDATE_SESSION_END", "APP_CRC_CHECK", "APP_CRC_FAIL"}
            BY <4>1, SaysThree
      <4> QED BY <4>2
    <3> QED BY <2>1, <3>1, <3>2
  <2>3. CASE recovered
    <3>1. Prints(tokens) /\ ran' = ran /\ pc' = "recovery" /\ recovered' = recovered
          BY <2>1, <2>3 DEF Device
    <3> QED BY <2>2, <2>3, <3>1, PrintsTrue DEF LogTrue
  <2>4. CASE ~recovered
    <3> DEFINE more == Append(tokens, "DECISION_RECOVERY")
    <3>0. /\ more \in Seq(Said)
          /\ ToSet(more) = ToSet(tokens) \cup {"DECISION_RECOVERY"}
      <4>1. "DECISION_RECOVERY" \in Said
            BY DEF Said
      <4> QED BY <2>2, <4>1, SaysMore
    <3>1. Prints(more) /\ ran' = ran /\ pc' = "recovery" /\ recovered' = TRUE
          BY <2>1, <2>4 DEF EntersRecovery, Device
    <3> HIDE DEF more
    <3> QED BY <3>0, <2>2, <3>1, PrintsTrue
  <2> QED BY <2>3, <2>4
<1> QED BY <1>1, <1>2

LEMMA CommandTrue ==
    ASSUME LogTrue, CommandStatus \/ CommandUpdate \/ CommandErase \/ CommandBoot
    PROVE  LogTrue'
<1>0. pc = "recovery" /\ recovered /\ recovered' = recovered
      BY DEF LogTrue, CommandStatus, CommandUpdate, CommandErase, CommandBoot
<1>1. CASE CommandStatus
  <2> DEFINE tokens == <<"RECOVERY_CMD_STATUS">>
  <2>0. /\ tokens \in Seq(Said)
        /\ ToSet(tokens) = {"RECOVERY_CMD_STATUS"}
    <3>1. "RECOVERY_CMD_STATUS" \in Said
          BY DEF Said
    <3> QED BY <3>1, SaysOne
  <2>1. Prints(tokens) /\ ran' = ran /\ pc' = "recovery"
        BY <1>1 DEF CommandStatus, Device
  <2> HIDE DEF tokens
  <2> QED BY <2>0, <1>0, <2>1, PrintsTrue DEF LogTrue
<1>2. CASE CommandUpdate
  <2> DEFINE tokens == <<"DECISION_UPDATE", "READY_FOR_UPDATE">>
  <2>0. /\ tokens \in Seq(Said)
        /\ ToSet(tokens) = {"DECISION_UPDATE", "READY_FOR_UPDATE"}
    <3>1. "DECISION_UPDATE" \in Said /\ "READY_FOR_UPDATE" \in Said
          BY DEF Said
    <3> QED BY <3>1, SaysTwo
  <2>1. Prints(tokens) /\ ran' = ran /\ pc' = "session"
        BY <1>2 DEF CommandUpdate, Device
  <2> HIDE DEF tokens
  <2> QED BY <2>0, <1>0, <2>1, PrintsTrue DEF LogTrue
<1>3. CASE CommandErase
  <2>1. UNCHANGED <<lost, ran>> /\ pc' = pc /\ log' = log
        BY <1>0, <1>3 DEF CommandErase, Device, capture
  <2> QED BY <1>0, <2>1, QuietTrue
<1>4. CASE CommandBoot
  <2>1. CASE LeavesRecovery(<<"APP_CRC_CHECK", "APP_CRC_OK">>)
    <3>1. "APP_CRC_CHECK" \in Said /\ "APP_CRC_OK" \in Said
          BY DEF Said
    <3>2. /\ <<"APP_CRC_CHECK", "APP_CRC_OK">> \in Seq(Said)
          /\ ToSet(<<"APP_CRC_CHECK", "APP_CRC_OK">>) = {"APP_CRC_CHECK", "APP_CRC_OK"}
          BY <3>1, SaysTwo
    <3> QED BY <1>0, <2>1, <3>2, LeavesTrue
  <2>2. CASE Prints(<<"APP_CRC_CHECK", "APP_CRC_FAIL">>) /\ Device("recovery")
    <3>1. "APP_CRC_CHECK" \in Said /\ "APP_CRC_FAIL" \in Said
          BY DEF Said
    <3>2. /\ <<"APP_CRC_CHECK", "APP_CRC_FAIL">> \in Seq(Said)
          /\ ToSet(<<"APP_CRC_CHECK", "APP_CRC_FAIL">>) = {"APP_CRC_CHECK", "APP_CRC_FAIL"}
          BY <3>1, SaysTwo
    <3>3. ran' = ran /\ pc' = "recovery"
          BY <2>2 DEF Device
    <3> QED BY <1>0, <2>2, <3>2, <3>3, PrintsTrue DEF LogTrue
  <2> QED BY <1>4, <2>1, <2>2 DEF CommandBoot
<1> QED BY <1>1, <1>2, <1>3, <1>4

LEMMA HandoffTrue ==
    ASSUME LogTrue, Handoff
    PROVE  LogTrue'
<1> DEFINE tokens == <<"LOAD_APP", "HANDOFF", "HANDOFF_APP">>
<1>0. /\ tokens \in Seq(Said) /\ ToSet(tokens) = {"LOAD_APP", "HANDOFF", "HANDOFF_APP"}
      /\ DOMAIN tokens = {1, 2, 3} /\ tokens[2] = "HANDOFF"
      /\ tokens[1] # "HANDOFF_APP"
  <2>1. "LOAD_APP" \in Said /\ "HANDOFF" \in Said /\ "HANDOFF_APP" \in Said
        BY DEF Said
  <2> QED BY <2>1, SaysThree
<1>1. /\ Prints(tokens) /\ ran' = ran /\ pc = "load" /\ pc' = "jump"
      /\ recovered' = recovered
      BY DEF Handoff, Device
<1>2. Extended(tokens) => /\ Shows(3) => Shows(6)'
                          /\ "DECISION_RECOVERY" \in Tokens => HandedOff'
      BY HandoffShows DEF LogTrue
<1> HIDE DEF tokens
<1>3. /\ log' \in Seq(Captured) /\ lost' \in BOOLEAN
      /\ \/ lost' = TRUE /\ Tokens' = Tokens
         \/ lost' = lost /\ Extended(tokens)
      BY <1>0, <1>1, PrintsCaptured DEF LogTrue
<1>4. "BOOTLOADER_HANDOFF_OK" \in Tokens' => ran' # {}
      BY <1>0, <1>1, <1>3 DEF LogTrue, Extended
<1>5. ASSUME ~lost'
      PROVE  PathTrue'
  <2>1. ~lost /\ Extended(tokens) /\ PathTrue
        BY <1>3, <1>5 DEF LogTrue
  <2>2. HandedOff => HandedOff'
        BY <1>0, <2>1, StillShown
  <2>3. Shows(8) => Shows(8)'
    <3>1. 8 \in Nat
          OBVIOUS
    <3> QED BY <1>0, <2>1, <3>1, StillShown
  <2>4. Tokens \subseteq Tokens'
        BY <2>1 DEF Extended
  <2> QED BY <1>1, <1>2, <2>1, <2>2, <2>3, <2>4 DEF PathTrue
<1>6. Follows'
  <2>1. \A k \in DOMAIN tokens : tokens[k] = "HANDOFF_APP" =>
                                   k - 1 \in DOMAIN tokens /\ tokens[k - 1] = "HANDOFF"
    <3>1. TAKE k \in DOMAIN tokens
    <3>2. k = 1 \/ (k = 2 /\ k - 1 = 1) \/ (k = 3 /\ k - 1 = 2)
          BY <1>0
    <3> QED BY <1>0, <3>2
  <2> QED BY <1>0, <1>1, <2>1, PrintsFollow DEF LogTrue
<1> QED BY <1>1, <1>3, <1>4, <1>5, <1>6 DEF LogTrue

LEMMA StartTrue ==
    ASSUME LogTrue, AppStarts
    PROVE  LogTrue'
<1> DEFINE tokens == <<"START", "BOOTLOADER_HANDOFF_OK">>
<1>0. tokens \in Seq(Said) /\ ToSet(tokens) = {"START", "BOOTLOADER_HANDOFF_OK"}
  <2>1. "START" \in Said /\ "BOOTLOADER_HANDOFF_OK" \in Said
        BY DEF Said
  <2> QED BY <2>1, SaysTwo
<1>1. /\ Prints(tokens) /\ pc = "jump" /\ pc' = "app" /\ recovered' = recovered
      /\ ran' = ran \cup {IF recovered THEN "recovered" ELSE "direct"}
      BY DEF AppStarts
<1>2. Extended(tokens) /\ Shows(6) => Shows(8)'
      BY StartShows DEF LogTrue
<1> HIDE DEF tokens
<1>3. /\ log' \in Seq(Captured) /\ lost' \in BOOLEAN
      /\ lost' = TRUE \/ (lost' = lost /\ Extended(tokens))
      BY <1>0, <1>1, PrintsCaptured DEF LogTrue
<1>4. ran' \subseteq {"direct", "recovered"} /\ ran' # {}
      BY <1>1 DEF LogTrue
<1>5. ASSUME ~lost'
      PROVE  PathTrue'
  <2>1. ~lost /\ Extended(tokens) /\ PathTrue
        BY <1>3, <1>5 DEF LogTrue
  <2>2. HandedOff => HandedOff'
        BY <1>0, <2>1, StillShown
  <2>3. Shows(8) => Shows(8)'
    <3>1. 8 \in Nat
          OBVIOUS
    <3> QED BY <1>0, <2>1, <3>1, StillShown
  <2>4. Tokens \subseteq Tokens'
        BY <2>1 DEF Extended
  <2>5. "recovered" \in ran' => HandedOff'
        BY <1>1, <2>1, <2>2 DEF PathTrue
  <2>6. "direct" \in ran' => Shows(8)'
        BY <1>1, <1>2, <2>1, <2>3 DEF PathTrue
  <2> QED BY <1>1, <2>1, <2>4, <2>5, <2>6 DEF PathTrue
<1>6. Follows'
  <2>1. \A k \in DOMAIN tokens : tokens[k] # "HANDOFF_APP"
        BY <1>0 DEF ToSet
  <2> QED BY <1>0, <1>1, <2>1, PrintsFollow DEF LogTrue
<1> QED BY <1>1, <1>3, <1>4, <1>5, <1>6 DEF LogTrue

(* In every step the log stays true to the boots.                          *)
LEMMA LogStays ==
    ASSUME LogTrue, [Next]_vars
    PROVE  LogTrue'
<1>1. CASE Boots
  <2>1. CASE SelectNormal \/ SelectUpdate \/ SelectRecovery
        BY <2>1, SelectTrue
  <2>2. CASE CheckPasses \/ CheckFails
        BY <2>2, CheckTrue
  <2>3. CASE ReadyForChunk
        BY <2>3, ReadyTrue
  <2>4. CASE SessionAccepts \/ SessionFails
        BY <2>4, SessionTrue
  <2>5. CASE CommandStatus \/ CommandUpdate \/ CommandErase \/ CommandBoot
        BY <2>5, CommandTrue
  <2>6. CASE Handoff
        BY <2>6, HandoffTrue
  <2>7. CASE AppStarts
        BY <2>7, StartTrue
  <2>8. CASE Resets
        BY <2>8, QuietTrue DEF Resets
  <2> QED BY <1>1, <2>1, <2>2, <2>3, <2>4, <2>5, <2>6, <2>7, <2>8 DEF Boots
<1>2. CASE Builds
      BY <1>2, QuietTrue DEF Builds, capture
<1>3. CASE Flashes
      BY <1>3, QuietTrue DEF Flashes, capture
<1>4. CASE PortReturns
      BY <1>4, QuietTrue DEF PortReturns
<1>5. CASE Stalls
      BY <1>5, QuietTrue DEF Stalls
<1>6. CASE UNCHANGED vars
      BY <1>6, QuietTrue DEF vars, capture
<1> QED BY <1>1, <1>2, <1>3, <1>4, <1>5, <1>6 DEF Next

(* Whatever boots, commands, updates, stalls and lost lines there were.    *)
LEMMA LogIsTrue == Spec => []LogTrue
<1>1. ASSUME Init PROVE LogTrue
  <2>1. log = <<>> /\ lost = FALSE /\ recovered = FALSE /\ ran = {} /\ pc = "bench"
        BY <1>1 DEF Init
  <2>2. Tokens = {} /\ log \in Seq(Captured) /\ Follows
        BY <2>1 DEF Tokens, Follows
  <2> QED BY <2>1, <2>2 DEF LogTrue, PathTrue
<1>2. LogTrue /\ [Next]_vars => LogTrue'
      BY LogStays
<1> QED BY <1>1, <1>2, PTL DEF Spec

(* A complete log that passes "normal" ends in a handoff that really was   *)
(* one, and a log with a handoff behind a recovery is refused: so it shows *)
(* a direct boot, and one that passes "recovery" none out of recovery.     *)
THEOREM VerdictPath == Spec => []VerdictMeansPath
<1>1. LogTrue => VerdictMeansPath
  <2> SUFFICES ASSUME LogTrue, ~lost
               PROVE  /\ Validates(log, "normal", FALSE) => "direct" \in ran
                      /\ Validates(log, "recovery", FALSE) => "recovered" \notin ran
      BY DEF VerdictMeansPath
  <2>1. ASSUME NEW profile, Validates(log, profile, FALSE) PROVE "recovered" \notin ran
    <3>1. ~HandedOff
          BY <2>1 DEF Validates, CheckRecovery, HandedOff
    <3> QED BY <3>1 DEF LogTrue, PathTrue
  <2>2. ASSUME Validates(log, "normal", FALSE) PROVE ran # {}
    <3>1. FindInOrder(log, "normal") /\ Required("normal")[8] \notin Optional("normal")
          BY <2>2 DEF Validates, Optional
    <3>2. 8 \in Nat /\ 8 = Len(Required("normal")) /\ 8 # 0
          BY NormalAsks
    <3>3. PICK i \in DOMAIN log : Carries(log[i], Required("normal")[8])
          BY <3>1, <3>2, FoundLast
    <3>4. log[i].token = "BOOTLOADER_HANDOFF_OK"
          BY <3>3, NormalAsks DEF Carries
    <3> QED BY <3>4 DEF LogTrue, Tokens
  <2> QED BY <2>1, <2>2 DEF LogTrue
<1> QED BY <1>1, LogIsTrue, PTL

(* A complete log without recovery or failed check passes once a boot went *)
(* straight into the application: its tokens are there in order.           *)
THEOREM GoodBoot == Spec => []GoodBootPasses
<1>1. LogTrue => GoodBootPasses
  <2> SUFFICES ASSUME LogTrue, ~lost, "direct" \in ran,
                      Tokens \cap {"DECISION_RECOVERY", "APP_CRC_FAIL"} = {}
               PROVE  Validates(log, "normal", FALSE)
      BY DEF GoodBootPasses
  <2>1. PICK f : InOrder(f, log, "normal", 1, 8)
        BY DEF LogTrue, PathTrue, Shows
  <2>2. Scans(log, "normal")[1 - 1] = Scan(0, {})
    <3> DEFINE g == Scans(log, "normal")
    <3>1. 8 \in Nat /\ 8 = Len(Required("normal"))
          BY NormalAsks
    <3>2. Rounds(g, log, "normal", 8)
          BY <3>1, ScansRounds
    <3> HIDE DEF g
    <3>3. 0 \in 0 .. 8 /\ 1 - 1 = 0
          OBVIOUS
    <3>4. g[1 - 1] = Scan(0, {})
          BY <3>2, <3>3 DEF Rounds, Start, Scan
    <3> QED BY <3>4 DEF g
  <2>3. 8 \in Nat /\ 1 \in 1 .. 8 /\ 8 = Len(Required("normal"))
        BY NormalAsks
  <2>4. DOMAIN log \subseteq Nat \ {0}
        BY DEF LogTrue
  <2>5. FindInOrder(log, "normal")
        BY <2>1, <2>2, <2>3, <2>4, OrderIsFound
  <2> QED BY <2>5, QuietPasses DEF Validates, LogTrue
<1> QED BY <1>1, LogIsTrue, PTL

(* A capture that began in the middle of its only session is not refused.  *)
THEOREM LateCapture == Spec => []LateCapturePasses
<1>1. LogTrue => LateCapturePasses
      BY LatePasses DEF LogTrue
<1> QED BY <1>1, LogIsTrue, PTL

(* The types of the board and of the capture.                              *)
BoardTypes ==
    /\ good \in BOOLEAN
    /\ pc \in {"bench", "built", "select", "check", "session", "chunks", "recovery", "load",
               "jump", "app"}
    /\ from \in {"none", "select", "left", "check", "update"} /\ recovered \in BOOLEAN
    /\ port \in {"open", "closed"} /\ lost \in BOOLEAN
    /\ events \in 0 .. MaxEvents
    /\ ran \subseteq {"direct", "recovered"}

LEMMA PrintsTypes ==
    ASSUME BoardTypes, NEW tokens, Prints(tokens)
    PROVE  port' \in {"open", "closed"} /\ lost' \in BOOLEAN
BY DEF BoardTypes, Prints

LEMMA CountsTypes ==
    ASSUME BoardTypes, Counts
    PROVE  events' \in 0 .. MaxEvents
BY BringupAssumption DEF BoardTypes, Counts

LEMMA LeavesTypes ==
    ASSUME BoardTypes, NEW tokens, LeavesRecovery(tokens)
    PROVE  /\ port' \in {"open", "closed"} /\ lost' \in BOOLEAN
           /\ pc' \in {"check", "load"} /\ ran' = ran
           /\ from' \in {"none", "select", "left", "check", "update"}
<1>1. CASE from = "select"
      BY <1>1, PrintsTypes DEF LeavesRecovery, Device
<1>2. CASE from # "select"
      BY <1>2, PrintsTypes DEF LeavesRecovery, Device, BoardTypes
<1> QED BY <1>1, <1>2

LEMMA BoardStays ==
    ASSUME BoardTypes, [Next]_vars
    PROVE  BoardTypes'
<1>1. CASE SelectNormal \/ SelectUpdate \/ SelectRecovery
      BY <1>1, PrintsTypes
      DEF SelectNormal, SelectUpdate, SelectRecovery, EntersRecovery, Device, BoardTypes
<1>2. CASE CheckPasses \/ CheckFails
      BY <1>2, PrintsTypes DEF CheckPasses, CheckFails, EntersRecovery, Device, BoardTypes
<1>3. CASE ReadyForChunk
      BY <1>3, PrintsTypes, CountsTypes DEF ReadyForChunk, Device, BoardTypes
<1>4. CASE SessionAccepts
  <2>1. CASE recovered
        BY <1>4, <2>1, LeavesTypes DEF SessionAccepts, BoardTypes
  <2>2. CASE ~recovered
        BY <1>4, <2>2, PrintsTypes DEF SessionAccepts, Device, BoardTypes
  <2> QED BY <2>1, <2>2
<1>5. CASE SessionFails
  <2>1. good' \in BOOLEAN
        BY <1>5 DEF SessionFails, BoardTypes
  <2>2. CASE recovered
        BY <1>5, <2>1, <2>2, PrintsTypes DEF SessionFails, Device, BoardTypes
  <2>3. CASE ~recovered
        BY <1>5, <2>1, <2>3, PrintsTypes DEF SessionFails, EntersRecovery, Device, BoardTypes
  <2> QED BY <2>2, <2>3
<1>6. CASE CommandStatus \/ CommandUpdate
      BY <1>6, PrintsTypes, CountsTypes DEF CommandStatus, CommandUpdate, Device, BoardTypes
<1>7. CASE CommandErase
      BY <1>7, CountsTypes DEF CommandErase, Device, capture, BoardTypes
<1>8. CASE CommandBoot
  <2>1. CASE LeavesRecovery(<<"APP_CRC_CHECK", "APP_CRC_OK">>)
        BY <1>8, <2>1, LeavesTypes, CountsTypes DEF CommandBoot, BoardTypes
  <2>2. CASE /\ Prints(<<"APP_CRC_CHECK", "APP_CRC_FAIL">>)
             /\ Device("recovery") /\ UNCHANGED from
        BY <1>8, <2>2, PrintsTypes, CountsTypes DEF CommandBoot, Device, BoardTypes
  <2> QED BY <1>8, <2>1, <2>2 DEF CommandBoot
<1>9. CASE Handoff \/ AppStarts
      BY <1>9, PrintsTypes DEF Handoff, AppStarts, Device, BoardTypes
<1>10. CASE Resets
       BY <1>10, CountsTypes DEF Resets, BoardTypes
<1>11. CASE Builds \/ PortReturns \/ Stalls \/ UNCHANGED vars
  <2>1. CASE Builds
        BY <2>1 DEF Builds, capture, BoardTypes
  <2>2. CASE PortReturns \/ Stalls
        BY <2>2 DEF PortReturns, Stalls, BoardTypes
  <2>3. CASE UNCHANGED vars
        BY <2>3 DEF vars, capture, BoardTypes
  <2> QED BY <1>11, <2>1, <2>2, <2>3
<1>12. CASE Flashes
  <2>1. good' \in BOOLEAN
        BY <1>12 DEF Flashes, ImageValid
  <2> QED BY <1>12, <2>1 DEF Flashes, capture, BoardTypes
<1> QED BY <1>1, <1>2, <1>3, <1>4, <1>5, <1>6, <1>7, <1>8, <1>9, <1>10, <1>11, <1>12
        DEF Next, Boots

(* The files of the bench.                                                 *)
FileTypes == app \in Inputs \cup {<<>>} /\ file \in Seq(Cells)

LEMMA FilesStay ==
    ASSUME FileTypes, BenchInv', [Next]_vars
    PROVE  FileTypes'
<1>1. CASE Builds
      BY <1>1 DEF Builds, FileTypes, BenchInv, ImageFrom, States
<1>2. CASE Flashes
      BY <1>2 DEF Flashes, FileTypes
<1>3. CASE PortReturns \/ Stalls \/ UNCHANGED vars
      BY <1>3 DEF PortReturns, Stalls, vars, bench, FileTypes
<1>4. CASE Boots
  <2>1. app' = app /\ file' = file
        BY <1>4
        DEF Boots, SelectNormal, SelectUpdate, SelectRecovery, CheckPasses, CheckFails,
            ReadyForChunk, SessionAccepts, SessionFails, CommandStatus, CommandUpdate,
            CommandErase, CommandBoot, Handoff, AppStarts, Resets, Device,
            EntersRecovery, LeavesRecovery, bench
  <2> QED BY <2>1 DEF FileTypes
<1> QED BY <1>1, <1>2, <1>3, <1>4 DEF Next

(* Every variable has its type, and a built file has the partition's size. *)
THEOREM BringupTypes ==
    ASSUME BenchFits
    PROVE  Spec => []TypeOK
<1>1. ASSUME Init PROVE BoardTypes /\ FileTypes
  <2>1. BoardTypes
    <3>1. 0 \in 0 .. MaxEvents
          BY BringupAssumption
    <3> QED BY <1>1, <3>1 DEF Init, BoardTypes
  <2>2. app \in Seq(Cells)
        BY <1>1, BringupAssumption DEF Init, Cells
  <2> QED BY <1>1, <2>1, <2>2 DEF Init, FileTypes
<1>2. BenchInv /\ [Next]_vars => BenchInv'
      BY BuildsKeeps, OthersKeep DEF Next
<1>3. BoardTypes /\ [Next]_vars => BoardTypes'
      BY BoardStays
<1>4. FileTypes /\ BenchInv' /\ [Next]_vars => FileTypes'
      BY FilesStay
<1>5. BoardTypes /\ FileTypes /\ BenchInv => TypeOK
      BY DEF BoardTypes, FileTypes, BenchInv, ImageFrom, States, Cells, TypeOK
<1> QED BY <1>1, <1>2, <1>3, <1>4, <1>5, BenchInvInit, PTL DEF Spec

-----------------------------------------------------------------------------
(* A log without its stalls.                                               *)

(* The lines the board printed, each at its place.                         *)
Printed == Restrict(log, {i \in DOMAIN log : ~log[i].stall})

LEMMA PrintedLines ==
    /\ DOMAIN Printed \subseteq DOMAIN log
    /\ \A i \in DOMAIN Printed : Printed[i] = log[i] /\ ~log[i].stall
    /\ \A i \in DOMAIN log : ~log[i].stall => i \in DOMAIN Printed
BY DEF Printed, Restrict

(* What a line says was printed there or before, and repeated up to it.    *)
LEMMA Origin ==
    ASSUME log \in Seq(Captured), Follows, NEW i \in DOMAIN log
    PROVE  \E o \in DOMAIN Printed : /\ o <= i
                                     /\ \A j \in o .. i : log[j].token = log[i].token
<1> DEFINE T == {o \in 1 .. i : \A j \in o .. i : log[j].token = log[i].token}
<1>0. Len(log) \in Nat /\ DOMAIN log = 1 .. Len(log) /\ i \in 1 .. i /\ i \in Nat
      OBVIOUS
<1>1. i \in T
  <2>1. \A j \in i .. i : j = i
        BY <1>0
  <2> QED BY <1>0, <2>1
<1>2. PICK o \in T : \A t \in T : o <= t
  <2>1. T \subseteq Nat /\ T # {}
        BY <1>1
  <2> HIDE DEF T
  <2> QED BY <2>1, LeastNumber
<1>3. o \in 1 .. i /\ o \in DOMAIN log /\ \A j \in o .. i : log[j].token = log[i].token
      BY <1>0
<1>4. ~log[o].stall
  <2>1. SUFFICES ASSUME log[o].stall PROVE FALSE
        OBVIOUS
  <2>2. o - 1 \in DOMAIN log /\ log[o - 1].token = log[o].token
        BY <1>3, <2>1 DEF Follows
  <2>3. log[o].token = log[i].token
    <3>1. o \in o .. i
          BY <1>3
    <3> QED BY <1>3, <3>1
  <2>4. \A j \in (o - 1) .. i : j = o - 1 \/ j \in o .. i
        BY <1>3
  <2>5. o - 1 \in 1 .. i
        BY <1>0, <1>3, <2>2
  <2>6. o - 1 \in T
        BY <1>3, <2>2, <2>3, <2>4, <2>5
  <2> HIDE DEF T
  <2> QED BY <1>2, <1>3, <2>6
<1>5. o \in DOMAIN Printed
      BY <1>3, <1>4, PrintedLines
<1> QED BY <1>3, <1>5

(* The line a line goes back to.                                           *)
Back == [i \in DOMAIN log |->
            CHOOSE o \in DOMAIN Printed : /\ o <= i
                                          /\ \A j \in o .. i : log[j].token = log[i].token]

LEMMA BackIsOrigin ==
    ASSUME log \in Seq(Captured), Follows, NEW i \in DOMAIN log
    PROVE  /\ Back[i] \in DOMAIN Printed /\ Back[i] \in DOMAIN log /\ Back[i] <= i
           /\ Back[i] \in Nat /\ i \in Nat
           /\ Printed[Back[i]].token = log[i].token /\ log[Back[i]].token = log[i].token
           /\ \A j \in Back[i] .. i : log[j].token = log[i].token
<1>1. /\ Back[i] \in DOMAIN Printed /\ Back[i] <= i
      /\ \A j \in Back[i] .. i : log[j].token = log[i].token
      BY Origin DEF Back
<1>2. Back[i] \in DOMAIN log /\ Printed[Back[i]] = log[Back[i]]
      BY <1>1, PrintedLines
<1>3. Back[i] \in Nat /\ i \in Nat
      BY <1>2
<1>4. Back[i] \in Back[i] .. i
      BY <1>1, <1>3
<1> QED BY <1>1, <1>2, <1>3, <1>4

(* Lines that say different things keep their order.                       *)
LEMMA BackKeepsOrder ==
    ASSUME log \in Seq(Captured), Follows, NEW i \in DOMAIN log, NEW j \in DOMAIN log,
           i < j, log[i].token # log[j].token
    PROVE  Back[i] < Back[j] /\ i < Back[j]
<1>1. i \in Nat /\ j \in Nat /\ Back[j] \in Nat /\ Back[i] \in Nat /\ Back[i] <= i
      BY BackIsOrigin
<1>2. ~(Back[j] <= i)
  <2>1. SUFFICES ASSUME Back[j] <= i PROVE FALSE
        OBVIOUS
  <2>2. i \in Back[j] .. j
        BY <1>1, <2>1
  <2> QED BY <2>2, BackIsOrigin
<1> QED BY <1>1, <1>2

LEMMA SameHandoffs ==
    ASSUME log \in Seq(Captured), Follows,
           NEW token \in {"DECISION_RECOVERY", "APP_CRC_FAIL"}
    PROVE  HandoffAfter(log, token) <=> HandoffAfter(Printed, token)
<1>1. ASSUME HandoffAfter(log, token) PROVE HandoffAfter(Printed, token)
  <2>1. PICK i \in DOMAIN log, j \in DOMAIN log :
            i < j /\ Carries(log[i], token) /\ Carries(log[j], "HANDOFF_APP")
        BY <1>1 DEF HandoffAfter
  <2>2. log[i].token = token /\ log[j].token = "HANDOFF_APP"
        BY <2>1 DEF Carries
  <2>3. Back[i] < Back[j]
        BY <2>1, <2>2, BackKeepsOrder
  <2>4. /\ Back[i] \in DOMAIN Printed /\ Printed[Back[i]].token = token
        /\ Back[j] \in DOMAIN Printed /\ Printed[Back[j]].token = "HANDOFF_APP"
        BY <2>2, BackIsOrigin
  <2> QED BY <2>3, <2>4 DEF HandoffAfter, Carries
<1>2. ASSUME HandoffAfter(Printed, token) PROVE HandoffAfter(log, token)
      BY <1>2, PrintedLines DEF HandoffAfter
<1> QED BY <1>1, <1>2

-----------------------------------------------------------------------------
(* What is found is there in order.                                        *)

(* The first token that is looked for from the start of the log.           *)
FirstOf(lines, profile) ==
    IF /\ profile = "update"
       /\ ~ \E i \in DOMAIN lines : Carries(lines[i], "READY_FOR_UPDATE")
    THEN 2 ELSE 1

LEMMA FirstScan ==
    ASSUME NEW lines, DOMAIN lines \subseteq Nat \ {0}, NEW profile,
           Len(Required(profile)) \in Nat \ {0}
    PROVE  Scans(lines, profile)[FirstOf(lines, profile) - 1] = Scan(0, {})
<1> PICK n \in Nat : n = Len(Required(profile)) /\ n # 0
    OBVIOUS
<1> DEFINE g == Scans(lines, profile)
<1>1. Rounds(g, lines, profile, n)
      BY ScansRounds
<1> HIDE DEF g
<1>2. g[0] = Scan(0, {})
  <2>1. 0 \in 0 .. n
        OBVIOUS
  <2> QED BY <1>1, <2>1 DEF Rounds, Start, Scan
<1>3. CASE FirstOf(lines, profile) = 1
      BY <1>2, <1>3 DEF g
<1>4. CASE FirstOf(lines, profile) # 1
  <2>1. /\ FirstOf(lines, profile) = 2 /\ profile = "update"
        /\ \A i \in DOMAIN lines : ~Carries(lines[i], "READY_FOR_UPDATE")
        BY <1>4 DEF FirstOf
  <2>2. g[1] = Find(lines, "update", Scan(0, {}), "READY_FOR_UPDATE")
    <3>1. 1 \in 0 .. n /\ 1 - 1 = 0
          OBVIOUS
    <3> QED BY <1>1, <1>2, <2>1, <3>1, UpdateAsks DEF Rounds
  <2>3. Later(lines, 0, "READY_FOR_UPDATE") = {}
        BY <2>1 DEF Later
  <2>4. "READY_FOR_UPDATE" \in Optional("update")
        BY DEF Optional
  <2>5. g[1] = Scan(0, {})
        BY <2>2, <2>3, <2>4 DEF Find, Scan
  <2> QED BY <2>1, <2>5 DEF g
<1> QED BY <1>3, <1>4

(* A round that misses nothing was not behind one that did.                *)
LEMMA MissedStays ==
    ASSUME NEW lines, NEW profile, NEW n \in Nat, NEW g, Rounds(g, lines, profile, n),
           g[n].missing = {}, NEW k \in 0 .. n
    PROVE  g[k].missing = {}
<1> DEFINE T == {j \in 0 .. n : g[j].missing # {}}
<1>1. SUFFICES ASSUME T # {} PROVE FALSE
      OBVIOUS
<1>2. PICK t \in T : \A j \in T : j <= t
  <2>1. T \subseteq 0 .. n
        OBVIOUS
  <2> HIDE DEF T
  <2> QED BY <1>1, <2>1, GreatestNumber
<1>3. t \in 0 .. n /\ g[t].missing # {} /\ t # n
      OBVIOUS
<1>4. t + 1 \in 0 .. n /\ ~(t + 1 <= t) /\ (t + 1) - 1 = t /\ t + 1 # 0
      BY <1>3
<1>5. g[t + 1].missing = {}
      BY <1>2, <1>4
<1>6. PICK a, m : g[t] = Scan(a, m)
      BY <1>3, RoundsShape DEF IsScan
<1>7. g[t + 1] = Find(lines, profile, Scan(a, m), Required(profile)[t + 1])
      BY <1>4, <1>6 DEF Rounds
<1> DEFINE token == Required(profile)[t + 1]
           found == Later(lines, a, token)
<1>8. CASE found # {}
  <2>1. g[t + 1] = Scan(Min(found), m)
        BY <1>7, <1>8 DEF Find, Scan
  <2> QED BY <1>3, <1>5, <1>6, <2>1 DEF Scan
<1>9. CASE found = {} /\ token \in Optional(profile)
  <2>1. g[t + 1] = Scan(a, m)
        BY <1>7, <1>9 DEF Find, Scan
  <2> QED BY <1>3, <1>5, <1>6, <2>1 DEF Scan
<1>10. CASE found = {} /\ token \notin Optional(profile)
  <2>1. g[t + 1] = Scan(a, m \cup {token})
        BY <1>7, <1>10 DEF Find, Scan
  <2> QED BY <1>5, <2>1 DEF Scan
<1> QED BY <1>8, <1>9, <1>10

LEMMA RecoveryAsks ==
    LET required == Required("recovery")
    IN /\ Len(required) = 2
       /\ required[1] = "DECISION_RECOVERY" /\ required[2] = "RECOVERY_CMD_STATUS"
BY DEF Required

LEMMA AsksSome ==
    ASSUME NEW profile \in Profiles, NEW lines
    PROVE  /\ Len(Required(profile)) \in Nat \ {0}
           /\ FirstOf(lines, profile) \in 1 .. Len(Required(profile))
<1>1. CASE profile = "normal"
      BY <1>1, NormalAsks DEF FirstOf
<1>2. CASE profile = "recovery"
      BY <1>2, RecoveryAsks DEF FirstOf
<1>3. CASE profile = "update"
      BY <1>3, UpdateAsks DEF FirstOf
<1> QED BY <1>1, <1>2, <1>3 DEF Profiles

(* Only the prompt of a session may be missing.                            *)
LEMMA OnlyThePrompt ==
    ASSUME NEW profile \in Profiles, NEW k \in 1 .. Len(Required(profile)),
           Required(profile)[k] \in Optional(profile)
    PROVE  profile = "update" /\ k = 1
<1>1. profile = "update" /\ Required(profile)[k] = "READY_FOR_UPDATE"
      BY DEF Optional
<1>2. k \in 1 .. 3
      BY <1>1, UpdateAsks
<1>3. k = 1 \/ k = 2 \/ k = 3
      BY <1>2
<1> QED BY <1>1, <1>3, UpdateAsks

LEMMA FoundIsOrder ==
    ASSUME NEW lines, DOMAIN lines \subseteq Nat \ {0}, NEW profile \in Profiles,
           FindInOrder(lines, profile)
    PROVE  \E f : InOrder(f, lines, profile, FirstOf(lines, profile), Len(Required(profile)))
<1> DEFINE first == FirstOf(lines, profile)
           g == Scans(lines, profile)
           f == [k \in first .. Len(Required(profile)) |-> g[k].at]
<1>1. PICK n \in Nat : n = Len(Required(profile)) /\ n # 0 /\ first \in 1 .. n
      BY AsksSome
<1>2. Rounds(g, lines, profile, n) /\ g[n].missing = {} /\ g[first - 1] = Scan(0, {})
      BY <1>1, ScansRounds, FirstScan DEF FindInOrder
<1> HIDE DEF g
<1>3. ASSUME NEW k \in first .. n
      PROVE  \E a : /\ g[k - 1].at = a
                    /\ g[k].at \in Later(lines, a, Required(profile)[k])
  <2>1. k \in 0 .. n /\ k - 1 \in 0 .. n /\ k # 0 /\ k \in 1 .. n
        BY <1>1
  <2>2. PICK a, m : g[k - 1] = Scan(a, m)
    <3>1. IsScan(g[k - 1])
          BY <1>2, <2>1, RoundsShape
    <3> QED BY <3>1 DEF IsScan
  <2>3. m = {}
    <3>1. g[k - 1].missing = {}
          BY <1>2, <2>1, MissedStays
    <3> QED BY <2>2, <3>1 DEF Scan
  <2> DEFINE token == Required(profile)[k]
             found == Later(lines, a, token)
  <2>4. g[k] = Find(lines, profile, Scan(a, {}), token)
        BY <1>2, <2>1, <2>2, <2>3 DEF Rounds
  <2>5. found # {}
    <3>1. SUFFICES ASSUME found = {} PROVE FALSE
          OBVIOUS
    <3>2. CASE token \in Optional(profile)
      <4>1. profile = "update" /\ k = 1 /\ token = "READY_FOR_UPDATE"
            BY <1>1, <2>1, <3>2, OnlyThePrompt, UpdateAsks
      <4>2. first = 1
            BY <1>1, <4>1
      <4>3. PICK i \in DOMAIN lines : Carries(lines[i], "READY_FOR_UPDATE")
            BY <4>1, <4>2 DEF FirstOf
      <4>4. a = 0
            BY <1>2, <2>2, <4>1, <4>2 DEF Scan
      <4>5. i > 0
            OBVIOUS
      <4> QED BY <3>1, <4>1, <4>3, <4>4, <4>5 DEF Later
    <3>3. CASE token \notin Optional(profile)
      <4>1. g[k] = Scan(a, {token})
            BY <2>4, <3>1, <3>3 DEF Find, Scan
      <4>2. g[k].missing = {}
            BY <1>2, <2>1, MissedStays
      <4> QED BY <4>1, <4>2 DEF Scan
    <3> QED BY <3>2, <3>3
  <2>6. g[k] = Scan(Min(found), {})
        BY <2>4, <2>5 DEF Find, Scan
  <2>7. Min(found) \in found
    <3>1. found \subseteq Nat
          BY DEF Later
    <3> HIDE DEF found
    <3> QED BY <2>5, <3>1, LeastNumber
  <2> HIDE DEF found
  <2>8. g[k].at \in found /\ g[k - 1].at = a
        BY <2>2, <2>6, <2>7 DEF Scan
  <2> QED BY <2>8 DEF found
<1> HIDE DEF first
<1>4. ASSUME NEW k \in first .. n
      PROVE  /\ f[k] = g[k].at /\ f[k] \in DOMAIN lines /\ g[k - 1].at < f[k]
             /\ Carries(lines[f[k]], Required(profile)[k])
      BY <1>1, <1>3, <1>4 DEF Later
<1>5. ASSUME NEW k \in first + 1 .. n PROVE f[k - 1] < f[k]
  <2>1. k \in first .. n /\ k - 1 \in first .. n
        BY <1>1
  <2>2. f[k - 1] = g[k - 1].at
        BY <1>4, <2>1
  <2> QED BY <1>4, <2>1, <2>2
<1>6. f \in [first .. n -> DOMAIN lines]
      BY <1>1, <1>4
<1>7. InOrder(f, lines, profile, first, n)
      BY <1>4, <1>5, <1>6 DEF InOrder
<1> HIDE DEF f
<1> QED BY <1>1, <1>7 DEF first

LEMMA FoundInOrder ==
    ASSUME NEW lines, DOMAIN lines \subseteq Nat \ {0}, NEW profile \in Profiles
    PROVE  FindInOrder(lines, profile) <=>
               \E f : InOrder(f, lines, profile, FirstOf(lines, profile),
                              Len(Required(profile)))
<1>1. ASSUME NEW f, InOrder(f, lines, profile, FirstOf(lines, profile), Len(Required(profile)))
      PROVE  FindInOrder(lines, profile)
  <2>1. PICK n \in Nat : n = Len(Required(profile)) /\ n # 0
        BY AsksSome
  <2>2. PICK first \in 1 .. n : first = FirstOf(lines, profile)
        BY <2>1, AsksSome
  <2>3. Scans(lines, profile)[first - 1] = Scan(0, {})
        BY <2>1, <2>2, FirstScan
  <2> QED BY <1>1, <2>1, <2>2, <2>3, OrderIsFound
<1> QED BY <1>1, FoundIsOrder

(* Two tokens in a row are not on one line, but HANDOFF is on the line of  *)
(* HANDOFF_APP.                                                            *)
LEMMA Apart ==
    ASSUME NEW profile \in Profiles, NEW k \in 2 .. Len(Required(profile)),
           ~(profile = "normal" /\ k = 6), NEW a, NEW b,
           Carries(a, Required(profile)[k - 1]), Carries(b, Required(profile)[k])
    PROVE  a.token # b.token
<1>1. CASE profile = "normal"
  <2>1. \/ k = 2 /\ k - 1 = 1
        \/ k = 3 /\ k - 1 = 2
        \/ k = 4 /\ k - 1 = 3
        \/ k = 5 /\ k - 1 = 4
        \/ k = 7 /\ k - 1 = 6
        \/ k = 8 /\ k - 1 = 7
    <3>1. k \in 2 .. 8 /\ k # 6
          BY <1>1, NormalAsks
    <3> QED BY <3>1
  <2> QED BY <1>1, <2>1, NormalAsks DEF Carries
<1>2. CASE profile = "recovery"
  <2>1. k = 2 /\ k - 1 = 1
    <3>1. k \in 2 .. 2
          BY <1>2, RecoveryAsks
    <3> QED BY <3>1
  <2> QED BY <1>2, <2>1, RecoveryAsks DEF Carries
<1>3. CASE profile = "update"
  <2>1. (k = 2 /\ k - 1 = 1) \/ (k = 3 /\ k - 1 = 2)
    <3>1. k \in 2 .. 3
          BY <1>3, UpdateAsks
    <3> QED BY <3>1
  <2> QED BY <1>3, <2>1, UpdateAsks DEF Carries
<1> QED BY <1>1, <1>2, <1>3 DEF Profiles

(* What is in order among the printed lines is in order in the log.        *)
LEMMA OrderInLog ==
    ASSUME NEW profile, NEW first, NEW last, NEW f, InOrder(f, Printed, profile, first, last)
    PROVE  InOrder(f, log, profile, first, last)
<1>1. f \in [first .. last -> DOMAIN log]
      BY PrintedLines DEF InOrder
<1>2. \A k \in first .. last : f[k] \in DOMAIN Printed /\ Printed[f[k]] = log[f[k]]
      BY PrintedLines DEF InOrder
<1> QED BY <1>1, <1>2 DEF InOrder

(* The other way every line goes back to the one it repeats; a HANDOFF     *)
(* read off a HANDOFF_APP to the line in front of that.                    *)
LEMMA OrderAmongPrinted ==
    ASSUME log \in Seq(Captured), Follows, NEW profile \in Profiles,
           NEW first \in 1 .. 2, profile = "normal" => first = 1,
           NEW f, InOrder(f, log, profile, first, Len(Required(profile)))
    PROVE  \E h : InOrder(h, Printed, profile, first, Len(Required(profile)))
<1> PICK n \in Nat : n = Len(Required(profile)) /\ n # 0
    BY AsksSome
<1>1. /\ \A k \in first .. n : f[k] \in DOMAIN log /\ Carries(log[f[k]], Required(profile)[k])
      /\ \A k \in first + 1 .. n : f[k - 1] < f[k]
      BY DEF InOrder
<1> DEFINE Shared(k) == profile = "normal" /\ k = 5 /\ log[f[k]].token = "HANDOFF_APP"
           h == [k \in first .. n |-> IF Shared(k) THEN Back[f[k]] - 1 ELSE Back[f[k]]]
<1>2. ASSUME NEW k \in first .. n, Shared(k)
      PROVE  /\ h[k] = Back[f[k]] - 1 /\ h[k] \in DOMAIN Printed /\ h[k] \in DOMAIN log
             /\ log[h[k]].token = "HANDOFF" /\ Carries(Printed[h[k]], Required(profile)[k])
  <2>1. PICK b \in DOMAIN Printed : b = Back[f[k]] /\ b \in DOMAIN log /\ log[b].token = "HANDOFF_APP"
        BY <1>1, <1>2, BackIsOrigin
  <2>2. ~log[b].stall
        BY <2>1, PrintedLines
  <2>3. b - 1 \in DOMAIN log /\ log[b - 1] = Line("HANDOFF")
        BY <2>1, <2>2 DEF Follows
  <2>4. b - 1 \in DOMAIN Printed /\ Printed[b - 1] = Line("HANDOFF")
        BY <2>3, PrintedLines DEF Line
  <2>5. h[k] = b - 1
        BY <1>2, <2>1
  <2> HIDE DEF h
  <2> QED BY <1>2, <2>1, <2>3, <2>4, <2>5, NormalAsks DEF Carries, Line
<1>3. ASSUME NEW k \in first .. n, ~Shared(k)
      PROVE  /\ h[k] = Back[f[k]] /\ h[k] \in DOMAIN Printed
             /\ Carries(Printed[h[k]], Required(profile)[k])
  <2>1. h[k] = Back[f[k]]
        BY <1>3
  <2>2. /\ Back[f[k]] \in DOMAIN Printed /\ Printed[Back[f[k]]].token = log[f[k]].token
        BY <1>1, BackIsOrigin
  <2> HIDE DEF h
  <2> QED BY <1>1, <2>1, <2>2 DEF Carries
<1>4. ASSUME NEW k \in first + 1 .. n
      PROVE  h[k - 1] < h[k]
  <2>1. /\ k \in first .. n /\ k - 1 \in first .. n /\ k \in 2 .. n /\ f[k - 1] < f[k]
        /\ k \in Nat
        BY <1>1
  <2>2. PICK i \in DOMAIN log, j \in DOMAIN log : i = f[k - 1] /\ j = f[k] /\ i < j
        BY <1>1, <2>1
  <2>3. /\ i \in Nat /\ j \in Nat /\ Back[i] \in Nat /\ Back[j] \in Nat
        /\ Back[i] <= i /\ Back[j] <= j /\ log[Back[i]].token = log[i].token
        BY <2>2, BackIsOrigin
  <2>4. CASE ~Shared(k - 1) /\ ~Shared(k)
    <3>1. log[i].token # log[j].token
      <4>1. CASE ~(profile = "normal" /\ k = 6)
        <5>1. Carries(log[i], Required(profile)[k - 1]) /\ Carries(log[j], Required(profile)[k])
              BY <1>1, <2>1, <2>2
        <5>2. k \in 2 .. Len(Required(profile))
              BY <2>1
        <5> QED BY <4>1, <5>1, <5>2, Apart
      <4>2. CASE profile = "normal" /\ k = 6
        <5>1. log[i].token # "HANDOFF_APP"
              BY <2>2, <2>4, <4>2
        <5>2. log[j].token = "HANDOFF_APP"
              BY <1>1, <2>1, <2>2, <4>2, NormalAsks DEF Carries
        <5> QED BY <5>1, <5>2
      <4> QED BY <4>1, <4>2
    <3>2. Back[i] < Back[j]
          BY <2>2, <3>1, BackKeepsOrder
    <3>3. h[k - 1] = Back[i] /\ h[k] = Back[j]
          BY <1>3, <2>1, <2>2, <2>4
    <3> HIDE DEF h
    <3> QED BY <3>2, <3>3
  <2>5. CASE Shared(k)
    <3>1. profile = "normal" /\ k = 5 /\ k - 1 = 4
          BY <2>5
    <3>2. log[i].token = "LOAD_APP" /\ log[j].token = "HANDOFF_APP"
      <4>1. Carries(log[i], "LOAD_APP")
            BY <1>1, <2>1, <2>2, <3>1, NormalAsks
      <4> QED BY <2>2, <2>5, <4>1 DEF Carries
    <3>3. i < Back[j]
          BY <2>2, <3>2, BackKeepsOrder
    <3>4. h[k - 1] = Back[i] /\ h[k] = Back[j] - 1
          BY <1>2, <1>3, <2>1, <2>2, <2>5, <3>1
    <3>5. log[h[k]].token = "HANDOFF"
          BY <1>2, <2>1, <2>5
    <3> HIDE DEF h
    <3>6. Back[i] # Back[j] - 1
          BY <2>3, <3>2, <3>4, <3>5
    <3> QED BY <2>3, <3>3, <3>4, <3>6
  <2>6. CASE Shared(k - 1)
    <3>1. profile = "normal" /\ k = 6 /\ k - 1 = 5
          BY <2>1, <2>6
    <3>2. log[i].token = "HANDOFF_APP" /\ log[j].token = "HANDOFF_APP"
      <4>1. Carries(log[j], "HANDOFF_APP")
            BY <1>1, <2>1, <2>2, <3>1, NormalAsks
      <4> QED BY <2>2, <2>6, <4>1 DEF Carries
    <3>3. h[k - 1] = Back[i] - 1 /\ h[k] = Back[j] /\ log[Back[i] - 1].token = "HANDOFF"
          BY <1>2, <1>3, <2>1, <2>2, <2>6, <3>1
    <3>4. ~(Back[j] <= Back[i] - 1)
      <4>1. SUFFICES ASSUME Back[j] <= Back[i] - 1 PROVE FALSE
            OBVIOUS
      <4>2. Back[i] - 1 \in Back[j] .. j
            BY <2>2, <2>3, <4>1
      <4>3. log[Back[i] - 1].token = "HANDOFF_APP"
            BY <2>2, <3>2, <4>2, BackIsOrigin
      <4> QED BY <3>3, <4>3
    <3> HIDE DEF h
    <3> QED BY <2>3, <3>3, <3>4
  <2> QED BY <2>4, <2>5, <2>6
<1>5. ASSUME NEW k \in first .. n
      PROVE  h[k] \in DOMAIN Printed /\ Carries(Printed[h[k]], Required(profile)[k])
  <2>1. CASE Shared(k)
        BY <1>2, <2>1
  <2>2. CASE ~Shared(k)
        BY <1>3, <2>2
  <2> QED BY <2>1, <2>2
<1>6. h \in [first .. n -> DOMAIN Printed]
  <2>1. h = [k \in first .. n |-> h[k]]
        OBVIOUS
  <2> HIDE DEF h
  <2> QED BY <1>5, <2>1
<1> HIDE DEF h
<1>7. InOrder(h, Printed, profile, first, n)
      BY <1>4, <1>5, <1>6 DEF InOrder
<1> QED BY <1>7

LEMMA SameFirst ==
    ASSUME log \in Seq(Captured), Follows, NEW profile
    PROVE  FirstOf(Printed, profile) = FirstOf(log, profile)
<1>1. ASSUME NEW i \in DOMAIN log, Carries(log[i], "READY_FOR_UPDATE")
      PROVE  \E o \in DOMAIN Printed : Carries(Printed[o], "READY_FOR_UPDATE")
  <2>1. Back[i] \in DOMAIN Printed /\ Printed[Back[i]].token = log[i].token
        BY BackIsOrigin
  <2> QED BY <1>1, <2>1 DEF Carries
<1>2. ASSUME NEW o \in DOMAIN Printed, Carries(Printed[o], "READY_FOR_UPDATE")
      PROVE  \E i \in DOMAIN log : Carries(log[i], "READY_FOR_UPDATE")
      BY <1>2, PrintedLines
<1> QED BY <1>1, <1>2 DEF FirstOf

LEMMA SameFound ==
    ASSUME log \in Seq(Captured), Follows, NEW profile \in Profiles
    PROVE  FindInOrder(log, profile) <=> FindInOrder(Printed, profile)
<1> PICK n : n = Len(Required(profile))
    OBVIOUS
<1> PICK first \in 1 .. 2 : /\ first = FirstOf(log, profile)
                            /\ profile = "normal" => first = 1
    BY DEF FirstOf
<1>1. DOMAIN log \subseteq Nat \ {0} /\ DOMAIN Printed \subseteq Nat \ {0}
      BY PrintedLines
<1>2. FindInOrder(log, profile) <=> \E f : InOrder(f, log, profile, first, n)
      BY <1>1, FoundInOrder
<1>3. FindInOrder(Printed, profile) <=> \E f : InOrder(f, Printed, profile, first, n)
      BY <1>1, FoundInOrder, SameFirst
<1>4. ASSUME NEW f, InOrder(f, log, profile, first, n)
      PROVE  \E h : InOrder(h, Printed, profile, first, n)
      BY <1>4, OrderAmongPrinted
<1>5. ASSUME NEW f, InOrder(f, Printed, profile, first, n)
      PROVE  InOrder(f, log, profile, first, n)
      BY <1>5, OrderInLog
<1> QED BY <1>2, <1>3, <1>4, <1>5

(* Every stall goes back to the line it quotes, and no profile asks for    *)
(* the same line twice: without the stalls the verdict is the same.        *)
THEOREM StallsDoNothing == Spec => []StallsChangeNothing
<1>1. LogTrue => StallsChangeNothing
  <2> SUFFICES ASSUME LogTrue, NEW profile \in Profiles, NEW allow \in BOOLEAN
               PROVE  Validates(log, profile, allow) = Validates(Printed, profile, allow)
      BY DEF StallsChangeNothing, Printed
  <2>1. log \in Seq(Captured) /\ Follows
        BY DEF LogTrue
  <2>2. FindInOrder(log, profile) <=> FindInOrder(Printed, profile)
        BY <2>1, SameFound
  <2>3. CheckRecovery(log, allow) <=> CheckRecovery(Printed, allow)
        BY <2>1, SameHandoffs DEF CheckRecovery
  <2>4. CheckCrcFailSafety(log) <=> CheckCrcFailSafety(Printed)
        BY <2>1, SameHandoffs DEF CheckCrcFailSafety
  <2> QED BY <2>2, <2>3, <2>4 DEF Validates
<1> QED BY <1>1, LogIsTrue, PTL
=============================================================================
