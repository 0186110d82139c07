------------------------ MODULE UpdateModeProofs ------------------------
(***************************************************************************)
(* Proofs about UpdateMode, for every partition table, flash, set of frame *)
(* headers, CRC and limit.                                                 *)
(***************************************************************************)
EXTENDS UpdateMode, FlashProofs

-----------------------------------------------------------------------------
(* The parts of the inductive invariant.                                   *)

InFrame == phase \in {"payload", "erase", "write"}
WholeFrame == phase \in {"erase", "write"}

(* What handle_update_mode has checked by the time it gets somewhere.      *)
CheckedSoFar ==
    /\ phase # "idle" => ~SetupFails
    /\ InFrame => chunk \in Headers /\ ChunkFits(chunk)
    /\ phase = "payload" => Len(payload) < chunk.len
    /\ WholeFrame => Len(payload) = chunk.len /\ FrameIntact(payload)
    /\ ~InFrame => payload = <<>>
    /\ phase \in {"start", "header"} => Len(line) < Capacity - 1

(* The erase loop: the sectors it has passed are erased.                   *)
ErasedSoFar ==
    /\ phase = "erase" => /\ sector \in FirstSector(chunk) .. LastSector(chunk)
                          /\ FirstSector(chunk) .. sector - 1 \subseteq erased
    /\ phase = "write" => FirstSector(chunk) .. LastSector(chunk) \subseteq erased

(* Acknowledged cells lie in sectors the bitmap calls erased, so that no   *)
(* later frame erases them.                                                *)
AckedErased ==
    \A a \in DOMAIN flash :
        acked[a] # {} => a \in Partition(part) /\ SectorOf(a) \in erased

(* AckedKept and NoOldBits, which hold on after the session too, until the *)
(* next one begins.                                                        *)
Kept == \A a \in DOMAIN flash : UNION acked[a] \subseteq flash[a]

NoneOld == \A a \in Partition(part) : SectorOf(a) \in erased => flash[a] \subseteq UNION tried[a]

History == AckedErased /\ Kept /\ NoneOld

Shape == TypeOK /\ CheckedSoFar /\ ErasedSoFar

(* The inductive invariant.                                                *)
Inv == Shape /\ History

-----------------------------------------------------------------------------
(* Ways out of a step.                                                     *)

(* The step gives up the frame: back to the header, or out of the session. *)
Gives(phases) ==
    /\ phase' \in phases
    /\ ClearLocals
    /\ errors' \in 0 .. MaxErrors - 1
    /\ result' \in BOOLEAN

LeavesFrame == Gives({"idle", "header"})

LEMMA Zeros == 0 \in 0 .. MaxErrors - 1 /\ 0 \in 0 .. Timeout - 1
BY LimitsAssumption

LEMMA FailLeaves ==
    ASSUME errors \in 0 .. MaxErrors - 1, result \in BOOLEAN, NEW off, Fail(off)
    PROVE  /\ LeavesFrame
           /\ phase' # "idle" => result' = result
           /\ phase' = "idle" => result' = FALSE
<1>1. CASE GiveUp(OneMore(errors))
  BY <1>1, Zeros DEF Fail, Return, LeavesFrame, Gives
<1>2. CASE ~GiveUp(OneMore(errors))
  <2>1. errors + 1 \in 0 .. MaxErrors - 1
    BY <1>2, LimitsAssumption DEF GiveUp, OneMore
  <2> QED
    BY <1>2, <2>1 DEF Fail, NextChunk, OneMore, LeavesFrame, Gives
<1> QED
  BY <1>1, <1>2

LEMMA LineFailsLeaves ==
    ASSUME errors \in 0 .. MaxErrors - 1, result \in BOOLEAN, LineFails
    PROVE  /\ LeavesFrame
           /\ phase' # "idle" => result' = result
           /\ phase' = "idle" => result' = FALSE
BY FailLeaves, Zeros DEF LineFails, Return, LeavesFrame, Gives

(* An emptied line and payload satisfy what is known after a frame.        *)
LEMMA LeavesFrameChecked ==
    ASSUME CheckedSoFar, phase # "idle", LeavesFrame, part' = part
    PROVE  CheckedSoFar' /\ ErasedSoFar'
<1>1. ~SetupFails /\ (SetupFails' <=> SetupFails)
  BY DEF CheckedSoFar, SetupFails
<1>2. /\ phase' \in {"idle", "header"} /\ line' = <<>> /\ payload' = <<>>
  BY DEF LeavesFrame, Gives, ClearLocals
<1>3. phase' = "header" => Len(line') < Capacity' - 1
  BY <1>2, LimitsAssumption DEF Capacity
<1> QED
  BY <1>1, <1>2, <1>3 DEF CheckedSoFar, ErasedSoFar, InFrame, WholeFrame

LEMMA LeavesFrameTypes ==
    ASSUME TypeOK, LeavesFrame, part' = part, flash' \in FlashStates,
           erased' \subseteq Nat,
           tried' \in [0 .. FlashSize - 1 -> SUBSET Data],
           acked' \in [0 .. FlashSize - 1 -> SUBSET Data]
    PROVE  TypeOK'
<1>2. /\ line' \in Seq(Symbols) /\ payload' \in Seq(Data)
      /\ waited' \in 0 .. Timeout - 1 /\ chunk' \in Headers \cup {NoChunk}
      /\ sector' \in Nat
  BY Zeros DEF LeavesFrame, Gives, ClearLocals
<1> QED
  BY <1>2 DEF TypeOK, LeavesFrame, Gives, Phases

-----------------------------------------------------------------------------
(* Steps that touch neither the flash nor the bitmap.                      *)

Quiet == \/ LineIdle \/ StartLine \/ EndLine \/ BadHeader \/ HeaderLine \/ PayloadIdle
         \/ Verify
         \/ \E s \in Symbols : LineByte(s)
         \/ \E d \in Data : PayloadByte(d)

LEMMA ChunkTypes ==
    ASSUME NEW c \in Headers
    PROVE  c.len \in Nat /\ c.off \in Nat
BY HeadersAssumption

LEMMA FirstSectorType ==
    ASSUME NEW c \in Headers
    PROVE  FirstSector(c) \in Nat
BY ChunkTypes, DivBounds DEF FirstSector

(* A quiet step stays where it is, moves on, or leaves the frame.          *)
LEMMA QuietTypes ==
    ASSUME TypeOK, CheckedSoFar, Quiet
    PROVE  TypeOK'
<1>0. /\ UNCHANGED <<part, flash, erased, tried, acked>>
      /\ errors \in 0 .. MaxErrors - 1 /\ result \in BOOLEAN
      /\ 0 \in 0 .. Timeout - 1 /\ 0 \in 0 .. MaxErrors - 1
  BY Zeros DEF Quiet, TypeOK, LineIdle, StartLine, EndLine, BadHeader, HeaderLine, PayloadIdle,
     Verify, LineByte, PayloadByte, Unwritten
<1>1. CASE LeavesFrame
  BY <1>0, <1>1, LeavesFrameTypes DEF TypeOK
<1>2. CASE LineIdle
  <2>1. CASE TimedOut(waited + 1)
    BY <1>0, <1>1, <1>2, <2>1, LineFailsLeaves DEF LineIdle
  <2>2. CASE ~TimedOut(waited + 1)
    <3>1. waited + 1 \in 0 .. Timeout - 1
      BY <2>2, LimitsAssumption DEF TimedOut, TypeOK
    <3> QED
      BY <1>0, <1>2, <2>2, <3>1 DEF LineIdle, TypeOK
  <2> QED
    BY <2>1, <2>2
<1>3. CASE PayloadIdle
  <2>1. CASE TimedOut(waited + 1)
    BY <1>0, <1>1, <1>3, <2>1, FailLeaves DEF PayloadIdle
  <2>2. CASE ~TimedOut(waited + 1)
    <3>1. waited + 1 \in 0 .. Timeout - 1
      BY <2>2, LimitsAssumption DEF TimedOut, TypeOK
    <3> QED
      BY <1>0, <1>3, <2>2, <3>1 DEF PayloadIdle, TypeOK
  <2> QED
    BY <2>1, <2>2
<1>4. ASSUME NEW s \in Symbols, LineByte(s)
      PROVE  TypeOK'
  <2>1. CASE LineFails
    BY <1>0, <1>1, <2>1, LineFailsLeaves
  <2>2. CASE ~LineFails
    <3>1. line' \in Seq(Symbols)
      BY <1>4, <2>2 DEF LineByte, TypeOK
    <3> QED
      BY <1>0, <1>4, <2>2, <3>1 DEF LineByte, TypeOK
  <2> QED
    BY <2>1, <2>2
<1>5. CASE StartLine
  BY <1>0, <1>1, <1>5 DEF StartLine, Return, NextChunk, LeavesFrame, Gives
<1>6. CASE EndLine
  <2>1. /\ line' \in Seq(Symbols) /\ payload' \in Seq(Data)
        /\ waited' \in 0 .. Timeout - 1 /\ chunk' \in Headers \cup {NoChunk}
        /\ sector' \in Nat
    BY <1>0, <1>6 DEF EndLine, ClearLocals
  <2> QED
    BY <1>0, <1>6, <2>1 DEF EndLine, TypeOK, Phases
<1>7. CASE BadHeader
  BY <1>0, <1>1, <1>7, FailLeaves DEF BadHeader
<1>8. CASE HeaderLine
  <2>1. CASE ChunkFits(Parsed(line))
    <3>1. Parsed(line) \in Headers
      BY <1>8 DEF HeaderLine, Parses, Parsed
    <3> QED
      BY <1>0, <1>8, <2>1, <3>1 DEF HeaderLine, TypeOK, Phases
  <2>2. CASE ~ChunkFits(Parsed(line))
    BY <1>0, <1>1, <1>8, <2>2, FailLeaves DEF HeaderLine
  <2> QED
    BY <2>1, <2>2
<1>9. CASE Verify
  <2>1. ASSUME NEW ok \in CrcCheckOutcomes(flash, part)
        PROVE  ok \in BOOLEAN
    BY <2>1 DEF CrcCheckOutcomes, ImageValid
  <2> QED
    BY <1>0, <1>1, <1>9, <2>1 DEF Verify, Return, LeavesFrame, Gives
<1>10. ASSUME NEW d \in Data, PayloadByte(d)
       PROVE  TypeOK'
  <2>1. Append(payload, d) \in Seq(Data)
    BY <1>10 DEF TypeOK
  <2>2. FirstSector(chunk) \in Nat
    BY <1>10, FirstSectorType DEF PayloadByte, CheckedSoFar, InFrame
  <2>3. CASE Len(Append(payload, d)) < chunk.len
    BY <1>0, <1>10, <2>1, <2>3 DEF PayloadByte, WaitedAfterPayloadByte, TypeOK
  <2>4. CASE ~(Len(Append(payload, d)) < chunk.len) /\ FrameIntact(Append(payload, d))
    BY <1>0, <1>10, <2>1, <2>2, <2>4 DEF PayloadByte, TypeOK, Phases
  <2>5. CASE ~(Len(Append(payload, d)) < chunk.len) /\ ~FrameIntact(Append(payload, d))
    BY <1>0, <1>1, <1>10, <2>5, FailLeaves DEF PayloadByte
  <2> QED
    BY <2>3, <2>4, <2>5
<1> QED
  BY <1>2, <1>3, <1>4, <1>5, <1>6, <1>7, <1>8, <1>9, <1>10 DEF Quiet

(* A frame is entered with an empty payload, left with a whole intact one. *)
LEMMA QuietChecked ==
    ASSUME TypeOK, CheckedSoFar, ErasedSoFar, Quiet
    PROVE  CheckedSoFar' /\ ErasedSoFar'
<1>0. /\ UNCHANGED <<part, flash, erased, tried, acked>>
      /\ errors \in 0 .. MaxErrors - 1 /\ result \in BOOLEAN /\ phase # "idle"
  BY DEF Quiet, TypeOK, LineIdle, StartLine, EndLine, BadHeader, HeaderLine, PayloadIdle,
     Verify, LineByte, PayloadByte, Unwritten
<1>1. CASE LeavesFrame
  BY <1>0, <1>1, LeavesFrameChecked
<1>2. ~SetupFails'
  BY <1>0 DEF CheckedSoFar, SetupFails
<1>3. CASE LineIdle \/ PayloadIdle
  <2>1. CASE UNCHANGED <<phase, line, chunk, payload, sector>>
    BY <1>0, <1>2, <2>1 DEF CheckedSoFar, ErasedSoFar, InFrame, WholeFrame, Capacity,
       ChunkFits, FrameIntact
  <2>2. CASE ~UNCHANGED <<phase, line, chunk, payload, sector>>
    BY <1>0, <1>1, <1>3, <2>2, LineFailsLeaves, FailLeaves DEF LineIdle, PayloadIdle
  <2> QED
    BY <2>1, <2>2
<1>4. ASSUME NEW s \in Symbols, LineByte(s)
      PROVE  CheckedSoFar' /\ ErasedSoFar'
  <2>1. CASE LineFails
    BY <1>0, <1>1, <2>1, LineFailsLeaves
  <2>2. CASE ~LineFails
    <3>1. /\ phase' = phase /\ phase \in {"start", "header"} /\ payload' = payload
          /\ Len(line') < Capacity - 1 /\ Capacity' = Capacity
      BY <1>4, <2>2 DEF LineByte, Capacity
    <3> QED
      BY <1>2, <3>1 DEF CheckedSoFar, ErasedSoFar, InFrame, WholeFrame
  <2> QED
    BY <2>1, <2>2
<1>5. CASE StartLine
  BY <1>0, <1>1, <1>5, Zeros DEF StartLine, Return, NextChunk, LeavesFrame, Gives
<1>6. CASE EndLine
  BY <1>2, <1>6 DEF EndLine, ClearLocals, CheckedSoFar, ErasedSoFar, InFrame, WholeFrame
<1>7. CASE BadHeader
  BY <1>0, <1>1, <1>7, FailLeaves DEF BadHeader
<1>8. CASE HeaderLine
  <2>1. CASE ChunkFits(Parsed(line))
    <3>1. Parsed(line) \in Headers
      BY <1>8 DEF HeaderLine, Parses, Parsed
    <3>2. phase' = "payload" /\ chunk' = Parsed(line) /\ payload' = <<>>
      BY <1>8, <2>1 DEF HeaderLine, CheckedSoFar, InFrame
    <3>3. ChunkFits(chunk)'
      BY <1>0, <2>1, <3>2 DEF ChunkFits
    <3>4. Len(payload') < chunk'.len
      BY <2>1, <3>1, <3>2, ChunkTypes DEF ChunkFits
    <3> QED
      BY <1>2, <3>1, <3>2, <3>3, <3>4 DEF CheckedSoFar, ErasedSoFar, InFrame, WholeFrame
  <2>2. CASE ~ChunkFits(Parsed(line))
    BY <1>0, <1>1, <1>8, <2>2, FailLeaves DEF HeaderLine
  <2> QED
    BY <2>1, <2>2
<1>9. CASE Verify
  BY <1>2, <1>9 DEF Verify, Return, ClearLocals, CheckedSoFar, ErasedSoFar, InFrame, WholeFrame
<1>10. ASSUME NEW d \in Data, PayloadByte(d)
       PROVE  CheckedSoFar' /\ ErasedSoFar'
  <2>1. /\ phase = "payload" /\ chunk \in Headers /\ ChunkFits(chunk)
        /\ Len(payload) < chunk.len /\ chunk.len \in Nat /\ chunk.off \in Nat
    BY <1>10, ChunkTypes DEF PayloadByte, CheckedSoFar, InFrame
  <2>2. Len(Append(payload, d)) = Len(payload) + 1 /\ Len(payload) \in Nat
    BY DEF TypeOK
  <2>3. CASE Len(Append(payload, d)) < chunk.len
    <3>1. /\ UNCHANGED <<phase, chunk, part>> /\ Len(payload') < chunk.len
      BY <1>0, <1>10, <2>3 DEF PayloadByte
    <3> QED
      BY <1>2, <2>1, <3>1 DEF CheckedSoFar, ErasedSoFar, InFrame, WholeFrame, ChunkFits
  <2>4. CASE ~(Len(Append(payload, d)) < chunk.len) /\ FrameIntact(Append(payload, d))
    <3>0. /\ phase' = "erase" /\ UNCHANGED <<chunk, part>>
          /\ payload' = Append(payload, d) /\ sector' = FirstSector(chunk)
      BY <1>0, <1>10, <2>4 DEF PayloadByte
    <3>1. Len(payload') = chunk.len /\ FrameIntact(payload)'
      BY <2>1, <2>2, <2>4, <3>0 DEF FrameIntact
    <3>2. FirstSector(chunk) \in Nat /\ LastSector(chunk) \in Nat
      <4>1. chunk.off + chunk.len - 1 \in Nat
        BY <2>1 DEF ChunkFits
      <4> QED
        BY <2>1, <4>1, DivBounds DEF FirstSector, LastSector
    <3>3. FirstSector(chunk) <= LastSector(chunk)
      BY <2>1, DivMonotone DEF FirstSector, LastSector, ChunkFits
    <3>4. /\ FirstSector(chunk') = FirstSector(chunk)
          /\ LastSector(chunk') = LastSector(chunk)
      BY <3>0
    <3>5. sector' \in FirstSector(chunk') .. LastSector(chunk')
      BY <3>0, <3>2, <3>3, <3>4
    <3>6. FirstSector(chunk') .. sector' - 1 = {}
      BY <3>0, <3>2, <3>4
    <3> QED
      BY <1>2, <2>1, <3>0, <3>1, <3>5, <3>6 DEF CheckedSoFar, ErasedSoFar, InFrame, WholeFrame,
         ChunkFits
  <2>5. CASE ~(Len(Append(payload, d)) < chunk.len) /\ ~FrameIntact(Append(payload, d))
    BY <1>0, <1>1, <1>10, <2>5, FailLeaves DEF PayloadByte
  <2> QED
    BY <2>3, <2>4, <2>5
<1> QED
  BY <1>3, <1>4, <1>5, <1>6, <1>7, <1>8, <1>9, <1>10 DEF Quiet

-----------------------------------------------------------------------------
(* Steps that write to the flash or to the bitmap.                         *)

(* Where the sectors of an accepted chunk are.                             *)
LEMMA SectorsInside ==
    ASSUME TypeOK, CheckedSoFar, InFrame
    PROVE  /\ FirstSector(chunk) \in Nat /\ LastSector(chunk) \in Nat
           /\ LastSector(chunk) < part.size \div SectorSize
           /\ part.size \div SectorSize \in Nat
           /\ part.size \div SectorSize <= MaxTracked
           /\ part.size % SectorSize = 0
<1>1. /\ part \in Partitions /\ part.size \in Nat /\ part.offset \in Nat
      /\ chunk.len \in Nat /\ chunk.off \in Nat
  BY PartitionsAssumption, ChunkTypes DEF TypeOK, CheckedSoFar
<1>2. ~SetupFails /\ ChunkFits(chunk)
  BY DEF CheckedSoFar, InFrame
<1>3. part.size % SectorSize = 0 /\ ~(part.size \div SectorSize > MaxTracked)
  BY <1>2 DEF SetupFails
<1>4. chunk.off + chunk.len - 1 \in Nat /\ chunk.off + chunk.len - 1 < part.size
  BY <1>1, <1>2 DEF ChunkFits
<1>5. FirstSector(chunk) \in Nat /\ LastSector(chunk) \in Nat
  BY <1>1, <1>4, DivBounds DEF FirstSector, LastSector
<1>6. LastSector(chunk) < part.size \div SectorSize
  BY <1>1, <1>3, <1>4, LastBelowCount DEF LastSector
<1>7. part.size \div SectorSize \in Nat
  BY <1>1, DivBounds
<1>8. part.size \div SectorSize <= MaxTracked
  <2> DEFINE n == part.size \div SectorSize
  <2>1. n \in Nat /\ ~(n > MaxTracked)
    BY <1>3, <1>7
  <2> HIDE DEF n
  <2>2. n <= MaxTracked
    BY <2>1, LimitsAssumption
  <2> QED
    BY <2>2 DEF n
<1> QED
  BY <1>3, <1>5, <1>6, <1>7, <1>8

(* A chunk's cells are cells of the partition, and as many as the payload. *)
LEMMA ChunkInside ==
    ASSUME TypeOK, CheckedSoFar, WholeFrame
    PROVE  /\ ChunkCells \subseteq Partition(part)
           /\ WriteAddress \in Nat
           /\ ChunkCells = Span(WriteAddress, Len(payload))
<1>1. /\ part \in Partitions /\ part.size \in Nat /\ part.offset \in Nat
      /\ chunk.len \in Nat /\ chunk.off \in Nat /\ ChunkFits(chunk)
      /\ Len(payload) = chunk.len
  BY PartitionsAssumption, ChunkTypes DEF TypeOK, CheckedSoFar, WholeFrame, InFrame
<1>2. chunk.off + chunk.len <= part.size
  BY <1>1 DEF ChunkFits
<1>3. WriteAddress \in Nat /\ ChunkCells = Span(WriteAddress, Len(payload))
  BY <1>1 DEF ChunkCells, WriteAddress, Span
<1>4. ChunkCells \subseteq Partition(part)
  BY <1>1, <1>2 DEF ChunkCells, WriteAddress, Partition, Span
<1> QED
  BY <1>3, <1>4

LEMMA NoteType ==
    ASSUME TypeOK, CheckedSoFar, WholeFrame,
           NEW h \in [0 .. FlashSize - 1 -> SUBSET Data]
    PROVE  Note(h) \in [0 .. FlashSize - 1 -> SUBSET Data]
<1> SUFFICES ASSUME NEW a \in 0 .. FlashSize - 1, a \in ChunkCells
             PROVE  payload[a - WriteAddress + 1] \in Data
  BY DEF Note
<1>1. a - WriteAddress + 1 \in 1 .. Len(payload)
  BY ChunkInside, FlashSizeAssumption DEF Span
<1> QED
  BY <1>1 DEF TypeOK

EraseLoop == SkipErased \/ EraseSector
FailedFlash == EraseFails \/ WriteFails

(* The erase loop moves one sector on, and every sector behind it is       *)
(* erased.                                                                 *)
LEMMA EraseLoopKeeps ==
    ASSUME TypeOK, CheckedSoFar, ErasedSoFar, EraseLoop
    PROVE  TypeOK' /\ CheckedSoFar' /\ ErasedSoFar'
<1>1. /\ phase = "erase" /\ NextSector /\ erased' = erased \cup {sector}
      /\ sector' = sector + 1
  BY DEF EraseLoop, SkipErased, EraseSector, NextSector, MarkErased
<1>2. /\ UNCHANGED <<part, line, waited, chunk, payload, errors, result, tried, acked>>
      /\ phase' = (IF sector = LastSector(chunk) THEN "write" ELSE "erase")
  BY <1>1 DEF NextSector
<1>3. /\ FirstSector(chunk) \in Nat /\ LastSector(chunk) \in Nat
      /\ sector \in FirstSector(chunk) .. LastSector(chunk)
      /\ FirstSector(chunk) .. sector - 1 \subseteq erased
  BY <1>1, SectorsInside DEF ErasedSoFar, InFrame
<1>4. FirstSector(chunk) .. sector \subseteq erased'
  BY <1>1, <1>3
<1>5. TypeOK'
  <2>1. flash' \in FlashStates
    BY EraseType DEF EraseLoop, SkipErased, EraseSector, TypeOK
  <2>2. erased' \subseteq Nat /\ sector' \in Nat /\ phase' \in Phases
    BY <1>1, <1>2 DEF TypeOK, Phases
  <2> QED
    BY <1>2, <2>1, <2>2 DEF TypeOK
<1>6. CheckedSoFar'
  BY <1>1, <1>2 DEF CheckedSoFar, InFrame, WholeFrame, SetupFails, ChunkFits, FrameIntact
<1>7. ErasedSoFar'
  <2>1. /\ FirstSector(chunk') = FirstSector(chunk)
        /\ LastSector(chunk') = LastSector(chunk)
    BY <1>2
  <2>2. CASE sector = LastSector(chunk)
    BY <1>2, <1>4, <2>1, <2>2 DEF ErasedSoFar
  <2>3. CASE sector # LastSector(chunk)
    <3>1. /\ sector + 1 \in FirstSector(chunk) .. LastSector(chunk)
          /\ sector + 1 - 1 = sector
      BY <1>3, <2>3
    <3> QED
      BY <1>1, <1>2, <1>4, <2>1, <2>3, <3>1 DEF ErasedSoFar
  <2> QED
    BY <2>2, <2>3
<1> QED
  BY <1>5, <1>6, <1>7

(* A failed erase or write leaves the frame.                               *)
LEMMA FailedFlashKeeps ==
    ASSUME TypeOK, CheckedSoFar, FailedFlash
    PROVE  TypeOK' /\ CheckedSoFar' /\ ErasedSoFar'
<1>1. LeavesFrame
  BY FailLeaves DEF FailedFlash, EraseFails, WriteFails, TypeOK
<1>2. part' = part /\ erased' = erased /\ acked' = acked /\ phase # "idle"
  BY DEF FailedFlash, EraseFails, WriteFails
<1>3. flash' \in FlashStates
  <2>1. CASE EraseFails
    BY <2>1, EraseType DEF EraseFails, TypeOK
  <2>2. CASE WriteFails
    <3>1. PICK cells \in SUBSET ChunkCells :
              flash' = Program(flash, WriteAddress, payload, cells)
      BY <2>2 DEF WriteFails
    <3>2. WriteAddress \in Nat /\ cells \in SUBSET Span(WriteAddress, Len(payload))
      BY <2>2, ChunkInside DEF WriteFails, WholeFrame
    <3> QED
      BY <3>1, <3>2, ProgramType DEF TypeOK
  <2> QED
    BY <2>1, <2>2 DEF FailedFlash
<1>4. tried' \in [0 .. FlashSize - 1 -> SUBSET Data]
  BY NoteType DEF FailedFlash, EraseFails, WriteFails, WholeFrame, TypeOK
<1> QED
  BY <1>1, <1>2, <1>3, <1>4, LeavesFrameTypes, LeavesFrameChecked DEF TypeOK

LEMMA WriteKeeps ==
    ASSUME TypeOK, CheckedSoFar, WriteChunk
    PROVE  TypeOK' /\ CheckedSoFar' /\ ErasedSoFar'
<1>1. LeavesFrame
  BY Zeros DEF WriteChunk, NextChunk, LeavesFrame, Gives, TypeOK
<1>2. part' = part /\ erased' = erased /\ phase # "idle"
  BY DEF WriteChunk
<1>3. flash' \in FlashStates
  <2>1. ChunkCells \in SUBSET Span(WriteAddress, Len(payload)) /\ WriteAddress \in Nat
    BY ChunkInside DEF WriteChunk, WholeFrame
  <2> QED
    BY <2>1, ProgramType DEF WriteChunk, TypeOK
<1>4. /\ tried' \in [0 .. FlashSize - 1 -> SUBSET Data]
      /\ acked' \in [0 .. FlashSize - 1 -> SUBSET Data]
  BY NoteType DEF WriteChunk, WholeFrame, TypeOK
<1> QED
  BY <1>1, <1>2, <1>3, <1>4, LeavesFrameTypes, LeavesFrameChecked DEF TypeOK

LEMMA CallKeeps ==
    ASSUME TypeOK, Call
    PROVE  TypeOK' /\ CheckedSoFar' /\ ErasedSoFar'
<1>0. NoHistory \in [0 .. FlashSize - 1 -> SUBSET Data]
  BY DEF NoHistory
<1>1. CASE RefuseSetup
  <2>1. LeavesFrame
    BY <1>1, Zeros DEF RefuseSetup, Return, LeavesFrame, Gives
  <2>2. TypeOK'
    BY <1>1, <2>1, LeavesFrameTypes DEF RefuseSetup, TypeOK
  <2> QED
    BY <1>1, <2>2 DEF RefuseSetup, Return, ClearLocals, CheckedSoFar, ErasedSoFar, InFrame,
       WholeFrame
<1>2. CASE Enter
  <2>1. /\ phase' = "start" /\ line' = <<>> /\ payload' = <<>> /\ ~SetupFails'
        /\ waited' \in 0 .. Timeout - 1 /\ chunk' = NoChunk /\ sector' \in Nat
        /\ errors' \in 0 .. MaxErrors - 1
    BY <1>2, Zeros DEF Enter, ClearLocals, SetupFails
  <2>2. TypeOK'
    BY <1>0, <1>2, <2>1 DEF Enter, ForgetErased, TypeOK, Phases
  <2>3. Len(line') < Capacity' - 1
    BY <2>1, LimitsAssumption DEF Capacity
  <2> QED
    BY <2>1, <2>2, <2>3 DEF CheckedSoFar, ErasedSoFar, InFrame, WholeFrame
<1> QED
  BY <1>1, <1>2 DEF Call

(* The four kinds of step together.                                        *)
LEMMA Steps ==
    ASSUME Next
    PROVE  Call \/ Quiet \/ EraseLoop \/ FailedFlash \/ WriteChunk
BY DEF Next, Receive, LineComplete, Wait, Work, Quiet, EraseLoop, FailedFlash

LEMMA ShapeStep ==
    ASSUME Shape, [Next]_vars
    PROVE  Shape'
<1>1. CASE UNCHANGED vars
  BY <1>1 DEF vars, locals, Shape, TypeOK, CheckedSoFar, ErasedSoFar, InFrame, WholeFrame,
     SetupFails, ChunkFits, FrameIntact, Capacity, FirstSector, LastSector
<1>2. CASE Next
  BY <1>2, Steps, CallKeeps, QuietTypes, QuietChecked, EraseLoopKeeps, FailedFlashKeeps,
     WriteKeeps DEF Shape
<1> QED
  BY <1>1, <1>2

LEMMA ShapeInit == Init => Shape
<1> SUFFICES ASSUME Init PROVE Shape
  OBVIOUS
<1>1. NoHistory \in [0 .. FlashSize - 1 -> SUBSET Data]
  BY DEF NoHistory
<1>2. flash \in FlashStates /\ part \in Partitions /\ phase \in Phases
  BY InitialFlashAssumption DEF Init, Phases
<1>3. /\ line \in Seq(Symbols) /\ payload \in Seq(Data) /\ chunk \in Headers \cup {NoChunk}
      /\ waited \in 0 .. Timeout - 1 /\ errors \in 0 .. MaxErrors - 1
      /\ sector \in Nat /\ erased \subseteq Nat
  BY Zeros DEF Init
<1>4. result \in BOOLEAN
  BY DEF Init
<1>5. TypeOK
  BY <1>1, <1>2, <1>3, <1>4 DEF Init, TypeOK
<1> QED
  BY <1>5 DEF Init, Shape, CheckedSoFar, ErasedSoFar, InFrame, WholeFrame

(* Every variable has its type, in particular the error count stays below  *)
(* the limit and no wait outlasts the timeout.                             *)
THEOREM UpdateTypes == Spec => []TypeOK
<1> QED
  BY ShapeInit, ShapeStep, PTL DEF Spec, Shape

(* No header and no partition table drives an index of handle_update_mode  *)
(* out of its array.                                                       *)
THEOREM IndexesInBounds == Spec => []BuffersInBounds
<1>1. ASSUME Shape PROVE BuffersInBounds
  <2>1. phase \in {"start", "header"} => Len(line) < Capacity
    BY <1>1, LimitsAssumption DEF Shape, TypeOK, CheckedSoFar, Capacity
  <2>2. Len(payload) <= ChunkMax
    <3>1. CASE InFrame
      <4>1. chunk.len \in Nat /\ chunk.len <= ChunkMax
        BY <1>1, <3>1, ChunkTypes DEF Shape, CheckedSoFar, ChunkFits
      <4>2. Len(payload) <= chunk.len
        BY <1>1, <3>1, <4>1 DEF Shape, TypeOK, CheckedSoFar, InFrame, WholeFrame
      <4> QED
        BY <1>1, <4>1, <4>2, LimitsAssumption DEF Shape, TypeOK
    <3>2. CASE ~InFrame
      BY <1>1, <3>2, LimitsAssumption DEF Shape, CheckedSoFar
    <3> QED
      BY <3>1, <3>2
  <2>3. ASSUME phase = "erase" PROVE sector < MaxTracked
    <3>1. sector \in FirstSector(chunk) .. LastSector(chunk)
      BY <1>1, <2>3 DEF Shape, ErasedSoFar
    <3>2. /\ FirstSector(chunk) \in Nat /\ LastSector(chunk) \in Nat
          /\ LastSector(chunk) < part.size \div SectorSize
          /\ part.size \div SectorSize \in Nat
          /\ part.size \div SectorSize <= MaxTracked
      BY <1>1, <2>3, SectorsInside DEF Shape, InFrame
    <3> QED
      BY <3>1, <3>2, LimitsAssumption
  <2> QED
    BY <2>1, <2>2, <2>3 DEF BuffersInBounds
<1> QED
  BY <1>1, ShapeInit, ShapeStep, PTL DEF Spec

-----------------------------------------------------------------------------
(* Which cells an erase clears and a write programs.                       *)

LEMMA PartitionCells ==
    ASSUME Shape
    PROVE  Partition(part) \subseteq DOMAIN flash
<1>1. part.offset \in Nat /\ part.size \in Nat /\ part.offset + part.size <= FlashSize
  BY PartitionsAssumption DEF Shape, TypeOK
<1>2. DOMAIN flash = 0 .. FlashSize - 1
  BY DEF Shape, TypeOK, FlashStates
<1> QED
  BY <1>1, <1>2, FlashSizeAssumption DEF Partition, Span

LEMMA CellSector ==
    ASSUME part \in Partitions, NEW a \in Partition(part)
    PROVE  /\ a \in Nat /\ SectorOf(a) \in Nat
           /\ a \div SectorSize = part.offset \div SectorSize + SectorOf(a)
<1>1. part.offset \in Nat /\ part.size \in Nat
  BY PartitionsAssumption
<1>2. a \in Nat /\ a - part.offset \in Nat /\ part.offset + (a - part.offset) = a
  BY <1>1 DEF Partition, Span
<1>3. SectorOf(a) \in Nat
  BY <1>2, DivBounds DEF SectorOf
<1>4. (part.offset + (a - part.offset)) \div SectorSize
         = part.offset \div SectorSize + (a - part.offset) \div SectorSize
  BY <1>2, SectorShift
<1> QED
  BY <1>2, <1>3, <1>4 DEF SectorOf

(* The sector erased is the sector of the partition with that number, and  *)
(* lies inside the partition.                                              *)
LEMMA ErasedCells ==
    ASSUME Shape, phase = "erase", NEW a \in DOMAIN flash
    PROVE  a \in SectorCells(flash, AbsoluteSector(sector))
               <=> a \in Partition(part) /\ SectorOf(a) = sector
<1>1. /\ part \in Partitions /\ part.size % SectorSize = 0
      /\ sector \in Nat /\ sector < part.size \div SectorSize
      /\ part.offset \div SectorSize \in Nat
  <2>1. /\ FirstSector(chunk) \in Nat /\ LastSector(chunk) \in Nat
        /\ LastSector(chunk) < part.size \div SectorSize
        /\ part.size \div SectorSize \in Nat
        /\ part.size % SectorSize = 0
    BY SectorsInside DEF Shape, InFrame
  <2>2. sector \in FirstSector(chunk) .. LastSector(chunk) /\ sector \in Nat
    BY DEF Shape, TypeOK, ErasedSoFar
  <2>3. sector < part.size \div SectorSize
    <3> DEFINE n == part.size \div SectorSize
               m == LastSector(chunk)
    <3> HIDE DEF n, m
    <3>1. m \in Nat /\ n \in Nat /\ m < n /\ sector <= m
      BY <2>1, <2>2 DEF n, m
    <3>2. sector < n
      BY <2>2, <3>1
    <3> QED
      BY <3>2 DEF n
  <2>4. part \in Partitions
    BY DEF Shape, TypeOK
  <2>5. part.offset \div SectorSize \in Nat
    BY <2>4, PartitionsAssumption, DivBounds
  <2> QED
    BY <2>1, <2>2, <2>3, <2>4, <2>5
<1>2. a \in Nat
  BY FlashSizeAssumption DEF Shape, TypeOK, FlashStates
<1>3. ASSUME a \in SectorCells(flash, AbsoluteSector(sector))
      PROVE  a \in Partition(part) /\ SectorOf(a) = sector
  <2>1. a \div SectorSize = part.offset \div SectorSize + sector
    BY <1>3 DEF SectorCells, AbsoluteSector
  <2>2. a \in Partition(part)
    BY <1>1, <1>2, <2>1, SectorInside
  <2> DEFINE b == part.offset \div SectorSize
             d == a \div SectorSize
  <2>3. /\ d = b + sector /\ d = b + SectorOf(a)
        /\ b \in Nat /\ SectorOf(a) \in Nat
    BY <1>1, <2>1, <2>2, CellSector
  <2> HIDE DEF b, d
  <2>4. SectorOf(a) = sector
    BY <1>1, <2>3
  <2> QED
    BY <2>2, <2>4
<1>4. ASSUME a \in Partition(part), SectorOf(a) = sector
      PROVE  a \in SectorCells(flash, AbsoluteSector(sector))
  BY <1>1, <1>4, CellSector DEF SectorCells, AbsoluteSector
<1> QED
  BY <1>3, <1>4

(* The cells of a chunk lie in the sectors the erase loop has passed.      *)
LEMMA WrittenCells ==
    ASSUME Shape, phase = "write", NEW a \in ChunkCells
    PROVE  a \in Partition(part) /\ SectorOf(a) \in erased
<1>1. a \in Partition(part)
  BY ChunkInside DEF Shape, WholeFrame
<1>2. /\ part.offset \in Nat /\ chunk.len \in Nat /\ chunk.off \in Nat
      /\ ChunkFits(chunk) /\ part \in Partitions
  BY PartitionsAssumption, ChunkTypes DEF Shape, TypeOK, CheckedSoFar, InFrame
<1>3. /\ a - part.offset \in Nat /\ chunk.off <= a - part.offset
      /\ a - part.offset <= chunk.off + chunk.len - 1
      /\ chunk.off + chunk.len - 1 \in Nat
  BY <1>2 DEF ChunkCells, WriteAddress, Span, ChunkFits
<1>4. FirstSector(chunk) <= SectorOf(a) /\ SectorOf(a) <= LastSector(chunk)
  BY <1>2, <1>3, DivMonotone DEF FirstSector, LastSector, SectorOf
<1>5. /\ FirstSector(chunk) \in Nat /\ LastSector(chunk) \in Nat
      /\ FirstSector(chunk) .. LastSector(chunk) \subseteq erased
  BY SectorsInside DEF Shape, InFrame, ErasedSoFar
<1>6. SectorOf(a) \in Nat
  BY <1>1, <1>2, CellSector
<1> QED
  BY <1>1, <1>4, <1>5, <1>6

LEMMA ConfinedStep ==
    ASSUME Shape, [Next]_vars
    PROVE  \A a \in DOMAIN flash \ Partition(part) : flash'[a] = flash[a]
<1>1. CASE flash' = flash
  BY <1>1
<1>2. CASE EraseSector
  BY <1>2, ErasedCells DEF EraseSector, Erase
<1>3. CASE EraseFails
  BY <1>3, ErasedCells DEF EraseFails, Erase
<1>4. CASE WriteChunk
  BY <1>4, ChunkInside DEF WriteChunk, Program, Shape, WholeFrame
<1>5. CASE WriteFails
  BY <1>5, ChunkInside DEF WriteFails, Program, Shape, WholeFrame
<1>6. CASE UNCHANGED vars
  BY <1>1, <1>6 DEF vars
<1>7. CASE Call \/ Quiet \/ SkipErased
  BY <1>1, <1>7 DEF Call, RefuseSetup, Enter, Quiet, LineIdle, StartLine, EndLine,
     BadHeader, HeaderLine, PayloadIdle, Verify, LineByte, PayloadByte, Unwritten, SkipErased
<1> QED
  BY <1>2, <1>3, <1>4, <1>5, <1>6, <1>7, Steps DEF EraseLoop, FailedFlash

(* A session changes no cell outside the application partition, whatever   *)
(* frames arrive and however the driver fails.                             *)
THEOREM UpdateConfined == Spec => Confined
BY ConfinedStep, ShapeInit, ShapeStep, PTL DEF Spec, Confined

(* The flash changes only for a whole frame whose CRC matches, and one the *)
(* flash driver will take: partitions start on a sector boundary.          *)
THEOREM GoodFramesOnly == Spec => OnlyForGoodFrames
<1> DEFINE Good == flash' # flash => /\ Len(payload) = chunk.len
                                     /\ Crc16(payload) = chunk.crc
                                     /\ WriteAccepted
<1>1. ASSUME Shape, WholeFrame
      PROVE  Len(payload) = chunk.len /\ Crc16(payload) = chunk.crc /\ WriteAccepted
  <2>1. /\ part \in Partitions /\ chunk \in Headers /\ ChunkFits(chunk)
        /\ chunk.off \in Nat
    BY <1>1, ChunkTypes DEF Shape, TypeOK, CheckedSoFar, InFrame, WholeFrame
  <2>2. Aligned(chunk.len) /\ Aligned(chunk.off)
    BY <2>1 DEF ChunkFits
  <2>3. WriteAccepted
    BY <2>1, <2>2, AlignedSum DEF WriteAccepted, WriteAddress
  <2> QED
    BY <1>1, <2>3 DEF Shape, CheckedSoFar, FrameIntact
<1>2. ASSUME Shape, [Next]_vars
      PROVE  [Good]_vars
  <2>1. CASE WholeFrame
    BY <1>1, <1>2, <2>1
  <2>2. CASE ~WholeFrame
    BY <1>2, <2>2, Steps DEF WholeFrame, vars, Call, RefuseSetup, Enter, Quiet, LineIdle,
       StartLine, EndLine, BadHeader, HeaderLine, PayloadIdle, Verify, LineByte, PayloadByte,
       Unwritten, EraseLoop, SkipErased, EraseSector, FailedFlash, EraseFails, WriteFails,
       WriteChunk
  <2> QED
    BY <2>1, <2>2
<1> QED
  BY <1>2, ShapeInit, ShapeStep, PTL DEF Spec, OnlyForGoodFrames

-----------------------------------------------------------------------------
(* What was acknowledged stays.                                            *)

(* Before a session has done anything.                                     *)
LEMMA NoHistoryYet ==
    ASSUME flash \in FlashStates, erased = {}, acked = NoHistory
    PROVE  History
BY DEF FlashStates, NoHistory, History, AckedErased, Kept, NoneOld

LEMMA FreshHistory ==
    ASSUME flash' \in FlashStates, erased' = {}, acked' = NoHistory
    PROVE  History'
BY DEF FlashStates, NoHistory, History, AckedErased, Kept, NoneOld

(* A step that leaves flash and histories alone.                           *)
LEMMA UntouchedHistory ==
    ASSUME History, UNCHANGED <<part, flash, erased, tried, acked>>
    PROVE  History'
BY DEF History, AckedErased, Kept, NoneOld, SectorOf

(* Erasing cells of a sector that the bitmap does not call erased.         *)
LEMMA EraseHistory ==
    ASSUME Shape, History, phase = "erase", sector \notin erased,
           NEW cells \in SUBSET SectorCells(flash, AbsoluteSector(sector)),
           flash' = Erase(flash, cells),
           \/ erased' = erased
           \/ /\ erased' = erased \cup {sector}
              /\ cells = SectorCells(flash, AbsoluteSector(sector)),
           UNCHANGED <<part, tried, acked>>
    PROVE  History'
<1>1. DOMAIN flash' = DOMAIN flash
  BY DEF Erase
<1>2. ASSUME NEW a \in cells
      PROVE  a \in DOMAIN flash /\ flash'[a] = {} /\ acked[a] = {}
  <2>1. a \in DOMAIN flash
    BY DEF SectorCells
  <2>2. SectorOf(a) = sector
    BY <2>1, ErasedCells
  <2> QED
    BY <2>1, <2>2 DEF History, AckedErased, Erase
<1>3. ASSUME NEW a \in DOMAIN flash \ cells
      PROVE  flash'[a] = flash[a]
  BY DEF Erase
<1>4. AckedErased'
  BY <1>1 DEF History, AckedErased, SectorOf
<1>5. Kept'
  BY <1>1, <1>2, <1>3 DEF History, Kept
<1>6. ASSUME NEW a \in Partition(part), SectorOf(a) \in erased'
      PROVE  flash'[a] \subseteq UNION tried[a]
  <2>1. a \in DOMAIN flash
    BY PartitionCells
  <2>2. CASE a \in cells
    BY <1>2, <2>2
  <2>3. CASE a \notin cells
    <3>1. SectorOf(a) \in erased
      BY <1>6, <2>1, <2>3, ErasedCells
    <3> QED
      BY <1>3, <2>1, <2>3, <3>1 DEF History, NoneOld
  <2> QED
    BY <2>2, <2>3
<1>7. NoneOld'
  BY <1>6 DEF NoneOld, SectorOf
<1> QED
  BY <1>4, <1>5, <1>7 DEF History

(* Programming cells of a chunk whose sectors are erased.                  *)
LEMMA ProgramHistory ==
    ASSUME Shape, History, phase = "write",
           NEW cells \in SUBSET ChunkCells,
           flash' = Program(flash, WriteAddress, payload, cells),
           tried' = Note(tried),
           acked' = acked \/ (acked' = Note(acked) /\ cells = ChunkCells),
           UNCHANGED <<part, erased>>
    PROVE  History'
<1>0. /\ DOMAIN flash' = DOMAIN flash /\ DOMAIN tried = DOMAIN flash
      /\ DOMAIN acked = DOMAIN flash
  BY DEF Program, Shape, TypeOK, FlashStates
<1>1. AckedErased'
  <2>1. ASSUME NEW a \in DOMAIN flash, acked'[a] # {}
        PROVE  a \in Partition(part) /\ SectorOf(a) \in erased
    <3>1. CASE a \in ChunkCells
      BY <3>1, WrittenCells
    <3>2. CASE a \notin ChunkCells
      BY <1>0, <2>1, <3>2 DEF History, AckedErased, Note
    <3> QED
      BY <3>1, <3>2
  <2> QED
    BY <1>0, <2>1 DEF AckedErased, SectorOf
<1>2. Kept'
  <2>1. ASSUME NEW a \in DOMAIN flash
        PROVE  UNION acked'[a] \subseteq flash'[a]
    <3>1. UNION acked[a] \subseteq flash[a] /\ flash[a] \subseteq flash'[a]
      BY DEF History, Kept, Program
    <3>2. CASE acked'[a] = acked[a]
      BY <3>1, <3>2
    <3>3. CASE acked'[a] # acked[a]
      <4>1. a \in cells /\ acked'[a] = acked[a] \cup {payload[a - WriteAddress + 1]}
        BY <1>0, <3>3 DEF Note
      <4>2. flash'[a] = flash[a] \cup payload[a - WriteAddress + 1]
        BY <4>1 DEF Program
      <4> QED
        BY <3>1, <4>1, <4>2
    <3> QED
      BY <3>2, <3>3
  <2> QED
    BY <1>0, <2>1 DEF Kept
<1>3. NoneOld'
  <2>1. ASSUME NEW a \in Partition(part), SectorOf(a) \in erased
        PROVE  flash'[a] \subseteq UNION tried'[a]
    <3>0. a \in DOMAIN flash
      BY PartitionCells
    <3>1. flash[a] \subseteq UNION tried[a] /\ UNION tried[a] \subseteq UNION tried'[a]
      BY <1>0, <2>1, <3>0 DEF History, NoneOld, Note
    <3>2. CASE a \in cells
      <4>1. /\ flash'[a] = flash[a] \cup payload[a - WriteAddress + 1]
            /\ tried'[a] = tried[a] \cup {payload[a - WriteAddress + 1]}
        BY <1>0, <3>0, <3>2 DEF Program, Note
      <4> QED
        BY <3>1, <4>1
    <3>3. CASE a \notin cells
      BY <3>0, <3>1, <3>3 DEF Program
    <3> QED
      BY <3>2, <3>3
  <2> QED
    BY <2>1 DEF NoneOld, SectorOf
<1> QED
  BY <1>1, <1>2, <1>3 DEF History

LEMMA HistoryStep ==
    ASSUME Shape, History, [Next]_vars
    PROVE  History'
<1>1. CASE UNCHANGED vars
  BY <1>1 DEF vars, History, AckedErased, Kept, NoneOld, SectorOf
<1>2. CASE RefuseSetup
  BY <1>2, UntouchedHistory DEF RefuseSetup
<1>3. CASE Enter
  <2>1. erased' = {} /\ acked' = NoHistory /\ flash' \in FlashStates
    BY <1>3 DEF Enter, ForgetErased, Shape, TypeOK
  <2> QED
    BY <2>1, FreshHistory
<1>4. CASE Quiet \/ SkipErased
  BY <1>4, UntouchedHistory DEF Quiet, LineIdle, StartLine, EndLine, BadHeader, HeaderLine,
     PayloadIdle, Verify, LineByte, PayloadByte, Unwritten, SkipErased, NextSector
<1>5. CASE EraseSector
  BY <1>5, EraseHistory DEF EraseSector, MarkErased, NextSector
<1>6. CASE EraseFails
  BY <1>6, EraseHistory DEF EraseFails
<1>7. CASE WriteChunk
  BY <1>7, ProgramHistory DEF WriteChunk
<1>8. CASE WriteFails
  BY <1>8, ProgramHistory DEF WriteFails
<1> QED
  BY <1>1, <1>2, <1>3, <1>4, <1>5, <1>6, <1>7, <1>8, Steps DEF Call, EraseLoop, FailedFlash

LEMMA InvInit == Init => Inv
BY ShapeInit, NoHistoryYet DEF Init, Inv, Shape, TypeOK

LEMMA InvHolds == Spec => []Inv
<1>1. Init => Inv
  BY InvInit
<1>2. Inv /\ [Next]_vars => Inv'
  BY ShapeStep, HistoryStep DEF Inv
<1> QED
  BY <1>1, <1>2, PTL DEF Spec

(* Data acknowledged with CHUNK_OK stays in the flash until the session    *)
(* ends, whatever frames, failures and retries follow.                     *)
THEOREM AcknowledgedStays == Spec => []AckedKept
<1>1. Inv => AckedKept
  BY DEF Inv, History, Kept, AckedKept
<1> QED
  BY <1>1, InvHolds, PTL

(* An erased sector holds nothing of the image that was there before.      *)
THEOREM OldImageGone == Spec => []NoOldBits
<1>1. Inv => NoOldBits
  BY DEF Inv, History, NoneOld, NoOldBits
<1> QED
  BY <1>1, InvHolds, PTL

(* What the frames of the last session wrote and were acknowledged for is  *)
(* what the flash holds.                                                   *)
AckedReadBack ==
    \A a \in Partition(part), v \in Data : acked[a] = {v} /\ tried[a] = {v} => flash[a] = v

LEMMA InvReadBack == Inv => AckedReadBack
<1> SUFFICES ASSUME Inv, NEW a \in Partition(part), NEW v \in Data,
                    acked[a] = {v}, tried[a] = {v}
             PROVE  flash[a] = v
    BY DEF AckedReadBack
<1>1. a \in DOMAIN flash
  BY PartitionCells DEF Inv
<1>2. SectorOf(a) \in erased
  BY <1>1 DEF Inv, History, AckedErased
<1>3. v \subseteq flash[a]
  BY <1>1 DEF Inv, History, Kept
<1>4. flash[a] \subseteq v
  BY <1>2 DEF Inv, History, NoneOld
<1> QED
  BY <1>3, <1>4

LEMMA InvReadsBack == Inv => AckedReadsBack
BY InvReadBack DEF AckedReadBack, AckedReadsBack

(* A cell all of whose frames carried one value, one of them acknowledged, *)
(* reads back that value: the erase came before the write and none after.  *)
THEOREM AcknowledgedReadsBack == Spec => []AckedReadsBack
<1> QED
  BY InvReadsBack, InvHolds, PTL

-----------------------------------------------------------------------------
(* The session keeps its promise.                                          *)

(* The check of the session is the check of its specification.             *)
LEMMA SameCheck ==
    ASSUME NEW f, NEW p
    PROVE  Promise!ImageValid(f, p) <=> ImageValid(f, p)
BY DEF ImageValid, Promise!ImageValid, Descriptor, Promise!Descriptor, ImageSizeSane,
   Promise!ImageSizeSane, DescriptorSize, Promise!DescriptorSize, Read, Promise!Read

LEMMA Rewrites ==
    ASSUME Shape, Shape', [Next]_vars
    PROVE  Promise!RewritesPartition
BY ConfinedStep DEF Shape, TypeOK, Promise!RewritesPartition, Promise!FlashStates,
   FlashStates, Promise!Partition, Partition, Promise!Span, Span

(* A session that ends anywhere but after the check answers FALSE.         *)
LEMMA EndsFalse ==
    ASSUME Shape, phase # "idle", Next, ~Verify
    PROVE  /\ part' = part
           /\ phase' = "idle" => result' = FALSE
           /\ phase' # "idle" => result' = result
<1>0. errors \in 0 .. MaxErrors - 1 /\ result \in BOOLEAN
  BY DEF Shape, TypeOK
<1>1. CASE LineIdle
  BY <1>0, <1>1, LineFailsLeaves DEF LineIdle, Unwritten
<1>2. ASSUME NEW s \in Symbols, LineByte(s)
      PROVE  /\ part' = part
             /\ phase' = "idle" => result' = FALSE
             /\ phase' # "idle" => result' = result
  <2>1. CASE LineFails
    BY <1>0, <1>2, <2>1, LineFailsLeaves DEF LineByte, Unwritten
  <2>2. CASE ~LineFails
    BY <1>2, <2>2 DEF LineByte, Unwritten
  <2> QED
    BY <2>1, <2>2
<1>3. CASE StartLine \/ EndLine
  BY <1>3 DEF StartLine, EndLine, Return, NextChunk, Unwritten
<1>4. CASE BadHeader \/ HeaderLine
  BY <1>0, <1>4, FailLeaves DEF BadHeader, HeaderLine, Unwritten
<1>5. CASE PayloadIdle
  BY <1>0, <1>5, FailLeaves DEF PayloadIdle, Unwritten
<1>6. ASSUME NEW d \in Data, PayloadByte(d)
      PROVE  /\ part' = part
             /\ phase' = "idle" => result' = FALSE
             /\ phase' # "idle" => result' = result
  BY <1>0, <1>6, FailLeaves DEF PayloadByte, Unwritten
<1>7. CASE EraseLoop
  BY <1>7 DEF EraseLoop, SkipErased, EraseSector, NextSector
<1>8. CASE FailedFlash
  BY <1>0, <1>8, FailLeaves DEF FailedFlash, EraseFails, WriteFails
<1>9. CASE WriteChunk
  BY <1>9 DEF WriteChunk, NextChunk
<1>10. ~Call
  BY DEF Call, RefuseSetup, Enter
<1> QED
  BY <1>1, <1>2, <1>3, <1>4, <1>5, <1>6, <1>7, <1>8, <1>9, <1>10, Steps DEF Quiet

(* Every step is a step of the abstract session, or invisible to it.       *)
LEMMA PromiseStep ==
    ASSUME Shape, Shape', [Next]_vars
    PROVE  [Promise!SessionNext]_Promise!sessionVars
<1> USE DEF Promise!SessionNext, Promise!sessionVars
<1>1. CASE UNCHANGED vars
  BY <1>1 DEF vars
<1>2. CASE RefuseSetup
  BY <1>2 DEF RefuseSetup, Return, Promise!Refuse
<1>3. CASE Enter
  BY <1>3 DEF Enter, Promise!Begin
<1>4. CASE Verify
  <2>1. PICK ok \in CrcCheckOutcomes(flash, part) : phase' = "idle" /\ result' = ok
    BY <1>4 DEF Verify, Return
  <2>2. phase = "verify" /\ UNCHANGED <<part, flash>>
    BY <1>4 DEF Verify, Unwritten
  <2>3. CASE ok = FALSE
    BY <2>1, <2>2, <2>3, Rewrites DEF Promise!Abandon
  <2>4. CASE ok # FALSE
    <3>1. ok = ImageValid(flash, part) /\ ImageValid(flash, part) \in BOOLEAN
      BY <2>1, <2>4 DEF CrcCheckOutcomes, ImageValid
    <3>2. Promise!ImageValid(flash, part) /\ ok = TRUE
      BY <2>4, <3>1, SameCheck
    <3> QED
      BY <2>1, <2>2, <3>2 DEF Promise!Accept
  <2> QED
    BY <2>3, <2>4
<1>5. CASE phase # "idle" /\ Next /\ ~Verify
  <2>1. CASE phase' = "idle"
    BY <1>5, <2>1, EndsFalse, Rewrites DEF Promise!Abandon
  <2>2. CASE phase' # "idle"
    BY <1>5, <2>2, EndsFalse, Rewrites DEF Promise!Rewrite
  <2> QED
    BY <2>1, <2>2
<1>6. CASE phase = "idle" /\ Next
  BY <1>2, <1>3, <1>6, Steps DEF Call, Quiet, LineIdle, StartLine, EndLine, BadHeader,
     HeaderLine, PayloadIdle, Verify, LineByte, PayloadByte, EraseLoop, SkipErased, EraseSector,
     FailedFlash, EraseFails, WriteFails, WriteChunk
<1> QED
  BY <1>1, <1>4, <1>5, <1>6

(* handle_update_mode implements UpdateSession: it changes nothing outside *)
(* the partition, and answers TRUE only for an image that passes.          *)
THEOREM UpdateKeepsPromise == Spec => KeepsPromise
<1>1. Init => Promise!SessionInit
  BY DEF Init, Promise!SessionInit
<1> QED
  BY <1>1, ShapeInit, ShapeStep, PromiseStep, PTL
     DEF Spec, KeepsPromise, Promise!SessionSpec
=============================================================================
