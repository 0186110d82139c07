------------------------- MODULE NegativeSender -------------------------
(***************************************************************************)
(* send_update_negative.py on the line of UpdateTransfer: four cases that  *)
(* do to the device what a correct host never does, and pass when the      *)
(* device answers as a safe one would.  They may be run before or after    *)
(* send_update.py, with the same disturbances.                             *)
(***************************************************************************)
EXTENDS UpdateTransfer

CONSTANTS
    Fill,          \* what the payloads b"A" * 1024 and b"B" * 1024 are made of
    PartialSize,   \* how much of such a payload partial_transfer sends
    CrcRange       \* 16#10000: values of a CRC-16

VARIABLES case    \* --case of the last start; "none" after send_update.py

negativeVars == <<transferVars, case>>

(* bytearray(image) with bit 0 of its first byte flipped.                  *)
Flipped(cell) == IF 0 \in cell THEN cell \ {0} ELSE cell \cup {0}

(* Mutant of Tampered: the image is copied only.                           *)
Copied(i) == i

Tampered(i) == [i EXCEPT ![1] = Flipped(@)]

ASSUME NegativeAssumption ==
    /\ Fill \in Data
    /\ PartialSize \in 0 .. ChunkMax - 1
    /\ CrcRange \in Nat \ {0, 1}
    /\ \A i \in Images : Tampered(i) \in Seq(Data)

Refusable == {"corrupt_chunk", "oob_offset", "partial_transfer"}
Cases == Refusable \cup {"invalid_final_crc"}

CaseWaiting == {"shake", "refusal", "stored", "next", "closing", "check", "check again",
                "apart", "broken", "settled", "back", "heartbeat"}

NegativeInit == TransferInit /\ case = "none"

-----------------------------------------------------------------------------
(* What the cases send.                                                    *)

Whole == [i \in 1 .. ChunkMax |-> Fill]

ASSUME CrcInRange == Crc16(Whole) \in 0 .. CrcRange - 1

(* Mutant of BadCrc: the CRC is the right one.                             *)
GoodCrc(data) == Crc16(data)

BadCrc(data) == (Crc16(data) + 1) % CrcRange

CorruptFrame == Frame([HeaderOf(Whole, 0) EXCEPT !.crc = BadCrc(Whole)], Whole)

OobHeader == <<[len |-> ChunkMax, off |-> part.size, crc |-> 0], LineEnd>>

(* No header of the cases is missing among the headers.                    *)
ASSUME CaseHeaders ==
    /\ \A i \in Images : \A o \in 0 .. Len(i) - 1 :
           HeaderOf(ChunkOf(Tampered(i), o), o) \in Headers
    /\ {HeaderOf(Whole, 0), [HeaderOf(Whole, 0) EXCEPT !.crc = BadCrc(Whole)]} \subseteq Headers
    /\ \A p \in Partitions : [len |-> ChunkMax, off |-> p.size, crc |-> 0] \in Headers

PartOfPayload == SubSeq(Whole, 1, PartialSize)

PartialFrame == Frame(HeaderOf(Whole, 0), PartOfPayload)

(* The with-block closes the port behind what was written.                 *)
Disconnects ==
    /\ toDevice' = toDevice \o PartialFrame
    /\ hpc' = "apart" /\ handle' = "closed"
    /\ UNCHANGED <<image, offset, code, runs>>

FirstMove ==
    CASE case = "corrupt_chunk" -> Writes(CorruptFrame, "refusal")
      [] case = "oob_offset" -> Writes(OobHeader, "refusal")
      [] case = "invalid_final_crc" -> Writes(FrameAt(0), "stored")
      [] case = "partial_transfer" -> Disconnects

Shake(t) ==
    CASE Is(t, "READY_FOR_CHUNK") -> FirstMove
      [] Is(t, "READY_FOR_UPDATE") -> Writes(StartLineBytes, "shake")
      [] Is(t, "UPDATE_START_FAIL") -> Fails("fail")
      [] OTHER -> Ignores

-----------------------------------------------------------------------------
(* What they make of the answers.  Every return code but 0 is "fail".      *)

LastChunk == NextOffset >= Len(image)

(* READY_FOR_CHUNK came; after the last chunk nobody insists on it.        *)
Advances ==
    /\ offset' = NextOffset
    /\ IF LastChunk
       THEN toDevice' = toDevice \o <<End, LineEnd>> /\ hpc' = "closing"
       ELSE toDevice' = toDevice \o FrameAt(offset') /\ hpc' = "stored"
    /\ UNCHANGED <<handle, image, code, runs>>

CrcToken(t) == Is(t, "APP_CRC_CHECK") \/ Is(t, "APP_CRC_OK") \/ Is(t, "APP_CRC_FAIL")

CrcResult(t) ==
    CASE ~CrcToken(t) -> Ignores
      [] Is(t, "APP_CRC_CHECK") /\ hpc = "check" -> Waits("check again")
      [] OTHER -> Fails(IF Is(t, "APP_CRC_FAIL") THEN "pass" ELSE "fail")

Takes(t) ==
    CASE hpc = "shake" -> Shake(t)
      [] hpc = "refusal" -> Skips(t, "CHUNK_FAIL", Fails("pass"))
      [] hpc = "stored" -> Skips(t, "CHUNK_OK", Waits("next"))
      [] hpc = "next" -> Skips(t, "READY_FOR_CHUNK", Advances)
      [] hpc = "closing" -> Skips(t, "UPDATE_SESSION_END", Waits("check"))
      [] hpc \in {"check", "check again"} -> CrcResult(t)
      [] hpc = "broken" -> Skips(t, "CHUNK_FAIL", Waits("settled"))
      [] hpc \in {"settled", "back"} -> Skips(t, "READY_FOR_CHUNK", Fails("pass"))
      [] hpc = "heartbeat" -> Skips(t, "RECOVERY_HEARTBEAT", Fails("pass"))

WaitEnds ==
    CASE hpc = "next" /\ LastChunk -> Advances
      [] hpc = "broken" -> Waits("back")
      [] hpc = "settled" -> Fails("pass")
      [] hpc = "back" -> Waits("heartbeat")
      [] OTHER -> Fails("fail")

-----------------------------------------------------------------------------
(* Actions.                                                                *)

CaseStarts ==
    /\ hpc = "off" /\ runs < MaxRuns /\ runs' = runs + 1
    /\ case' \in Cases
    /\ image' \in IF case' = "invalid_final_crc" THEN {Tampered(i) : i \in Images} ELSE {image}
    /\ hpc' = "shake" /\ handle' = "main" /\ offset' = 0 /\ code' = "none"
    /\ toHost' \in {<<>>, toHost}
    /\ toDevice' = toDevice \o StartLineBytes
    /\ UNCHANGED <<vars, dev, faults>>

CaseReads ==
    /\ hpc \in CaseWaiting /\ handle = "main" /\ toHost # <<>>
    /\ toHost' = Tail(toHost)
    /\ Takes(Head(toHost))
    /\ UNCHANGED <<vars, dev, faults, case>>

CaseWaitEnds ==
    /\ hpc \in CaseWaiting /\ handle = "main"
    /\ WaitEnds
    /\ UNCHANGED <<vars, dev, toHost, faults, case>>

(* A read of a port that is gone raises SerialException.                   *)
CaseLosesPort ==
    /\ hpc \in CaseWaiting /\ handle = "lost"
    /\ Fails("serial error")
    /\ UNCHANGED <<vars, dev, toHost, faults, case>>

(* partial_transfer opens the port again; what came in between may be gone.*)
CaseReopens ==
    /\ hpc = "apart"
    /\ \/ /\ hpc' = "broken" /\ handle' = "main" /\ toHost' \in {<<>>, toHost}
          /\ UNCHANGED <<toDevice, image, offset, code, runs>>
       \/ Fails("serial error") /\ UNCHANGED toHost
    /\ UNCHANGED <<vars, dev, faults, case>>

CaseMoves == CaseReads \/ CaseWaitEnds \/ CaseLosesPort \/ CaseReopens

NegativeNext ==
    \/ CaseStarts \/ CaseMoves
    \/ HostStarts /\ case' = "none"
    \/ (Device \/ Line \/ HostMoves) /\ UNCHANGED case

NegativeSpec == NegativeInit /\ [][NegativeNext]_negativeVars

-----------------------------------------------------------------------------
(* Properties.                                                             *)

(* Every variable of line, device and scripts keeps its type; no script    *)
(* runs past the end of its image.                                         *)
NegativeTypeOK ==
    /\ TransferTypeOK
    /\ hpc \in {"off"} \cup Waiting \cup CaseWaiting
    /\ case \in Cases \cup {"none"}

(* invalid_final_crc passes only when the partition holds an image the     *)
(* device would not run: no answer of an earlier script, and none skipped, *)
(* lets the case report a refusal of an image that is in fact valid.       *)
CrcCaseMeansInvalid ==
    case = "invalid_final_crc" /\ code = "pass" => ~ImageValid(flash, part)

(* The frames of the other cases never get into the flash, whatever the    *)
(* device makes of their headers, of a payload read as lines and of a      *)
(* payload that stops half way, and however often it boots meanwhile:      *)
(* while the case is the only script that was started and nothing is lost, *)
(* damaged, delayed or reset.                                              *)
RefusedChangeNothing ==
    [][flash' # flash => ~(case \in Refusable /\ faults = 0 /\ runs = 1)]_negativeVars

(* The script's own description of corrupt_chunk: it "sends one frame with *)
(* wrong CRC16 and expects CHUNK_FAIL", so when it passes, the device has  *)
(* read that frame.                                                        *)
CorruptFrameWasRead ==
    case = "corrupt_chunk" /\ code = "pass" /\ faults = 0 /\ runs = 1
        => \A i \in DOMAIN toDevice : toDevice[i] \notin Headers
=============================================================================
