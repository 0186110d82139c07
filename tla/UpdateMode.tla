--------------------------- MODULE UpdateMode ---------------------------
(***************************************************************************)
(* handle_update_mode of update_mode.c: one update session over the UART.  *)
(* The function runs on one core and never yields, so an action is what it *)
(* does from one poll of the UART or one call of the flash driver to the   *)
(* next.  The UART is the environment: any symbol may arrive at any poll,  *)
(* or none does and a millisecond passes.  The text of a frame header, of  *)
(* START_UPDATE and of END_UPDATE is one symbol each; capacities of lines  *)
(* count symbols.                                                          *)
(***************************************************************************)
EXTENDS AppImage, FiniteSets

CONSTANTS
    Crc16(_),      \* crc16_ccitt of a payload
    Headers,       \* frame headers [len, off, crc] a host may send
    MaxWord,       \* UINT32_MAX
    ChunkMax,      \* UPDATE_CHUNK_MAX_SIZE
    CmdCap,        \* UPDATE_CMD_MAX_LEN
    HeaderCap,     \* UPDATE_HEADER_MAX_LEN
    Timeout,       \* UPDATE_CHUNK_TIMEOUT_MS
    MaxErrors,     \* UPDATE_MAX_ERRORS
    MaxTracked     \* UPDATE_MAX_TRACKED_SECTORS

ASSUME LimitsAssumption ==
    /\ {MaxWord, ChunkMax, MaxTracked} \subseteq Nat
    /\ {Timeout, MaxErrors} \subseteq Nat \ {0}
    /\ {CmdCap, HeaderCap} \subseteq Nat \ {0, 1}

ASSUME HeadersAssumption == Headers \subseteq [len : Nat, off : Nat, crc : Nat]

VARIABLES
    part,      \* boot_state->factory
    flash,
    phase,     \* where handle_update_mode is; "idle" when it is not running
    line,      \* line[0 .. index - 1] of uart_read_line_timeout
    waited,    \* waited_ms of the wait in progress
    chunk,     \* chunk_len, chunk_offset, chunk_crc16
    payload,   \* s_update_chunk[0 .. received - 1]
    sector,    \* the loop variable of the erase loop
    errors,
    erased,    \* the sectors whose s_erased_sector is true
    result,    \* what the last call returned
    out,       \* the events the last step printed
    tried,     \* history: the values of the frames written to a cell,
    acked      \* and of the frames acknowledged, in this session

locals == <<line, waited, chunk, payload, sector>>
vars == <<part, flash, phase, locals, errors, erased, result, out, tried, acked>>

Phases == {"idle", "start", "header", "payload", "erase", "write", "verify"}
NoChunk == [len |-> 0, off |-> 0, crc |-> 0]

Text(t) == [text |-> t]
LineEnd == Text("\n")
CarriageReturn == Text("\r")
Start == Text("START_UPDATE")
End == Text("END_UPDATE")
Junk == Text("other")
Symbols == {LineEnd, CarriageReturn, Start, End, Junk} \cup Headers

Evt(token) == [evt |-> token]
EvtWithValue(token, value) == [evt |-> token, value |-> value]

ClearLocals == /\ line' = <<>> /\ waited' = 0 /\ chunk' = NoChunk
               /\ payload' = <<>> /\ sector' = 0

(* Nothing has been written or acknowledged in this session.               *)
NoHistory == [a \in 0 .. FlashSize - 1 |-> {}]

Init ==
    /\ part \in Partitions
    /\ flash \in InitialFlash
    /\ phase = "idle"
    /\ line = <<>> /\ waited = 0 /\ chunk = NoChunk /\ payload = <<>> /\ sector = 0
    /\ errors = 0 /\ erased = {}
    /\ result = FALSE /\ out = <<>>
    /\ tried = NoHistory /\ acked = NoHistory

-----------------------------------------------------------------------------
(* Ways out of a step.                                                     *)

Return(value, events) ==
    /\ phase' = "idle" /\ result' = value /\ out' = events
    /\ errors' = 0
    /\ ClearLocals

NextChunk(events) ==
    /\ phase' = "header" /\ out' = Append(events, Evt("READY_FOR_CHUNK"))
    /\ ClearLocals
    /\ UNCHANGED result

(* Mutant of OneMore: the error is not counted.                            *)
NotCounted(n) == n

OneMore(n) == n + 1

(* Mutant of GiveUp: one error too many.                                   *)
GiveUpLate(n) == n > MaxErrors

GiveUp(n) == n >= MaxErrors

(* A frame is refused: the session goes on until MaxErrors in a row.       *)
Fail(off) ==
    LET refusal == <<EvtWithValue("CHUNK_FAIL", off)>>
    IN IF GiveUp(OneMore(errors))
       THEN Return(FALSE, refusal)
       ELSE NextChunk(refusal) /\ errors' = OneMore(errors)

Unwritten == UNCHANGED <<part, flash, erased, tried, acked>>

-----------------------------------------------------------------------------
(* Entry.                                                                  *)

(* Mutant of SetupFails: the size of the bitmap is not checked.            *)
SetupIgnoresBitmap ==
    part.size % SectorSize # 0 \/ part.offset > MaxWord - part.size

SetupFails ==
    \/ part.size % SectorSize # 0
    \/ part.size \div SectorSize > MaxTracked
    \/ part.offset > MaxWord - part.size

RefuseSetup ==
    /\ phase = "idle" /\ SetupFails
    /\ Return(FALSE, <<Evt("UPDATE_SETUP_FAIL")>>)
    /\ UNCHANGED <<part, flash, erased, tried, acked>>

(* Mutant of ForgetErased: the memset is missing.                          *)
KeepErased == UNCHANGED erased

(* The bitmap is static: the memset makes it describe this session only.   *)
ForgetErased == erased' = {}

Enter ==
    /\ phase = "idle" /\ ~SetupFails
    /\ phase' = "start" /\ out' = <<Evt("DECISION_UPDATE"), Evt("READY_FOR_UPDATE")>>
    /\ ForgetErased
    /\ tried' = NoHistory /\ acked' = NoHistory
    /\ ClearLocals /\ errors' = 0
    /\ UNCHANGED <<part, flash, result>>

-----------------------------------------------------------------------------
(* Lines: START_UPDATE and the frame headers.                              *)

Capacity == IF phase = "start" THEN CmdCap ELSE HeaderCap

(* uart_read_line_timeout gives up: the rest of the line stays unread.     *)
LineFails ==
    IF phase = "start" THEN Return(FALSE, <<Evt("UPDATE_START_FAIL")>>)
                       ELSE Fail(0)

TimedOut(ms) == ms >= Timeout

LineIdle ==
    /\ phase \in {"start", "header"}
    /\ IF TimedOut(waited + 1)
       THEN LineFails
       ELSE /\ waited' = waited + 1 /\ out' = <<>>
            /\ UNCHANGED <<phase, line, chunk, payload, sector, errors, result>>
    /\ Unwritten

(* A byte restarts the timeout; '\r' takes no room; the byte that fills    *)
(* the buffer fails the read at once.                                      *)
LineByte(s) ==
    /\ phase \in {"start", "header"}
    /\ s # LineEnd
    /\ LET longer == IF s = CarriageReturn THEN line ELSE Append(line, s)
       IN IF Len(longer) < Capacity - 1
          THEN /\ line' = longer /\ waited' = 0 /\ out' = <<>>
               /\ UNCHANGED <<phase, chunk, payload, sector, errors, result>>
          ELSE LineFails
    /\ Unwritten

StartLine ==
    /\ phase = "start"
    /\ IF line = <<Start>>
       THEN NextChunk(<<>>) /\ UNCHANGED errors
       ELSE Return(FALSE, <<Evt("UPDATE_START_FAIL")>>)
    /\ Unwritten

(* parse_chunk_header: the line is one well-formed header.  The crc of a   *)
(* header is the low 16 bits of its third field, which is all that is used.*)
Parses(text) == \E h \in Headers : text = <<h>>
Parsed(text) == CHOOSE h \in Headers : text = <<h>>

(* Mutant of ChunkFits: the alignment of the offset is not checked.        *)
ChunkFitsAnyOffset(c) ==
    /\ c.len # 0 /\ c.len <= ChunkMax /\ Aligned(c.len)
    /\ c.off < part.size /\ c.len <= part.size - c.off

ChunkFits(c) ==
    /\ c.len # 0
    /\ c.len <= ChunkMax
    /\ Aligned(c.len)
    /\ Aligned(c.off)
    /\ c.off < part.size
    /\ c.len <= part.size - c.off

EndLine ==
    /\ phase = "header" /\ line = <<End>>
    /\ phase' = "verify" /\ out' = <<Evt("UPDATE_SESSION_END")>>
    /\ ClearLocals
    /\ Unwritten /\ UNCHANGED <<errors, result>>

BadHeader ==
    /\ phase = "header" /\ line # <<End>> /\ ~Parses(line)
    /\ Fail(0)
    /\ Unwritten

HeaderLine ==
    /\ phase = "header" /\ Parses(line)
    /\ LET c == Parsed(line)
       IN IF ChunkFits(c)
          THEN /\ phase' = "payload" /\ chunk' = c /\ out' = <<>>
               /\ line' = <<>> /\ waited' = 0
               /\ UNCHANGED <<payload, sector, errors, result>>
          ELSE Fail(c.off)
    /\ Unwritten

LineComplete == StartLine \/ EndLine \/ BadHeader \/ HeaderLine

-----------------------------------------------------------------------------
(* Payload.  Here the timeout is for the whole payload: a byte does not    *)
(* restart it.                                                             *)

(* Mutant of WaitedAfterPayloadByte: a byte restarts the timeout.          *)
PayloadByteRestartsWait == 0

WaitedAfterPayloadByte == waited

PayloadIdle ==
    /\ phase = "payload"
    /\ IF TimedOut(waited + 1)
       THEN Fail(chunk.off)
       ELSE /\ waited' = waited + 1 /\ out' = <<>>
            /\ UNCHANGED <<phase, line, chunk, payload, sector, errors, result>>
    /\ Unwritten

FrameIntact(data) == Crc16(data) = chunk.crc

FirstSector(c) == c.off \div SectorSize

(* Mutants of LastSector: the sector the chunk runs into is forgotten; the *)
(* sector after the chunk is taken for its last one.                       *)
LastSectorIsFirst(c) == FirstSector(c)
LastSectorOneTooFar(c) == (c.off + c.len) \div SectorSize

LastSector(c) == (c.off + c.len - 1) \div SectorSize

PayloadByte(d) ==
    /\ phase = "payload"
    /\ LET data == Append(payload, d)
       IN IF Len(data) < chunk.len
          THEN /\ payload' = data /\ waited' = WaitedAfterPayloadByte /\ out' = <<>>
               /\ UNCHANGED <<phase, line, chunk, sector, errors, result>>
          ELSE IF FrameIntact(data)
          THEN /\ phase' = "erase" /\ payload' = data /\ sector' = FirstSector(chunk)
               /\ waited' = 0 /\ out' = <<>>
               /\ UNCHANGED <<line, chunk, errors, result>>
          ELSE Fail(chunk.off)
    /\ Unwritten

-----------------------------------------------------------------------------
(* The erase loop: the sectors the chunk touches, each once a session.     *)

NextSector ==
    /\ phase' = (IF sector = LastSector(chunk) THEN "write" ELSE "erase")
    /\ sector' = sector + 1
    /\ out' = <<>>
    /\ UNCHANGED <<part, line, waited, chunk, payload, errors, result, tried, acked>>

AbsoluteSector(r) == part.offset \div SectorSize + r

SkipErased ==
    /\ phase = "erase" /\ sector \in erased
    /\ NextSector
    /\ UNCHANGED <<flash, erased>>

(* Mutant of MarkErased: the bitmap is not updated.                        *)
MarkNothing == UNCHANGED erased

MarkErased == erased' = erased \cup {sector}

EraseSector ==
    /\ phase = "erase" /\ sector \notin erased
    /\ flash' = Erase(flash, SectorCells(flash, AbsoluteSector(sector)))
    /\ MarkErased
    /\ NextSector

(* bootloader_flash_erase_sector fails, some cells already erased.         *)
EraseFails ==
    /\ phase = "erase" /\ sector \notin erased
    /\ \E cells \in SUBSET SectorCells(flash, AbsoluteSector(sector)) :
           flash' = Erase(flash, cells)
    /\ Fail(chunk.off)
    /\ UNCHANGED <<part, erased, tried, acked>>

-----------------------------------------------------------------------------
(* The write.                                                              *)

WriteAddress == part.offset + chunk.off
ChunkCells == Span(WriteAddress, chunk.len)

Note(history) ==
    [a \in DOMAIN history |->
        IF a \in ChunkCells THEN history[a] \cup {payload[a - WriteAddress + 1]}
                            ELSE history[a]]

(* The driver refuses a misaligned write before it touches the flash.      *)
WriteAccepted == Aligned(WriteAddress) /\ Aligned(chunk.len)

WriteChunk ==
    /\ phase = "write" /\ WriteAccepted
    /\ flash' = Program(flash, WriteAddress, payload, ChunkCells)
    /\ tried' = Note(tried) /\ acked' = Note(acked)
    /\ errors' = 0
    /\ NextChunk(<<EvtWithValue("CHUNK_OK", chunk.off)>>)
    /\ UNCHANGED <<part, erased>>

WriteFails ==
    /\ phase = "write"
    /\ \E cells \in SUBSET ChunkCells :
           /\ WriteAccepted \/ cells = {}
           /\ flash' = Program(flash, WriteAddress, payload, cells)
    /\ tried' = Note(tried)
    /\ Fail(chunk.off)
    /\ UNCHANGED <<part, erased, acked>>

-----------------------------------------------------------------------------
(* END_UPDATE: the session's verdict is the image check's.                 *)

Verify ==
    /\ phase = "verify"
    /\ \E ok \in CrcCheckOutcomes(flash, part) :
           Return(ok, <<Evt("APP_CRC_CHECK"),
                        Evt(IF ok THEN "APP_CRC_OK" ELSE "APP_CRC_FAIL")>>)
    /\ Unwritten

Receive == \/ \E s \in Symbols : LineByte(s)
           \/ LineComplete
           \/ \E d \in Data : PayloadByte(d)
Wait == LineIdle \/ PayloadIdle
Work == SkipErased \/ EraseSector \/ EraseFails \/ WriteChunk \/ WriteFails \/ Verify
Call == RefuseSetup \/ Enter

Next == Call \/ Receive \/ Wait \/ Work

Spec == Init /\ [][Next]_vars

-----------------------------------------------------------------------------
(* Properties.                                                             *)

TypeOK ==
    /\ part \in Partitions /\ flash \in FlashStates
    /\ phase \in Phases
    /\ line \in Seq(Symbols) /\ waited \in 0 .. Timeout - 1
    /\ chunk \in Headers \cup {NoChunk} /\ payload \in Seq(Data)
    /\ sector \in Nat /\ erased \subseteq Nat
    /\ errors \in 0 .. MaxErrors - 1
    /\ result \in BOOLEAN
    /\ tried \in [0 .. FlashSize - 1 -> SUBSET Data]
    /\ acked \in [0 .. FlashSize - 1 -> SUBSET Data]

(* No header, length or offset a host sends, and no partition table, makes *)
(* the session index outside line[], s_update_chunk[] or                   *)
(* s_erased_sector[].                                                      *)
BuffersInBounds ==
    /\ phase \in {"start", "header"} => Len(line) < Capacity
    /\ Len(payload) <= ChunkMax
    /\ phase = "erase" => sector < MaxTracked

(* A session changes no cell outside the application partition: neither    *)
(* the bootloader, the partition table nor a neighbour (BOOT_SEQUENCE.md,  *)
(* update protocol).                                                       *)
Confined ==
    [][\A a \in DOMAIN flash \ Partition(part) : flash'[a] = flash[a]]_vars

(* A frame that is damaged, or that the driver would refuse to write,      *)
(* costs nothing: the flash is touched only for a whole frame with a       *)
(* matching CRC that the driver will take.                                 *)
OnlyForGoodFrames ==
    [][flash' # flash => /\ Len(payload) = chunk.len
                         /\ Crc16(payload) = chunk.crc
                         /\ WriteAccepted]_vars

(* Data once acknowledged with CHUNK_OK stays in the flash until the       *)
(* session ends, whatever frames, failures and retries follow: no later    *)
(* frame erases the sector it is in.                                       *)
AckedKept == phase # "idle" => \A a \in DOMAIN flash : UNION acked[a] \subseteq flash[a]

SectorOf(a) == (a - part.offset) \div SectorSize

(* A sector the bitmap calls erased holds no bit of the image that was     *)
(* there before the session: only what this session's frames put there.    *)
NoOldBits ==
    phase # "idle" =>
        \A a \in Partition(part) :
            SectorOf(a) \in erased => flash[a] \subseteq UNION tried[a]

(* When every frame written to a cell carried the same value and one was   *)
(* acknowledged, the cell reads back that value.                           *)
AckedReadsBack ==
    phase # "idle" =>
        \A a \in Partition(part), v \in Data :
            acked[a] = {v} /\ tried[a] = {v} => flash[a] = v

(* The session keeps the promise of UpdateSession.                         *)
Promise == INSTANCE UpdateSession WITH active <- phase # "idle"
KeepsPromise == Promise!SessionSpec
=============================================================================
