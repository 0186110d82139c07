---------------------- MODULE UpdateTransferProofs ----------------------
(***************************************************************************)
(* Proofs about UpdateTransfer and NegativeSender, for every partition     *)
(* table, flash, image, chunk size, CRC and limit, any number of starts of *)
(* the scripts and any number of disturbances.                             *)
(***************************************************************************)
EXTENDS NegativeSender, UpdateModeProofs

-----------------------------------------------------------------------------
(* What travels on the line.                                               *)

(* A line end, a text, a header and a payload byte are never taken for     *)
(* each other.                                                             *)
LEMMA Alphabet ==
    /\ \A h \in Headers : h \notin Cells /\ h \notin {LineEnd, CarriageReturn, Start, End, Junk}
    /\ LineEnd \notin Cells
    /\ LineEnd # CarriageReturn /\ Start # LineEnd /\ End # LineEnd /\ Junk # LineEnd
    /\ Start # End
    /\ \A s \in Symbols : s \notin Cells
<1>1. ASSUME NEW h \in Headers, NEW t
      PROVE  h # Text(t)
  <2>1. "len" \in DOMAIN h
        BY HeadersAssumption
  <2>2. "len" \notin DOMAIN Text(t)
        BY DEF Text
  <2> QED BY <2>1, <2>2
<1>2. ASSUME NEW h \in Headers, NEW d
      PROVE  h # Cell(d)
  <2>1. "len" \in DOMAIN h
        BY HeadersAssumption
  <2>2. "len" \notin DOMAIN Cell(d)
        BY DEF Cell
  <2> QED BY <2>1, <2>2
<1>3. ASSUME NEW t, NEW d
      PROVE  Text(t) # Cell(d)
  <2>1. "text" \in DOMAIN Text(t)
        BY DEF Text
  <2>2. "text" \notin DOMAIN Cell(d)
        BY DEF Cell
  <2> QED BY <2>1, <2>2
<1>4. /\ LineEnd # CarriageReturn /\ Start # LineEnd /\ End # LineEnd /\ Junk # LineEnd
      /\ Start # End
      BY DEF LineEnd, CarriageReturn, Start, End, Junk, Text
<1> QED BY <1>1, <1>2, <1>3, <1>4
        DEF Cells, Symbols, LineEnd, CarriageReturn, Start, End, Junk

(* What a boot prints.                                                     *)
Tokens == {"MODE_SELECTED", "FATAL_RESET", "DECISION_NORMAL", "UPDATE_SETUP_FAIL",
           "DECISION_UPDATE", "READY_FOR_UPDATE", "UPDATE_START_FAIL",
           "READY_FOR_CHUNK", "CHUNK_OK", "CHUNK_FAIL", "UPDATE_SESSION_END",
           "APP_CRC_CHECK", "APP_CRC_OK", "APP_CRC_FAIL", "HANDOFF", "DECISION_RECOVERY",
           "RECOVERY_CMD_UNKNOWN"}

Events == [evt : Tokens] \cup [evt : Tokens, value : Int]

(* The lines are events with these tokens.                                 *)
Says(lines, tokens) ==
    /\ lines \in Seq(Events)
    /\ \A i \in DOMAIN lines : lines[i].evt \in tokens

LEMMA EventFacts ==
    /\ AppStart \notin Events
    /\ \A e \in Events : \A t : Is(e, t) <=> e.evt = t
    /\ \A t \in Tokens : Evt(t) \in Events /\ Evt(t).evt = t
    /\ \A t \in Tokens, n \in Int : /\ EvtWithValue(t, n) \in Events
                                    /\ EvtWithValue(t, n).evt = t
                                    /\ EvtWithValue(t, n).value = n
<1>1. ASSUME NEW e \in Events
      PROVE  "evt" \in DOMAIN e
      BY DEF Events
<1>2. "evt" \notin DOMAIN AppStart
      BY DEF AppStart
<1>3. \A e \in Events : \A t : Is(e, t) <=> e.evt = t
      BY <1>1 DEF Is
<1>4. \A t \in Tokens : Evt(t) \in Events /\ Evt(t).evt = t
      BY DEF Evt, Events
<1>5. \A t \in Tokens, n \in Int : /\ EvtWithValue(t, n) \in Events
                                   /\ EvtWithValue(t, n).evt = t
                                   /\ EvtWithValue(t, n).value = n
      BY DEF EvtWithValue, Events
<1> QED BY <1>1, <1>2, <1>3, <1>4, <1>5

LEMMA SaysNothing == \A tokens : Says(<<>>, tokens)
BY DEF Says

LEMMA SaysOne ==
    ASSUME NEW e \in Events, NEW tokens, e.evt \in tokens
    PROVE  Says(<<e>>, tokens)
BY DEF Says

LEMMA SaysMore ==
    ASSUME NEW lines, NEW e \in Events, NEW tokens, Says(lines, tokens), e.evt \in tokens
    PROVE  Says(Append(lines, e), tokens)
BY DEF Says

-----------------------------------------------------------------------------
(* What a step of a session does to the rest.                              *)

InSession == Receive \/ Wait \/ Work

(* What a session says besides the answers to frames written and images    *)
(* checked.                                                                *)
Talk == {"CHUNK_FAIL", "READY_FOR_CHUNK", "UPDATE_START_FAIL", "UPDATE_SESSION_END"}

LEMMA TalkEvents ==
    /\ \A t \in Talk : Evt(t) \in Events /\ Evt(t).evt \in Talk
    /\ \A n \in Int : /\ EvtWithValue("CHUNK_FAIL", n) \in Events
                      /\ EvtWithValue("CHUNK_FAIL", n).evt \in Talk
    /\ {"READY_FOR_CHUNK", "UPDATE_START_FAIL", "UPDATE_SESSION_END"} \subseteq Talk
<1>1. Talk \subseteq Tokens /\ "CHUNK_FAIL" \in Talk
      BY DEF Talk, Tokens
<1>2. {"READY_FOR_CHUNK", "UPDATE_START_FAIL", "UPDATE_SESSION_END"} \subseteq Talk
      BY DEF Talk
<1> QED BY <1>1, <1>2, EventFacts

LEMMA FailTalks ==
    ASSUME NEW off \in Int, Fail(off)
    PROVE  Says(out', Talk)
<1> DEFINE refusal == EvtWithValue("CHUNK_FAIL", off)
<1>1. refusal \in Events /\ refusal.evt \in Talk
      BY TalkEvents
<1>2. Evt("READY_FOR_CHUNK") \in Events /\ Evt("READY_FOR_CHUNK").evt \in Talk
      BY TalkEvents
<1>3. out' = <<refusal>> \/ out' = Append(<<refusal>>, Evt("READY_FOR_CHUNK"))
      BY DEF Fail, Return, NextChunk
<1> HIDE DEF refusal
<1>4. Says(<<refusal>>, Talk)
      BY <1>1, SaysOne
<1> QED BY <1>2, <1>3, <1>4, SaysMore

LEMMA SessionTalks ==
    ASSUME TypeOK, CheckedSoFar, InSession
    PROVE  WriteChunk \/ Verify \/ Says(out', Talk)
<1> SUFFICES ASSUME ~WriteChunk, ~Verify PROVE Says(out', Talk)
    OBVIOUS
<1>1. /\ Evt("READY_FOR_CHUNK") \in Events /\ Evt("READY_FOR_CHUNK").evt \in Talk
      /\ Evt("UPDATE_START_FAIL") \in Events /\ Evt("UPDATE_START_FAIL").evt \in Talk
      /\ Evt("UPDATE_SESSION_END") \in Events /\ Evt("UPDATE_SESSION_END").evt \in Talk
      BY TalkEvents
<1>2. ASSUME NEW off, Fail(off), off \in Int
      PROVE  Says(out', Talk)
      BY <1>2, FailTalks
<1>3. CASE LineFails
      BY <1>1, <1>2, <1>3, SaysOne DEF LineFails, Return
<1>4. InFrame => chunk.off \in Int
      BY ChunkTypes DEF CheckedSoFar
<1>5. out' = <<>> => Says(out', Talk)
      BY SaysNothing
<1>6. CASE Wait
      BY <1>2, <1>3, <1>4, <1>5, <1>6 DEF Wait, LineIdle, PayloadIdle, InFrame
<1>7. CASE \E s \in Symbols : LineByte(s)
      BY <1>3, <1>5, <1>7 DEF LineByte
<1>8. CASE \E d \in Data : PayloadByte(d)
      BY <1>2, <1>4, <1>5, <1>8 DEF PayloadByte, InFrame
<1>9. CASE StartLine
      BY <1>1, <1>9, SaysOne, SaysNothing, SaysMore DEF StartLine, NextChunk, Return
<1>10. CASE EndLine
      BY <1>1, <1>10, SaysOne DEF EndLine
<1>11. CASE BadHeader
      BY <1>2, <1>11 DEF BadHeader
<1>12. CASE HeaderLine
  <2>1. Parsed(line) \in Headers
        BY <1>12 DEF HeaderLine, Parses, Parsed
  <2>2. Parsed(line).off \in Int
        BY <2>1, ChunkTypes
  <2> QED BY <1>2, <1>5, <1>12, <2>2 DEF HeaderLine
<1>13. CASE SkipErased \/ EraseSector
      BY <1>5, <1>13 DEF SkipErased, EraseSector, NextSector
<1>14. CASE EraseFails \/ WriteFails
      BY <1>2, <1>4, <1>14 DEF EraseFails, WriteFails, InFrame
<1> QED BY <1>6, <1>7, <1>8, <1>9, <1>10, <1>11, <1>12, <1>13, <1>14
        DEF InSession, Receive, LineComplete, Work

(* A step of a session either touches no history or notes a whole frame.   *)
LEMMA SessionHistory ==
    ASSUME TypeOK, InSession
    PROVE  /\ phase # "idle" /\ part' = part
           /\ \/ UNCHANGED <<tried, acked>>
              \/ WholeFrame /\ tried' = Note(tried) /\ acked' \in {acked, Note(acked)}
           /\ WriteChunk \/ acked' = acked
<1>1. CASE Receive
      BY <1>1 DEF Receive, LineByte, LineComplete, StartLine, EndLine, BadHeader, HeaderLine,
         PayloadByte, Unwritten
<1>2. CASE Wait
      BY <1>2 DEF Wait, LineIdle, PayloadIdle, Unwritten
<1>3. CASE SkipErased \/ EraseSector
      BY <1>3 DEF SkipErased, EraseSector, NextSector
<1>4. CASE EraseFails
      BY <1>4 DEF EraseFails
<1>5. CASE WriteChunk
      BY <1>5 DEF WriteChunk, WholeFrame
<1>6. CASE WriteFails
      BY <1>6 DEF WriteFails, WholeFrame
<1>7. CASE Verify
      BY <1>7 DEF Verify, Unwritten
<1> QED BY <1>1, <1>2, <1>3, <1>4, <1>5, <1>6, <1>7 DEF InSession, Work

(* The answer of a session changes when it ends; only a check that passes  *)
(* makes it TRUE.                                                          *)
LEMMA SessionAnswer ==
    ASSUME TypeOK, InSession
    PROVE  /\ phase' # "idle" => result' = result
           /\ \/ Verify /\ UNCHANGED <<part, flash, tried, acked>> /\ phase' = "idle"
                 /\ (result' = TRUE => ImageValid(flash, part))
              \/ phase' = "idle" => result' = FALSE
<1>0. errors \in 0 .. MaxErrors - 1 /\ result \in BOOLEAN
      BY DEF TypeOK
<1>1. CASE Wait
      BY <1>0, <1>1, LineFailsLeaves, FailLeaves DEF Wait, LineIdle, PayloadIdle
<1>2. CASE \E s \in Symbols : LineByte(s)
      BY <1>0, <1>2, LineFailsLeaves DEF LineByte
<1>3. CASE \E d \in Data : PayloadByte(d)
      BY <1>0, <1>3, FailLeaves DEF PayloadByte
<1>4. CASE StartLine
      BY <1>4 DEF StartLine, NextChunk, Return
<1>5. CASE EndLine
      BY <1>5 DEF EndLine
<1>6. CASE BadHeader
      BY <1>0, <1>6, FailLeaves DEF BadHeader
<1>7. CASE HeaderLine
      BY <1>0, <1>7, FailLeaves DEF HeaderLine
<1>8. CASE SkipErased \/ EraseSector
      BY <1>8 DEF SkipErased, EraseSector, NextSector
<1>9. CASE EraseFails
      BY <1>0, <1>9, FailLeaves DEF EraseFails
<1>10. CASE WriteFails
      BY <1>0, <1>10, FailLeaves DEF WriteFails
<1>11. CASE WriteChunk
      BY <1>11 DEF WriteChunk, NextChunk
<1>12. CASE Verify
  <2>1. /\ UNCHANGED <<part, flash, tried, acked>> /\ phase' = "idle"
        /\ result' \in CrcCheckOutcomes(flash, part)
        BY <1>12 DEF Verify, Return, Unwritten
  <2>2. result' = FALSE \/ result' = ImageValid(flash, part)
        BY <2>1 DEF CrcCheckOutcomes
  <2>3. result' = TRUE => ImageValid(flash, part)
        BY <2>2, Zenon
  <2>4. phase # "idle"
        BY <1>12 DEF Verify
  <2> QED BY <1>12, <2>1, <2>3
<1> QED BY <1>1, <1>2, <1>3, <1>4, <1>5, <1>6, <1>7, <1>8, <1>9, <1>10, <1>11, <1>12
        DEF InSession, Receive, LineComplete, Work

-----------------------------------------------------------------------------
(* Chunks and frames.                                                      *)

Letters == Symbols \cup Cells

(* What the scripts may be sending.                                        *)
AllImages == Images \cup {Tampered(i) : i \in Images}

LEMMA MinOfTwo ==
    ASSUME NEW x \in Nat, NEW y \in Nat
    PROVE  Min({x, y}) = IF x <= y THEN x ELSE y
BY DEF Min

LEMMA ImageType ==
    ASSUME NEW i \in AllImages
    PROVE  i \in Seq(Data) /\ Len(i) \in Nat /\ Len(i) > 0
<1>1. ASSUME NEW g \in Images
      PROVE  g \in Seq(Data) /\ Len(g) \in Nat /\ Len(g) > 0
      BY TransferAssumption
<1>2. ASSUME NEW g \in Images
      PROVE  Tampered(g) \in Seq(Data) /\ Len(Tampered(g)) = Len(g)
      BY <1>1, NegativeAssumption DEF Tampered
<1> QED BY <1>1, <1>2 DEF AllImages

(* A chunk is the cells of the image from its offset on.                   *)
LEMMA ChunkCellsOf ==
    ASSUME NEW i \in Seq(Data), NEW o \in 0 .. Len(i)
    PROVE  /\ ChunkOf(i, o) \in Seq(Data)
           /\ Len(ChunkOf(i, o)) \in 0 .. Len(i) - o
           /\ o < Len(i) => Len(ChunkOf(i, o)) > 0
           /\ \A j \in 1 .. Len(ChunkOf(i, o)) : ChunkOf(i, o)[j] = i[o + j]
<1> DEFINE last == IF o + ChunkSize <= Len(i) THEN o + ChunkSize ELSE Len(i)
<1>1. ChunkSize \in Nat /\ ChunkSize > 0 /\ Len(i) \in Nat /\ o + ChunkSize \in Nat
      BY TransferAssumption, LimitsAssumption
<1>2. ChunkOf(i, o) = SubSeq(i, o + 1, last)
      BY <1>1, MinOfTwo DEF ChunkOf
<1>3. last \in o .. Len(i) /\ (o < Len(i) => last > o)
      BY <1>1
<1> HIDE DEF last
<1>4. /\ SubSeq(i, o + 1, last) \in Seq(Data)
      /\ Len(SubSeq(i, o + 1, last)) = last - o
      /\ \A j \in 1 .. last - o : SubSeq(i, o + 1, last)[j] = i[o + j]
      BY <1>1, <1>3
<1> QED BY <1>1, <1>2, <1>3, <1>4

LEMMA HeaderIsKnown ==
    ASSUME NEW i \in AllImages, NEW o \in 0 .. Len(i) - 1
    PROVE  HeaderOf(ChunkOf(i, o), o) \in Headers
<1>1. ASSUME NEW g \in Images
      PROVE  Len(Tampered(g)) = Len(g)
      BY TransferAssumption DEF Tampered
<1> QED BY <1>1, ChunkHeaders, CaseHeaders DEF AllImages

(* A frame is its header, a line end and its cells.                        *)
LEMMA FrameShape ==
    ASSUME NEW h \in Headers, NEW data \in Seq(Data)
    PROVE  /\ Frame(h, data) \in Seq(Letters)
           /\ Len(Frame(h, data)) = 2 + Len(data)
           /\ Frame(h, data)[1] = h /\ Frame(h, data)[2] = LineEnd
           /\ \A j \in 1 .. Len(data) : Frame(h, data)[2 + j] = Cell(data[j])
<1> DEFINE cells == [i \in DOMAIN data |-> Cell(data[i])]
<1>1. /\ cells \in Seq(Letters) /\ Len(cells) = Len(data)
      /\ \A j \in 1 .. Len(data) : cells[j] = Cell(data[j])
  <2>1. \A j \in 1 .. Len(data) : Cell(data[j]) \in Letters
        BY DEF Letters, Cells
  <2> QED BY <2>1
<1>2. h \in Letters /\ LineEnd \in Letters
      BY DEF Letters, Symbols
<1>3. Frame(h, data) = <<h, LineEnd>> \o cells
      BY DEF Frame
<1> HIDE DEF cells
<1> QED BY <1>1, <1>2, <1>3

LEMMA LineTexts == StartLineBytes \in Seq(Letters) /\ <<End, LineEnd>> \in Seq(Letters)
BY DEF StartLineBytes, Letters, Symbols

-----------------------------------------------------------------------------
(* Steps, seen from the device, the line and the host.                     *)

LEMMA CellData ==
    /\ \A x \in Cells : x.cell \in Data /\ x = Cell(x.cell)
    /\ \A d \in Data : Cell(d) \in Cells /\ Cell(d).cell = d
BY DEF Cells, Cell

(* A byte that is read is one step of the session.                         *)
LEMMA ReadIsReceive ==
    ASSUME NEW x, ReadsAsText(x) \/ ReadsAsPayload(x)
    PROVE  Receive
<1>1. Junk \in Symbols
      BY DEF Symbols
<1> QED BY <1>1, CellData DEF ReadsAsText, ReadsAsPayload, Receive

(* The session runs on; what it says goes to the host.                     *)
Runs ==
    /\ \/ Receive /\ toDevice # <<>> /\ toDevice' = Tail(toDevice)
       \/ (Wait \/ Work) /\ UNCHANGED toDevice
    /\ Prints(out')
    /\ UNCHANGED <<dev, host>>

(* The device does something else than to run a session, or to reset.      *)
Idles ==
    \/ BootToken \/ BootFails \/ SelectNormal \/ SelectRecovery \/ SelectUpdateRefused
    \/ BootCheckPasses \/ BootCheckFails \/ HandsOff \/ SessionOver
    \/ ConsoleReads

LEMMA DeviceSteps ==
    Device => \/ DeviceReads \/ DeviceWorks \/ FlashFails \/ HostTooSlow
              \/ Idles \/ SelectUpdate \/ Reset
BY DEF Device, Boots, Idles, FatalResets, AppRestarts, DeviceResets

LEMMA DeviceKinds == Device => Runs \/ Idles \/ SelectUpdate \/ Reset
<1>1. DeviceReads => Runs
      BY ReadIsReceive DEF DeviceReads, Runs
<1>2. DeviceWorks \/ FlashFails \/ HostTooSlow => Runs
      BY DEF DeviceWorks, FlashFails, HostTooSlow, Runs, Work, Wait
<1> QED BY <1>1, <1>2, DeviceSteps

(* Where call_start_cpu0 goes outside a session.                           *)
Goes ==
    \/ dev = "boot" /\ dev' \in {"boot", "check", "recovery", "fatal"}
    \/ dev = "check" /\ dev' = "handoff" /\ ImageValid(flash, part)
    \/ dev = "check" /\ dev' = "recovery"
    \/ dev = "update" /\ phase = "idle" /\ dev' = (IF result THEN "handoff" ELSE "recovery")
    \/ dev = "handoff" /\ dev' \in {"app", "fatal"}
    \/ dev = "recovery" /\ dev' = "recovery"

LEMMA IdleMoves ==
    ASSUME Idles
    PROVE  /\ UNCHANGED vars /\ UNCHANGED host /\ Goes
           /\ \/ UNCHANGED toDevice
              \/ dev = "recovery" /\ toDevice # <<>> /\ toDevice' = Tail(toDevice)
<1>1. CASE ConsoleReads
      BY <1>1 DEF ConsoleReads, Goes
<1>2. CASE BootToken \/ BootFails \/ SelectNormal \/ SelectRecovery \/ SelectUpdateRefused
      BY <1>2 DEF BootToken, BootFails, SelectNormal, SelectRecovery, SelectUpdateRefused,
         Proceeds, Goes
<1>3. CASE BootCheckPasses \/ BootCheckFails \/ HandsOff \/ SessionOver
      BY <1>3 DEF BootCheckPasses, BootCheckFails, HandsOff, SessionOver, Proceeds, Goes
<1> QED BY <1>1, <1>2, <1>3 DEF Idles

(* What main() of send_update.py makes of a line.                          *)
Answers(t) ==
    \/ Ignores
    \/ \E c : Fails(c) /\ (c = "success" => hpc = "start" /\ t = AppStart)
    \/ hpc \in {"hello", "greet"} /\ Waits("greet")
    \/ hpc = "hello" /\ Writes(StartLineBytes, "ready")
    \/ hpc = "greet" /\ Writes(StartLineBytes, "greet")
    \/ hpc \in {"hello", "greet", "ready"} /\ SendsChunk
    \/ hpc = "result" /\ Is(t, "CHUNK_OK") /\ t.value = offset /\ Acknowledges(t)
    \/ hpc = "final" /\ Writes(<<End, LineEnd>>, "ended")
    \/ hpc = "ended" /\ Waits("verdict")
    \/ hpc = "verdict" /\ (Waits("handoff") \/ Waits("verdict"))
    \/ hpc = "handoff" /\ Waits("start")

LEMMA HostAnswers ==
    ASSUME NEW t, hpc \in Waiting, Understands(t)
    PROVE  Answers(t)
<1>0. ASSUME NEW c, Fails(c), c # "success"
      PROVE  Answers(t)
      BY <1>0 DEF Answers
<1>1. CASE hpc = "hello"
      BY <1>1 DEF Understands, Hello, Answers
<1>2. CASE hpc = "greet"
      BY <1>2 DEF Understands, Greet, Answers
<1>3. CASE hpc = "ready"
      BY <1>3 DEF Understands, Skips, Answers
<1>4. CASE hpc = "result"
  <2>1. CASE Is(t, "CHUNK_OK")
    <3>1. Acknowledges(t)
          BY <1>4, <2>1 DEF Understands, Result, Is
    <3>2. t.value # offset => Fails("offset mismatch")
          BY <3>1 DEF Acknowledges
    <3> QED BY <1>0, <1>4, <2>1, <3>1, <3>2 DEF Answers
  <2>2. CASE ~Is(t, "CHUNK_OK")
    <3>1. Fails("chunk failed") \/ Ignores
          BY <1>4, <2>2 DEF Understands, Result
    <3> QED BY <1>0, <3>1 DEF Answers
  <2> QED BY <2>1, <2>2
<1>5. CASE hpc = "final"
      BY <1>5 DEF Understands, Skips, Answers
<1>6. CASE hpc = "ended"
      BY <1>6 DEF Understands, Skips, Answers
<1>7. CASE hpc = "verdict"
  <2>1. Waits("handoff") \/ Fails("image refused") \/ Waits("verdict") \/ Ignores
        BY <1>7 DEF Understands, Verdict
  <2> QED BY <1>0, <1>7, <2>1 DEF Answers
<1>8. CASE hpc = "handoff"
      BY <1>8 DEF Understands, Skips, Answers
<1>9. CASE hpc = "start"
      BY <1>9 DEF Understands, Answers
<1> QED BY <1>1, <1>2, <1>3, <1>4, <1>5, <1>6, <1>7, <1>8, <1>9 DEF Waiting

(* What the cases of send_update_negative.py make of a line, or of none.   *)
CaseAnswers ==
    \/ Ignores
    \/ \E c \in {"pass", "fail"} : Fails(c)
    \/ hpc = "shake" /\ Writes(StartLineBytes, "shake")
    \/ hpc = "shake" /\ case = "corrupt_chunk" /\ Writes(CorruptFrame, "refusal")
    \/ hpc = "shake" /\ case = "oob_offset" /\ Writes(OobHeader, "refusal")
    \/ hpc = "shake" /\ case = "invalid_final_crc" /\ Writes(FrameAt(0), "stored")
    \/ hpc = "shake" /\ case = "partial_transfer" /\ Disconnects
    \/ hpc = "stored" /\ Waits("next")
    \/ hpc = "next" /\ Advances
    \/ hpc = "closing" /\ Waits("check")
    \/ hpc = "check" /\ Waits("check again")
    \/ hpc = "broken" /\ (Waits("settled") \/ Waits("back"))
    \/ hpc = "back" /\ Waits("heartbeat")

LEMMA CaseTakes ==
    ASSUME NEW t, hpc \in CaseWaiting \ {"apart"}, case \in Cases, Takes(t)
    PROVE  CaseAnswers
<1>0. ASSUME Fails("pass") \/ Fails("fail")
      PROVE  CaseAnswers
      BY <1>0 DEF CaseAnswers
<1>1. CASE hpc = "shake"
  <2>1. FirstMove \/ Writes(StartLineBytes, "shake") \/ Fails("fail") \/ Ignores
        BY <1>1 DEF Takes, Shake
  <2>2. ASSUME FirstMove
        PROVE  \/ case = "corrupt_chunk" /\ Writes(CorruptFrame, "refusal")
               \/ case = "oob_offset" /\ Writes(OobHeader, "refusal")
               \/ case = "invalid_final_crc" /\ Writes(FrameAt(0), "stored")
               \/ case = "partial_transfer" /\ Disconnects
        BY <2>2 DEF FirstMove, Cases, Refusable
  <2> QED BY <1>0, <1>1, <2>1, <2>2 DEF CaseAnswers
<1>2. CASE hpc \in {"refusal", "settled", "back", "heartbeat"}
  <2>1. Fails("pass") \/ Ignores
        BY <1>2 DEF Takes, Skips
  <2> QED BY <1>0, <2>1 DEF CaseAnswers
<1>3. CASE hpc \in {"stored", "next", "closing", "broken"}
      BY <1>3 DEF Takes, Skips, CaseAnswers
<1>4. CASE hpc \in {"check", "check again"}
  <2>1. Fails("pass") \/ Fails("fail") \/ Ignores \/ (hpc = "check" /\ Waits("check again"))
        BY <1>4 DEF Takes, CrcResult
  <2> QED BY <1>0, <2>1 DEF CaseAnswers
<1> QED BY <1>1, <1>2, <1>3, <1>4 DEF CaseWaiting

LEMMA CaseWaits ==
    ASSUME hpc \in CaseWaiting, WaitEnds
    PROVE  CaseAnswers
<1>0. ASSUME Fails("pass") \/ Fails("fail")
      PROVE  CaseAnswers
      BY <1>0 DEF CaseAnswers
<1>1. \/ Fails("pass") \/ Fails("fail")
      \/ hpc = "next" /\ Advances
      \/ hpc = "broken" /\ Waits("back")
      \/ hpc = "back" /\ Waits("heartbeat")
      BY DEF WaitEnds
<1> QED BY <1>0, <1>1 DEF CaseAnswers

-----------------------------------------------------------------------------
(* Types.                                                                  *)

Lines == Events \cup {AppStart}

WireTypes ==
    /\ dev \in Places
    /\ toDevice \in Seq(Letters) /\ toHost \in Seq(Lines)
    /\ hpc \in {"off"} \cup Waiting \cup CaseWaiting
    /\ handle \in {"main", "lost", "local", "closed"}
    /\ image \in AllImages /\ offset \in 0 .. Len(image)
    /\ hpc \in {"hello", "greet", "ready"} => offset < Len(image)

LEMMA AppendTwo ==
    ASSUME NEW d, NEW e
    PROVE  Append(<<d>>, e) = <<d, e>>
<1>1. <<d>> \in Seq({d, e}) /\ Len(<<d>>) = 1 /\ <<d>>[1] = d
      OBVIOUS
<1>2. /\ Append(<<d>>, e) \in Seq({d, e}) /\ Len(Append(<<d>>, e)) = 2
      /\ Append(<<d>>, e)[1] = d /\ Append(<<d>>, e)[2] = e
      BY <1>1
<1>3. /\ <<d, e>> \in Seq({d, e}) /\ Len(<<d, e>>) = 2
      /\ <<d, e>>[1] = d /\ <<d, e>>[2] = e
      OBVIOUS
<1> DEFINE a == Append(<<d>>, e)
           b == <<d, e>>
<1>4. a \in Seq({d, e}) /\ b \in Seq({d, e}) /\ Len(a) = Len(b)
      /\ \A i \in 1 .. Len(a) : a[i] = b[i]
      BY <1>2, <1>3
<1> HIDE DEF a, b
<1>5. a = b
      BY <1>4
<1> QED BY <1>5 DEF a, b

LEMMA WroteSays ==
    ASSUME WriteChunk
    PROVE  out' = <<EvtWithValue("CHUNK_OK", chunk.off), Evt("READY_FOR_CHUNK")>>
BY AppendTwo DEF WriteChunk, NextChunk

LEMMA CheckSays ==
    ASSUME Verify
    PROVE  \E t \in {"APP_CRC_OK", "APP_CRC_FAIL"} :
               /\ out' = <<Evt("APP_CRC_CHECK"), Evt(t)>>
               /\ t = "APP_CRC_FAIL" => ~result'
BY DEF Verify, Return

LEMMA TwoSaid ==
    ASSUME NEW d \in Events, NEW e \in Events
    PROVE  <<d, e>> \in Seq(Events)
OBVIOUS

LEMMA SessionSays ==
    ASSUME TypeOK, CheckedSoFar, InSession
    PROVE  out' \in Seq(Events)
<1>1. CASE WriteChunk
  <2>1. chunk.off \in Int
        BY <1>1, ChunkTypes DEF WriteChunk, CheckedSoFar, InFrame
  <2>2. EvtWithValue("CHUNK_OK", chunk.off) \in Events /\ Evt("READY_FOR_CHUNK") \in Events
        BY <2>1, EventFacts DEF Tokens
  <2> QED BY <1>1, <2>2, WroteSays, TwoSaid
<1>2. CASE Verify
  <2>1. \A t \in {"APP_CRC_OK", "APP_CRC_FAIL"} : Evt(t) \in Events
        BY EventFacts DEF Tokens
  <2>2. Evt("APP_CRC_CHECK") \in Events
        BY EventFacts DEF Tokens
  <2> QED BY <1>2, <2>1, <2>2, CheckSays, TwoSaid
<1> QED BY <1>1, <1>2, SessionTalks DEF Says

LEMMA EnterSays ==
    ASSUME Enter
    PROVE  /\ out' \in Seq(Events)
           /\ out' = <<Evt("DECISION_UPDATE"), Evt("READY_FOR_UPDATE")>>
<1>1. Evt("DECISION_UPDATE") \in Events /\ Evt("READY_FOR_UPDATE") \in Events
      BY EventFacts DEF Tokens
<1> QED BY <1>1, TwoSaid DEF Enter

(* A reset leaves what a session that was abandoned leaves.                *)
LEMMA ResetKeeps == Inv /\ Reset => Inv'
<1> SUFFICES ASSUME Inv, Reset PROVE Inv'
    OBVIOUS
<1>1. /\ phase' = "idle" /\ result' = FALSE /\ errors' = 0 /\ ClearLocals
      /\ erased' = {} /\ tried' = NoHistory /\ acked' = NoHistory
      /\ UNCHANGED <<part, flash>>
      BY DEF Reset, Return
<1>2. NoHistory \in [0 .. FlashSize - 1 -> SUBSET Data]
      BY DEF NoHistory
<1>3. TypeOK /\ LeavesFrame
      BY <1>1, Zeros DEF Inv, Shape, LeavesFrame, Gives
<1>4. TypeOK'
  <2>1. flash' \in FlashStates /\ erased' \subseteq Nat
        BY <1>1, <1>3 DEF TypeOK
  <2> QED BY <1>1, <1>2, <1>3, <2>1, LeavesFrameTypes
<1>5. payload' = <<>>
      BY <1>1 DEF ClearLocals
<1>6. CheckedSoFar' /\ ErasedSoFar' /\ History'
  <2>1. CheckedSoFar' /\ ErasedSoFar'
        BY <1>1, <1>5 DEF CheckedSoFar, ErasedSoFar, InFrame, WholeFrame
  <2> QED BY <1>1, <1>4, <2>1, FreshHistory DEF TypeOK
<1> QED BY <1>4, <1>6 DEF Inv, Shape

LEMMA VarsStep == Inv /\ [Next]_vars => Inv'
BY ShapeStep, HistoryStep DEF Inv

(* Disturbances are counted.                                               *)
Counted == UNCHANGED faults \/ Disturbed

LEMMA WireRuns == Inv /\ WireTypes /\ Runs => Inv' /\ WireTypes'
<1> SUFFICES ASSUME Inv, WireTypes, Runs PROVE Inv' /\ WireTypes'
    OBVIOUS
<1>1. InSession /\ Next
      BY DEF Runs, InSession, Next
<1>2. Inv'
      BY <1>1, VarsStep
<1>3. out' \in Seq(Events) /\ toHost' = toHost \o out'
      BY <1>1, SessionSays DEF Inv, Shape, Runs, Prints
<1>4. toHost' \in Seq(Lines)
  <2>1. out' \in Seq(Lines)
        BY <1>3 DEF Lines
  <2> QED BY <1>3, <2>1 DEF WireTypes
<1>5. toDevice' \in Seq(Letters)
      BY DEF Runs, WireTypes
<1> QED BY <1>2, <1>4, <1>5 DEF WireTypes, Runs, host

LEMMA Joined ==
    ASSUME NEW S, NEW s \in Seq(S), NEW t \in Seq(S)
    PROVE  s \o t \in Seq(S)
OBVIOUS

LEMMA ElementsJoined ==
    ASSUME NEW S, NEW s \in Seq(S), NEW t \in Seq(S)
    PROVE  ToSet(s \o t) = ToSet(s) \cup ToSet(t)
<1>1. /\ Len(s) \in Nat /\ Len(t) \in Nat
      /\ DOMAIN s = 1 .. Len(s) /\ DOMAIN t = 1 .. Len(t)
      /\ DOMAIN (s \o t) = 1 .. Len(s) + Len(t)
      /\ \A k \in 1 .. Len(s) : (s \o t)[k] = s[k]
      /\ \A k \in 1 .. Len(t) : (s \o t)[Len(s) + k] = t[k]
      OBVIOUS
<1>2. ASSUME NEW k \in 1 .. Len(s) + Len(t)
      PROVE  (s \o t)[k] \in ToSet(s) \cup ToSet(t)
  <2>1. CASE k <= Len(s)
        BY <1>1, <2>1 DEF ToSet
  <2>2. CASE k > Len(s)
    <3>1. k - Len(s) \in 1 .. Len(t) /\ k = Len(s) + (k - Len(s))
          BY <1>1, <2>2
    <3>2. (s \o t)[k] = t[k - Len(s)]
          BY <1>1, <3>1
    <3> QED BY <1>1, <3>1, <3>2 DEF ToSet
  <2> QED BY <1>1, <2>1, <2>2
<1>3. ASSUME NEW x \in ToSet(s) \cup ToSet(t)
      PROVE  x \in ToSet(s \o t)
  <2>1. CASE x \in ToSet(s)
    <3>1. PICK k \in 1 .. Len(s) : x = s[k]
          BY <1>1, <2>1 DEF ToSet
    <3>2. k \in 1 .. Len(s) + Len(t) /\ (s \o t)[k] = x
          BY <1>1, <3>1
    <3> QED BY <1>1, <3>2 DEF ToSet
  <2>2. CASE x \in ToSet(t)
    <3>1. PICK k \in 1 .. Len(t) : x = t[k]
          BY <1>1, <2>2 DEF ToSet
    <3>2. Len(s) + k \in 1 .. Len(s) + Len(t) /\ (s \o t)[Len(s) + k] = x
          BY <1>1, <3>1
    <3> QED BY <1>1, <3>2 DEF ToSet
  <2> QED BY <1>3, <2>1, <2>2
<1>4. ToSet(s \o t) \subseteq ToSet(s) \cup ToSet(t)
      BY <1>1, <1>2 DEF ToSet
<1> QED BY <1>3, <1>4

LEMMA ElementsOf ==
    /\ ToSet(<<>>) = {}
    /\ \A d : ToSet(<<d>>) = {d}
    /\ \A d, e : ToSet(<<d, e>>) = {d, e}
    /\ \A S : \A s \in Seq(S) : ToSet(s) \subseteq S
    /\ \A S : \A s \in Seq(S) : s # <<>> => Head(s) \in ToSet(s) /\ ToSet(Tail(s)) \subseteq ToSet(s)
<1>1. \A d, e : ToSet(<<d, e>>) = {d, e}
  <2>1. SUFFICES ASSUME NEW d, NEW e PROVE ToSet(<<d, e>>) = {d, e}
        OBVIOUS
  <2>2. DOMAIN <<d, e>> = {1, 2} /\ <<d, e>>[1] = d /\ <<d, e>>[2] = e
        OBVIOUS
  <2> QED BY <2>2 DEF ToSet
<1>2. ASSUME NEW S, NEW s \in Seq(S), s # <<>>
      PROVE  Head(s) \in ToSet(s) /\ ToSet(Tail(s)) \subseteq ToSet(s)
  <2>1. /\ DOMAIN s = 1 .. Len(s) /\ Len(s) \in Nat /\ Len(s) > 0 /\ Head(s) = s[1]
        /\ DOMAIN Tail(s) = 1 .. Len(s) - 1 /\ \A k \in 1 .. Len(s) - 1 : Tail(s)[k] = s[k + 1]
        BY <1>2
  <2> QED BY <2>1 DEF ToSet
<1>3. \A d : ToSet(<<d>>) = {d}
  <2>1. SUFFICES ASSUME NEW d PROVE ToSet(<<d>>) = {d}
        OBVIOUS
  <2>2. DOMAIN <<d>> = {1} /\ <<d>>[1] = d
        OBVIOUS
  <2> QED BY <2>2 DEF ToSet
<1>4. ToSet(<<>>) = {}
      BY DEF ToSet
<1>5. \A S : \A s \in Seq(S) : ToSet(s) \subseteq S
      BY DEF ToSet
<1> QED BY <1>1, <1>2, <1>3, <1>4, <1>5

LEMMA LinesJoined ==
    ASSUME toHost \in Seq(Lines), NEW s \in Seq(Lines), toHost' = toHost \o s
    PROVE  ToSet(toHost') = ToSet(toHost) \cup ToSet(s)
BY ElementsJoined

(* What the device says outside a session.                                 *)
Told == {Evt(t) : t \in {"MODE_SELECTED", "FATAL_RESET", "DECISION_NORMAL", "UPDATE_SETUP_FAIL",
                         "APP_CRC_CHECK", "APP_CRC_OK", "HANDOFF", "DECISION_RECOVERY",
                         "RECOVERY_CMD_UNKNOWN"}}

ToldNow == Told \cup (IF dev' = "app" THEN {AppStart} ELSE {})
                \cup (IF BootCheckFails THEN {Evt("APP_CRC_FAIL")} ELSE {})

LEMMA ToldEvents == /\ Told \subseteq Events
                    /\ \A e \in Told : ~Is(e, "CHUNK_OK") /\ ~Is(e, "APP_CRC_FAIL")
                    /\ Evt("APP_CRC_FAIL") \in Events
                    /\ ~Is(Evt("APP_CRC_FAIL"), "CHUNK_OK")
                    /\ Is(Evt("APP_CRC_FAIL"), "APP_CRC_FAIL")
BY EventFacts DEF Told, Tokens

LEMMA IdleSays ==
    ASSUME Idles
    PROVE  \E lines \in Seq(Lines) : Prints(lines) /\ ToSet(lines) \subseteq ToldNow
<1>0. ToldNow \subseteq Lines
      BY ToldEvents DEF ToldNow, Lines
<1>1. ASSUME NEW e \in ToldNow, Prints(<<e>>)
      PROVE  \E lines \in Seq(Lines) : Prints(lines) /\ ToSet(lines) \subseteq ToldNow
  <2>1. <<e>> \in Seq(Lines) /\ ToSet(<<e>>) \subseteq ToldNow
        BY <1>0, <1>1, ElementsOf
  <2> QED BY <1>1, <2>1
<1>2. ASSUME NEW d \in ToldNow, NEW e \in ToldNow, Prints(<<d, e>>)
      PROVE  \E lines \in Seq(Lines) : Prints(lines) /\ ToSet(lines) \subseteq ToldNow
  <2>1. <<d, e>> \in Seq(Lines) /\ ToSet(<<d, e>>) \subseteq ToldNow
        BY <1>0, <1>2, ElementsOf
  <2> QED BY <1>2, <2>1
<1>3. <<>> \in Seq(Lines) /\ ToSet(<<>>) \subseteq ToldNow
      BY ElementsOf
<1>4. \A t \in {"MODE_SELECTED", "FATAL_RESET", "DECISION_NORMAL", "UPDATE_SETUP_FAIL",
               "APP_CRC_CHECK", "APP_CRC_OK", "HANDOFF", "DECISION_RECOVERY",
               "RECOVERY_CMD_UNKNOWN"} : Evt(t) \in ToldNow
      BY DEF ToldNow, Told
<1>5. CASE BootToken \/ BootFails \/ SelectRecovery
      BY <1>1, <1>4, <1>5 DEF BootToken, BootFails, SelectRecovery, Proceeds
<1>6. CASE SelectNormal \/ SelectUpdateRefused
      BY <1>2, <1>4, <1>6 DEF SelectNormal, SelectUpdateRefused, Proceeds
<1>7. CASE BootCheckPasses
      BY <1>1, <1>4, <1>7 DEF BootCheckPasses, Proceeds
<1>8. CASE BootCheckFails
  <2>1. Evt("APP_CRC_FAIL") \in ToldNow
        BY <1>8 DEF ToldNow
  <2> QED BY <1>2, <1>4, <1>8, <2>1 DEF BootCheckFails, Proceeds
<1>9. CASE HandsOff
  <2>1. dev' = "app" => AppStart \in ToldNow
        BY DEF ToldNow
  <2> QED BY <1>2, <1>4, <1>9, <2>1 DEF HandsOff, Proceeds
<1>10. CASE SessionOver
  <2>1. Prints(<<>>) \/ Prints(<<Evt("DECISION_RECOVERY")>>)
        BY <1>10 DEF SessionOver, Proceeds
  <2> QED BY <1>1, <1>3, <1>4, <2>1
<1>11. CASE ConsoleReads
  <2>1. Prints(<<>>) \/ Prints(<<Evt("RECOVERY_CMD_UNKNOWN")>>)
        BY <1>11 DEF ConsoleReads
  <2> QED BY <1>1, <1>3, <1>4, <2>1
<1> QED BY <1>5, <1>6, <1>7, <1>8, <1>9, <1>10, <1>11 DEF Idles

LEMMA IdleLines ==
    ASSUME Idles, toHost \in Seq(Lines)
    PROVE  /\ toHost' \in Seq(Lines)
           /\ ToSet(toHost') \subseteq ToSet(toHost) \cup ToldNow
<1>1. PICK lines \in Seq(Lines) : toHost' = toHost \o lines /\ ToSet(lines) \subseteq ToldNow
      BY IdleSays DEF Prints
<1>2. toHost' \in Seq(Lines)
      BY <1>1, Joined
<1>3. ToSet(toHost') = ToSet(toHost) \cup ToSet(lines)
      BY <1>1, LinesJoined
<1> QED BY <1>1, <1>2, <1>3

LEMMA WireDevice == Inv /\ WireTypes /\ Device => Inv' /\ WireTypes'
<1> SUFFICES ASSUME Inv, WireTypes, Device PROVE Inv' /\ WireTypes'
    OBVIOUS
<1>1. CASE Runs
      BY <1>1, WireRuns
<1>2. CASE Idles
  <2>1. toHost \in Seq(Lines) /\ toDevice \in Seq(Letters)
        BY DEF WireTypes
  <2>2. toHost' \in Seq(Lines)
        BY <1>2, <2>1, IdleLines
  <2>3. Goes /\ UNCHANGED host /\ UNCHANGED vars
        BY <1>2, IdleMoves
  <2>4. toDevice' \in Seq(Letters)
        BY <1>2, <2>1, IdleMoves
  <2>5. dev' \in Places
        BY <2>3 DEF Goes, Places
  <2>6. Inv'
        BY <2>3, VarsStep
  <2> QED BY <2>2, <2>3, <2>4, <2>5, <2>6 DEF WireTypes, host
<1>3. CASE SelectUpdate
  <2>1. Enter /\ Next
        BY <1>3 DEF SelectUpdate, Next, Call
  <2>2. out' \in Seq(Lines)
        BY <2>1, EnterSays DEF Lines
  <2>3. toHost' \in Seq(Lines)
        BY <1>3, <2>2 DEF SelectUpdate, Prints, WireTypes
  <2> QED BY <1>3, <2>1, <2>3, VarsStep DEF SelectUpdate, WireTypes, Places, host
<1>4. CASE Reset
  <2>1. Inv'
        BY <1>4, ResetKeeps
  <2>2. /\ toDevice' = <<>> /\ toHost' = <<>> /\ dev' = "boot" /\ handle' \in {handle, "lost"}
        /\ UNCHANGED <<hpc, image, offset>>
        BY <1>4 DEF Reset
  <2> QED BY <2>1, <2>2 DEF WireTypes, Places
<1> QED BY <1>1, <1>2, <1>3, <1>4, DeviceKinds

LEMMA JoinedAt ==
    ASSUME NEW S, NEW a \in Seq(S), NEW b \in Seq(S)
    PROVE  /\ a \o b \in Seq(S) /\ Len(a \o b) = Len(a) + Len(b)
           /\ \A k \in 1 .. Len(a) + Len(b) :
                  (a \o b)[k] = IF k <= Len(a) THEN a[k] ELSE b[k - Len(a)]
OBVIOUS

(* The line takes away from what is on it, or changes a byte.              *)
LEMMA RemovedFrom ==
    ASSUME NEW S, NEW s \in Seq(S), NEW i \in DOMAIN s
    PROVE  /\ RemoveAt(s, i) \in Seq(S)
           /\ Len(RemoveAt(s, i)) = Len(s) - 1
           /\ \A k \in DOMAIN RemoveAt(s, i) : RemoveAt(s, i)[k] = s[IF k < i THEN k ELSE k + 1]
<1>1. i \in 1 .. Len(s) /\ Len(s) \in Nat
      OBVIOUS
<1> DEFINE a == SubSeq(s, 1, i - 1)
           b == SubSeq(s, i + 1, Len(s))
<1>2. a \in Seq(S) /\ Len(a) = i - 1 /\ \A k \in 1 .. i - 1 : a[k] = s[k]
      BY <1>1
<1>3. b \in Seq(S) /\ Len(b) = Len(s) - i /\ \A k \in 1 .. Len(s) - i : b[k] = s[i + k]
      BY <1>1
<1>4. RemoveAt(s, i) = a \o b
      BY DEF RemoveAt
<1> HIDE DEF a, b
<1>5. /\ a \o b \in Seq(S) /\ Len(a \o b) = Len(s) - 1
      /\ DOMAIN (a \o b) = 1 .. Len(s) - 1
  <2>1. a \o b \in Seq(S) /\ Len(a \o b) = Len(a) + Len(b)
        BY <1>2, <1>3, JoinedAt
  <2>2. Len(a) + Len(b) = Len(s) - 1
        BY <1>1, <1>2, <1>3
  <2> QED BY <2>1, <2>2
<1>6. \A k \in 1 .. Len(s) - 1 : (a \o b)[k] = IF k < i THEN a[k] ELSE b[k - i + 1]
  <2>1. \A k \in 1 .. Len(a) + Len(b) :
            (a \o b)[k] = IF k <= Len(a) THEN a[k] ELSE b[k - Len(a)]
        BY <1>2, <1>3, JoinedAt
  <2>2. TAKE k \in 1 .. Len(s) - 1
  <2>3. k \in 1 .. Len(a) + Len(b) /\ (k <= Len(a) <=> k < i) /\ k - Len(a) = k - i + 1
        BY <1>1, <1>2, <1>3
  <2> QED BY <2>1, <2>3
<1>7. \A k \in 1 .. Len(s) - 1 : (a \o b)[k] = s[IF k < i THEN k ELSE k + 1]
  <2>1. TAKE k \in 1 .. Len(s) - 1
  <2>2. CASE k < i
        BY <1>1, <1>2, <1>6, <2>2
  <2>3. CASE ~(k < i)
    <3>1. k - i + 1 \in 1 .. Len(s) - i /\ i + (k - i + 1) = k + 1
          BY <1>1, <2>3
    <3> QED BY <1>3, <1>6, <2>3, <3>1
  <2> QED BY <2>2, <2>3
<1> QED BY <1>4, <1>5, <1>7

LEMMA WireLine == Inv /\ WireTypes /\ Line => Inv' /\ WireTypes'
<1> SUFFICES ASSUME Inv, WireTypes, Line PROVE Inv' /\ WireTypes'
    OBVIOUS
<1>1. UNCHANGED <<vars, dev, host>>
      BY DEF Line, LosesByte, DamagesByte, LosesToken
<1>2. Inv'
      BY <1>1, VarsStep
<1>3. toDevice' \in Seq(Letters)
  <2>1. CASE LosesByte
        BY <2>1, RemovedFrom DEF LosesByte, WireTypes
  <2>2. CASE DamagesByte
    <3>1. Cells \cup {Junk} \subseteq Letters
          BY DEF Letters, Symbols
    <3> QED BY <2>2, <3>1 DEF DamagesByte, WireTypes
  <2>3. CASE LosesToken
        BY <2>3 DEF LosesToken, WireTypes
  <2> QED BY <2>1, <2>2, <2>3 DEF Line
<1>4. toHost' \in Seq(Lines)
      BY RemovedFrom DEF Line, LosesByte, DamagesByte, LosesToken, WireTypes
<1> QED BY <1>1, <1>2, <1>3, <1>4 DEF WireTypes, host

(* What the host does with its own variables.                              *)
Handshake == {"hello", "greet", "ready"}

HostAlone == UNCHANGED dev /\ toHost' \in Seq(Lines)

LEMMA WritesTypes ==
    ASSUME WireTypes, HostAlone, NEW bytes \in Seq(Letters),
           NEW next \in Waiting \cup CaseWaiting, next \in Handshake => offset < Len(image),
           Writes(bytes, next)
    PROVE  WireTypes'
<1>1. CASE handle = "main"
  <2>1. toDevice' = toDevice \o bytes
        BY <1>1 DEF Writes
  <2>2. toDevice' \in Seq(Letters)
        BY <2>1, Joined DEF WireTypes
  <2> QED BY <1>1, <2>2 DEF Writes, WireTypes, HostAlone, Handshake
<1>2. CASE handle # "main"
      BY <1>2 DEF Writes, Returns, WireTypes, HostAlone, Handshake
<1> QED BY <1>1, <1>2

LEMMA WaitsTypes ==
    ASSUME WireTypes, HostAlone, NEW next \in Waiting \cup CaseWaiting,
           next \in Handshake => offset < Len(image), Waits(next)
    PROVE  WireTypes'
BY DEF Waits, WireTypes, HostAlone, Handshake

LEMMA FailsTypes ==
    ASSUME WireTypes, HostAlone, NEW c, Fails(c)
    PROVE  WireTypes'
BY DEF Fails, Returns, WireTypes, HostAlone, Handshake

LEMMA FrameAtLetters ==
    ASSUME NEW o \in 0 .. Len(image) - 1, image \in AllImages
    PROVE  FrameAt(o) \in Seq(Letters)
BY ImageType, ChunkCellsOf, HeaderIsKnown, FrameShape DEF FrameAt, ChunkAt

(* The next offset does not leave the image.                               *)
LEMMA NextOffsetInside ==
    ASSUME WireTypes
    PROVE  /\ NextOffset \in offset .. Len(image)
           /\ offset < Len(image) => NextOffset > offset
           /\ image \in Seq(Data)
<1>1. image \in Seq(Data) /\ offset \in 0 .. Len(image)
      BY ImageType DEF WireTypes
<1>2. /\ Len(ChunkAt(offset)) \in 0 .. Len(image) - offset
      /\ offset < Len(image) => Len(ChunkAt(offset)) > 0
      BY <1>1, ChunkCellsOf DEF ChunkAt
<1> QED BY <1>1, <1>2 DEF NextOffset

LEMMA AnswersTypes ==
    ASSUME WireTypes, HostAlone, NEW t, Answers(t)
    PROVE  WireTypes'
<1>1. CASE Ignores
      BY <1>1 DEF Ignores, host, WireTypes, HostAlone
<1>2. CASE \E c : Fails(c)
      BY <1>2, FailsTypes
<1>3. hpc \in Handshake => offset < Len(image)
      BY DEF WireTypes, Handshake
<1>4. CASE hpc \in {"hello", "greet"} /\ Waits("greet")
      BY <1>3, <1>4, WaitsTypes DEF Waiting, Handshake
<1>5. CASE \/ hpc = "ended" /\ Waits("verdict")
           \/ hpc = "verdict" /\ (Waits("handoff") \/ Waits("verdict"))
           \/ hpc = "handoff" /\ Waits("start")
      BY <1>5, WaitsTypes DEF Waiting, Handshake
<1>6. CASE \/ hpc = "hello" /\ Writes(StartLineBytes, "ready")
           \/ hpc = "greet" /\ Writes(StartLineBytes, "greet")
      BY <1>3, <1>6, WritesTypes, LineTexts DEF Waiting, Handshake
<1>7. CASE hpc \in Handshake /\ SendsChunk
  <2>1. FrameAt(offset) \in Seq(Letters)
        BY <1>3, <1>7, FrameAtLetters DEF WireTypes
  <2> QED BY <1>7, <2>1, WritesTypes DEF Waiting, Handshake, SendsChunk
<1>8. CASE Is(t, "CHUNK_OK") /\ t.value = offset /\ Acknowledges(t)
      BY <1>8, NextOffsetInside DEF Acknowledges, WireTypes, HostAlone, Waiting
<1>9. CASE Writes(<<End, LineEnd>>, "ended")
      BY <1>9, WritesTypes, LineTexts DEF Waiting, Handshake
<1> QED BY <1>1, <1>2, <1>4, <1>5, <1>6, <1>7, <1>8, <1>9 DEF Answers, Handshake

(* What a script leaves of the lines when it takes one, or starts.         *)
LEMMA LinesLeft ==
    ASSUME toHost \in Seq(Lines), HostMoves \/ HostStarts
    PROVE  toHost' \in Seq(Lines)
<1>1. <<>> \in Seq(Lines)
      OBVIOUS
<1>2. toHost # <<>> => Tail(toHost) \in Seq(Lines)
      OBVIOUS
<1>3. CASE HostReads
      BY <1>2, <1>3 DEF HostReads
<1>4. CASE HostTimesOut \/ HostLosesPort
      BY <1>4 DEF HostTimesOut, HostLosesPort
<1>5. CASE HostReconnects \/ HostStarts
      BY <1>1, <1>5 DEF HostReconnects, HostStarts
<1> QED BY <1>3, <1>4, <1>5 DEF HostMoves

LEMMA WireHostMoves == Inv /\ WireTypes /\ HostMoves => Inv' /\ WireTypes'
<1> SUFFICES ASSUME Inv, WireTypes, HostMoves PROVE Inv' /\ WireTypes'
    OBVIOUS
<1>1. UNCHANGED <<vars, dev>>
      BY DEF HostMoves, HostReads, HostTimesOut, HostReconnects, HostLosesPort
<1>0. Inv'
      BY <1>1, VarsStep
<1>2. HostAlone
  <2>1. toHost \in Seq(Lines)
        BY DEF WireTypes
  <2> QED BY <1>1, <2>1, LinesLeft DEF HostAlone
<1>3. CASE HostReads
  <2>1. hpc \in Waiting /\ Understands(Head(toHost))
        BY <1>3 DEF HostReads
  <2>2. Answers(Head(toHost))
        BY <2>1, HostAnswers
  <2> QED BY <1>0, <1>2, <2>2, AnswersTypes
<1>4. CASE HostTimesOut \/ HostLosesPort
  <2>1. \E c : Fails(c)
        BY <1>4 DEF HostTimesOut, HostLosesPort
  <2> QED BY <1>0, <1>2, <2>1, FailsTypes
<1>5. CASE HostReconnects
  <2>1. handle' = "local" /\ UNCHANGED <<toDevice, hpc, image, offset>>
        BY <1>5 DEF HostReconnects
  <2> QED BY <1>0, <1>2, <2>1 DEF HostAlone, WireTypes
<1> QED BY <1>3, <1>4, <1>5 DEF HostMoves

LEMMA WireHostStarts == Inv /\ WireTypes /\ HostStarts => Inv' /\ WireTypes'
<1> SUFFICES ASSUME Inv, WireTypes, HostStarts PROVE Inv' /\ WireTypes'
    OBVIOUS
<1>1. toDevice' \in Seq(Letters)
  <2>1. toDevice' = toDevice \o StartLineBytes
        BY DEF HostStarts
  <2> QED BY <2>1, LineTexts, Joined DEF WireTypes
<1>2. image' \in AllImages /\ offset' = 0 /\ Len(image') > 0 /\ Len(image') \in Nat
      BY ImageType DEF HostStarts, AllImages
<1>3. toHost' \in Seq(Lines)
      BY LinesLeft DEF WireTypes
<1>4. UNCHANGED <<vars, dev>> /\ hpc' = "hello" /\ handle' = "main"
      BY DEF HostStarts
<1>5. Inv'
      BY <1>4, VarsStep
<1>6. WireTypes'
      BY <1>1, <1>2, <1>3, <1>4 DEF WireTypes, Waiting
<1> QED BY <1>5, <1>6

(* What the cases send.                                                    *)
LEMMA CaseBytes ==
    ASSUME part \in Partitions
    PROVE  /\ Whole \in Seq(Data) /\ Len(Whole) = ChunkMax
           /\ PartOfPayload \in Seq(Data) /\ Len(PartOfPayload) = PartialSize
           /\ HeaderOf(Whole, 0) \in Headers
           /\ [HeaderOf(Whole, 0) EXCEPT !.crc = BadCrc(Whole)] \in Headers
           /\ [len |-> ChunkMax, off |-> part.size, crc |-> 0] \in Headers
           /\ CorruptFrame \in Seq(Letters) /\ PartialFrame \in Seq(Letters)
           /\ OobHeader \in Seq(Letters)
<1>1. ChunkMax \in Nat /\ PartialSize \in 0 .. ChunkMax - 1 /\ Fill \in Data
      BY LimitsAssumption, NegativeAssumption
<1>2. Whole \in Seq(Data) /\ Len(Whole) = ChunkMax
      BY <1>1 DEF Whole
<1>3. PartOfPayload \in Seq(Data) /\ Len(PartOfPayload) = PartialSize
      BY <1>1, <1>2 DEF PartOfPayload
<1>4. /\ HeaderOf(Whole, 0) \in Headers
      /\ [HeaderOf(Whole, 0) EXCEPT !.crc = BadCrc(Whole)] \in Headers
      /\ [len |-> ChunkMax, off |-> part.size, crc |-> 0] \in Headers
      BY CaseHeaders
<1>5. CorruptFrame \in Seq(Letters) /\ PartialFrame \in Seq(Letters)
      BY <1>2, <1>3, <1>4, FrameShape DEF CorruptFrame, PartialFrame
<1>6. OobHeader \in Seq(Letters)
  <2>1. LineEnd \in Letters /\ [len |-> ChunkMax, off |-> part.size, crc |-> 0] \in Letters
        BY <1>4 DEF Letters, Symbols
  <2> QED BY <2>1 DEF OobHeader
<1> QED BY <1>2, <1>3, <1>4, <1>5, <1>6

LEMMA CaseAnswersTypes ==
    ASSUME TypeOK, WireTypes, HostAlone, CaseAnswers
    PROVE  WireTypes'
<1>1. CASE Ignores
      BY <1>1 DEF Ignores, host, WireTypes, HostAlone
<1>2. CASE \E c \in {"pass", "fail"} : Fails(c)
      BY <1>2, FailsTypes
<1>3. \A next \in CaseWaiting : next \in Waiting \cup CaseWaiting /\ next \notin Handshake
      BY DEF CaseWaiting, Handshake
<1>4. CASE \E next \in CaseWaiting : Waits(next)
      BY <1>3, <1>4, WaitsTypes
<1>5. CASE \E next \in CaseWaiting, bytes \in Seq(Letters) : Writes(bytes, next)
      BY <1>3, <1>5, WritesTypes
<1>6. part \in Partitions
      BY DEF TypeOK
<1>7. {"shake", "refusal", "stored", "next", "check", "check again", "settled", "back",
       "heartbeat", "apart", "closing"} \subseteq CaseWaiting
      BY DEF CaseWaiting
<1>8. FrameAt(0) \in Seq(Letters)
  <2>1. 0 \in 0 .. Len(image) - 1
        BY ImageType DEF WireTypes
  <2> QED BY <2>1, FrameAtLetters DEF WireTypes
<1>9. CASE Disconnects
  <2>1. toDevice' \in Seq(Letters)
    <3>1. toDevice' = toDevice \o PartialFrame
          BY <1>9 DEF Disconnects
    <3> QED BY <1>6, <3>1, CaseBytes, Joined DEF WireTypes
  <2>2. hpc' = "apart" /\ handle' = "closed" /\ UNCHANGED <<image, offset>>
        BY <1>9 DEF Disconnects
  <2> QED BY <1>3, <1>7, <2>1, <2>2 DEF WireTypes, HostAlone, Handshake
<1>10. CASE Advances
  <2>1. NextOffset \in offset .. Len(image) /\ offset \in Nat /\ Len(image) \in Nat
        BY NextOffsetInside, ImageType DEF WireTypes
  <2>2. toDevice' \in Seq(Letters)
    <3>1. <<End, LineEnd>> \in Seq(Letters) /\ toDevice \in Seq(Letters)
          BY LineTexts DEF WireTypes
    <3>2. CASE LastChunk
          BY <1>10, <3>1, <3>2, Joined DEF Advances
    <3>3. CASE ~LastChunk
      <4>1. NextOffset \in 0 .. Len(image) - 1
            BY <2>1, <3>3 DEF LastChunk
      <4>2. FrameAt(NextOffset) \in Seq(Letters)
            BY <4>1, FrameAtLetters DEF WireTypes
      <4>3. toDevice' = toDevice \o FrameAt(offset') /\ offset' = NextOffset
            BY <1>10, <3>3 DEF Advances
      <4> QED BY <3>1, <4>2, <4>3, Joined
    <3> QED BY <3>2, <3>3
  <2>3. /\ hpc' \in {"closing", "stored"} /\ offset' = NextOffset
        /\ UNCHANGED <<handle, image>>
        BY <1>10 DEF Advances
  <2>4. hpc' \in CaseWaiting /\ hpc' \notin Handshake /\ offset' \in 0 .. Len(image')
    <3>1. "closing" \in CaseWaiting /\ "stored" \in CaseWaiting
          BY <1>7
    <3>2. hpc' \in CaseWaiting /\ hpc' \notin Handshake
          BY <1>3, <2>3, <3>1
    <3>3. offset' \in 0 .. Len(image')
          BY <2>1, <2>3
    <3> QED BY <3>2, <3>3
  <2> QED BY <2>2, <2>3, <2>4 DEF WireTypes, HostAlone, Handshake
<1> HIDE DEF CaseWaiting
<1> QED BY <1>1, <1>2, <1>4, <1>5, <1>6, <1>7, <1>8, <1>9, <1>10, LineTexts, CaseBytes
        DEF CaseAnswers

(* A case that is running is one of the cases, and closes the port while   *)
(* it is apart.                                                            *)
CaseKnown ==
    /\ case \in Cases \cup {"none"}
    /\ hpc \in CaseWaiting => case \in Cases
    /\ hpc = "apart" => handle = "closed"

LEMMA CaseAnswersWhich ==
    ASSUME CaseKnown, CaseReads \/ CaseWaitEnds
    PROVE  CaseAnswers
<1>1. CASE CaseReads
  <2>1. Takes(Head(toHost)) /\ hpc \in CaseWaiting /\ handle = "main"
        BY <1>1 DEF CaseReads
  <2>2. hpc # "apart" /\ case \in Cases
        BY <2>1 DEF CaseKnown
  <2> QED BY <2>1, <2>2, CaseTakes
<1>2. CASE CaseWaitEnds
      BY <1>2, CaseWaits DEF CaseWaitEnds
<1> QED BY <1>1, <1>2

LEMMA WireCaseMoves ==
    Inv /\ WireTypes /\ CaseKnown /\ CaseMoves => Inv' /\ WireTypes'
<1> SUFFICES ASSUME Inv, WireTypes, CaseKnown, CaseMoves PROVE Inv' /\ WireTypes'
    OBVIOUS
<1>1. UNCHANGED <<vars, dev>>
      BY DEF CaseMoves, CaseReads, CaseWaitEnds, CaseLosesPort, CaseReopens
<1>2. Inv'
      BY <1>1, VarsStep
<1>3. toHost' \in Seq(Lines)
  <2>1. toHost \in Seq(Lines) /\ <<>> \in Seq(Lines)
        BY DEF WireTypes
  <2>2. toHost # <<>> => Tail(toHost) \in Seq(Lines)
        BY <2>1
  <2>3. toHost' = <<>> \/ toHost' = toHost \/ (toHost # <<>> /\ toHost' = Tail(toHost))
        BY DEF CaseMoves, CaseReads, CaseWaitEnds, CaseLosesPort, CaseReopens
  <2> QED BY <2>1, <2>2, <2>3
<1>4. HostAlone
      BY <1>1, <1>3 DEF HostAlone
<1>5. TypeOK
      BY DEF Inv, Shape
<1>6. CASE CaseReads \/ CaseWaitEnds
      BY <1>2, <1>4, <1>5, <1>6, CaseAnswersWhich, CaseAnswersTypes
<1>7. CASE CaseLosesPort
      BY <1>2, <1>4, <1>7, FailsTypes DEF CaseLosesPort
<1>8. CASE CaseReopens
  <2>1. CASE Fails("serial error")
        BY <1>2, <1>4, <2>1, FailsTypes
  <2>2. CASE hpc' = "broken" /\ handle' = "main" /\ UNCHANGED <<toDevice, image, offset>>
        BY <1>2, <1>4, <2>2 DEF HostAlone, WireTypes, CaseWaiting
  <2> QED BY <1>8, <2>1, <2>2 DEF CaseReopens
<1> QED BY <1>6, <1>7, <1>8 DEF CaseMoves

LEMMA WireCaseStarts == Inv /\ WireTypes /\ CaseStarts => Inv' /\ WireTypes'
<1> SUFFICES ASSUME Inv, WireTypes, CaseStarts PROVE Inv' /\ WireTypes'
    OBVIOUS
<1>1. toDevice' \in Seq(Letters)
  <2>1. toDevice' = toDevice \o StartLineBytes
        BY DEF CaseStarts
  <2> QED BY <2>1, LineTexts, Joined DEF WireTypes
<1>2. image' \in AllImages /\ offset' = 0
      BY DEF CaseStarts, AllImages, WireTypes
<1>3. Len(image') > 0 /\ Len(image') \in Nat
      BY <1>2, ImageType
<1>4. toHost' \in Seq(Lines)
  <2>1. toHost \in Seq(Lines) /\ <<>> \in Seq(Lines)
        BY DEF WireTypes
  <2> QED BY <2>1 DEF CaseStarts
<1>5. UNCHANGED <<vars, dev>> /\ hpc' = "shake" /\ handle' = "main"
      BY DEF CaseStarts
<1>6. Inv'
      BY <1>5, VarsStep
<1>7. hpc' \in CaseWaiting /\ hpc' \notin {"hello", "greet", "ready"}
      BY <1>5 DEF CaseWaiting
<1>8. WireTypes'
      BY <1>1, <1>2, <1>3, <1>4, <1>5, <1>7 DEF WireTypes
<1> QED BY <1>6, <1>8

(* Bounds.                                                                 *)
Limits == runs \in 0 .. MaxRuns /\ faults \in 0 .. MaxFaults

LEMMA Counts ==
    ASSUME TransferNext \/ CaseStarts \/ (CaseKnown /\ CaseMoves)
    PROVE  /\ UNCHANGED faults \/ (faults < MaxFaults /\ faults' = faults + 1)
           /\ \/ UNCHANGED runs
              \/ HostStarts \/ CaseStarts
<1>1. UNCHANGED faults \/ (faults < MaxFaults /\ faults' = faults + 1)
  <2>1. CASE Device
    <3>1. Boots => UNCHANGED faults \/ Disturbed
          BY DEF Boots, BootToken, BootFails, SelectNormal, SelectRecovery, SelectUpdateRefused,
             BootCheckPasses, BootCheckFails, HandsOff, FatalResets, AppRestarts
    <3> QED BY <2>1, <3>1 DEF Device, SelectUpdate, DeviceReads, DeviceWorks, SessionOver,
           ConsoleReads, FlashFails, HostTooSlow, DeviceResets, Disturbed
  <2>2. CASE Line
        BY <2>2 DEF Line, LosesByte, DamagesByte, LosesToken, Disturbed
  <2>3. CASE HostStarts \/ HostMoves
        BY <2>3 DEF HostStarts, HostMoves, HostReads, HostTimesOut, HostReconnects, HostLosesPort
  <2>4. CASE CaseStarts \/ CaseMoves
        BY <2>4 DEF CaseStarts, CaseMoves, CaseReads, CaseWaitEnds, CaseLosesPort, CaseReopens
  <2> QED BY <2>1, <2>2, <2>3, <2>4 DEF TransferNext
<1>2. UNCHANGED runs \/ HostStarts \/ CaseStarts
  <2>1. CASE Device
    <3>1. Idles => UNCHANGED runs
          BY IdleMoves DEF host
    <3> QED BY <2>1, <3>1, DeviceKinds DEF Runs, SelectUpdate, Reset, host
  <2>2. CASE Line
        BY <2>2 DEF Line, LosesByte, DamagesByte, LosesToken, host
  <2>3. ASSUME NEW t, Answers(t) PROVE UNCHANGED runs
        BY <2>3 DEF Answers, Ignores, Fails, Returns, Waits, Writes, SendsChunk, Acknowledges, host
  <2>4. CASE HostMoves
        BY <2>3, <2>4, HostAnswers
           DEF HostMoves, HostReads, HostTimesOut, HostReconnects, HostLosesPort, Fails, Returns
  <2>5. ASSUME CaseAnswers PROVE UNCHANGED runs
        BY <2>5 DEF CaseAnswers, Ignores, Fails, Returns, Waits, Writes, Disconnects, Advances, host
  <2>6. CASE CaseKnown /\ (CaseReads \/ CaseWaitEnds)
        BY <2>5, <2>6, CaseAnswersWhich
  <2>7. CASE CaseLosesPort \/ CaseReopens
        BY <2>7 DEF CaseLosesPort, CaseReopens, Fails, Returns
  <2> QED BY <2>1, <2>2, <2>4, <2>6, <2>7 DEF TransferNext, CaseMoves
<1> QED BY <1>1, <1>2

LEMMA LimitsStep ==
    ASSUME Limits, TransferNext \/ CaseStarts \/ (CaseKnown /\ CaseMoves)
    PROVE  Limits'
<1>1. MaxRuns \in Nat /\ MaxFaults \in Nat
      BY TransferAssumption
<1>2. faults' \in 0 .. MaxFaults
      BY <1>1, Counts DEF Limits
<1>3. UNCHANGED runs \/ (runs < MaxRuns /\ runs' = runs + 1)
      BY Counts DEF HostStarts, CaseStarts
<1>4. runs' \in 0 .. MaxRuns
      BY <1>1, <1>3 DEF Limits
<1> QED BY <1>2, <1>4 DEF Limits

(* What every behaviour of line, device and scripts keeps.                 *)
Wire == Inv /\ WireTypes /\ Limits

LEMMA WireInit == TransferInit => Wire
<1> SUFFICES ASSUME TransferInit PROVE Wire
    OBVIOUS
<1>1. Init
      BY DEF TransferInit
<1>2. Inv
      BY <1>1, InvInit
<1>3. image \in AllImages /\ Len(image) \in Nat
      BY ImageType DEF TransferInit, AllImages
<1>4. <<>> \in Seq(Letters) /\ <<>> \in Seq(Lines)
      OBVIOUS
<1>5. WireTypes
      BY <1>3, <1>4 DEF TransferInit, WireTypes, Places
<1>6. Limits
      BY TransferAssumption DEF TransferInit, Limits
<1> QED BY <1>2, <1>5, <1>6 DEF Wire

LEMMA WireSame == Wire /\ UNCHANGED transferVars => Wire'
<1> SUFFICES ASSUME Wire, UNCHANGED transferVars PROVE Wire'
    OBVIOUS
<1>1. Inv'
      BY VarsStep DEF Wire, transferVars
<1>2. WireTypes'
      BY DEF Wire, WireTypes, transferVars, host
<1>3. Limits'
      BY DEF Wire, Limits, transferVars, host
<1> QED BY <1>1, <1>2, <1>3 DEF Wire

LEMMA WireStep ==
    Wire /\ (TransferNext \/ CaseStarts \/ (CaseKnown /\ CaseMoves)) => Wire'
BY LimitsStep, WireDevice, WireLine, WireHostMoves, WireHostStarts, WireCaseMoves,
   WireCaseStarts DEF Wire, TransferNext

LEMMA TransferStep == Wire /\ [TransferNext]_transferVars => Wire'
BY WireStep, WireSame

LEMMA WireTypeOK == Wire => TransferTypeOK
<1> SUFFICES ASSUME Wire PROVE TransferTypeOK
    OBVIOUS
<1>1. image \in Seq(Data)
      BY ImageType DEF Wire, WireTypes
<1> QED BY <1>1 DEF Wire, Inv, Shape, WireTypes, Limits, Letters, TransferTypeOK

(* Every variable of device, line and host keeps its type: main() never    *)
(* counts past the end of its image, and what it sends are bytes the model *)
(* knows.                                                                  *)
THEOREM TransferTypes == TransferSpec => []TransferTypeOK
<1> QED
  BY WireInit, TransferStep, WireTypeOK, PTL DEF TransferSpec

(* The same with send_update_negative.py on the line.                      *)
LEMMA CaseKnownStep ==
    ASSUME WireTypes, CaseKnown, [NegativeNext]_negativeVars
    PROVE  CaseKnown'
<1>1. CASE CaseStarts
      BY <1>1 DEF CaseStarts, CaseKnown
<1>2. CASE CaseMoves
  <2>1. case' = case /\ case \in Cases
        BY <1>2 DEF CaseMoves, CaseReads, CaseWaitEnds, CaseLosesPort, CaseReopens, CaseKnown,
           CaseWaiting
  <2>2. ASSUME CaseAnswers PROVE hpc' = "apart" => handle' = "closed"
        BY <2>2 DEF CaseAnswers, Ignores, Fails, Returns, Waits, Writes, Disconnects, Advances,
           CaseKnown, host
  <2>3. hpc' = "apart" => handle' = "closed"
        BY <1>2, <2>2, CaseAnswersWhich
           DEF CaseMoves, CaseLosesPort, CaseReopens, Fails, Returns
  <2> QED BY <2>1, <2>3 DEF CaseKnown
<1>3. CASE HostStarts /\ case' = "none"
      BY <1>3 DEF HostStarts, CaseKnown, CaseWaiting
<1>4. CASE HostMoves /\ UNCHANGED case
  <2>1. ASSUME NEW t, Answers(t), hpc \in Waiting PROVE hpc' \in Waiting \cup {"off"}
        BY <2>1 DEF Answers, Ignores, Fails, Returns, Waits, Writes, SendsChunk, Acknowledges,
           host, Waiting
  <2>2. hpc' \in Waiting \cup {"off"}
        BY <1>4, <2>1, HostAnswers DEF HostMoves, HostReads, HostTimesOut, CanTimeOut,
           HostReconnects, HostLosesPort, Fails, Returns
  <2>3. hpc' \notin CaseWaiting
        BY <2>2 DEF Waiting, CaseWaiting
  <2>4. "apart" \in CaseWaiting
        BY DEF CaseWaiting
  <2> QED BY <1>4, <2>3, <2>4 DEF CaseKnown
<1>5. CASE (Device \/ Line) /\ UNCHANGED case
  <2>1. hpc' = hpc /\ (hpc = "apart" /\ handle = "closed" => handle' = "closed")
    <3>1. CASE Line
          BY <3>1 DEF Line, LosesByte, DamagesByte, LosesToken, host
    <3>2. CASE Runs \/ SelectUpdate \/ Reset
          BY <3>2 DEF Runs, SelectUpdate, Reset, NobodySends, host
    <3>3. CASE Idles
          BY <3>3, IdleMoves DEF host
    <3> QED BY <1>5, <3>1, <3>2, <3>3, DeviceKinds
  <2> QED BY <1>5, <2>1 DEF CaseKnown
<1>6. CASE UNCHANGED negativeVars
      BY <1>6 DEF negativeVars, transferVars, host, CaseKnown
<1> QED BY <1>1, <1>2, <1>3, <1>4, <1>5, <1>6 DEF NegativeNext

NegativeWire == Wire /\ CaseKnown

LEMMA NegativeWireInit == NegativeInit => NegativeWire
BY WireInit DEF NegativeInit, TransferInit, NegativeWire, CaseKnown, CaseWaiting

LEMMA NegativeStep == NegativeWire /\ [NegativeNext]_negativeVars => NegativeWire'
<1> SUFFICES ASSUME NegativeWire, [NegativeNext]_negativeVars PROVE NegativeWire'
    OBVIOUS
<1>1. CaseKnown'
      BY CaseKnownStep DEF NegativeWire, Wire
<1>2. CASE NegativeNext
      BY <1>1, <1>2, WireStep DEF NegativeNext, TransferNext, NegativeWire
<1>3. CASE UNCHANGED negativeVars
      BY <1>1, <1>3, WireSame DEF negativeVars, NegativeWire
<1> QED BY <1>2, <1>3

(* Neither script ever sends or counts past the end of its image, and the  *)
(* device keeps its types, whatever the two send it in turn.               *)
THEOREM NegativeTypes == NegativeSpec => []NegativeTypeOK
<1>1. NegativeWire => NegativeTypeOK
      BY WireTypeOK DEF NegativeWire, Wire, WireTypes, CaseKnown, NegativeTypeOK
<1> QED
  BY <1>1, NegativeWireInit, NegativeStep, PTL DEF NegativeSpec

-----------------------------------------------------------------------------
(* The device keeps its word to the line: it hands off only after a check  *)
(* that passed, of a session or of its boot.                               *)

AckedTried == \A a \in DOMAIN acked : acked[a] \subseteq tried[a]

DevTrue ==
    /\ dev # "update" => phase = "idle"
    /\ dev = "boot" => acked = NoHistory /\ tried = NoHistory /\ result = FALSE
    /\ phase # "idle" => result = FALSE
    /\ dev \in {"handoff", "app"} \/ result = TRUE => ImageValid(flash, part)
    /\ AckedTried

LEMMA DevRuns ==
    ASSUME Inv, DevTrue, Runs
    PROVE  DevTrue' /\ dev = "update"
<1>1. InSession
      BY DEF Runs, InSession
<1>2. TypeOK
      BY DEF Inv, Shape
<1>3. phase # "idle" /\ part' = part /\ dev = "update" /\ dev' = "update" /\ result = FALSE
      BY <1>1, <1>2, SessionHistory DEF DevTrue, Runs
<1>4. AckedTried'
  <2>1. /\ tried \in [0 .. FlashSize - 1 -> SUBSET Data]
        /\ acked \in [0 .. FlashSize - 1 -> SUBSET Data]
        BY <1>2 DEF TypeOK
  <2>2. CASE UNCHANGED <<tried, acked>>
        BY <2>2 DEF DevTrue, AckedTried
  <2>3. CASE tried' = Note(tried) /\ acked' \in {acked, Note(acked)}
        BY <2>1, <2>3 DEF DevTrue, AckedTried, Note
  <2> QED BY <1>1, <1>2, <2>2, <2>3, SessionHistory
<1>5. result' = TRUE => Verify /\ UNCHANGED <<part, flash, tried, acked>> /\ phase' = "idle"
      BY <1>1, <1>2, <1>3, SessionAnswer
<1>6. phase' # "idle" => result' = FALSE
      BY <1>1, <1>2, <1>3, SessionAnswer
<1>7. result' = TRUE => ImageValid(flash', part')
  <2>1. result' = TRUE => ImageValid(flash, part)
        BY <1>1, <1>2, <1>3, SessionAnswer
  <2> QED BY <1>5, <2>1
<1> QED BY <1>3, <1>4, <1>6, <1>7 DEF DevTrue

(* The lines and the scripts do not touch the device.                      *)
DeviceRests == UNCHANGED <<vars, dev>>

LEMMA Elsewhere ==
    Line \/ HostStarts \/ HostMoves \/ CaseStarts \/ CaseMoves => DeviceRests
BY DEF Line, LosesByte, DamagesByte, LosesToken, HostStarts, HostMoves, HostReads,
   HostTimesOut, HostReconnects, HostLosesPort, CaseStarts, CaseMoves, CaseReads, CaseWaitEnds,
   CaseLosesPort, CaseReopens, DeviceRests

LEMMA StepKinds ==
    [NegativeNext]_negativeVars \/ [TransferNext]_transferVars
        => Device \/ DeviceRests
<1>1. UNCHANGED negativeVars \/ UNCHANGED transferVars => DeviceRests
      BY DEF negativeVars, transferVars, DeviceRests
<1> QED BY <1>1, Elsewhere DEF NegativeNext, TransferNext

LEMMA DevStep ==
    ASSUME Inv, DevTrue, Device \/ DeviceRests
    PROVE  DevTrue'
<1>1. CASE Runs
      BY <1>1, DevRuns
<1>2. CASE DeviceRests
      BY <1>2 DEF DeviceRests, vars, DevTrue, AckedTried
<1>3. CASE SelectUpdate
  <2>1. /\ dev = "boot" /\ dev' = "update" /\ UNCHANGED <<part, flash, result>>
        /\ tried' = NoHistory /\ acked' = NoHistory
        BY <1>3 DEF SelectUpdate, Enter
  <2>2. result' = FALSE
        BY <2>1 DEF DevTrue
  <2>3. AckedTried'
        BY <2>1 DEF AckedTried, NoHistory
  <2> QED BY <2>1, <2>2, <2>3 DEF DevTrue
<1>4. CASE Reset
  <2>1. /\ dev' = "boot" /\ phase' = "idle" /\ result' = FALSE
        /\ tried' = NoHistory /\ acked' = NoHistory
        BY <1>4 DEF Reset, Return
  <2>2. AckedTried'
        BY <2>1 DEF AckedTried, NoHistory
  <2> QED BY <2>1, <2>2 DEF DevTrue
<1>5. CASE Idles
  <2>1. UNCHANGED <<part, flash, phase, result, tried, acked>> /\ Goes
        BY <1>5, IdleMoves DEF vars
  <2>2. AckedTried'
        BY <2>1 DEF DevTrue, AckedTried
  <2>3. dev' # "update" => phase = "idle"
        BY <2>1 DEF Goes, DevTrue
  <2>4. dev' \in {"handoff", "app"} => ImageValid(flash, part)
    <3>1. result \in BOOLEAN
          BY DEF Inv, Shape, TypeOK
    <3> QED BY <2>1, <3>1 DEF Goes, DevTrue
  <2>5. dev' = "boot" => dev = "boot"
        BY <2>1 DEF Goes
  <2> QED BY <2>1, <2>2, <2>3, <2>4, <2>5 DEF DevTrue
<1> QED BY <1>1, <1>2, <1>3, <1>4, <1>5, DeviceKinds

LEMMA DevInit == TransferInit => DevTrue
BY DEF TransferInit, Init, DevTrue, AckedTried, NoHistory

-----------------------------------------------------------------------------
(* Lines to the host.                                                      *)

(* Only the device puts lines on their way.                                *)
LEMMA NoNewLines ==
    ASSUME WireTypes, toHost' = toHost \/ Line \/ HostStarts \/ HostMoves \/ CaseStarts \/ CaseMoves
    PROVE  ToSet(toHost') \subseteq ToSet(toHost)
<1>1. toHost \in Seq(Lines)
      BY DEF WireTypes
<1>2. toHost # <<>> => ToSet(Tail(toHost)) \subseteq ToSet(toHost)
      BY <1>1, ElementsOf
<1>3. \A i \in DOMAIN toHost : ToSet(RemoveAt(toHost, i)) \subseteq ToSet(toHost)
  <2>1. SUFFICES ASSUME NEW i \in DOMAIN toHost,
                        NEW k \in DOMAIN RemoveAt(toHost, i)
                 PROVE  RemoveAt(toHost, i)[k] \in ToSet(toHost)
        BY DEF ToSet
  <2>2. /\ RemoveAt(toHost, i) \in Seq(Lines) /\ Len(RemoveAt(toHost, i)) = Len(toHost) - 1
        /\ RemoveAt(toHost, i)[k] = toHost[IF k < i THEN k ELSE k + 1]
        BY <1>1, RemovedFrom
  <2>3. k \in 1 .. Len(toHost) - 1 /\ Len(toHost) \in Nat /\ DOMAIN toHost = 1 .. Len(toHost)
        BY <1>1, <2>2
  <2>4. (IF k < i THEN k ELSE k + 1) \in DOMAIN toHost
        BY <2>3
  <2> QED BY <2>2, <2>4 DEF ToSet
<1>4. \/ toHost' = <<>> \/ toHost' = toHost
      \/ toHost # <<>> /\ toHost' = Tail(toHost)
      \/ \E i \in DOMAIN toHost : toHost' = RemoveAt(toHost, i)
      BY DEF Line, LosesByte, DamagesByte, LosesToken, HostStarts, HostMoves, HostReads,
         HostTimesOut, HostReconnects, HostLosesPort, CaseStarts, CaseMoves, CaseReads,
         CaseWaitEnds, CaseLosesPort, CaseReopens
<1> QED BY <1>2, <1>3, <1>4, ElementsOf

(* What the device says is new; the rest was on its way, or is lost.       *)
LEMMA DeviceLines ==
    ASSUME Inv, WireTypes, Device
    PROVE  \/ Runs /\ out' \in Seq(Events) /\ ToSet(toHost') = ToSet(toHost) \cup ToSet(out')
           \/ Idles /\ ToSet(toHost') \subseteq ToSet(toHost) \cup ToldNow
           \/ SelectUpdate /\ ToSet(toHost') = ToSet(toHost) \cup
                                  {Evt("DECISION_UPDATE"), Evt("READY_FOR_UPDATE")}
           \/ Reset /\ ToSet(toHost') = {}
<1>1. toHost \in Seq(Lines)
      BY DEF WireTypes
<1>2. \A s : s \in Seq(Events) => s \in Seq(Lines)
      BY DEF Lines
<1>3. CASE Runs
  <2>1. out' \in Seq(Events)
        BY <1>3, SessionSays DEF Runs, InSession, Inv, Shape
  <2>2. toHost' = toHost \o out'
        BY <1>3 DEF Runs, Prints
  <2> QED BY <1>1, <1>2, <1>3, <2>1, <2>2, LinesJoined
<1>4. CASE SelectUpdate
  <2>1. out' \in Seq(Events) /\ out' = <<Evt("DECISION_UPDATE"), Evt("READY_FOR_UPDATE")>>
        BY <1>4, EnterSays DEF SelectUpdate
  <2>2. toHost' = toHost \o out'
        BY <1>4 DEF SelectUpdate, Prints
  <2>3. ToSet(out') = {Evt("DECISION_UPDATE"), Evt("READY_FOR_UPDATE")}
        BY <2>1, ElementsOf
  <2>4. ToSet(toHost') = ToSet(toHost) \cup ToSet(out')
        BY <1>1, <1>2, <2>1, <2>2, LinesJoined
  <2> QED BY <1>4, <2>3, <2>4
<1>5. CASE Reset
      BY <1>5, ElementsOf DEF Reset
<1>6. CASE Idles
      BY <1>1, <1>6, IdleLines
<1> QED BY <1>3, <1>4, <1>5, <1>6, DeviceKinds

-----------------------------------------------------------------------------
(* What success says of the device.                                        *)

AnyStep == \/ Device \/ Line \/ HostStarts \/ HostMoves
           \/ CaseStarts \/ (CaseKnown /\ CaseMoves)
           \/ UNCHANGED transferVars

LEMMA TransferSteps == [TransferNext]_transferVars => AnyStep
BY DEF TransferNext, AnyStep

LEMMA NegativeSteps == CaseKnown /\ [NegativeNext]_negativeVars => AnyStep
BY DEF NegativeNext, AnyStep, negativeVars

LEMMA AnyStepWire == Wire /\ AnyStep => Wire'
BY WireStep, WireSame DEF AnyStep, TransferNext

LEMMA AnyStepDev == Wire /\ DevTrue /\ AnyStep => DevTrue'
<1>1. UNCHANGED transferVars => DeviceRests
      BY DEF transferVars, DeviceRests
<1> QED BY <1>1, DevStep, Elsewhere DEF AnyStep, Wire

LEMMA AnyStepLines ==
    ASSUME WireTypes, AnyStep, ~Device
    PROVE  DeviceRests /\ ToSet(toHost') \subseteq ToSet(toHost)
<1>1. UNCHANGED transferVars => DeviceRests /\ toHost' = toHost
      BY DEF transferVars, DeviceRests
<1> QED BY <1>1, Elsewhere, NoNewLines DEF AnyStep

(* The application's first line comes from the application.                *)
Announced == AppStart \in ToSet(toHost) => dev = "app"

LEMMA AnnouncedStep ==
    ASSUME Wire, DevTrue, Announced, AnyStep
    PROVE  Announced'
<1>1. Inv /\ WireTypes
      BY DEF Wire
<1>2. CASE ~Device
      BY <1>1, <1>2, AnyStepLines DEF Announced, DeviceRests
<1>3. CASE Device
  <2>1. AppStart \notin Events
        BY EventFacts
  <2>2. CASE Runs /\ out' \in Seq(Events) /\ ToSet(toHost') = ToSet(toHost) \cup ToSet(out')
        BY <2>1, <2>2, ElementsOf DEF Announced, Runs
  <2>3. CASE Idles /\ ToSet(toHost') \subseteq ToSet(toHost) \cup ToldNow
    <3>1. dev # "app"
          BY <2>3, IdleMoves DEF Goes
    <3> QED BY <2>1, <2>3, <3>1, ToldEvents DEF Announced, ToldNow
  <2>4. CASE SelectUpdate /\ ToSet(toHost') = ToSet(toHost) \cup
                                 {Evt("DECISION_UPDATE"), Evt("READY_FOR_UPDATE")}
    <3>1. Evt("DECISION_UPDATE") \in Events /\ Evt("READY_FOR_UPDATE") \in Events
          BY EventFacts DEF Tokens
    <3> QED BY <2>1, <2>4, <3>1 DEF Announced, SelectUpdate
  <2>5. CASE ToSet(toHost') = {}
        BY <2>5 DEF Announced
  <2> QED BY <1>1, <1>3, <2>2, <2>3, <2>4, <2>5, DeviceLines
<1> QED BY <1>2, <1>3

(* The host is cut off, and the device has nothing from it: a session that *)
(* starts now waits for START_UPDATE until it gives up.                    *)
Cleared ==
    toDevice = <<>> /\ line = <<>> /\ phase \in {"idle", "start"}

LEMMA ClearedStep ==
    ASSUME Inv, DevTrue, Cleared, Device
    PROVE  Cleared' /\ UNCHANGED <<part, flash>>
<1>1. CASE Runs
  <2>1. phase = "start" /\ dev = "update" /\ (Wait \/ Work) /\ UNCHANGED <<toDevice, dev>>
        BY <1>1, DevRuns DEF Runs, Cleared, Wait, LineIdle, PayloadIdle, Work, SkipErased,
           EraseSector, EraseFails, WriteChunk, WriteFails, Verify
  <2>2. LineIdle
        BY <2>1 DEF Wait, PayloadIdle, Work, SkipErased, EraseSector, EraseFails, WriteChunk,
           WriteFails, Verify
  <2>3. phase' \in {"idle", "start"} /\ line' = <<>>
        BY <2>1, <2>2 DEF LineIdle, LineFails, Return, ClearLocals, Cleared
  <2> QED BY <2>1, <2>2, <2>3 DEF LineIdle, Unwritten, Cleared
<1>2. CASE SelectUpdate
      BY <1>2 DEF SelectUpdate, Enter, ClearLocals, Cleared
<1>3. CASE Reset
      BY <1>3 DEF Reset, Return, ClearLocals, Cleared
<1>4. CASE Idles
  <2>1. UNCHANGED <<part, flash, phase, line>>
        BY <1>4, IdleMoves DEF vars, locals
  <2>2. toDevice' = toDevice
        BY <1>4, IdleMoves DEF Cleared
  <2> QED BY <2>1, <2>2 DEF Cleared
<1> QED BY <1>1, <1>2, <1>3, <1>4, DeviceKinds

(* A script that reported success started the application, and nothing     *)
(* but a reset has happened to it since.                                   *)
Ended ==
    /\ hpc # "off" /\ handle \in {"lost", "local"} => Cleared
    /\ handle = "closed" => hpc \in {"off", "apart"}
    /\ code = "success" => /\ hpc = "off"
                           /\ dev = "app" \/ Cleared
                           /\ ImageValid(flash, part)

LEMMA AppRests ==
    ASSUME Inv, DevTrue, dev = "app", Device
    PROVE  /\ UNCHANGED <<part, flash>>
           /\ Reset \/ dev' = "app"
<1>1. ~Runs /\ ~SelectUpdate
      BY DevRuns DEF SelectUpdate
<1>2. ~Idles
      BY IdleMoves DEF Goes
<1> QED BY <1>1, <1>2, DeviceKinds DEF Reset

LEMMA ResetClears ==
    ASSUME Reset
    PROVE  Cleared'
BY DEF Reset, Return, ClearLocals, Cleared

LEMMA EndedDevice ==
    ASSUME Inv, DevTrue, Ended, Device
    PROVE  Ended'
<1>1. /\ UNCHANGED <<hpc, code>>
      /\ handle' = handle \/ (Reset /\ hpc # "off" /\ handle' = "lost")
  <2>1. Runs \/ SelectUpdate \/ Idles => UNCHANGED host
        BY IdleMoves DEF Runs, SelectUpdate
  <2>2. Reset => UNCHANGED <<hpc, code>>
                        /\ handle' = (IF NobodySends THEN handle ELSE "lost")
        BY DEF Reset
  <2> QED BY <2>1, <2>2, DeviceKinds DEF host, NobodySends
<1>2. Cleared => Cleared' /\ UNCHANGED <<part, flash>>
      BY ClearedStep
<1>3. dev = "app" => (Cleared' \/ dev' = "app") /\ UNCHANGED <<part, flash>>
      BY AppRests, ResetClears
<1>4. code' = "success" => /\ hpc' = "off"
                           /\ dev' = "app" \/ Cleared'
                           /\ ImageValid(flash', part')
      BY <1>1, <1>2, <1>3 DEF Ended
<1>5. hpc' # "off" /\ handle' \in {"lost", "local"} => Cleared'
      BY <1>1, <1>2, ResetClears DEF Ended
<1>6. handle' = "closed" => hpc' \in {"off", "apart"}
      BY <1>1 DEF Ended
<1> QED BY <1>4, <1>5, <1>6 DEF Ended

(* The line and the scripts put nothing in a device that is cut off.       *)
LEMMA ClearedRests ==
    ASSUME Cleared, DeviceRests, toDevice' = <<>>
    PROVE  Cleared'
BY DEF Cleared, DeviceRests, vars, locals

LEMMA EndedLine ==
    ASSUME Ended, Line
    PROVE  Ended'
<1>1. UNCHANGED <<hpc, handle, code>> /\ DeviceRests
      BY Elsewhere DEF Line, LosesByte, DamagesByte, LosesToken, host
<1>2. toDevice = <<>> => toDevice' = <<>>
      BY DEF Line, LosesByte, DamagesByte, LosesToken
<1>3. Cleared => Cleared'
      BY <1>1, <1>2, ClearedRests DEF Cleared
<1> QED BY <1>1, <1>3 DEF Ended, DeviceRests, vars

(* What a step of a script does to its port: once cut off, it writes       *)
(* nothing more.                                                           *)
PortKept ==
    /\ hpc # "off"
    /\ code' = code \/ hpc' = "off"
    /\ hpc' # "off" /\ handle' \in {"lost", "local"} =>
           handle \in {"lost", "local"} /\ toDevice' = toDevice
    /\ handle' = "closed" => hpc' \in {"off", "apart"}

LEMMA EndedScript ==
    ASSUME Ended, DevTrue, DeviceRests, PortKept, code' = "success" => code = code' \/ dev = "app"
    PROVE  Ended'
<1>1. UNCHANGED <<part, flash, dev, result>>
      BY DEF DeviceRests, vars
<1>2. ASSUME hpc' # "off", handle' \in {"lost", "local"}
      PROVE  Cleared'
      BY <1>2, ClearedRests DEF Ended, Cleared, PortKept
<1>3. code # "success"
      BY DEF Ended, PortKept
<1>4. ASSUME code' = "success"
      PROVE  hpc' = "off" /\ dev' = "app" /\ ImageValid(flash', part')
      BY <1>1, <1>3, <1>4 DEF DevTrue, PortKept
<1> QED BY <1>2, <1>4 DEF Ended, PortKept

LEMMA AnswersKeepPort ==
    ASSUME Ended, WireTypes, hpc \in Waiting, NEW t, Answers(t)
    PROVE  PortKept /\ (code' = "success" => code = code' \/ t = AppStart)
<1>1. hpc # "off" /\ handle \in {"main", "lost", "local"}
      BY DEF Ended, Waiting, WireTypes
<1>2. CASE \E c : Fails(c) /\ (c = "success" => hpc = "start" /\ t = AppStart)
      BY <1>1, <1>2 DEF Fails, Returns, PortKept
<1>3. CASE \E next : Waits(next)
      BY <1>1, <1>3 DEF Waits, PortKept
<1>4. CASE \E bytes, next : Writes(bytes, next)
      BY <1>1, <1>4 DEF Writes, Returns, PortKept
<1>5. CASE Ignores \/ (t.value = offset /\ Acknowledges(t))
      BY <1>1, <1>5 DEF Ignores, Acknowledges, host, PortKept
<1> QED BY <1>2, <1>3, <1>4, <1>5 DEF Answers, SendsChunk

LEMMA HostKeepsPort ==
    ASSUME Ended, WireTypes, HostMoves
    PROVE  PortKept /\ (code' = "success" => code = code' \/ AppStart \in ToSet(toHost))
<1>1. CASE HostReads
  <2>1. hpc \in Waiting /\ toHost # <<>> /\ Answers(Head(toHost)) /\ toHost \in Seq(Lines)
        BY <1>1, HostAnswers DEF HostReads, WireTypes
  <2>2. Head(toHost) \in ToSet(toHost)
        BY <2>1, ElementsOf
  <2> QED BY <2>1, <2>2, AnswersKeepPort
<1>2. CASE HostTimesOut \/ HostLosesPort
      BY <1>2 DEF HostTimesOut, CanTimeOut, HostLosesPort, Fails, Returns, PortKept, Waiting
<1>3. CASE HostReconnects
      BY <1>3 DEF HostReconnects, PortKept, Waiting
<1> QED BY <1>1, <1>2, <1>3 DEF HostMoves

LEMMA CaseKeepsPort ==
    ASSUME Ended, CaseKnown, CaseMoves
    PROVE  PortKept /\ (code' = "success" => code = code')
<1>1. hpc # "off"
      BY DEF CaseMoves, CaseReads, CaseWaitEnds, CaseLosesPort, CaseReopens, CaseWaiting
<1>2. ASSUME CaseAnswers, handle = "main"
      PROVE  PortKept /\ (code' = "success" => code = code')
  <2>1. CASE \E c \in {"pass", "fail"} : Fails(c)
        BY <1>1, <1>2, <2>1 DEF Fails, Returns, PortKept
  <2>2. CASE \E next : Waits(next)
        BY <1>1, <1>2, <2>2 DEF Waits, PortKept
  <2>3. CASE \E bytes, next : Writes(bytes, next)
        BY <1>1, <1>2, <2>3 DEF Writes, PortKept
  <2>4. CASE Ignores \/ Disconnects \/ Advances
        BY <1>1, <1>2, <2>4 DEF Ignores, Disconnects, Advances, host, PortKept
  <2> QED BY <1>2, <2>1, <2>2, <2>3, <2>4 DEF CaseAnswers
<1>3. CASE CaseReads \/ CaseWaitEnds
      BY <1>2, <1>3, CaseAnswersWhich DEF CaseReads, CaseWaitEnds
<1>4. CASE CaseLosesPort \/ CaseReopens
      BY <1>1, <1>4 DEF CaseLosesPort, CaseReopens, Fails, Returns, PortKept, Ended
<1> QED BY <1>3, <1>4 DEF CaseMoves

LEMMA EndedStep ==
    ASSUME Wire, DevTrue, Announced, Ended, AnyStep
    PROVE  Ended'
<1>1. Inv /\ WireTypes
      BY DEF Wire
<1>2. CASE Device
      BY <1>1, <1>2, EndedDevice
<1>3. CASE Line
      BY <1>3, EndedLine
<1>4. CASE HostStarts \/ CaseStarts
      BY <1>4 DEF HostStarts, CaseStarts, Ended
<1>5. CASE HostMoves
  <2>1. DeviceRests
        BY <1>5, Elsewhere
  <2> QED BY <1>1, <1>5, <2>1, HostKeepsPort, EndedScript DEF Announced
<1>6. CASE CaseKnown /\ CaseMoves
  <2>1. DeviceRests
        BY <1>6, Elsewhere
  <2> QED BY <1>6, <2>1, CaseKeepsPort, EndedScript
<1>7. CASE UNCHANGED transferVars
      BY <1>7 DEF transferVars, host, vars, locals, Ended, Cleared
<1> QED BY <1>2, <1>3, <1>4, <1>5, <1>6, <1>7 DEF AnyStep

Bootable == Wire /\ DevTrue /\ Announced /\ Ended

LEMMA BootableInit == TransferInit => Bootable
<1>1. TransferInit => Announced
      BY ElementsOf DEF TransferInit, Announced
<1>2. TransferInit => Ended
      BY DEF TransferInit, Ended
<1> QED BY <1>1, <1>2, WireInit, DevInit DEF Bootable

LEMMA BootableStep == Bootable /\ AnyStep => Bootable'
BY AnyStepWire, AnyStepDev, AnnouncedStep, EndedStep DEF Bootable

LEMMA BootableSays == Bootable => SuccessMeansBootable
BY DEF Bootable, Ended, SuccessMeansBootable

(* When send_update.py reports success, the device can boot what is in its *)
(* partition, for every image, line, flash and CRC, whatever is lost or    *)
(* damaged, whatever fails and however often the device is reset.          *)
THEOREM SuccessBootable == TransferSpec => []SuccessMeansBootable
<1> QED
  BY BootableInit, BootableStep, BootableSays, TransferSteps, PTL DEF TransferSpec

(* So it is when the negative cases ran before it, or run after it: none   *)
(* of what they left on the line makes send_update.py report a success     *)
(* that is not one.                                                        *)
THEOREM SuccessBootableAmongCases == NegativeSpec => []SuccessMeansBootable
<1>1. NegativeInit => NegativeWire /\ Bootable
      BY NegativeWireInit, BootableInit DEF NegativeInit
<1>2. NegativeWire /\ Bootable /\ [NegativeNext]_negativeVars => NegativeWire' /\ Bootable'
      BY NegativeStep, BootableStep, NegativeSteps DEF NegativeWire
<1> QED
  BY <1>1, <1>2, BootableSays, PTL DEF NegativeSpec

-----------------------------------------------------------------------------
(* Frames, from the host to the flash.                                     *)

LEMMA ElementsAppended ==
    ASSUME NEW S, NEW s \in Seq(S), NEW x \in S
    PROVE  ToSet(Append(s, x)) = ToSet(s) \cup {x}
<1>1. /\ Len(s) \in Nat /\ DOMAIN s = 1 .. Len(s)
      /\ DOMAIN Append(s, x) = 1 .. Len(s) + 1
      /\ \A k \in 1 .. Len(s) : Append(s, x)[k] = s[k]
      /\ Append(s, x)[Len(s) + 1] = x
      OBVIOUS
<1>2. \A k \in 1 .. Len(s) + 1 : k \in 1 .. Len(s) \/ k = Len(s) + 1
      BY <1>1
<1>3. 1 .. Len(s) \subseteq 1 .. Len(s) + 1 /\ Len(s) + 1 \in 1 .. Len(s) + 1
      BY <1>1
<1> QED BY <1>1, <1>2, <1>3 DEF ToSet

(* What the scripts put on the line.                                       *)
LEMMA HostSends ==
    ASSUME WireTypes, HostStarts \/ HostMoves, image' = image
    PROVE  \/ toDevice' = toDevice
           \/ toDevice' = toDevice \o StartLineBytes
           \/ toDevice' = toDevice \o <<End, LineEnd>>
           \/ offset \in 0 .. Len(image) - 1 /\ toDevice' = toDevice \o FrameAt(offset)
<1>1. CASE HostStarts
      BY <1>1 DEF HostStarts
<1>2. CASE HostTimesOut \/ HostReconnects \/ HostLosesPort
      BY <1>2 DEF HostTimesOut, HostReconnects, HostLosesPort, Fails
<1>3. CASE HostReads
  <2>1. hpc \in Waiting /\ Answers(Head(toHost))
        BY <1>3, HostAnswers DEF HostReads
  <2>2. CASE hpc \in {"hello", "greet", "ready"} /\ SendsChunk
    <3>1. offset \in 0 .. Len(image) - 1
          BY <2>2, ImageType DEF WireTypes
    <3> QED BY <2>2, <3>1 DEF SendsChunk, Writes
  <2> QED BY <2>1, <2>2 DEF Answers, Ignores, Fails, Waits, Writes, Acknowledges, host
<1> QED BY <1>1, <1>2, <1>3 DEF HostMoves

(* What becomes of a frame in the device: it leaves payload, erase and     *)
(* write, or it stays the frame it is.                                     *)
FrameStays ==
    /\ line' \in {line, <<>>}
    /\ InFrame' => InFrame /\ chunk' = chunk

LEMMA FailEndsFrame ==
    ASSUME TypeOK, NEW off, Fail(off)
    PROVE  line' = <<>> /\ ~InFrame'
BY DEF Fail, Return, NextChunk, ClearLocals, InFrame

LEMMA LineFailsEndsFrame ==
    ASSUME TypeOK, LineFails
    PROVE  line' = <<>> /\ ~InFrame'
BY FailEndsFrame DEF LineFails, Return, ClearLocals, InFrame

LEMMA WorkKeepsFrame ==
    ASSUME TypeOK, Wait \/ Work \/ \E d \in Data : PayloadByte(d)
    PROVE  FrameStays
<1>1. CASE LineIdle
      BY <1>1, LineFailsEndsFrame DEF LineIdle, FrameStays, InFrame
<1>2. CASE PayloadIdle
      BY <1>2, FailEndsFrame DEF PayloadIdle, FrameStays, InFrame
<1>3. CASE \E d \in Data : PayloadByte(d)
      BY <1>3, FailEndsFrame DEF PayloadByte, FrameStays, InFrame
<1>4. CASE SkipErased \/ EraseSector
      BY <1>4 DEF SkipErased, EraseSector, NextSector, FrameStays, InFrame
<1>5. CASE EraseFails
      BY <1>5, FailEndsFrame DEF EraseFails, FrameStays
<1>6. CASE WriteFails
      BY <1>6, FailEndsFrame DEF WriteFails, FrameStays
<1>7. CASE WriteChunk
      BY <1>7 DEF WriteChunk, NextChunk, ClearLocals, FrameStays, InFrame
<1>8. CASE Verify
      BY <1>8 DEF Verify, Return, ClearLocals, FrameStays, InFrame
<1> QED BY <1>1, <1>2, <1>3, <1>4, <1>5, <1>6, <1>7, <1>8 DEF Wait, Work

LEMMA TextMakesFrame ==
    ASSUME TypeOK, NEW x, ReadsAsText(x)
    PROVE  /\ \/ line' = <<>> \/ line' = line
              \/ x \in Symbols \ {LineEnd} /\ line' = Append(line, x)
              \/ x \in Cells /\ line' = Append(line, Junk)
           /\ ~InFrame /\ (line' # <<>> => phase' = phase)
           /\ InFrame' => /\ phase = "header" /\ phase' = "payload" /\ line' = <<>>
                          /\ chunk' \in Headers /\ line = <<chunk'>> /\ payload' = payload
                          /\ x \notin Symbols \ {LineEnd}
<1>1. ASSUME NEW s \in Symbols \ {LineEnd}, LineByte(s)
      PROVE  /\ line' = <<>> \/ line' = line \/ line' = Append(line, s)
             /\ ~InFrame /\ ~InFrame' /\ (line' # <<>> => phase' = phase)
  <2>1. CASE LineFails
        BY <1>1, <2>1, LineFailsEndsFrame DEF LineByte, InFrame
  <2>2. CASE ~LineFails
        BY <1>1, <2>2 DEF LineByte, InFrame
  <2> QED BY <2>1, <2>2
<1>2. ASSUME LineComplete
      PROVE  /\ line' = <<>> /\ ~InFrame
             /\ InFrame' => /\ phase = "header" /\ phase' = "payload"
                            /\ chunk' \in Headers /\ line = <<chunk'>> /\ payload' = payload
  <2>1. CASE StartLine
        BY <2>1 DEF StartLine, NextChunk, Return, ClearLocals, InFrame
  <2>2. CASE EndLine
        BY <2>2 DEF EndLine, ClearLocals, InFrame
  <2>3. CASE BadHeader
        BY <2>3, FailEndsFrame DEF BadHeader, InFrame
  <2>4. CASE HeaderLine
    <3>1. Parsed(line) \in Headers /\ line = <<Parsed(line)>>
          BY <2>4 DEF HeaderLine, Parses, Parsed
    <3>2. CASE ChunkFits(Parsed(line))
          BY <2>4, <3>1, <3>2 DEF HeaderLine, InFrame
    <3>3. CASE ~ChunkFits(Parsed(line))
          BY <2>4, <3>1, <3>3, FailEndsFrame DEF HeaderLine, InFrame
    <3> QED BY <3>2, <3>3
  <2> QED BY <1>2, <2>1, <2>2, <2>3, <2>4 DEF LineComplete
<1>3. Junk \in Symbols \ {LineEnd}
      BY Alphabet DEF Symbols
<1>4. \A c \in Cells : c \notin Symbols
      BY Alphabet
<1> QED BY <1>1, <1>2, <1>3, <1>4 DEF ReadsAsText

(* A header the script makes for its image.                                *)
TrueHeader(h) == h.off \in 0 .. Len(image) - 1 /\ h = HeaderOf(ChunkAt(h.off), h.off)

(* The headers on their way, being read, and in use.                       *)
UsedHeaders ==
    ((ToSet(toDevice) \cup ToSet(line)) \cap Headers) \cup (IF InFrame THEN {chunk} ELSE {})

HeadersTrue == \A h \in UsedHeaders : TrueHeader(h)

LEMMA LetterSets ==
    /\ ToSet(StartLineBytes) \cap Headers = {} /\ ToSet(<<End, LineEnd>>) \cap Headers = {}
    /\ Junk \notin Headers /\ LineEnd \notin Headers /\ Cells \cap Headers = {}
<1>1. /\ Start \notin Headers /\ LineEnd \notin Headers /\ End \notin Headers
      /\ Junk \notin Headers /\ Cells \cap Headers = {}
      BY Alphabet
<1> QED BY <1>1, ElementsOf DEF StartLineBytes

LEMMA FrameHeader ==
    ASSUME image \in AllImages, NEW o \in 0 .. Len(image) - 1
    PROVE  /\ \A h \in ToSet(FrameAt(o)) \cap Headers : h = HeaderOf(ChunkAt(o), o)
           /\ TrueHeader(HeaderOf(ChunkAt(o), o))
           /\ HeaderOf(ChunkAt(o), o) \in Headers
           /\ ChunkAt(o) \in Seq(Data)
<1> DEFINE h == HeaderOf(ChunkAt(o), o)
           data == ChunkAt(o)
<1>1. image \in Seq(Data) /\ Len(image) \in Nat
      BY ImageType
<1>2. data \in Seq(Data) /\ h \in Headers
  <2>1. o \in 0 .. Len(image) /\ ChunkAt(o) = ChunkOf(image, o)
        BY <1>1 DEF ChunkAt
  <2>2. ChunkAt(o) \in Seq(Data)
        BY <1>1, <2>1, ChunkCellsOf
  <2>3. HeaderOf(ChunkAt(o), o) \in Headers
        BY <2>1, HeaderIsKnown
  <2> QED BY <2>2, <2>3
<1>3. h.off = o
      BY DEF HeaderOf
<1>4. TrueHeader(h)
      BY <1>3 DEF TrueHeader
<1>5. FrameAt(o) = Frame(h, data)
      BY DEF FrameAt
<1> HIDE DEF h, data
<1>6. /\ DOMAIN Frame(h, data) = 1 .. 2 + Len(data) /\ Len(data) \in Nat
      /\ Frame(h, data)[1] = h /\ Frame(h, data)[2] = LineEnd
      /\ \A j \in 1 .. Len(data) : Frame(h, data)[2 + j] = Cell(data[j])
      BY <1>2, FrameShape
<1>7. ASSUME NEW k \in 1 .. 2 + Len(data), Frame(h, data)[k] \in Headers
      PROVE  Frame(h, data)[k] = h
  <2>1. CASE k = 1
        BY <1>6, <2>1
  <2>2. CASE k = 2
        BY <1>6, <1>7, <2>2, LetterSets
  <2>3. CASE k > 2
    <3>1. k - 2 \in 1 .. Len(data) /\ k = 2 + (k - 2)
          BY <1>6, <2>3
    <3>2. Frame(h, data)[k] = Cell(data[k - 2]) /\ data[k - 2] \in Data
          BY <1>2, <1>6, <3>1
    <3>3. Frame(h, data)[k] \in Cells
          BY <3>2 DEF Cells
    <3> QED BY <1>7, <3>3, LetterSets
  <2> QED BY <1>6, <2>1, <2>2, <2>3
<1>8. \A g \in ToSet(Frame(h, data)) \cap Headers : g = h
      BY <1>6, <1>7 DEF ToSet
<1> QED BY <1>2, <1>4, <1>5, <1>8 DEF h, data

(* A step of the device uses no header that was not sent.                  *)
LEMMA DeviceHeaders ==
    ASSUME Inv, WireTypes, Device
    PROVE  UsedHeaders' \subseteq UsedHeaders
<1>0. TypeOK /\ line \in Seq(Symbols) /\ toDevice \in Seq(Letters)
      BY DEF Inv, Shape, TypeOK, WireTypes
<1>1. ASSUME toDevice' = toDevice, UNCHANGED vars
      PROVE  UsedHeaders' \subseteq UsedHeaders
      BY <1>1 DEF UsedHeaders, InFrame, vars, locals
<1>2. ASSUME ToSet(toDevice') \subseteq ToSet(toDevice), FrameStays
      PROVE  UsedHeaders' \subseteq UsedHeaders
      BY <1>2, ElementsOf DEF UsedHeaders, FrameStays
<1>3. ASSUME line' = <<>>, ~InFrame', ToSet(toDevice') \subseteq ToSet(toDevice)
      PROVE  UsedHeaders' \subseteq UsedHeaders
      BY <1>3, ElementsOf DEF UsedHeaders
<1>4. CASE DeviceReads
  <2>1. /\ toDevice # <<>> /\ toDevice' = Tail(toDevice)
        /\ ReadsAsText(Head(toDevice)) \/ ReadsAsPayload(Head(toDevice))
        BY <1>4 DEF DeviceReads
  <2>2. Head(toDevice) \in ToSet(toDevice) /\ ToSet(toDevice') \subseteq ToSet(toDevice)
        BY <1>0, <2>1, ElementsOf
  <2>3. CASE ReadsAsText(Head(toDevice))
    <3> DEFINE x == Head(toDevice)
    <3>1. /\ \/ line' = <<>> \/ line' = line
             \/ x \in Symbols \ {LineEnd} /\ line' = Append(line, x)
             \/ x \in Cells /\ line' = Append(line, Junk)
          /\ InFrame' => chunk' \in Headers /\ line = <<chunk'>>
          BY <1>0, <2>3, TextMakesFrame
    <3>2. Junk \in Symbols
          BY DEF Symbols
    <3>3. ToSet(line') \cap Headers \subseteq ToSet(line) \cup {x}
      <4>1. CASE line' = <<>> \/ line' = line
            BY <4>1, ElementsOf
      <4>2. CASE x \in Symbols \ {LineEnd} /\ line' = Append(line, x)
        <5>1. ToSet(line') = ToSet(line) \cup {x}
              BY <1>0, <4>2, ElementsAppended
        <5> QED BY <5>1
      <4>3. CASE line' = Append(line, Junk)
        <5>1. ToSet(line') = ToSet(line) \cup {Junk}
              BY <1>0, <3>2, <4>3, ElementsAppended
        <5> QED BY <5>1, LetterSets
      <4> HIDE DEF x
      <4> QED BY <3>1, <4>1, <4>2, <4>3
    <3>4. InFrame' => chunk' \in ToSet(line) /\ chunk' \in Headers
          BY <3>1, ElementsOf
    <3> QED BY <2>2, <3>3, <3>4 DEF UsedHeaders
  <2>4. CASE ReadsAsPayload(Head(toDevice))
    <3>1. \E d \in Data : PayloadByte(d)
          BY <2>4, CellData DEF ReadsAsPayload
    <3> QED BY <1>0, <1>2, <2>2, <3>1, WorkKeepsFrame
  <2> QED BY <2>1, <2>3, <2>4
<1>5. CASE DeviceWorks \/ FlashFails \/ HostTooSlow
  <2>1. toDevice' = toDevice /\ (Wait \/ Work)
        BY <1>5 DEF DeviceWorks, FlashFails, HostTooSlow, Wait, Work
  <2> QED BY <1>0, <1>2, <2>1, WorkKeepsFrame
<1>6. CASE Idles
  <2>1. UNCHANGED vars /\ (toDevice' = toDevice \/ (toDevice # <<>> /\ toDevice' = Tail(toDevice)))
        BY <1>6, IdleMoves
  <2>2. ToSet(toDevice') \subseteq ToSet(toDevice)
        BY <1>0, <2>1, ElementsOf
  <2> QED BY <2>1, <2>2 DEF UsedHeaders, InFrame, vars, locals
<1>7. CASE SelectUpdate
      BY <1>3, <1>7 DEF SelectUpdate, Enter, ClearLocals, InFrame
<1>8. CASE Reset
      BY <1>3, <1>8, ElementsOf DEF Reset, Return, ClearLocals, InFrame
<1> QED BY <1>4, <1>5, <1>6, <1>7, <1>8, DeviceSteps

(* The line changes no byte into a header.                                 *)
LEMMA LineHeaders ==
    ASSUME WireTypes, Line
    PROVE  UsedHeaders' \subseteq UsedHeaders
<1>1. toDevice \in Seq(Letters) /\ DOMAIN toDevice = 1 .. Len(toDevice) /\ Len(toDevice) \in Nat
      BY DEF WireTypes
<1>2. ToSet(toDevice') \cap Headers \subseteq ToSet(toDevice)
  <2>1. CASE LosesByte
    <3>1. PICK i \in DOMAIN toDevice : toDevice' = RemoveAt(toDevice, i)
          BY <2>1 DEF LosesByte
    <3>2. SUFFICES ASSUME NEW k \in DOMAIN toDevice'
                   PROVE  toDevice'[k] \in ToSet(toDevice)
          BY DEF ToSet
    <3>3. /\ toDevice' \in Seq(Letters) /\ Len(toDevice') = Len(toDevice) - 1
          /\ toDevice'[k] = toDevice[IF k < i THEN k ELSE k + 1]
          BY <1>1, <3>1, RemovedFrom
    <3>4. k \in 1 .. Len(toDevice) - 1
          BY <1>1, <3>3
    <3>5. (IF k < i THEN k ELSE k + 1) \in DOMAIN toDevice
          BY <1>1, <3>4
    <3> QED BY <3>3, <3>5 DEF ToSet
  <2>2. CASE DamagesByte
    <3>1. PICK i \in DOMAIN toDevice, x \in Cells \cup {Junk} :
              toDevice' = [toDevice EXCEPT ![i] = x]
          BY <2>2 DEF DamagesByte
    <3>2. x \notin Headers
          BY LetterSets
    <3>3. \A k \in DOMAIN toDevice' : toDevice'[k] = x \/ toDevice'[k] \in ToSet(toDevice)
          BY <1>1, <3>1 DEF ToSet
    <3> QED BY <3>2, <3>3 DEF ToSet
  <2>3. CASE LosesToken
        BY <2>3 DEF LosesToken
  <2> QED BY <2>1, <2>2, <2>3 DEF Line
<1>3. UNCHANGED vars
      BY DEF Line, LosesByte, DamagesByte, LosesToken
<1> QED BY <1>2, <1>3 DEF UsedHeaders, InFrame, vars, locals

LEMMA HeadersStep ==
    ASSUME Wire, HeadersTrue, [TransferNext]_transferVars, image' = image
    PROVE  HeadersTrue'
<1>0. Inv /\ WireTypes /\ image \in AllImages /\ toDevice \in Seq(Letters)
      BY DEF Wire, WireTypes
<1>1. \A h : TrueHeader(h)' <=> TrueHeader(h)
      BY DEF TrueHeader, ChunkAt
<1>2. ASSUME UsedHeaders' \subseteq UsedHeaders
      PROVE  HeadersTrue'
      BY <1>1, <1>2 DEF HeadersTrue
<1>3. CASE Device \/ Line
      BY <1>0, <1>2, <1>3, DeviceHeaders, LineHeaders
<1>4. CASE HostStarts \/ HostMoves
  <2>1. UNCHANGED vars
        BY <1>4, Elsewhere DEF DeviceRests
  <2>2. ASSUME ToSet(toDevice') \cap Headers \subseteq ToSet(toDevice)
        PROVE  HeadersTrue'
        BY <1>2, <2>1, <2>2 DEF UsedHeaders, InFrame, vars, locals
  <2>3. ASSUME NEW bytes \in {StartLineBytes, <<End, LineEnd>>}, toDevice' = toDevice \o bytes
        PROVE  HeadersTrue'
    <3>1. ToSet(toDevice') = ToSet(toDevice) \cup ToSet(bytes)
      <4>1. bytes \in Seq(Letters) /\ toDevice \in Seq(Letters)
            BY <1>0, <2>3, LineTexts
      <4> QED BY <2>3, <4>1, ElementsJoined
    <3> QED BY <2>2, <2>3, <3>1, LetterSets
  <2>4. ASSUME offset \in 0 .. Len(image) - 1, toDevice' = toDevice \o FrameAt(offset)
        PROVE  HeadersTrue'
    <3> DEFINE h == HeaderOf(ChunkAt(offset), offset)
    <3>1. FrameAt(offset) \in Seq(Letters)
          BY <1>0, <2>4, FrameAtLetters
    <3>2. ToSet(toDevice') = ToSet(toDevice) \cup ToSet(FrameAt(offset))
          BY <1>0, <2>4, <3>1, ElementsJoined
    <3>3. TrueHeader(h) /\ \A g \in ToSet(FrameAt(offset)) \cap Headers : g = h
          BY <1>0, <2>4, FrameHeader
    <3> HIDE DEF h
    <3>4. UsedHeaders' \subseteq UsedHeaders \cup {h}
          BY <2>1, <3>2, <3>3 DEF UsedHeaders, InFrame, vars, locals
    <3> QED BY <1>1, <3>3, <3>4 DEF HeadersTrue
  <2>5. toDevice' = toDevice => HeadersTrue'
        BY <2>2
  <2> QED BY <1>0, <1>4, <2>3, <2>4, <2>5, HostSends
<1>5. CASE UNCHANGED transferVars
      BY <1>2, <1>5 DEF transferVars, UsedHeaders, InFrame, vars, locals
<1> QED BY <1>3, <1>4, <1>5 DEF TransferNext

-----------------------------------------------------------------------------
(* Acknowledgements, from the device to the host.                          *)

(* The cells of the image from one offset to another are acknowledged.     *)
Acked(from, to) ==
    \A k \in from .. to - 1 : /\ part.offset + k \in Partition(part)
                             /\ acked[part.offset + k] # {}

LEMMA PartitionAcked ==
    ASSUME Inv
    PROVE  Partition(part) \subseteq 0 .. FlashSize - 1
BY PartitionCells DEF Inv, Shape, TypeOK, FlashStates

(* What CHUNK_OK says of a chunk that starts at its value.                 *)
OkTrue(t) ==
    Is(t, "CHUNK_OK") => /\ t.value \in 0 .. Len(image) - 1
                         /\ Acked(t.value, t.value + Len(ChunkAt(t.value)))

LinesTrue == \A t \in ToSet(toHost) : OkTrue(t)

(* A session forgets no acknowledgement.                                   *)
LEMMA AckedGrows ==
    ASSUME Inv, DevTrue, Device \/ DeviceRests
    PROVE  /\ part' = part
           /\ Reset \/ \A from \in Int, to \in Int : Acked(from, to) => Acked(from, to)'
<1>0. TypeOK /\ acked \in [0 .. FlashSize - 1 -> SUBSET Data]
      BY DEF Inv, Shape, TypeOK
<1>1. ASSUME part' = part, DOMAIN acked' = DOMAIN acked,
             \A a \in DOMAIN acked : acked[a] \subseteq acked'[a]
      PROVE  \A from \in Int, to \in Int : Acked(from, to) => Acked(from, to)'
  <2>1. SUFFICES ASSUME NEW from \in Int, NEW to \in Int, Acked(from, to), NEW k \in from .. to - 1
                 PROVE  /\ part'.offset + k \in Partition(part')
                        /\ acked'[part'.offset + k] # {}
        BY DEF Acked
  <2>2. part.offset + k \in Partition(part) /\ acked[part.offset + k] # {}
        BY <2>1 DEF Acked
  <2>3. acked[part.offset + k] \subseteq acked'[part.offset + k]
        BY <1>0, <1>1, <2>2, PartitionAcked
  <2> QED BY <1>1, <2>2, <2>3
<1>2. CASE DeviceRests \/ Idles
  <2>1. UNCHANGED <<part, acked>>
        BY <1>2, IdleMoves DEF DeviceRests, vars
  <2> QED BY <1>1, <2>1
<1>3. CASE SelectUpdate
      BY <1>1, <1>3 DEF SelectUpdate, Enter, DevTrue
<1>4. CASE Reset
      BY <1>4 DEF Reset
<1>5. CASE Runs
  <2>1. InSession
        BY <1>5 DEF Runs, InSession
  <2>2. part' = part /\ acked' \in {acked, Note(acked)}
        BY <1>0, <2>1, SessionHistory
  <2>3. \A a \in DOMAIN acked : acked[a] \subseteq Note(acked)[a]
        BY <1>0 DEF Note
  <2>4. DOMAIN Note(acked) = DOMAIN acked
        BY DEF Note
  <2> QED BY <1>1, <2>2, <2>3, <2>4
<1> QED BY <1>2, <1>3, <1>4, <1>5, DeviceKinds

(* A chunk that is written is acknowledged, every cell of it.              *)
LEMMA WroteAcked ==
    ASSUME Inv, WireTypes, HeadersTrue, WriteChunk, image' = image
    PROVE  \A t \in ToSet(out') : OkTrue(t)'
<1>1. out' = <<EvtWithValue("CHUNK_OK", chunk.off), Evt("READY_FOR_CHUNK")>>
      BY WroteSays
<1>2. TrueHeader(chunk) /\ WholeFrame /\ InFrame
      BY DEF HeadersTrue, UsedHeaders, InFrame, WholeFrame, WriteChunk
<1>3. /\ image \in Seq(Data) /\ Len(image) \in Nat
      BY ImageType DEF WireTypes
<1> PICK o \in Nat : o = chunk.off
    BY <1>2 DEF TrueHeader
<1>4. o \in 0 .. Len(image) - 1 /\ chunk.len = Len(ChunkAt(o))
      BY <1>2 DEF TrueHeader, HeaderOf
<1>5. Len(ChunkAt(o)) \in Nat
      BY <1>3, <1>4, ChunkCellsOf DEF ChunkAt
<1>6. part.offset \in Nat
      BY PartitionsAssumption DEF Inv, Shape, TypeOK
<1>7. ASSUME NEW k \in o .. o + Len(ChunkAt(o)) - 1
      PROVE  part.offset + k \in ChunkCells
  <2>1. PICK n \in Nat, b \in Nat : n = Len(ChunkAt(o)) /\ b = part.offset
        BY <1>5, <1>6
  <2>2. ChunkCells = b + o .. b + o + n - 1
        BY <1>4, <2>1 DEF ChunkCells, Span, WriteAddress
  <2>3. k \in o .. o + n - 1
        BY <1>7, <2>1
  <2>4. b + k \in b + o .. b + o + n - 1
        BY <2>1, <2>3
  <2> QED BY <2>1, <2>2, <2>4
<1>8. ChunkCells \subseteq DOMAIN acked
  <2>1. ChunkCells \subseteq Partition(part) /\ Partition(part) \subseteq DOMAIN flash
        BY <1>2, ChunkInside, PartitionCells DEF Inv, Shape
  <2> QED BY <2>1 DEF Inv, Shape, TypeOK, FlashStates
<1>9. UNCHANGED part /\ acked' = Note(acked)
      BY DEF WriteChunk
<1>10. \A a \in ChunkCells : a \in Partition(part) /\ acked'[a] # {}
      BY <1>2, <1>8, <1>9, ChunkInside DEF Note, Inv, Shape
<1>11. Acked(o, o + Len(ChunkAt(o)))'
  <2>1. Len(ChunkAt(o))' = Len(ChunkAt(o))
        BY DEF ChunkAt
  <2>2. \A k \in o .. o + Len(ChunkAt(o)) - 1 :
            part'.offset + k \in Partition(part') /\ acked'[part'.offset + k] # {}
        BY <1>7, <1>9, <1>10
  <2>3. PICK n \in Nat : n = Len(ChunkAt(o))
        BY <1>5
  <2>4. Acked(o, o + n)'
        BY <2>2, <2>3 DEF Acked
  <2>5. Len(ChunkAt(o))' = n
        BY <2>1, <2>3
  <2> QED BY <2>4, <2>5
<1>12. SUFFICES ASSUME NEW t \in ToSet(out'), Is(t, "CHUNK_OK")
                PROVE  /\ t.value \in 0 .. Len(image') - 1
                       /\ Acked(t.value, t.value + Len(ChunkAt(t.value)))'
       BY DEF OkTrue
<1>13. t \in {EvtWithValue("CHUNK_OK", o), Evt("READY_FOR_CHUNK")}
       BY <1>1, ElementsOf
<1>14. ~Is(Evt("READY_FOR_CHUNK"), "CHUNK_OK")
       BY EventFacts DEF Tokens
<1>15. t.value = o
       BY <1>12, <1>13, <1>14, EventFacts DEF Tokens
<1> QED BY <1>4, <1>11, <1>15

LEMMA OkKept ==
    ASSUME Wire, DevTrue, Device \/ DeviceRests, image' = image, ~Reset,
           NEW t, OkTrue(t)
    PROVE  OkTrue(t)'
<1> SUFFICES ASSUME Is(t, "CHUNK_OK")
             PROVE  /\ t.value \in 0 .. Len(image) - 1
                    /\ Acked(t.value, t.value + Len(ChunkAt(t.value)))'
    BY DEF OkTrue
<1>1. image \in Seq(Data) /\ Len(image) \in Nat
      BY ImageType DEF Wire, WireTypes
<1> PICK o \in 0 .. Len(image) - 1 : o = t.value /\ Acked(o, o + Len(ChunkAt(o)))
    BY DEF OkTrue
<1> PICK n \in Nat : n = Len(ChunkAt(o))
    BY <1>1, ChunkCellsOf DEF ChunkAt
<1>2. Len(ChunkAt(o))' = Len(ChunkAt(o))
      BY DEF ChunkAt
<1>3. Acked(o, o + n)'
      BY <1>1, AckedGrows DEF Wire
<1> QED BY <1>2, <1>3

LEMMA LinesStep ==
    ASSUME Wire, DevTrue, HeadersTrue, LinesTrue, [TransferNext]_transferVars, image' = image
    PROVE  LinesTrue'
<1>0. Inv /\ WireTypes
      BY DEF Wire
<1>1. ASSUME ~Reset, Device \/ DeviceRests, NEW new,
             ToSet(toHost') \subseteq ToSet(toHost) \cup new, \A t \in new : OkTrue(t)'
      PROVE  LinesTrue'
  <2>1. \A t \in ToSet(toHost) : OkTrue(t)'
        BY <1>1, OkKept DEF LinesTrue
  <2> QED BY <1>1, <2>1 DEF LinesTrue
<1>2. CASE Reset
      BY <1>2, ElementsOf DEF Reset, LinesTrue
<1>3. CASE ~Device /\ ~Reset
  <2>1. DeviceRests /\ ToSet(toHost') \subseteq ToSet(toHost) \cup ToSet(<<>>)
        BY <1>0, <1>3, TransferSteps, AnyStepLines
  <2>2. \A t \in ToSet(<<>>) : OkTrue(t)'
        BY ElementsOf
  <2> QED BY <1>1, <1>3, <2>1, <2>2
<1>4. CASE Device /\ ~Reset
  <2>1. CASE Runs /\ ToSet(toHost') = ToSet(toHost) \cup ToSet(out')
    <3>1. InSession
          BY <2>1 DEF Runs, InSession
    <3>2. CASE WriteChunk
          BY <1>0, <1>1, <1>4, <2>1, <3>2, WroteAcked
    <3>3. CASE Verify
      <4>1. \A t \in {"APP_CRC_CHECK", "APP_CRC_OK", "APP_CRC_FAIL"} : ~Is(Evt(t), "CHUNK_OK")
            BY EventFacts DEF Tokens
      <4>2. \A t \in ToSet(out') : ~Is(t, "CHUNK_OK")
            BY <3>3, <4>1, CheckSays, ElementsOf
      <4> QED BY <1>1, <1>4, <2>1, <4>2 DEF OkTrue
    <3>4. CASE Says(out', Talk)
      <4>1. \A t \in ToSet(out') : t \in Events /\ t.evt \in Talk
            BY <3>4, ElementsOf DEF Says, ToSet
      <4>2. \A t \in ToSet(out') : ~Is(t, "CHUNK_OK")
            BY <4>1, EventFacts DEF Talk
      <4> QED BY <1>1, <1>4, <2>1, <4>2 DEF OkTrue
    <3> QED BY <1>0, <3>1, <3>2, <3>3, <3>4, SessionTalks DEF Inv, Shape
  <2>2. CASE Idles /\ ToSet(toHost') \subseteq ToSet(toHost) \cup ToldNow
    <3>1. ~Is(AppStart, "CHUNK_OK")
          BY DEF Is, AppStart
    <3>2. \A t \in ToldNow : OkTrue(t)'
          BY <3>1, ToldEvents DEF OkTrue, ToldNow
    <3> QED BY <1>1, <1>4, <2>2, <3>2
  <2>3. CASE ToSet(toHost') = ToSet(toHost) \cup
                                  {Evt("DECISION_UPDATE"), Evt("READY_FOR_UPDATE")}
    <3> DEFINE new == {Evt("DECISION_UPDATE"), Evt("READY_FOR_UPDATE")}
    <3>1. \A t \in new : ~Is(t, "CHUNK_OK")
          BY EventFacts DEF Tokens
    <3> HIDE DEF new
    <3>2. \A t \in new : OkTrue(t)'
          BY <3>1 DEF OkTrue
    <3>3. ToSet(toHost') \subseteq ToSet(toHost) \cup new
          BY <2>3 DEF new
    <3> QED BY <1>1, <1>4, <3>2, <3>3
  <2> QED BY <1>0, <1>4, <2>1, <2>2, <2>3, DeviceLines
<1> QED BY <1>2, <1>3, <1>4

(* What main() knows when it waits.                                        *)
HostTrue ==
    /\ hpc \in {"hello", "greet"} => offset = 0
    /\ hpc = "result" => offset < Len(image)
    /\ hpc \in {"final", "ended", "verdict", "handoff", "start"} => offset = Len(image)
    /\ hpc # "off" /\ handle = "main" => Acked(0, offset)

LEMMA HostTrueAnswers ==
    ASSUME Wire, HostTrue, DeviceRests, image' = image,
           hpc \in Waiting, NEW t, Answers(t), OkTrue(t)
    PROVE  HostTrue'
<1>0. /\ offset \in Nat /\ Len(image) \in Nat /\ image \in Seq(Data)
      /\ hpc \in {"hello", "greet", "ready"} => offset < Len(image)
      BY ImageType DEF Wire, WireTypes
<1>1. \A n \in Nat : Acked(0, n) => Acked(0, n)'
      BY DEF Acked, DeviceRests, vars
<1>2. hpc' = "off" => HostTrue'
      BY DEF HostTrue
<1>3. CASE Ignores
      BY <1>0, <1>1, <1>3 DEF Ignores, host, HostTrue
<1>4. CASE \E c : Fails(c)
      BY <1>2, <1>4 DEF Fails, Returns
<1>5. CASE \/ hpc \in {"hello", "greet"} /\ Waits("greet")
           \/ hpc = "ended" /\ Waits("verdict")
           \/ hpc = "verdict" /\ (Waits("handoff") \/ Waits("verdict"))
           \/ hpc = "handoff" /\ Waits("start")
  <2>1. offset' = offset /\ (handle' = "main" => handle = "main") /\ hpc # "off"
        BY <1>5 DEF Waits
  <2>2. hpc' # "off" /\ handle' = "main" => Acked(0, offset)'
        BY <1>0, <1>1, <2>1 DEF HostTrue
  <2> QED BY <1>5, <2>1, <2>2 DEF Waits, HostTrue
<1>6. CASE \/ hpc = "hello" /\ Writes(StartLineBytes, "ready")
           \/ hpc = "greet" /\ Writes(StartLineBytes, "greet")
           \/ hpc \in {"hello", "greet", "ready"} /\ SendsChunk
           \/ hpc = "final" /\ Writes(<<End, LineEnd>>, "ended")
  <2>1. CASE handle # "main"
        BY <1>2, <1>6, <2>1 DEF SendsChunk, Writes, Returns
  <2>2. CASE handle = "main"
    <3>1. offset' = offset /\ hpc # "off"
          BY <1>6, <2>2 DEF SendsChunk, Writes
    <3>2. Acked(0, offset)'
          BY <1>0, <1>1, <2>2, <3>1 DEF HostTrue
    <3> QED BY <1>0, <1>6, <2>2, <3>1, <3>2 DEF SendsChunk, Writes, HostTrue
  <2> QED BY <2>1, <2>2
<1>7. CASE hpc = "result" /\ Is(t, "CHUNK_OK") /\ t.value = offset /\ Acknowledges(t)
  <2>1. /\ offset' = NextOffset /\ handle' = handle
        /\ hpc' = (IF NextOffset < Len(image) THEN "ready" ELSE "final")
        BY <1>7 DEF Acknowledges
  <2>2. NextOffset \in offset .. Len(image) /\ NextOffset = offset + Len(ChunkAt(offset))
        BY NextOffsetInside DEF Wire, NextOffset
  <2>3. Acked(offset, NextOffset)
        BY <1>7, <2>2 DEF OkTrue
  <2>4. handle = "main" => Acked(0, NextOffset)
    <3>1. SUFFICES ASSUME handle = "main", NEW k \in 0 .. NextOffset - 1
                   PROVE  part.offset + k \in Partition(part) /\ acked[part.offset + k] # {}
          BY DEF Acked
    <3>2. Acked(0, offset)
          BY <1>7, <3>1 DEF HostTrue
    <3>3. k \in 0 .. offset - 1 \/ k \in offset .. NextOffset - 1
          BY <1>0, <2>2
    <3> QED BY <2>3, <3>2, <3>3 DEF Acked
  <2>5. handle' = "main" => Acked(0, offset)'
    <3>1. PICK n \in Nat : n = NextOffset
          BY <1>0, <2>2
    <3>2. handle = "main" => Acked(0, n)'
          BY <1>1, <2>4, <3>1
    <3>3. offset' = n
          BY <2>1, <3>1
    <3>4. Acked(0, offset)' <=> Acked(0, n)'
          BY <3>3 DEF Acked
    <3> QED BY <2>1, <3>2, <3>4
  <2> QED BY <1>0, <2>1, <2>2, <2>5 DEF HostTrue
<1> QED BY <1>3, <1>4, <1>5, <1>6, <1>7 DEF Answers

LEMMA HostTrueStep ==
    ASSUME Wire, DevTrue, LinesTrue, HostTrue, [TransferNext]_transferVars, image' = image
    PROVE  HostTrue'
<1>0. /\ Inv /\ WireTypes /\ toHost \in Seq(Lines)
      /\ offset \in Nat /\ Len(image) \in Nat
      BY ImageType DEF Wire, WireTypes
<1>1. ASSUME Device \/ DeviceRests, UNCHANGED <<hpc, offset>>,
             hpc # "off" /\ handle' = "main" => handle = "main" /\ ~Reset
      PROVE  HostTrue'
  <2>1. ASSUME hpc' # "off", handle' = "main"
        PROVE  Acked(0, offset)'
    <3>1. Acked(0, offset) /\ ~Reset
          BY <1>1, <2>1 DEF HostTrue
    <3>2. PICK n \in Nat : n = offset
          BY <1>0
    <3>3. Acked(0, n)'
          BY <1>0, <1>1, <3>1, <3>2, AckedGrows
    <3>4. offset' = n
          BY <1>1, <3>2
    <3> QED BY <3>3, <3>4 DEF Acked
  <2> QED BY <1>1, <2>1 DEF HostTrue
<1>2. CASE Device
  <2>1. CASE Reset
        BY <1>1, <1>2, <2>1 DEF Reset, NobodySends
  <2>2. CASE ~Reset
    <3>1. UNCHANGED host
          BY <1>2, <2>2, DeviceKinds, IdleMoves DEF Runs, SelectUpdate
    <3> QED BY <1>1, <1>2, <2>2, <3>1 DEF host
  <2> QED BY <2>1, <2>2
<1>3. CASE Line \/ UNCHANGED transferVars
  <2>1. DeviceRests /\ UNCHANGED host
        BY <1>3 DEF Line, LosesByte, DamagesByte, LosesToken, transferVars, DeviceRests
  <2>2. ~Reset \/ handle' # "main" \/ hpc = "off"
        BY <2>1 DEF Reset, NobodySends, host
  <2> QED BY <1>1, <2>1, <2>2 DEF host
<1>4. CASE HostStarts
      BY <1>4 DEF HostStarts, HostTrue, Acked
<1>5. CASE HostMoves
  <2>1. DeviceRests
        BY <1>5, Elsewhere
  <2>2. CASE HostReads
    <3>1. hpc \in Waiting /\ toHost # <<>> /\ Answers(Head(toHost))
          BY <2>2, HostAnswers DEF HostReads
    <3>2. OkTrue(Head(toHost))
          BY <1>0, <3>1, ElementsOf DEF LinesTrue
    <3> QED BY <2>1, <3>1, <3>2, HostTrueAnswers
  <2>3. CASE HostTimesOut \/ HostLosesPort
        BY <2>3 DEF HostTimesOut, HostLosesPort, Fails, Returns, HostTrue
  <2>4. CASE HostReconnects
        BY <2>4 DEF HostReconnects, HostTrue
  <2> QED BY <1>5, <2>2, <2>3, <2>4 DEF HostMoves
<1> QED BY <1>2, <1>3, <1>4, <1>5 DEF TransferNext

-----------------------------------------------------------------------------
(* What success says of the image.                                         *)

(* A frame that passed its CRC carries the part of the image it was sent   *)
(* for.                                                                    *)
Genuine ==
    WholeFrame => \A j \in 1 .. chunk.len : payload[j] = image[chunk.off + j]

(* Then nothing else was ever written in this session.                     *)
ImageCell(a) == IF a - part.offset \in 0 .. Len(image) - 1
                THEN {image[a - part.offset + 1]}
                ELSE {}

TriedTrue == \A a \in DOMAIN tried : tried[a] \subseteq ImageCell(a)

LEMMA NoteTrue ==
    ASSUME Wire, HeadersTrue, Genuine, TriedTrue, WholeFrame,
           NEW a \in DOMAIN tried
    PROVE  Note(tried)[a] \subseteq ImageCell(a)
<1>1. /\ image \in Seq(Data) /\ Len(image) \in Nat
      /\ part.offset \in Int /\ a \in Int
      BY ImageType, PartitionsAssumption
         DEF Wire, WireTypes, Inv, Shape, TypeOK
<1>2. TrueHeader(chunk)
      BY DEF HeadersTrue, UsedHeaders, InFrame, WholeFrame
<1>3. chunk.off \in 0 .. Len(image) - 1 /\ chunk.len = Len(ChunkAt(chunk.off))
      BY <1>2 DEF TrueHeader, HeaderOf
<1>4. chunk.len \in 0 .. Len(image) - chunk.off
      BY <1>1, <1>3, ChunkCellsOf DEF ChunkAt
<1>5. CASE a \notin ChunkCells
      BY <1>5 DEF Note, TriedTrue
<1>6. CASE a \in ChunkCells
  <2>1. PICK j \in 1 .. chunk.len : a = WriteAddress + j - 1
    <3>1. PICK n \in Nat : n = chunk.len
          BY <1>1, <1>3, <1>4
    <3>2. PICK w \in Int : w = WriteAddress
          BY <1>1, <1>3 DEF WriteAddress
    <3>3. PICK j \in 1 .. chunk.len : j = a - w + 1
      <4>1. a \in w .. w + n - 1
            BY <1>6, <3>1, <3>2 DEF ChunkCells, Span
      <4>2. a - w + 1 \in 1 .. n
            BY <1>1, <4>1
      <4> QED BY <3>1, <4>2
    <3>4. a = w + j - 1
          BY <1>1, <1>4, <3>3
    <3> QED BY <3>2, <3>3, <3>4
  <2>2. a - WriteAddress + 1 = j /\ a - part.offset + 1 = chunk.off + j
    <3>1. /\ chunk.off \in Int /\ chunk.len \in Int /\ j \in Int
          /\ a = part.offset + chunk.off + j - 1
          BY <1>1, <1>3, <1>4, <2>1 DEF WriteAddress
    <3> QED BY <1>1, <3>1 DEF WriteAddress
  <2>3. a - part.offset \in 0 .. Len(image) - 1
    <3>1. chunk.off + j \in 1 .. Len(image) /\ chunk.off \in Nat
          BY <1>1, <1>3, <1>4
    <3> QED BY <1>1, <2>2, <3>1
  <2>4. payload[j] = image[chunk.off + j]
        BY <2>1 DEF Genuine
  <2>5. ImageCell(a) = {payload[j]}
        BY <2>2, <2>3, <2>4 DEF ImageCell
  <2>6. Note(tried)[a] = tried[a] \cup {payload[j]}
        BY <1>6, <2>2 DEF Note
  <2> QED BY <2>5, <2>6 DEF TriedTrue
<1> QED BY <1>5, <1>6

LEMMA TriedTrueStep ==
    ASSUME Wire, DevTrue, HeadersTrue, Genuine, TriedTrue, Device \/ DeviceRests, image' = image
    PROVE  TriedTrue'
<1>0. TypeOK /\ tried \in [0 .. FlashSize - 1 -> SUBSET Data]
      BY DEF Wire, Inv, Shape, TypeOK
<1>1. part' = part
      BY AckedGrows DEF Wire
<1>2. \A a : ImageCell(a)' = ImageCell(a)
      BY <1>1 DEF ImageCell
<1>3. tried' = tried => TriedTrue'
      BY <1>2 DEF TriedTrue
<1>4. CASE Runs
  <2>1. InSession
        BY <1>4 DEF Runs, InSession
  <2>2. CASE WholeFrame /\ tried' = Note(tried)
    <3>1. DOMAIN tried' = DOMAIN tried
          BY <2>2 DEF Note
    <3> QED BY <1>2, <2>2, <3>1, NoteTrue DEF TriedTrue
  <2> QED BY <1>0, <1>3, <2>1, <2>2, SessionHistory
<1>5. CASE SelectUpdate \/ Reset
      BY <1>5 DEF SelectUpdate, Enter, Reset, NoHistory, TriedTrue
<1>6. CASE Idles \/ DeviceRests
      BY <1>3, <1>6, IdleMoves DEF DeviceRests, vars
<1> QED BY <1>4, <1>5, <1>6, DeviceKinds

(* The parts of the inductive invariant, while one image is sent.          *)
Honest == Bootable /\ HeadersTrue /\ LinesTrue /\ HostTrue

LEMMA HonestInit == TransferInit => Honest /\ TriedTrue
<1> SUFFICES ASSUME TransferInit PROVE Honest /\ TriedTrue
    OBVIOUS
<1>1. ToSet(toDevice) = {} /\ ToSet(line) = {} /\ ToSet(toHost) = {}
      BY ElementsOf DEF TransferInit, Init
<1>2. HeadersTrue /\ LinesTrue
      BY <1>1 DEF HeadersTrue, UsedHeaders, InFrame, LinesTrue, TransferInit, Init
<1>3. HostTrue /\ TriedTrue
      BY DEF TransferInit, Init, HostTrue, TriedTrue, NoHistory
<1> QED BY <1>2, <1>3, BootableInit DEF Honest

LEMMA HonestStep ==
    Honest /\ [TransferNext]_transferVars /\ image' = image => Honest'
BY TransferSteps, BootableStep, HeadersStep, LinesStep, HostTrueStep DEF Honest, Bootable

(* What the flash holds when the host knows all chunks to be acknowledged. *)
LEMMA AllAcked ==
    ASSUME Honest, TriedTrue, Acked(0, Len(image))
    PROVE  Read(flash, part.offset, Len(image)) = image
<1>1. image \in Seq(Data) /\ Len(image) \in Nat
      BY ImageType DEF Honest, Bootable, Wire, WireTypes
<1>2. /\ part.offset \in Nat /\ AckedReadBack /\ AckedTried
      /\ flash \in FlashStates /\ acked \in [0 .. FlashSize - 1 -> SUBSET Data]
      /\ tried \in [0 .. FlashSize - 1 -> SUBSET Data]
      BY PartitionsAssumption, InvReadBack
         DEF Honest, Bootable, DevTrue, Wire, Inv, Shape, TypeOK
<1>3. ASSUME NEW k \in 1 .. Len(image)
      PROVE  flash[part.offset + k - 1] = image[k]
  <2> PICK a \in Int : a = part.offset + k - 1
      BY <1>1, <1>2
  <2>1. k - 1 \in 0 .. Len(image) - 1 /\ a = part.offset + (k - 1)
        BY <1>1, <1>2
  <2>2. a \in Partition(part) /\ acked[a] # {}
        BY <2>1 DEF Acked
  <2>3. a - part.offset = k - 1 /\ a - part.offset + 1 = k
        BY <1>1, <1>2
  <2>4. ImageCell(a) = {image[k]}
        BY <2>1, <2>3 DEF ImageCell
  <2>5. a \in DOMAIN tried /\ acked[a] \subseteq tried[a] /\ tried[a] \subseteq {image[k]}
        BY <1>2, <2>2, <2>4, PartitionAcked DEF AckedTried, TriedTrue, Honest, Bootable, Wire
  <2>6. acked[a] = {image[k]} /\ tried[a] = {image[k]}
        BY <2>2, <2>5
  <2>7. image[k] \in Data
        BY <1>1
  <2>8. flash[a] = image[k]
        BY <1>2, <2>2, <2>6, <2>7 DEF AckedReadBack
  <2> QED BY <2>8
<1>4. /\ Read(flash, part.offset, Len(image)) = [k \in 1 .. Len(image) |-> image[k]]
      /\ image = [k \in 1 .. Len(image) |-> image[k]]
      BY <1>1, <1>3 DEF Read
<1> QED BY <1>4

Installed == Read(flash, part.offset, Len(image)) = image

(* The host has written END_UPDATE, and waits for what follows.  It may    *)
(* lose its port from now on: the device has nothing from it any more.     *)
LastWaits == {"ended", "verdict", "handoff", "start"}

Sent == hpc \in LastWaits /\ handle \in {"lost", "local"} => Installed

LEMMA InstalledNow ==
    ASSUME Honest, TriedTrue, Sent, hpc \in LastWaits
    PROVE  Installed
<1>1. handle \in {"main", "lost", "local"}
      BY DEF Honest, Bootable, Ended, Wire, WireTypes, LastWaits
<1>2. CASE handle = "main"
  <2>1. offset = Len(image) /\ Acked(0, offset)
        BY <1>2 DEF Honest, HostTrue, LastWaits
  <2> QED BY <2>1, AllAcked DEF Installed
<1> QED BY <1>1, <1>2 DEF Sent

LEMMA SentStep ==
    ASSUME Honest, TriedTrue, Sent, [TransferNext]_transferVars, image' = image
    PROVE  Sent'
<1>0. Inv /\ WireTypes /\ DevTrue /\ Ended
      BY DEF Honest, Bootable, Wire
<1> SUFFICES ASSUME hpc' \in LastWaits, handle' \in {"lost", "local"}
             PROVE  Installed'
    BY DEF Sent
<1>1. ASSUME UNCHANGED <<part, flash>>, Installed
      PROVE  Installed'
      BY <1>1 DEF Installed
<1>2. hpc' # "off"
      BY DEF LastWaits
<1>3. CASE Device
  <2>1. hpc' = hpc /\ (handle' = handle \/ Reset)
    <3>1. Runs \/ SelectUpdate \/ Idles => UNCHANGED host
          BY IdleMoves DEF Runs, SelectUpdate
    <3> QED BY <1>3, <3>1, DeviceKinds DEF Reset, host
  <2>2. Installed
        BY <2>1, InstalledNow
  <2>3. CASE Reset
        BY <1>1, <2>2, <2>3 DEF Reset
  <2>4. CASE handle' = handle
    <3>1. Cleared
          BY <1>0, <1>2, <2>1, <2>4 DEF Ended
    <3> QED BY <1>0, <1>1, <1>3, <2>2, <3>1, ClearedStep
  <2> QED BY <2>1, <2>3, <2>4
<1>4. CASE Line \/ UNCHANGED transferVars
  <2>1. hpc' = hpc /\ UNCHANGED <<part, flash>>
        BY <1>4 DEF Line, LosesByte, DamagesByte, LosesToken, transferVars, host, vars
  <2> QED BY <1>1, <2>1, InstalledNow
<1>5. CASE HostStarts
      BY <1>5 DEF HostStarts, LastWaits
<1>6. CASE HostMoves
  <2>1. UNCHANGED <<part, flash>>
        BY <1>6, Elsewhere DEF DeviceRests, vars
  <2>2. ASSUME NEW t, Answers(t)
        PROVE  hpc \in LastWaits
    <3>1. CASE Ignores
          BY <3>1 DEF Ignores, host
    <3>2. CASE \E c : Fails(c)
          BY <1>2, <3>2 DEF Fails, Returns
    <3>3. CASE \E bytes, next : Writes(bytes, next)
          BY <1>2, <3>3 DEF Writes, Returns
    <3>4. CASE \/ hpc \in {"hello", "greet"} /\ Waits("greet")
               \/ hpc = "ended" /\ Waits("verdict")
               \/ hpc = "verdict" /\ (Waits("handoff") \/ Waits("verdict"))
               \/ hpc = "handoff" /\ Waits("start")
          BY <3>4 DEF Waits, LastWaits
    <3>5. CASE Acknowledges(t)
          BY <3>5 DEF Acknowledges, Fails, Returns, LastWaits
    <3> QED BY <2>2, <3>1, <3>2, <3>3, <3>4, <3>5 DEF Answers, SendsChunk
  <2>3. CASE HostReads
        BY <1>1, <2>1, <2>2, <2>3, HostAnswers, InstalledNow DEF HostReads
  <2>4. CASE HostTimesOut \/ HostLosesPort
        BY <1>2, <2>4 DEF HostTimesOut, HostLosesPort, Fails, Returns
  <2>5. CASE HostReconnects
        BY <1>1, <2>1, <2>5, InstalledNow DEF HostReconnects
  <2> QED BY <1>6, <2>3, <2>4, <2>5 DEF HostMoves
<1> QED BY <1>3, <1>4, <1>5, <1>6 DEF TransferNext

LEMMA InstalledStep ==
    ASSUME Honest, TriedTrue, Sent, SuccessMeansInstalled, [TransferNext]_transferVars, image' = image
    PROVE  SuccessMeansInstalled'
<1>0. /\ Wire /\ Inv /\ WireTypes /\ DevTrue /\ Ended /\ toHost \in Seq(Lines)
      BY DEF Honest, Bootable, Wire, WireTypes
<1>1. ASSUME code' = code, UNCHANGED <<part, flash>>
      PROVE  SuccessMeansInstalled'
      BY <1>1 DEF SuccessMeansInstalled
<1>2. CASE Device
  <2>1. code = "success" => UNCHANGED <<part, flash>>
        BY <1>0, <1>2, AppRests, ClearedStep DEF Ended
  <2>2. code' = code
    <3>1. Runs \/ SelectUpdate \/ Idles => code' = code
          BY IdleMoves DEF Runs, SelectUpdate, host
    <3>2. Reset => code' = code
          BY DEF Reset
    <3> QED BY <1>2, <3>1, <3>2, DeviceKinds
  <2> QED BY <1>1, <2>1, <2>2 DEF SuccessMeansInstalled
<1>3. CASE Line \/ UNCHANGED transferVars
      BY <1>1, <1>3 DEF Line, LosesByte, DamagesByte, LosesToken, transferVars, host, vars
<1>4. CASE HostStarts
      BY <1>4 DEF HostStarts, SuccessMeansInstalled
<1>5. CASE HostMoves
  <2>1. UNCHANGED <<part, flash>>
        BY <1>5, Elsewhere DEF DeviceRests, vars
  <2>2. SUFFICES ASSUME code' = "success", code # "success" PROVE Installed
        BY <1>1, <2>1 DEF SuccessMeansInstalled, Installed
  <2>3. hpc = "start"
    <3>1. CASE HostReads
      <4>1. hpc \in Waiting /\ Answers(Head(toHost))
            BY <3>1, HostAnswers DEF HostReads
      <4>2. \E c : Fails(c) /\ (c = "success" => hpc = "start")
            BY <2>2, <4>1 DEF Answers, Ignores, Waits, Writes, Returns, SendsChunk, Acknowledges,
               host
      <4> QED BY <2>2, <4>2 DEF Fails, Returns
    <3>2. CASE HostTimesOut \/ HostReconnects \/ HostLosesPort
          BY <2>2, <3>2 DEF HostTimesOut, HostReconnects, HostLosesPort, Fails, Returns
    <3> QED BY <1>5, <3>1, <3>2 DEF HostMoves
  <2> QED BY <2>3, InstalledNow DEF LastWaits
<1> QED BY <1>2, <1>3, <1>4, <1>5 DEF TransferNext

(* Only a frame that is not what was sent, and yet passes its CRC, can     *)
(* make send_update.py report an update that did not happen: while one     *)
(* image is sent and no such frame is taken, success means that the        *)
(* partition holds the image, for every loss, damage, reset, flash         *)
(* failure, pause and number of starts of the script.                      *)
THEOREM SuccessInstalledIfGenuine ==
    TransferSpec /\ []Genuine /\ [][UNCHANGED image]_transferVars => []SuccessMeansInstalled
<1> DEFINE Good == Honest /\ TriedTrue /\ Sent /\ SuccessMeansInstalled
<1>1. TransferInit => Good
      BY HonestInit DEF TransferInit, Sent, LastWaits, SuccessMeansInstalled
<1>2. Good /\ Genuine /\ [TransferNext]_transferVars /\ [UNCHANGED image]_transferVars => Good'
  <2> SUFFICES ASSUME Good, Genuine, [TransferNext]_transferVars, [UNCHANGED image]_transferVars
               PROVE  Good'
      OBVIOUS
  <2>1. image' = image
        BY DEF transferVars, host
  <2>2. Honest' /\ Sent' /\ SuccessMeansInstalled'
        BY <2>1, HonestStep, SentStep, InstalledStep
  <2>3. Device \/ DeviceRests
        BY StepKinds
  <2>4. TriedTrue'
        BY <2>1, <2>3, TriedTrueStep DEF Honest, Bootable
  <2> QED BY <2>2, <2>4
<1>3. Good => SuccessMeansInstalled
      OBVIOUS
<1> HIDE DEF Good
<1> QED BY <1>1, <1>2, <1>3, PTL DEF TransferSpec

-----------------------------------------------------------------------------
(* Without damage, every frame is genuine.                                 *)

(* The cells of the chunk of header h, but for its first r, follow in seq  *)
(* behind position at.                                                     *)
Rest(seq, at, h, r) ==
    \A j \in r + 1 .. h.len : /\ at + j - r \in DOMAIN seq
                              /\ seq[at + j - r] = Cell(image[h.off + j])

(* A line end and the chunk of header h follow in seq behind position at.  *)
Begins(seq, at, h) ==
    at + 1 \in DOMAIN seq /\ seq[at + 1] = LineEnd /\ Rest(seq, at + 1, h, 0)

Carried(data, h) == \A j \in 1 .. Len(data) : data[j] = image[h.off + j]

(* Every header is followed by its chunk: in the line to the device, and   *)
(* while the device reads the header and the chunk.                        *)
Stream ==
    /\ \A k \in DOMAIN toDevice : toDevice[k] \in Headers => Begins(toDevice, k, toDevice[k])
    /\ phase = "header" => \A h \in Headers : line = <<h>> => Begins(toDevice, 0, h)
    /\ phase = "payload" => Carried(payload, chunk) /\ Rest(toDevice, 0, chunk, Len(payload))
    /\ WholeFrame => Carried(payload, chunk)

LEMMA TailOf ==
    ASSUME NEW seq \in Seq(Letters), seq # <<>>
    PROVE  /\ DOMAIN seq = 1 .. Len(seq) /\ Len(seq) \in Nat /\ Len(seq) > 0
           /\ Head(seq) = seq[1]
           /\ DOMAIN Tail(seq) = 1 .. Len(seq) - 1
           /\ \A k \in 1 .. Len(seq) - 1 : Tail(seq)[k] = seq[k + 1]
OBVIOUS

LEMMA RestTail ==
    ASSUME NEW seq \in Seq(Letters), seq # <<>>, NEW at \in Nat, NEW h \in Headers, NEW r \in Nat,
           Rest(seq, at, h, r)
    PROVE  /\ at > 0 => Rest(Tail(seq), at - 1, h, r)
           /\ at = 0 => Rest(Tail(seq), 0, h, r + 1)
<1>0. h.len \in Nat
      BY HeadersAssumption
<1>1. ASSUME NEW j \in r + 1 .. h.len, NEW k \in Int, k = at + j - r, k > 1
      PROVE  k - 1 \in DOMAIN Tail(seq) /\ Tail(seq)[k - 1] = Cell(image[h.off + j])
  <2>1. k \in DOMAIN seq /\ seq[k] = Cell(image[h.off + j])
        BY <1>1 DEF Rest
  <2>2. k - 1 \in 1 .. Len(seq) - 1 /\ (k - 1) + 1 = k
        BY <1>1, <2>1, TailOf
  <2> QED BY <2>1, <2>2, TailOf
<1>2. ASSUME at > 0, NEW j \in r + 1 .. h.len
      PROVE  /\ (at - 1) + j - r \in DOMAIN Tail(seq)
             /\ Tail(seq)[(at - 1) + j - r] = Cell(image[h.off + j])
  <2>1. PICK k \in Int : k = at + j - r /\ k > 1 /\ (at - 1) + j - r = k - 1
        BY <1>0, <1>2
  <2> QED BY <1>1, <2>1
<1>3. ASSUME at = 0, NEW j \in r + 2 .. h.len
      PROVE  /\ 0 + j - (r + 1) \in DOMAIN Tail(seq)
             /\ Tail(seq)[0 + j - (r + 1)] = Cell(image[h.off + j])
  <2>1. PICK k \in Int : k = at + j - r /\ k > 1 /\ 0 + j - (r + 1) = k - 1
        BY <1>0, <1>3
  <2>2. j \in r + 1 .. h.len
        BY <1>0, <1>3
  <2> QED BY <1>1, <2>1, <2>2
<1>4. (r + 1) + 1 = r + 2
      OBVIOUS
<1> QED BY <1>2, <1>3, <1>4 DEF Rest

LEMMA BeginsTail ==
    ASSUME NEW seq \in Seq(Letters), seq # <<>>, NEW at \in Nat \ {0}, NEW h \in Headers,
           Begins(seq, at, h)
    PROVE  Begins(Tail(seq), at - 1, h)
<1>1. at + 1 \in DOMAIN seq /\ seq[at + 1] = LineEnd /\ Rest(seq, at + 1, h, 0)
      BY DEF Begins
<1>2. (at + 1) - 1 = (at - 1) + 1 /\ (at - 1) + 1 = at
      OBVIOUS
<1>3. Rest(Tail(seq), at, h, 0)
  <2>1. Rest(Tail(seq), (at + 1) - 1, h, 0)
        BY <1>1, RestTail
  <2> QED BY <1>2, <2>1
<1>4. at \in DOMAIN Tail(seq) /\ Tail(seq)[at] = LineEnd
      BY <1>1, TailOf
<1> QED BY <1>2, <1>3, <1>4 DEF Begins

LEMMA BeginsJoined ==
    ASSUME NEW s \in Seq(Letters), NEW t \in Seq(Letters), NEW at \in Nat, NEW h \in Headers
    PROVE  /\ \A r \in Nat : Rest(s, at, h, r) => Rest(s \o t, at, h, r)
           /\ Begins(s, at, h) => Begins(s \o t, at, h)
<1>1. \A k \in DOMAIN s : k \in DOMAIN (s \o t) /\ (s \o t)[k] = s[k]
      OBVIOUS
<1>2. \A r \in Nat : Rest(s, at, h, r) => Rest(s \o t, at, h, r)
      BY <1>1 DEF Rest
<1>3. Rest(s, at + 1, h, 0) => Rest(s \o t, at + 1, h, 0)
      BY <1>1 DEF Rest
<1> QED BY <1>1, <1>2, <1>3 DEF Begins

LEMMA BeginsShifted ==
    ASSUME NEW s \in Seq(Letters), NEW t \in Seq(Letters), NEW at \in Nat, NEW h \in Headers,
           Begins(t, at, h)
    PROVE  Begins(s \o t, Len(s) + at, h)
<1>0. Len(s) \in Nat /\ h.len \in Nat
      BY HeadersAssumption
<1>1. \A k \in DOMAIN t : Len(s) + k \in DOMAIN (s \o t) /\ (s \o t)[Len(s) + k] = t[k]
      OBVIOUS
<1>2. at + 1 \in DOMAIN t /\ t[at + 1] = LineEnd /\ Rest(t, at + 1, h, 0)
      BY DEF Begins
<1>3. ASSUME NEW j \in 0 + 1 .. h.len
      PROVE  /\ (Len(s) + at + 1) + j - 0 \in DOMAIN (s \o t)
             /\ (s \o t)[(Len(s) + at + 1) + j - 0] = Cell(image[h.off + j])
  <2>1. PICK k \in DOMAIN t : k = (at + 1) + j - 0 /\ t[k] = Cell(image[h.off + j])
        BY <1>2 DEF Rest
  <2>2. Len(s) + k = (Len(s) + at + 1) + j - 0
        BY <1>0, <1>3, <2>1
  <2> QED BY <1>1, <2>1, <2>2
<1>4. Rest(s \o t, Len(s) + at + 1, h, 0)
      BY <1>3 DEF Rest
<1>5. Len(s) + (at + 1) = Len(s) + at + 1
      BY <1>0
<1> QED BY <1>1, <1>2, <1>4, <1>5 DEF Begins

(* So does a frame of the script.                                          *)
LEMMA FrameBegins ==
    ASSUME image \in AllImages, NEW o \in 0 .. Len(image) - 1
    PROVE  /\ Begins(FrameAt(o), 1, HeaderOf(ChunkAt(o), o))
           /\ \A k \in DOMAIN FrameAt(o) : FrameAt(o)[k] \in Headers =>
                  k = 1 /\ FrameAt(o)[k] = HeaderOf(ChunkAt(o), o)
<1> DEFINE h == HeaderOf(ChunkAt(o), o)
           data == ChunkAt(o)
<1>1. image \in Seq(Data) /\ Len(image) \in Nat
      BY ImageType
<1>2. data \in Seq(Data) /\ h \in Headers /\ h.len = Len(data) /\ h.off = o
      BY FrameHeader DEF HeaderOf
<1>3. \A j \in 1 .. Len(data) : data[j] = image[o + j]
      BY <1>1, ChunkCellsOf DEF ChunkAt
<1>4. FrameAt(o) = Frame(h, data)
      BY DEF FrameAt
<1> HIDE DEF h, data
<1>5. /\ DOMAIN Frame(h, data) = 1 .. 2 + Len(data) /\ Len(data) \in Nat
      /\ Frame(h, data)[1] = h /\ Frame(h, data)[2] = LineEnd
      /\ \A j \in 1 .. Len(data) : Frame(h, data)[2 + j] = Cell(data[j])
      BY <1>2, FrameShape
<1>6. ASSUME NEW j \in 0 + 1 .. h.len
      PROVE  /\ (1 + 1) + j - 0 \in DOMAIN Frame(h, data)
             /\ Frame(h, data)[(1 + 1) + j - 0] = Cell(image[h.off + j])
  <2>1. j \in 1 .. Len(data) /\ (1 + 1) + j - 0 = 2 + j
        BY <1>2, <1>5
  <2> QED BY <1>2, <1>3, <1>5, <2>1
<1>7. Begins(Frame(h, data), 1, h)
  <2>1. Rest(Frame(h, data), 1 + 1, h, 0)
        BY <1>6 DEF Rest
  <2>2. 1 + 1 = 2 /\ 2 \in DOMAIN Frame(h, data)
        BY <1>5
  <2> QED BY <1>5, <2>1, <2>2 DEF Begins
<1>8. ASSUME NEW k \in DOMAIN Frame(h, data), Frame(h, data)[k] \in Headers
      PROVE  k = 1 /\ Frame(h, data)[k] = h
  <2>1. k # 2
        BY <1>5, <1>8, LetterSets
  <2>2. ASSUME k > 2 PROVE FALSE
    <3>1. PICK j \in 1 .. Len(data) : k = 2 + j
      <4>1. k - 2 \in 1 .. Len(data) /\ k = 2 + (k - 2)
            BY <1>5, <2>2
      <4> QED BY <4>1
    <3>2. Frame(h, data)[k] = Cell(data[j]) /\ data[j] \in Data
          BY <1>2, <1>5, <3>1
    <3> QED BY <1>8, <3>2, LetterSets, CellData
  <2> QED BY <1>5, <2>1, <2>2
<1> QED BY <1>4, <1>7, <1>8 DEF h, data

LEMMA BeginsAppended ==
    ASSUME NEW s \in Seq(Letters), NEW t \in Seq(Letters),
           \A k \in DOMAIN s : s[k] \in Headers => Begins(s, k, s[k]),
           \A k \in DOMAIN t : t[k] \in Headers => Begins(t, k, t[k]),
           NEW k \in DOMAIN (s \o t), (s \o t)[k] \in Headers
    PROVE  Begins(s \o t, k, (s \o t)[k])
<1>1. /\ Len(s) \in Nat /\ Len(t) \in Nat /\ DOMAIN s = 1 .. Len(s) /\ DOMAIN t = 1 .. Len(t)
      /\ DOMAIN (s \o t) = 1 .. Len(s) + Len(t)
      /\ \A i \in 1 .. Len(s) : (s \o t)[i] = s[i]
      /\ \A i \in 1 .. Len(t) : (s \o t)[Len(s) + i] = t[i]
      OBVIOUS
<1>2. CASE k <= Len(s)
      BY <1>1, <1>2, BeginsJoined
<1>3. CASE k > Len(s)
  <2>1. PICK i \in 1 .. Len(t) : k = Len(s) + i
    <3>1. k - Len(s) \in 1 .. Len(t) /\ k = Len(s) + (k - Len(s))
          BY <1>1, <1>3
    <3> QED BY <3>1
  <2> QED BY <1>1, <2>1, BeginsShifted
<1> QED BY <1>1, <1>2, <1>3

(* What the device does with a frame while it reads nothing.               *)
LEMMA WorkKeepsPayload ==
    ASSUME TypeOK, CheckedSoFar, Wait \/ Work
    PROVE  /\ phase' = "header" => line' = <<>> \/ (line' = line /\ phase = "header")
           /\ phase' = "payload" => phase = "payload" /\ payload' = payload /\ chunk' = chunk
           /\ WholeFrame' => WholeFrame /\ payload' = payload /\ chunk' = chunk
<1>0. ASSUME NEW off, Fail(off)
      PROVE  phase' \in {"idle", "header"} /\ line' = <<>>
      BY <1>0 DEF Fail, Return, NextChunk, ClearLocals
<1>1. CASE LineIdle
  <2>1. CASE LineFails
        BY <1>0, <2>1 DEF LineFails, Return, ClearLocals, WholeFrame
  <2>2. CASE ~LineFails
        BY <1>1, <2>2 DEF LineIdle, WholeFrame
  <2> QED BY <2>1, <2>2
<1>2. CASE PayloadIdle
      BY <1>0, <1>2 DEF PayloadIdle, WholeFrame
<1>3. CASE SkipErased \/ EraseSector
      BY <1>3 DEF SkipErased, EraseSector, NextSector, WholeFrame
<1>4. CASE EraseFails
      BY <1>0, <1>4 DEF EraseFails, WholeFrame
<1>5. CASE WriteFails
      BY <1>0, <1>5 DEF WriteFails, WholeFrame
<1>6. CASE WriteChunk
      BY <1>6 DEF WriteChunk, NextChunk, ClearLocals, WholeFrame
<1>7. CASE Verify
      BY <1>7 DEF Verify, Return, WholeFrame
<1> QED BY <1>1, <1>2, <1>3, <1>4, <1>5, <1>6, <1>7 DEF Wait, Work

(* A line end where a header was read ends the line; nothing else follows. *)
LEMMA StreamText ==
    ASSUME Inv, WireTypes, Stream, image' = image, toDevice # <<>>, toDevice' = Tail(toDevice),
           ReadsAsText(Head(toDevice))
    PROVE  /\ phase' = "header" => \A h \in Headers : line' = <<h>> => Begins(toDevice', 0, h)
           /\ phase' = "payload" => /\ Carried(payload', chunk')
                                    /\ Rest(toDevice', 0, chunk', Len(payload'))
           /\ ~WholeFrame'
<1> DEFINE x == Head(toDevice)
<1>0. /\ TypeOK /\ toDevice \in Seq(Letters) /\ line \in Seq(Symbols)
      /\ 1 \in DOMAIN toDevice /\ x = toDevice[1]
      BY TailOf DEF Inv, Shape, TypeOK, WireTypes
<1>1. /\ \/ line' = <<>> \/ line' = line
         \/ x \in Symbols \ {LineEnd} /\ line' = Append(line, x)
         \/ x \in Cells /\ line' = Append(line, Junk)
      /\ ~InFrame /\ (line' # <<>> => phase' = phase)
      /\ InFrame' => /\ phase = "header" /\ phase' = "payload" /\ line' = <<>>
                     /\ chunk' \in Headers /\ line = <<chunk'>> /\ payload' = payload
                     /\ x \notin Symbols \ {LineEnd}
      BY <1>0, TextMakesFrame
<1>2. \A g \in Headers : x = g => Begins(toDevice', 0, g)
  <2>1. SUFFICES ASSUME NEW g \in Headers, x = g PROVE Begins(toDevice', 0, g)
        OBVIOUS
  <2>2. Begins(toDevice, 1, g)
        BY <1>0, <2>1 DEF Stream
  <2>3. Begins(Tail(toDevice), 1 - 1, g)
        BY <1>0, <2>2, BeginsTail
  <2> QED BY <2>3
<1>3. \A g \in Headers : phase = "header" /\ line = <<g>> => x = LineEnd
      BY <1>0 DEF Stream, Begins
<1>4. x = LineEnd => line' = <<>>
  <2>1. ASSUME x = LineEnd PROVE LineComplete
        BY <2>1, Alphabet DEF ReadsAsText
  <2> QED BY <2>1 DEF LineComplete, StartLine, EndLine, BadHeader, HeaderLine, Fail, NextChunk,
             Return, ClearLocals
<1>5. ASSUME phase' = "header", NEW h \in Headers, line' = <<h>>
      PROVE  Begins(toDevice', 0, h)
  <2>1. line' # <<>>
        BY <1>5
  <2>2. phase = "header"
        BY <1>1, <1>5, <2>1
  <2>3. line' # line
        BY <1>3, <1>4, <1>5, <2>1, <2>2
  <2>4. ASSUME NEW y, line' = Append(line, y)
        PROVE  y = h
        BY <1>0, <1>5, <2>4
  <2>5. Junk \notin Headers
        BY LetterSets
  <2> QED BY <1>1, <1>2, <2>1, <2>3, <2>4, <2>5
<1>6. ASSUME phase' = "payload"
      PROVE  Carried(payload', chunk') /\ Rest(toDevice', 0, chunk', Len(payload'))
  <2>1. /\ phase = "header" /\ chunk' \in Headers /\ line = <<chunk'>> /\ payload' = payload
        BY <1>1, <1>6 DEF InFrame
  <2>2. payload' = <<>>
        BY <1>1, <2>1 DEF Inv, Shape, CheckedSoFar
  <2>3. PICK g \in Headers : g = chunk'
        BY <2>1
  <2>4. Rest(toDevice, 0 + 1, g, 0)
        BY <2>1, <2>3 DEF Stream, Begins
  <2>5. Rest(Tail(toDevice), 0, g, 0)
        BY <1>0, <2>4, RestTail
  <2>6. Rest(toDevice', 0, g, 0)
        BY <2>5
  <2> QED BY <2>2, <2>3, <2>6 DEF Carried
<1>7. ~WholeFrame'
      BY <1>1 DEF InFrame, WholeFrame
<1> QED BY <1>5, <1>6, <1>7

(* A byte of a payload is the next cell of the chunk.                      *)
LEMMA StreamPayload ==
    ASSUME Inv, WireTypes, Stream, image' = image, toDevice # <<>>, toDevice' = Tail(toDevice),
           ReadsAsPayload(Head(toDevice))
    PROVE  /\ phase' = "header" => line' = <<>>
           /\ phase' = "payload" => /\ Carried(payload', chunk')
                                    /\ Rest(toDevice', 0, chunk', Len(payload'))
           /\ WholeFrame' => Carried(payload', chunk')
<1> DEFINE x == Head(toDevice)
<1>0. /\ TypeOK /\ CheckedSoFar /\ toDevice \in Seq(Letters)
      /\ 1 \in DOMAIN toDevice /\ x = toDevice[1]
      BY TailOf DEF Inv, Shape, WireTypes
<1>1. phase = "payload" /\ payload \in Seq(Data) /\ Len(payload) \in Nat
      BY <1>0 DEF ReadsAsPayload, PayloadByte, TypeOK
<1>2. PICK n \in Nat : n = Len(payload)
      BY <1>1
<1>3. PICK h \in Headers : h = chunk
      BY <1>0, <1>1 DEF CheckedSoFar, InFrame
<1>4. h.len \in Nat /\ n < h.len
      BY <1>0, <1>1, <1>2, <1>3, HeadersAssumption DEF CheckedSoFar
<1>5. Carried(payload, h) /\ Rest(toDevice, 0, h, n)
      BY <1>1, <1>2, <1>3 DEF Stream
<1>6. x = Cell(image[h.off + (n + 1)])
  <2>1. n + 1 \in n + 1 .. h.len /\ 0 + (n + 1) - n = 1
        BY <1>4
  <2>2. toDevice[0 + (n + 1) - n] = Cell(image[h.off + (n + 1)])
        BY <1>5, <2>1 DEF Rest
  <2> QED BY <1>0, <2>1, <2>2
<1>7. PICK d \in Data : PayloadByte(d) /\ d = image[h.off + (n + 1)]
  <2>1. x \notin Symbols
    <3> SUFFICES ASSUME NEW s \in Symbols PROVE s # x
        OBVIOUS
    <3>1. CASE s \in Headers
      <4>1. "len" \in DOMAIN s
            BY <3>1, HeadersAssumption
      <4>2. "len" \notin DOMAIN x
            BY <1>6 DEF Cell
      <4> QED BY <4>1, <4>2
    <3>2. CASE s \notin Headers
      <4>1. "text" \in DOMAIN s
            BY <3>2 DEF Symbols, LineEnd, CarriageReturn, Start, End, Junk, Text
      <4>2. "text" \notin DOMAIN x
            BY <1>6 DEF Cell
      <4> QED BY <4>1, <4>2
    <3> QED BY <3>1, <3>2
  <2>2. x \in Cells /\ PayloadByte(x.cell)
        BY <2>1 DEF ReadsAsPayload
  <2>3. x.cell = image[h.off + (n + 1)]
        BY <1>6 DEF Cell
  <2> QED BY <2>2, <2>3, CellData
<1>8. Carried(Append(payload, d), h)
  <2>1. /\ Len(Append(payload, d)) = n + 1
        /\ \A j \in 1 .. n : Append(payload, d)[j] = payload[j]
        /\ Append(payload, d)[n + 1] = d
        BY <1>1, <1>2
  <2>2. \A j \in 1 .. n + 1 : j \in 1 .. n \/ j = n + 1
        BY <1>2
  <2>3. \A j \in 1 .. n : payload[j] = image[h.off + j]
        BY <1>2, <1>5 DEF Carried
  <2> QED BY <1>7, <2>1, <2>2, <2>3 DEF Carried
<1>9. CASE Fail(chunk.off)
      BY <1>9 DEF Fail, Return, NextChunk, ClearLocals, WholeFrame
<1>10. CASE ~Fail(chunk.off)
  <2>1. /\ payload' = Append(payload, d) /\ chunk' = h
        /\ phase' \in {"payload", "erase"}
        BY <1>3, <1>7, <1>10 DEF PayloadByte
  <2>2. Carried(payload', chunk')
        BY <1>8, <2>1 DEF Carried
  <2>3. Len(payload') = n + 1
        BY <1>1, <1>2, <2>1
  <2>4. Rest(toDevice', 0, h, n + 1)
    <3>1. Rest(Tail(toDevice), 0, h, n + 1)
          BY <1>0, <1>5, RestTail
    <3> QED BY <3>1 DEF Rest
  <2>5. Rest(toDevice', 0, chunk', Len(payload'))
        BY <2>1, <2>3, <2>4 DEF Rest
  <2> QED BY <2>1, <2>2, <2>5
<1> QED BY <1>9, <1>10

LEMMA StreamNext ==
    ASSUME image' = image,
           \A k \in DOMAIN toDevice' : toDevice'[k] \in Headers => Begins(toDevice', k, toDevice'[k]),
           phase' = "header" => \A h \in Headers : line' = <<h>> => Begins(toDevice', 0, h),
           phase' = "payload" => /\ Carried(payload', chunk')
                                 /\ Rest(toDevice', 0, chunk', Len(payload')),
           WholeFrame' => Carried(payload', chunk')
    PROVE  Stream'
BY DEF Stream, Begins, Rest, Carried

LEMMA StreamTail ==
    ASSUME WireTypes, Stream, image' = image, toDevice # <<>>, toDevice' = Tail(toDevice),
           NEW k \in DOMAIN toDevice', toDevice'[k] \in Headers
    PROVE  Begins(toDevice', k, toDevice'[k])
<1>1. toDevice \in Seq(Letters)
      BY DEF WireTypes
<1>2. k \in Nat \ {0} /\ k + 1 \in DOMAIN toDevice /\ toDevice'[k] = toDevice[k + 1]
      /\ (k + 1) - 1 = k /\ k + 1 \in Nat \ {0}
      BY <1>1, TailOf
<1>3. Begins(toDevice, k + 1, toDevice[k + 1])
      BY <1>2 DEF Stream
<1>4. Begins(Tail(toDevice), (k + 1) - 1, toDevice[k + 1])
      BY <1>1, <1>2, <1>3, BeginsTail
<1> QED BY <1>2, <1>4

(* The scripts add whole frames, and lines without headers.                *)
LEMMA StreamSent ==
    ASSUME WireTypes, Stream, image' = image,
           NEW bytes \in Seq(Letters), toDevice' = toDevice \o bytes, UNCHANGED vars,
           \A k \in DOMAIN bytes : bytes[k] \in Headers => Begins(bytes, k, bytes[k])
    PROVE  Stream'
<1>1. toDevice \in Seq(Letters)
      BY DEF WireTypes
<1>2. \A k \in DOMAIN toDevice' : toDevice'[k] \in Headers => Begins(toDevice', k, toDevice'[k])
      BY <1>1, BeginsAppended DEF Stream
<1>3. UNCHANGED <<phase, line, payload, chunk>>
      BY DEF vars, locals
<1>4. phase = "header" => \A h \in Headers : line = <<h>> => Begins(toDevice', 0, h)
      BY <1>1, BeginsJoined DEF Stream
<1>5. phase = "payload" => Carried(payload, chunk) /\ Rest(toDevice', 0, chunk, Len(payload))
  <2>1. SUFFICES ASSUME phase = "payload", Rest(toDevice, 0, chunk, Len(payload))
                 PROVE  Rest(toDevice', 0, chunk, Len(payload))
        BY DEF Stream
  <2>2. \A k \in DOMAIN toDevice : k \in DOMAIN toDevice' /\ toDevice'[k] = toDevice[k]
        BY <1>1
  <2> QED BY <2>1, <2>2 DEF Rest
<1> QED BY <1>2, <1>3, <1>4, <1>5, StreamNext DEF Stream, WholeFrame

LEMMA StreamHost ==
    ASSUME WireTypes, Stream, HostStarts \/ HostMoves, image' = image
    PROVE  Stream'
<1>1. UNCHANGED vars
      BY Elsewhere DEF DeviceRests
<1>2. CASE toDevice' = toDevice
      BY <1>1, <1>2 DEF Stream, Begins, Rest, Carried, WholeFrame, vars, locals
<1>3. ASSUME NEW bytes \in {StartLineBytes, <<End, LineEnd>>}, toDevice' = toDevice \o bytes
      PROVE  Stream'
  <2>1. bytes \in Seq(Letters)
        BY <1>3, LineTexts
  <2>2. ToSet(bytes) \cap Headers = {}
        BY <1>3, LetterSets
  <2>3. \A k \in DOMAIN bytes : bytes[k] \notin Headers
        BY <2>2 DEF ToSet
  <2> QED BY <1>1, <1>3, <2>1, <2>3, StreamSent
<1>4. ASSUME offset \in 0 .. Len(image) - 1, toDevice' = toDevice \o FrameAt(offset)
      PROVE  Stream'
  <2>1. FrameAt(offset) \in Seq(Letters)
        BY <1>4, FrameAtLetters DEF WireTypes
  <2>2. \A k \in DOMAIN FrameAt(offset) :
            FrameAt(offset)[k] \in Headers => Begins(FrameAt(offset), k, FrameAt(offset)[k])
        BY <1>4, FrameBegins DEF WireTypes
  <2> QED BY <1>1, <1>4, <2>1, <2>2, StreamSent
<1> QED BY <1>2, <1>3, <1>4, HostSends

LEMMA StreamStep ==
    ASSUME Wire, DevTrue, Stream, [TransferNext]_transferVars, image' = image,
           ~LosesByte, ~DamagesByte
    PROVE  Stream'
<1>0. Inv /\ TypeOK /\ CheckedSoFar /\ WireTypes
      BY DEF Wire, Inv, Shape
<1>1. CASE toDevice' = toDevice /\ UNCHANGED vars
      BY <1>1 DEF Stream, Begins, Rest, Carried, WholeFrame, vars, locals
<1>2. CASE DeviceReads
  <2>1. /\ toDevice # <<>> /\ toDevice' = Tail(toDevice)
        /\ ReadsAsText(Head(toDevice)) \/ ReadsAsPayload(Head(toDevice))
        BY <1>2 DEF DeviceReads
  <2>2. \A k \in DOMAIN toDevice' : toDevice'[k] \in Headers => Begins(toDevice', k, toDevice'[k])
        BY <1>0, <2>1, StreamTail
  <2>3. CASE ReadsAsText(Head(toDevice))
        BY <1>0, <2>1, <2>2, <2>3, StreamText, StreamNext
  <2>4. CASE ReadsAsPayload(Head(toDevice))
    <3>1. \A h \in Headers : <<h>> # <<>>
          OBVIOUS
    <3> QED BY <1>0, <2>1, <2>2, <2>4, <3>1, StreamPayload, StreamNext
  <2> QED BY <2>1, <2>3, <2>4
<1>3. CASE DeviceWorks \/ FlashFails \/ HostTooSlow
  <2>1. toDevice' = toDevice /\ (Wait \/ Work)
        BY <1>3 DEF DeviceWorks, FlashFails, HostTooSlow, Wait, Work
  <2>2. /\ phase' = "header" => line' = <<>> \/ (line' = line /\ phase = "header")
        /\ phase' = "payload" => phase = "payload" /\ payload' = payload /\ chunk' = chunk
        /\ WholeFrame' => WholeFrame /\ payload' = payload /\ chunk' = chunk
        BY <1>0, <2>1, WorkKeepsPayload
  <2>3. \A h \in Headers : <<h>> # <<>>
        OBVIOUS
  <2>4. \A k \in DOMAIN toDevice' : toDevice'[k] \in Headers => Begins(toDevice', k, toDevice'[k])
        BY <2>1 DEF Stream
  <2>5. phase' = "header" => \A h \in Headers : line' = <<h>> => Begins(toDevice', 0, h)
        BY <2>1, <2>2, <2>3 DEF Stream
  <2>6. phase' = "payload" => /\ Carried(payload', chunk')
                              /\ Rest(toDevice', 0, chunk', Len(payload'))
        BY <2>1, <2>2 DEF Stream
  <2>7. WholeFrame' => Carried(payload', chunk')
        BY <2>2 DEF Stream
  <2> QED BY <2>4, <2>5, <2>6, <2>7, StreamNext
<1>4. CASE Idles
  <2>1. CASE toDevice' = toDevice
        BY <1>1, <1>4, <2>1, IdleMoves
  <2>2. CASE dev = "recovery" /\ toDevice # <<>> /\ toDevice' = Tail(toDevice)
    <3>1. phase' = "idle"
          BY <1>4, <2>2, IdleMoves DEF DevTrue, vars
    <3>2. \A k \in DOMAIN toDevice' : toDevice'[k] \in Headers => Begins(toDevice', k, toDevice'[k])
          BY <1>0, <2>2, StreamTail
    <3> QED BY <3>1, <3>2, StreamNext DEF WholeFrame
  <2> QED BY <1>4, <2>1, <2>2, IdleMoves
<1>5. CASE SelectUpdate
  <2>1. toDevice' = toDevice /\ phase' = "start"
        BY <1>5 DEF SelectUpdate, Enter
  <2>2. \A k \in DOMAIN toDevice' : toDevice'[k] \in Headers => Begins(toDevice', k, toDevice'[k])
        BY <2>1 DEF Stream
  <2> QED BY <2>1, <2>2, StreamNext DEF WholeFrame
<1>6. CASE Reset
  <2>1. toDevice' = <<>> /\ phase' = "idle"
        BY <1>6 DEF Reset, Return
  <2> QED BY <2>1, StreamNext DEF WholeFrame
<1>7. CASE LosesToken \/ UNCHANGED transferVars
      BY <1>1, <1>7 DEF LosesToken, transferVars
<1>8. CASE HostStarts \/ HostMoves
      BY <1>0, <1>8, StreamHost
<1> QED BY <1>2, <1>3, <1>4, <1>5, <1>6, <1>7, <1>8, DeviceSteps DEF TransferNext, Line

LEMMA StreamGenuine == Wire /\ Stream => Genuine
<1> SUFFICES ASSUME Wire, Stream, WholeFrame, NEW j \in 1 .. chunk.len
             PROVE  payload[j] = image[chunk.off + j]
    BY DEF Genuine
<1>1. Len(payload) = chunk.len /\ Carried(payload, chunk)
      BY DEF Stream, Wire, Inv, Shape, CheckedSoFar
<1> QED BY <1>1 DEF Carried

LEMMA StreamInit == TransferInit => Stream
BY DEF TransferInit, Init, Stream, WholeFrame

(* Whoever starts the script when, however the device is reset, whatever   *)
(* flash operation fails, however long anybody pauses, whichever lines to  *)
(* the host are lost and however often the script is started again: while  *)
(* no byte to the device is lost or damaged and one image is sent, success *)
(* means that the partition holds the image - for every CRC, even one that *)
(* tells no two payloads apart.                                            *)
THEOREM SuccessInstalled ==
    TransferSpec /\ [][~(LosesByte \/ DamagesByte)]_transferVars /\ [][UNCHANGED image]_transferVars
        => []SuccessMeansInstalled
<1> DEFINE Good == Honest /\ Stream
           Undamaged == [~(LosesByte \/ DamagesByte)]_transferVars
           Same == [UNCHANGED image]_transferVars
<1>1. TransferInit => Good
      BY HonestInit, StreamInit
<1>2. Good /\ [TransferNext]_transferVars /\ Undamaged /\ Same => Good'
  <2> SUFFICES ASSUME Good, [TransferNext]_transferVars, Undamaged, Same
               PROVE  Good'
      OBVIOUS
  <2>1. image' = image
        BY DEF transferVars, host
  <2>2. Honest'
        BY <2>1, HonestStep
  <2>3. CASE UNCHANGED transferVars
    <3>1. UNCHANGED <<vars, toDevice>>
          BY <2>3 DEF transferVars
    <3> QED BY <2>1, <2>2, <3>1 DEF Stream, Begins, Rest, Carried, WholeFrame, vars, locals
  <2>4. CASE ~LosesByte /\ ~DamagesByte
        BY <2>1, <2>2, <2>4, StreamStep DEF Honest, Bootable
  <2> QED BY <2>3, <2>4
<1>3. Good => Genuine
      BY StreamGenuine DEF Honest, Bootable
<1> HIDE DEF Good
<1>4. TransferSpec /\ [][~(LosesByte \/ DamagesByte)]_transferVars
          /\ [][UNCHANGED image]_transferVars => []Genuine
      BY <1>1, <1>2, <1>3, PTL DEF TransferSpec
<1> QED BY <1>4, SuccessInstalledIfGenuine, PTL

-----------------------------------------------------------------------------
(* What the pass of invalid_final_crc says of the device.                  *)

(* A check that failed leaves the device to the recovery console, which    *)
(* changes nothing here until the device is reset.                         *)
Rejected ==
    /\ ~ImageValid(flash, part)
    /\ dev = "recovery" \/ (dev = "update" /\ phase = "idle" /\ result = FALSE)

LEMMA RejectedStep ==
    ASSUME Inv, DevTrue, Rejected, Device
    PROVE  /\ UNCHANGED <<part, flash>>
           /\ Reset \/ Rejected'
           /\ ~Runs /\ ~SelectUpdate
<1>1. ~Runs
  <2>1. SUFFICES ASSUME Runs PROVE FALSE
        OBVIOUS
  <2>2. InSession /\ TypeOK
        BY <2>1 DEF Runs, InSession, Inv, Shape
  <2>3. phase # "idle" /\ dev = "update"
        BY <2>1, <2>2, DevRuns, SessionHistory
  <2> QED BY <2>3 DEF Rejected
<1>2. ~SelectUpdate
      BY DEF SelectUpdate, Rejected
<1>3. CASE Reset
      BY <1>1, <1>2, <1>3 DEF Reset
<1>4. CASE Idles
  <2>1. UNCHANGED <<part, flash, phase, result>>
        BY <1>4, IdleMoves DEF vars
  <2>2. dev' = "recovery"
        BY <1>4, IdleMoves DEF Goes, Rejected
  <2>3. Rejected'
        BY <2>1, <2>2 DEF Rejected
  <2> QED BY <1>1, <1>2, <2>1, <2>3
<1> QED BY <1>1, <1>2, <1>3, <1>4, DeviceKinds

FailsTrue == (\E t \in ToSet(toHost) : Is(t, "APP_CRC_FAIL")) => Rejected

(* A check without a read error that says it failed has failed.            *)
LEMMA CheckFailsTrue ==
    ASSUME Inv, TypeOK', DevTrue, Runs, Verify => CheckReads,
           NEW t \in ToSet(out'), Is(t, "APP_CRC_FAIL")
    PROVE  Rejected'
<1>1. InSession /\ TypeOK /\ CheckedSoFar
      BY DEF Runs, InSession, Inv, Shape
<1>2. dev' = "update"
      BY DevRuns DEF Runs
<1>3. CASE WriteChunk
  <2>1. chunk.off \in Int
        BY <1>1, <1>3, ChunkTypes DEF WriteChunk, CheckedSoFar, InFrame
  <2>2. /\ ~Is(EvtWithValue("CHUNK_OK", chunk.off), "APP_CRC_FAIL")
        /\ ~Is(Evt("READY_FOR_CHUNK"), "APP_CRC_FAIL")
        BY <2>1, EventFacts DEF Tokens
  <2>3. t \in {EvtWithValue("CHUNK_OK", chunk.off), Evt("READY_FOR_CHUNK")}
        BY <1>3, WroteSays, ElementsOf
  <2> QED BY <2>2, <2>3
<1>4. CASE Says(out', Talk)
  <2>1. t \in Events /\ t.evt \in Talk
        BY <1>4, ElementsOf DEF Says, ToSet
  <2> QED BY <2>1, EventFacts DEF Talk
<1>5. CASE Verify
  <2>1. PICK v \in {"APP_CRC_OK", "APP_CRC_FAIL"} :
            /\ out' = <<Evt("APP_CRC_CHECK"), Evt(v)>>
            /\ v = "APP_CRC_FAIL" => ~result'
        BY <1>5, CheckSays
  <2>2. t \in {Evt("APP_CRC_CHECK"), Evt(v)}
        BY <2>1, ElementsOf
  <2>3. v = "APP_CRC_FAIL"
        BY <2>2, EventFacts DEF Tokens
  <2>4. ~result' /\ ~ImageValid(flash, part)
        BY <1>5, <2>1, <2>3 DEF CheckReads
  <2>5. UNCHANGED <<part, flash>> /\ phase' = "idle"
        BY <1>5 DEF Verify, Return, Unwritten
  <2>6. result' = FALSE
        BY <2>4 DEF TypeOK
  <2> QED BY <1>2, <2>4, <2>5, <2>6 DEF Rejected
<1> QED BY <1>1, <1>3, <1>4, <1>5, SessionTalks

(* No check refuses a good image because the flash could not be read.      *)
ChecksRead == /\ Verify => CheckReads
              /\ BootCheckFails => ~ImageValid(flash, part)

LEMMA FailsTrueStep ==
    ASSUME Wire, DevTrue, FailsTrue, AnyStep, ChecksRead
    PROVE  FailsTrue'
<1>1. Inv /\ WireTypes /\ TypeOK'
      BY AnyStepWire DEF Wire, Inv, Shape
<1>2. SUFFICES ASSUME NEW t \in ToSet(toHost'), Is(t, "APP_CRC_FAIL")
               PROVE  Rejected'
      BY DEF FailsTrue
<1>3. CASE ~Device
  <2>1. DeviceRests /\ t \in ToSet(toHost)
        BY <1>1, <1>3, AnyStepLines
  <2> QED BY <1>2, <2>1 DEF FailsTrue, Rejected, DeviceRests, vars
<1>4. CASE Device
  <2>1. ToSet(toHost') # {}
        OBVIOUS
  <2>2. ~Reset
        BY <2>1, ElementsOf DEF Reset
  <2>3. CASE t \in ToSet(toHost)
        BY <1>1, <1>2, <1>4, <2>2, <2>3, RejectedStep DEF FailsTrue
  <2>4. CASE t \notin ToSet(toHost)
    <3>1. /\ ~Is(AppStart, "APP_CRC_FAIL")
          /\ ~Is(Evt("DECISION_UPDATE"), "APP_CRC_FAIL")
          /\ ~Is(Evt("READY_FOR_UPDATE"), "APP_CRC_FAIL")
          BY EventFacts DEF Is, AppStart, Tokens
    <3>2. \/ Runs /\ t \in ToSet(out')
          \/ Idles /\ t \in ToldNow
          BY <1>1, <1>2, <1>4, <2>1, <2>4, <3>1, DeviceLines
    <3>3. CASE Runs /\ t \in ToSet(out')
          BY <1>1, <1>2, <3>3, CheckFailsTrue DEF ChecksRead
    <3>4. CASE Idles /\ t \in ToldNow
      <4>1. BootCheckFails
            BY <1>2, <3>1, <3>4, ToldEvents DEF ToldNow
      <4>2. dev' = "recovery" /\ UNCHANGED <<part, flash>>
            BY <4>1 DEF BootCheckFails, Proceeds, vars
      <4> QED BY <4>1, <4>2 DEF ChecksRead, Rejected
    <3> QED BY <3>2, <3>3, <3>4
  <2> QED BY <2>3, <2>4
<1> QED BY <1>3, <1>4

(* Which script or case a wait belongs to.                                 *)
CaseTrue ==
    /\ hpc \in Waiting => case = "none"
    /\ hpc = "refusal" => case \in Refusable
    /\ hpc \in {"stored", "next", "closing", "check", "check again"} => case = "invalid_final_crc"
    /\ hpc \in {"apart", "broken", "settled", "back", "heartbeat"} => case = "partial_transfer"

LEMMA DeviceKeepsHost ==
    ASSUME Device
    PROVE  UNCHANGED <<hpc, code>>
<1>1. Runs \/ SelectUpdate \/ Idles => UNCHANGED host
      BY IdleMoves DEF Runs, SelectUpdate
<1> QED BY <1>1, DeviceKinds DEF host, Reset

LEMMA LineKeepsHost ==
    ASSUME Line
    PROVE  UNCHANGED <<hpc, code>>
BY DEF Line, LosesByte, DamagesByte, LosesToken, host

LEMMA HostStays ==
    ASSUME HostMoves
    PROVE  hpc \in Waiting /\ hpc' \in Waiting \cup {"off"}
<1>1. ASSUME NEW t, Answers(t), hpc \in Waiting PROVE hpc' \in Waiting \cup {"off"}
      BY <1>1 DEF Answers, Ignores, Fails, Returns, Waits, Writes, SendsChunk, Acknowledges,
         host, Waiting
<1>2. CASE HostReads
      BY <1>1, <1>2, HostAnswers DEF HostReads
<1>3. CASE HostTimesOut \/ HostReconnects \/ HostLosesPort
      BY <1>3 DEF HostTimesOut, CanTimeOut, HostReconnects, HostLosesPort, Fails, Returns
<1> QED BY <1>2, <1>3 DEF HostMoves

LEMMA CaseTrueStep ==
    ASSUME CaseKnown, CaseTrue, [NegativeNext]_negativeVars
    PROVE  CaseTrue'
<1>1. CASE CaseStarts
      BY <1>1 DEF CaseStarts, CaseTrue, Waiting
<1>2. CASE CaseMoves
  <2>1. case' = case /\ hpc \in CaseWaiting
        BY <1>2 DEF CaseMoves, CaseReads, CaseWaitEnds, CaseLosesPort, CaseReopens, CaseWaiting
  <2>2. ASSUME CaseAnswers
        PROVE  /\ hpc' \notin Waiting
               /\ hpc' = "refusal" => hpc = "refusal" \/ case \in Refusable
               /\ hpc' \in {"stored", "next", "closing", "check", "check again"} =>
                      case = "invalid_final_crc"
               /\ hpc' \in {"apart", "broken", "settled", "back", "heartbeat"} =>
                      hpc' = hpc \/ case = "partial_transfer"
        BY <2>1, <2>2 DEF CaseAnswers, Ignores, Fails, Returns, Waits, Writes, Disconnects,
           Advances, CaseTrue, host, Waiting, CaseWaiting, Refusable
  <2>3. CASE CaseReads \/ CaseWaitEnds
        BY <2>1, <2>2, <2>3, CaseAnswersWhich DEF CaseTrue
  <2>4. CASE CaseLosesPort \/ CaseReopens
        BY <2>1, <2>4 DEF CaseLosesPort, CaseReopens, Fails, Returns, CaseTrue, Waiting
  <2> QED BY <1>2, <2>3, <2>4 DEF CaseMoves
<1>3. CASE HostStarts /\ case' = "none"
      BY <1>3 DEF HostStarts, CaseTrue
<1>4. CASE HostMoves /\ UNCHANGED case
      BY <1>4, HostStays DEF CaseTrue, Waiting
<1>5. CASE (Device \/ Line) /\ UNCHANGED case
      BY <1>5, DeviceKeepsHost, LineKeepsHost DEF CaseTrue
<1>6. CASE UNCHANGED negativeVars
      BY <1>6 DEF negativeVars, transferVars, host, CaseTrue
<1> QED BY <1>1, <1>2, <1>3, <1>4, <1>5, <1>6 DEF NegativeNext

(* The case passes on the device's refusal of its image, on no other line. *)
LEMMA CrcCasePasses ==
    ASSUME WireTypes, CaseKnown, CaseTrue, CaseMoves, case = "invalid_final_crc",
           code # "pass", code' = "pass"
    PROVE  hpc' = "off" /\ \E t \in ToSet(toHost) : Is(t, "APP_CRC_FAIL")
<1>1. hpc \notin {"refusal", "apart", "broken", "settled", "back", "heartbeat"}
      BY DEF CaseTrue, Refusable
<1>2. ~(CaseLosesPort \/ CaseReopens)
      BY <1>1 DEF CaseLosesPort, CaseReopens, Fails, Returns
<1>3. ~CaseWaitEnds
      BY <1>1 DEF CaseWaitEnds, WaitEnds, Advances, Fails, Returns
<1>4. CaseReads
      BY <1>2, <1>3 DEF CaseMoves
<1> DEFINE t == Head(toHost)
<1>5. t \in ToSet(toHost)
      BY <1>4, ElementsOf DEF CaseReads, WireTypes
<1>6. Takes(t) /\ hpc \in {"shake", "stored", "next", "closing", "check", "check again"}
      BY <1>1, <1>4 DEF CaseReads, CaseWaiting
<1> HIDE DEF t
<1>7. hpc # "shake"
  <2>1. SUFFICES ASSUME hpc = "shake" PROVE FALSE
        OBVIOUS
  <2>2. FirstMove \/ Writes(StartLineBytes, "shake") \/ Fails("fail") \/ Ignores
        BY <1>6, <2>1 DEF Takes, Shake
  <2>3. FirstMove => Writes(FrameAt(0), "stored")
        BY DEF FirstMove
  <2> QED BY <2>2, <2>3 DEF Writes, Fails, Returns, Ignores, host
<1>8. hpc \notin {"stored", "next", "closing"}
      BY <1>6 DEF Takes, Skips, Waits, Advances, Ignores, host
<1>9. CrcResult(t)
      BY <1>6, <1>7, <1>8 DEF Takes
<1>10. Is(t, "APP_CRC_FAIL") /\ hpc' = "off"
      BY <1>9 DEF CrcResult, Waits, Fails, Returns, Ignores, host
<1> QED BY <1>5, <1>10

(* From the pass to the next start of a script the device refuses its      *)
(* image, or was reset and hears from nobody.                              *)
PassTrue ==
    case = "invalid_final_crc" /\ code = "pass" =>
        /\ hpc = "off" /\ ~ImageValid(flash, part)
        /\ Rejected \/ Cleared

LEMMA PassTrueStep ==
    ASSUME Wire, DevTrue, CaseKnown, CaseTrue, FailsTrue, PassTrue, [NegativeNext]_negativeVars
    PROVE  PassTrue'
<1>0. Inv /\ WireTypes
      BY DEF Wire
<1> SUFFICES ASSUME case' = "invalid_final_crc", code' = "pass"
             PROVE  hpc' = "off" /\ ~ImageValid(flash', part') /\ (Rejected' \/ Cleared')
    BY DEF PassTrue
<1>1. CASE Device /\ UNCHANGED case
  <2>1. /\ hpc' = "off" /\ ~ImageValid(flash, part) /\ (Rejected \/ Cleared)
        BY <1>1, DeviceKeepsHost DEF PassTrue
  <2>2. Rejected => UNCHANGED <<part, flash>> /\ (Rejected' \/ Cleared')
        BY <1>0, <1>1, RejectedStep, ResetClears
  <2>3. Cleared => UNCHANGED <<part, flash>> /\ Cleared'
        BY <1>0, <1>1, ClearedStep
  <2> QED BY <2>1, <2>2, <2>3
<1>2. ASSUME DeviceRests
      PROVE  /\ ~ImageValid(flash, part) => ~ImageValid(flash', part')
             /\ Rejected => Rejected'
      BY <1>2 DEF DeviceRests, vars, Rejected
<1>3. CASE Line /\ UNCHANGED case
  <2>1. hpc' = "off" /\ ~ImageValid(flash, part) /\ (Rejected \/ Cleared)
        BY <1>3, LineKeepsHost DEF PassTrue
  <2>2. toDevice = <<>> => toDevice' = <<>>
        BY <1>3 DEF Line, LosesByte, DamagesByte, LosesToken
  <2>3. Cleared => Cleared'
        BY <1>3, <2>2, Elsewhere, ClearedRests DEF Cleared
  <2> QED BY <1>2, <1>3, <2>1, <2>3, Elsewhere
<1>4. CASE CaseStarts \/ (HostStarts /\ case' = "none")
      BY <1>4 DEF CaseStarts
<1>5. CASE HostMoves /\ UNCHANGED case
      BY <1>5, HostStays DEF CaseTrue
<1>6. CASE CaseMoves
  <2>1. case' = case /\ hpc # "off"
        BY <1>6 DEF CaseMoves, CaseReads, CaseWaitEnds, CaseLosesPort, CaseReopens, CaseWaiting
  <2>2. code # "pass"
        BY <2>1 DEF PassTrue
  <2>3. hpc' = "off" /\ Rejected
        BY <1>0, <1>6, <2>1, <2>2, CrcCasePasses DEF FailsTrue
  <2> QED BY <1>2, <1>6, <2>3, Elsewhere DEF Rejected
<1>7. CASE UNCHANGED negativeVars
  <2>1. DeviceRests /\ UNCHANGED <<hpc, code, case, toDevice>>
        BY <1>7 DEF negativeVars, transferVars, host, DeviceRests
  <2>2. hpc' = "off" /\ ~ImageValid(flash, part) /\ (Rejected \/ Cleared)
        BY <2>1 DEF PassTrue
  <2>3. Cleared => Cleared'
        BY <2>1, ClearedRests DEF Cleared
  <2> QED BY <1>2, <2>1, <2>2, <2>3
<1> QED BY <1>1, <1>3, <1>4, <1>5, <1>6, <1>7 DEF NegativeNext

CrcTrue == NegativeWire /\ DevTrue /\ CaseTrue /\ FailsTrue /\ PassTrue

LEMMA CrcTrueInit == NegativeInit => CrcTrue
<1> SUFFICES ASSUME NegativeInit PROVE CrcTrue
    OBVIOUS
<1>1. ToSet(toHost) = {}
      BY ElementsOf DEF NegativeInit, TransferInit
<1>2. CaseTrue /\ PassTrue
      BY DEF NegativeInit, TransferInit, CaseTrue, PassTrue, Waiting
<1> QED BY <1>1, <1>2, NegativeWireInit, DevInit DEF CrcTrue, FailsTrue, NegativeInit

LEMMA CrcTrueStep ==
    ASSUME CrcTrue, [NegativeNext]_negativeVars, ChecksRead
    PROVE  CrcTrue'
<1>1. AnyStep
      BY NegativeSteps DEF CrcTrue, NegativeWire
<1> QED
  BY <1>1, NegativeStep, AnyStepDev, CaseTrueStep, FailsTrueStep, PassTrueStep
     DEF CrcTrue, NegativeWire

(* As long as no check fails because the flash could not be read, the pass *)
(* of invalid_final_crc means that the device does not run what is in its  *)
(* partition: no answer of an earlier script or session, and none that was *)
(* skipped, gives it, whatever else is lost, damaged or reset.             *)
THEOREM CrcCaseIsTrue ==
    NegativeSpec /\ [][ChecksRead]_negativeVars => []CrcCaseMeansInvalid
<1>1. UNCHANGED negativeVars => ChecksRead
  <2>1. SUFFICES ASSUME UNCHANGED negativeVars, Verify \/ BootCheckFails PROVE FALSE
        BY DEF ChecksRead
  <2>2. phase' = phase /\ dev' = dev
        BY <2>1 DEF negativeVars, transferVars, vars
  <2>3. CASE Verify
        BY <2>2, <2>3 DEF Verify, Return
  <2>4. CASE BootCheckFails
        BY <2>2, <2>4 DEF BootCheckFails, Proceeds
  <2> QED BY <2>1, <2>3, <2>4
<1>2. CrcTrue /\ [NegativeNext]_negativeVars /\ [ChecksRead]_negativeVars => CrcTrue'
      BY <1>1, CrcTrueStep
<1>3. CrcTrue => CrcCaseMeansInvalid
      BY DEF CrcTrue, PassTrue, CrcCaseMeansInvalid
<1> QED BY <1>2, <1>3, CrcTrueInit, PTL DEF NegativeSpec

-----------------------------------------------------------------------------
(* The frames the cases want refused.                                      *)

(* Behind position at of seq come a line end and no more than n cells of   *)
(* b"A" or b"B", and nothing else.                                         *)
Trails(seq, at, n) ==
    /\ at + 1 \in DOMAIN seq /\ seq[at + 1] = LineEnd
    /\ Len(seq) <= at + 1 + n
    /\ \A k \in DOMAIN seq : k > at + 1 => seq[k] = Cell(Fill)

(* Behind every header come no more than n such cells: in the line to the  *)
(* device, and while the device reads the header and the payload.          *)
Trail(n) ==
    /\ \A k \in DOMAIN toDevice : toDevice[k] \in Headers => Trails(toDevice, k, n)
    /\ phase = "header" => \A h \in Headers : line = <<h>> => Trails(toDevice, 0, n)
    /\ phase = "payload" => /\ \A j \in DOMAIN payload : payload[j] = Fill
                            /\ \A k \in DOMAIN toDevice : toDevice[k] = Cell(Fill)
                            /\ Len(payload) + Len(toDevice) <= n

LEMMA TrailsTail ==
    ASSUME NEW seq \in Seq(Letters), seq # <<>>, NEW at \in Nat \ {0}, NEW n \in Nat,
           Trails(seq, at, n)
    PROVE  Trails(Tail(seq), at - 1, n)
<1>1. /\ at + 1 \in DOMAIN seq /\ seq[at + 1] = LineEnd /\ Len(seq) <= at + 1 + n
      /\ \A k \in DOMAIN seq : k > at + 1 => seq[k] = Cell(Fill)
      BY DEF Trails
<1>2. Tail(seq) \in Seq(Letters) /\ Len(Tail(seq)) = Len(seq) - 1 /\ Len(seq) \in Nat
      OBVIOUS
<1>3. (at - 1) + 1 \in DOMAIN Tail(seq) /\ Tail(seq)[(at - 1) + 1] = LineEnd
  <2>1. at \in 1 .. Len(seq) - 1 /\ (at - 1) + 1 = at
        BY <1>1, TailOf
  <2> QED BY <1>1, <2>1, TailOf
<1>4. Len(Tail(seq)) <= (at - 1) + 1 + n
      BY <1>1, <1>2
<1>5. ASSUME NEW k \in DOMAIN Tail(seq), k > (at - 1) + 1
      PROVE  Tail(seq)[k] = Cell(Fill)
  <2>1. k \in 1 .. Len(seq) - 1 /\ Tail(seq)[k] = seq[k + 1]
        BY <1>5, TailOf
  <2>2. k + 1 \in DOMAIN seq /\ k + 1 > at + 1
        BY <1>5, <2>1, TailOf
  <2> QED BY <1>1, <2>1, <2>2
<1> QED BY <1>3, <1>4, <1>5 DEF Trails

LEMMA TrailRead ==
    ASSUME WireTypes, NEW n \in Nat, Trail(n), toDevice # <<>>, toDevice' = Tail(toDevice),
           NEW k \in DOMAIN toDevice', toDevice'[k] \in Headers
    PROVE  Trails(toDevice', k, n)
<1>1. toDevice \in Seq(Letters)
      BY DEF WireTypes
<1>2. k \in Nat \ {0} /\ k + 1 \in DOMAIN toDevice /\ toDevice'[k] = toDevice[k + 1]
      /\ (k + 1) - 1 = k /\ k + 1 \in Nat \ {0}
      BY <1>1, TailOf
<1>3. Trails(toDevice, k + 1, n)
      BY <1>2 DEF Trail
<1>4. Trails(Tail(toDevice), (k + 1) - 1, n)
      BY <1>1, <1>2, <1>3, TrailsTail
<1> QED BY <1>2, <1>4

LEMMA TrailNext ==
    ASSUME NEW n \in Nat,
           \A k \in DOMAIN toDevice' : toDevice'[k] \in Headers => Trails(toDevice', k, n),
           phase' = "header" => \A h \in Headers : line' = <<h>> => Trails(toDevice', 0, n),
           phase' = "payload" => /\ \A j \in DOMAIN payload' : payload'[j] = Fill
                                 /\ \A k \in DOMAIN toDevice' : toDevice'[k] = Cell(Fill)
                                 /\ Len(payload') + Len(toDevice') <= n
    PROVE  Trail(n)'
BY DEF Trail, Trails

LEMMA TrailText ==
    ASSUME Inv, WireTypes, NEW n \in Nat, Trail(n), toDevice # <<>>, toDevice' = Tail(toDevice),
           ReadsAsText(Head(toDevice))
    PROVE  Trail(n)' /\ ~WholeFrame'
<1> DEFINE x == Head(toDevice)
<1>0. /\ TypeOK /\ toDevice \in Seq(Letters) /\ line \in Seq(Symbols)
      /\ 1 \in DOMAIN toDevice /\ x = toDevice[1]
      BY TailOf DEF Inv, Shape, TypeOK, WireTypes
<1>1. /\ \/ line' = <<>> \/ line' = line
         \/ x \in Symbols \ {LineEnd} /\ line' = Append(line, x)
         \/ x \in Cells /\ line' = Append(line, Junk)
      /\ ~InFrame /\ (line' # <<>> => phase' = phase)
      /\ InFrame' => /\ phase = "header" /\ phase' = "payload" /\ line' = <<>>
                     /\ chunk' \in Headers /\ line = <<chunk'>> /\ payload' = payload
                     /\ x \notin Symbols \ {LineEnd}
      BY <1>0, TextMakesFrame
<1>2. \A g \in Headers : x = g => Trails(toDevice', 0, n)
  <2>1. SUFFICES ASSUME NEW g \in Headers, x = g PROVE Trails(toDevice', 0, n)
        OBVIOUS
  <2>2. Trails(toDevice, 1, n)
        BY <1>0, <2>1 DEF Trail
  <2>3. Trails(Tail(toDevice), 1 - 1, n)
        BY <1>0, <2>2, TrailsTail
  <2> QED BY <2>3
<1>3. \A g \in Headers : phase = "header" /\ line = <<g>> => x = LineEnd
      BY <1>0 DEF Trail, Trails
<1>4. x = LineEnd => line' = <<>>
  <2>1. ASSUME x = LineEnd PROVE LineComplete
        BY <2>1, Alphabet DEF ReadsAsText
  <2> QED BY <2>1 DEF LineComplete, StartLine, EndLine, BadHeader, HeaderLine, Fail, NextChunk,
             Return, ClearLocals
<1>5. ASSUME phase' = "header", NEW h \in Headers, line' = <<h>>
      PROVE  Trails(toDevice', 0, n)
  <2>1. line' # <<>>
        BY <1>5
  <2>2. phase = "header"
        BY <1>1, <1>5, <2>1
  <2>3. line' # line
        BY <1>3, <1>4, <1>5, <2>1, <2>2
  <2>4. ASSUME NEW y, line' = Append(line, y)
        PROVE  y = h
        BY <1>0, <1>5, <2>4
  <2>5. Junk \notin Headers
        BY LetterSets
  <2> QED BY <1>1, <1>2, <2>1, <2>3, <2>4, <2>5
<1>6. ASSUME phase' = "payload"
      PROVE  /\ \A j \in DOMAIN payload' : payload'[j] = Fill
             /\ \A k \in DOMAIN toDevice' : toDevice'[k] = Cell(Fill)
             /\ Len(payload') + Len(toDevice') <= n
  <2>1. /\ phase = "header" /\ chunk' \in Headers /\ line = <<chunk'>> /\ payload' = payload
        BY <1>1, <1>6 DEF InFrame
  <2>2. payload' = <<>>
        BY <1>1, <2>1 DEF Inv, Shape, CheckedSoFar
  <2>3. Len(toDevice) <= 0 + 1 + n /\ \A k \in DOMAIN toDevice : k > 0 + 1 => toDevice[k] = Cell(Fill)
        BY <2>1 DEF Trail, Trails
  <2>4. \A k \in DOMAIN toDevice' : toDevice'[k] = Cell(Fill)
    <3>1. TAKE k \in DOMAIN toDevice'
    <3>2. k \in 1 .. Len(toDevice) - 1 /\ toDevice'[k] = toDevice[k + 1]
          BY <1>0, TailOf
    <3>3. k + 1 \in DOMAIN toDevice /\ k + 1 > 0 + 1
          BY <1>0, <3>2, TailOf
    <3> QED BY <2>3, <3>2, <3>3
  <2>5. Len(toDevice') = Len(toDevice) - 1 /\ Len(toDevice) \in Nat
        BY <1>0
  <2>6. Len(payload') + Len(toDevice') <= n
        BY <2>2, <2>3, <2>5
  <2> QED BY <2>2, <2>4, <2>6
<1>7. ~WholeFrame'
      BY <1>1 DEF InFrame, WholeFrame
<1>8. \A k \in DOMAIN toDevice' : toDevice'[k] \in Headers => Trails(toDevice', k, n)
      BY TrailRead
<1>9. Trail(n)'
      BY <1>5, <1>6, <1>8, TrailNext
<1> QED BY <1>7, <1>9

LEMMA TrailPayload ==
    ASSUME Inv, WireTypes, NEW n \in Nat, Trail(n), toDevice # <<>>, toDevice' = Tail(toDevice),
           ReadsAsPayload(Head(toDevice))
    PROVE  /\ Trail(n)'
           /\ WholeFrame' => /\ \A j \in DOMAIN payload' : payload'[j] = Fill
                             /\ Len(payload') <= n
<1> DEFINE x == Head(toDevice)
<1>0. /\ TypeOK /\ CheckedSoFar /\ toDevice \in Seq(Letters)
      /\ DOMAIN toDevice = 1 .. Len(toDevice) /\ 1 \in DOMAIN toDevice /\ x = toDevice[1]
      /\ Len(toDevice) \in Nat /\ Len(Tail(toDevice)) = Len(toDevice) - 1
      BY TailOf DEF Inv, Shape, WireTypes
<1>1. phase = "payload" /\ payload \in Seq(Data) /\ Len(payload) \in Nat
      BY <1>0 DEF ReadsAsPayload, PayloadByte, TypeOK
<1>2. /\ \A j \in DOMAIN payload : payload[j] = Fill
      /\ \A k \in DOMAIN toDevice : toDevice[k] = Cell(Fill)
      /\ Len(payload) + Len(toDevice) <= n
      BY <1>1 DEF Trail
<1>3. Fill \in Data /\ x = Cell(Fill)
      BY <1>0, <1>2, NegativeAssumption
<1>4. PayloadByte(Fill)
  <2>1. x \in Cells /\ x.cell = Fill
        BY <1>3 DEF Cell, Cells
  <2>2. x \notin Symbols
        BY <2>1, Alphabet
  <2> QED BY <2>1, <2>2 DEF ReadsAsPayload
<1>5. /\ DOMAIN Append(payload, Fill) = 1 .. Len(payload) + 1
      /\ Len(Append(payload, Fill)) = Len(payload) + 1
      /\ \A j \in 1 .. Len(payload) + 1 : Append(payload, Fill)[j] = Fill
      BY <1>1, <1>2, <1>3
<1>6. /\ \A k \in DOMAIN toDevice' : toDevice'[k] = Cell(Fill)
      /\ Len(toDevice') = Len(toDevice) - 1
      BY <1>0, <1>2, TailOf
<1>7. \A k \in DOMAIN toDevice' : toDevice'[k] \notin Headers
  <2>1. Cell(Fill) \notin Headers
        BY <1>3, LetterSets DEF Cells
  <2> QED BY <1>6, <2>1
<1>8. CASE Fail(chunk.off)
  <2>1. phase' \in {"idle", "header"} /\ line' = <<>>
        BY <1>8 DEF Fail, Return, NextChunk, ClearLocals
  <2>2. \A h \in Headers : line' # <<h>>
        BY <2>1
  <2>3. Trail(n)'
        BY <1>7, <2>1, <2>2, TrailNext
  <2> QED BY <2>1, <2>3 DEF WholeFrame
<1>9. CASE ~Fail(chunk.off)
  <2>1. payload' = Append(payload, Fill) /\ phase' \in {"payload", "erase"}
        BY <1>1, <1>4, <1>9 DEF PayloadByte
  <2>2. \A j \in DOMAIN payload' : payload'[j] = Fill
        BY <1>5, <2>1
  <2>3. Len(payload') + Len(toDevice') <= n /\ Len(payload') <= n
    <3>1. Len(payload') = Len(payload) + 1 /\ Len(toDevice') = Len(toDevice) - 1
          BY <1>5, <1>6, <2>1
    <3>2. Len(toDevice) >= 1
          BY <1>0
    <3> QED BY <1>0, <1>1, <1>2, <3>1, <3>2
  <2>4. Trail(n)'
        BY <1>6, <1>7, <2>1, <2>2, <2>3, TrailNext
  <2> QED BY <2>2, <2>3, <2>4
<1> QED BY <1>8, <1>9

LEMMA TrailWork ==
    ASSUME Inv, WireTypes, NEW n \in Nat, Trail(n), ~WholeFrame, toDevice' = toDevice, Wait \/ Work
    PROVE  Trail(n)' /\ ~WholeFrame'
<1>1. TypeOK /\ CheckedSoFar
      BY DEF Inv, Shape
<1>2. /\ phase' = "header" => line' = <<>> \/ (line' = line /\ phase = "header")
      /\ phase' = "payload" => phase = "payload" /\ payload' = payload
      /\ ~WholeFrame'
      BY <1>1, WorkKeepsPayload
<1>3. \A h \in Headers : <<h>> # <<>>
      OBVIOUS
<1>4. \A k \in DOMAIN toDevice' : toDevice'[k] \in Headers => Trails(toDevice', k, n)
      BY DEF Trail
<1>5. phase' = "header" => \A h \in Headers : line' = <<h>> => Trails(toDevice', 0, n)
      BY <1>2, <1>3 DEF Trail
<1>6. phase' = "payload" => /\ \A j \in DOMAIN payload' : payload'[j] = Fill
                            /\ \A k \in DOMAIN toDevice' : toDevice'[k] = Cell(Fill)
                            /\ Len(payload') + Len(toDevice') <= n
      BY <1>2 DEF Trail
<1> QED BY <1>2, <1>4, <1>5, <1>6, TrailNext

(* What the device makes of the trail when nothing disturbs it.            *)
LEMMA TrailDevice ==
    ASSUME Wire, DevTrue, NEW n \in Nat, Trail(n), ~WholeFrame, Device, faults' = faults
    PROVE  /\ Trail(n)' /\ UNCHANGED <<part, flash>>
           /\ WholeFrame' => /\ \A j \in DOMAIN payload' : payload'[j] = Fill
                             /\ Len(payload') <= n
<1>0. Inv /\ TypeOK /\ WireTypes /\ faults \in Nat
      BY DEF Wire, Inv, Shape, Limits
<1>1. ~FlashFails
  <2>1. ASSUME Disturbed PROVE FALSE
    <3>1. faults' = faults + 1
          BY <2>1 DEF Disturbed
    <3> QED BY <1>0, <3>1
  <2> QED BY <2>1 DEF FlashFails
<1>2. CASE DeviceReads
  <2>1. /\ toDevice # <<>> /\ toDevice' = Tail(toDevice)
        /\ ReadsAsText(Head(toDevice)) \/ ReadsAsPayload(Head(toDevice))
        BY <1>2 DEF DeviceReads
  <2>2. UNCHANGED <<part, flash>>
        BY <2>1 DEF ReadsAsText, ReadsAsPayload, LineByte, LineComplete, StartLine, EndLine,
           BadHeader, HeaderLine, PayloadByte, Unwritten
  <2> QED BY <1>0, <2>1, <2>2, TrailText, TrailPayload
<1>3. CASE DeviceWorks \/ HostTooSlow
  <2>1. toDevice' = toDevice /\ (Wait \/ Work)
        BY <1>3 DEF DeviceWorks, HostTooSlow, Wait, Work
  <2>2. ~(SkipErased \/ EraseSector \/ WriteChunk)
        BY DEF WholeFrame, SkipErased, EraseSector, WriteChunk
  <2>3. UNCHANGED <<part, flash>>
        BY <1>3, <2>2 DEF DeviceWorks, HostTooSlow, Verify, LineIdle, PayloadIdle, Unwritten
  <2> QED BY <1>0, <2>1, <2>3, TrailWork
<1>4. CASE Idles
  <2>1. UNCHANGED vars
        BY <1>4, IdleMoves
  <2>2. CASE toDevice' = toDevice
        BY <2>1, <2>2 DEF Trail, Trails, WholeFrame, vars, locals
  <2>3. CASE dev = "recovery" /\ toDevice # <<>> /\ toDevice' = Tail(toDevice)
    <3>1. phase' = "idle" /\ UNCHANGED <<part, flash>>
          BY <2>1, <2>3 DEF DevTrue, vars
    <3>2. \A k \in DOMAIN toDevice' : toDevice'[k] \in Headers => Trails(toDevice', k, n)
          BY <1>0, <2>3, TrailRead
    <3> QED BY <3>1, <3>2, TrailNext DEF WholeFrame
  <2> QED BY <1>4, <2>2, <2>3, IdleMoves
<1>5. CASE SelectUpdate
  <2>1. toDevice' = toDevice /\ phase' = "start" /\ UNCHANGED <<part, flash>>
        BY <1>5 DEF SelectUpdate, Enter
  <2>2. \A k \in DOMAIN toDevice' : toDevice'[k] \in Headers => Trails(toDevice', k, n)
        BY <2>1 DEF Trail
  <2> QED BY <2>1, <2>2, TrailNext DEF WholeFrame
<1>6. CASE Reset
  <2>1. toDevice' = <<>> /\ phase' = "idle" /\ UNCHANGED <<part, flash>>
        BY <1>6 DEF Reset, Return
  <2>2. \A k \in DOMAIN toDevice' : toDevice'[k] \in Headers => Trails(toDevice', k, n)
        BY <2>1
  <2> QED BY <2>1, <2>2, TrailNext DEF WholeFrame
<1> QED BY <1>1, <1>2, <1>3, <1>4, <1>5, <1>6, DeviceSteps

(* The header a case sends, and how many cells behind it.                  *)
HeaderFor(c, p) ==
    CASE c = "corrupt_chunk" -> [HeaderOf(Whole, 0) EXCEPT !.crc = BadCrc(Whole)]
      [] c = "oob_offset" -> [len |-> ChunkMax, off |-> p.size, crc |-> 0]
      [] c = "partial_transfer" -> HeaderOf(Whole, 0)

CellsFor(c) ==
    CASE c = "corrupt_chunk" -> ChunkMax
      [] c = "oob_offset" -> 0
      [] c = "partial_transfer" -> PartialSize

(* BadCrc is a wrong one.                                                  *)
LEMMA BadCrcDiffers == BadCrc(Whole) # Crc16(Whole)
<1>1. PICK c \in 0 .. CrcRange - 1 : c = Crc16(Whole)
      BY CrcInRange
<1>2. CrcRange \in Nat /\ CrcRange > 1
      BY NegativeAssumption
<1>3. c + 1 = CrcRange \/ c + 1 \in 0 .. CrcRange - 1
      BY <1>2
<1>4. (c + 1) % CrcRange # c
  <2>1. CASE c + 1 = CrcRange
    <3>1. CrcRange % CrcRange = 0 /\ c > 0
          BY <1>2, <2>1
    <3> QED BY <2>1, <3>1
  <2>2. CASE c + 1 \in 0 .. CrcRange - 1
    <3>1. (c + 1) % CrcRange = c + 1
          BY <1>2, <2>2
    <3> QED BY <3>1
  <2> QED BY <1>3, <2>1, <2>2
<1> QED BY <1>1, <1>4 DEF BadCrc

(* No payload of such cells is the one its header announces.               *)
LEMMA NeverIntact ==
    ASSUME part \in Partitions, NEW c \in Refusable, NEW p, NEW data \in Seq(Data),
           \A j \in DOMAIN data : data[j] = Fill, Len(data) <= CellsFor(c),
           Len(data) = HeaderFor(c, p).len, Crc16(data) = HeaderFor(c, p).crc
    PROVE  FALSE
<1>1. /\ ChunkMax \in Nat /\ ChunkMax > 0 /\ PartialSize \in 0 .. ChunkMax - 1
      BY LimitsAssumption, NegativeAssumption
<1>2. Whole \in Seq(Data) /\ Len(Whole) = ChunkMax /\ \A j \in 1 .. ChunkMax : Whole[j] = Fill
      BY CaseBytes, <1>1 DEF Whole
<1>3. CASE c = "corrupt_chunk"
  <2>1. Len(data) = ChunkMax /\ Crc16(data) = BadCrc(Whole)
        BY <1>2, <1>3 DEF HeaderFor, HeaderOf
  <2>2. data = Whole
    <3>1. DOMAIN data = 1 .. ChunkMax
          BY <2>1
    <3> QED BY <1>2, <2>1, <3>1
  <2> QED BY <2>1, <2>2, BadCrcDiffers
<1>4. CASE c = "oob_offset"
  <2>1. Len(data) = ChunkMax /\ Len(data) <= 0
        BY <1>4 DEF HeaderFor, CellsFor
  <2> QED BY <1>1, <2>1
<1>5. CASE c = "partial_transfer"
  <2>1. Len(data) = ChunkMax /\ Len(data) <= PartialSize
        BY <1>2, <1>5 DEF HeaderFor, CellsFor, HeaderOf
  <2> QED BY <1>1, <2>1
<1> QED BY <1>3, <1>4, <1>5 DEF Refusable

LEMMA FillsFrame ==
    ASSUME NEW h \in Headers, NEW data \in Seq(Data), \A j \in 1 .. Len(data) : data[j] = Fill,
           NEW n \in Nat, Len(data) <= n
    PROVE  /\ Frame(h, data) \in Seq(Letters)
           /\ \A k \in DOMAIN Frame(h, data) : Frame(h, data)[k] \in Headers =>
                  k = 1 /\ Frame(h, data)[k] = h /\ Trails(Frame(h, data), k, n)
<1>1. /\ Frame(h, data) \in Seq(Letters) /\ Len(Frame(h, data)) = 2 + Len(data)
      /\ DOMAIN Frame(h, data) = 1 .. 2 + Len(data) /\ Len(data) \in Nat
      /\ Frame(h, data)[1] = h /\ Frame(h, data)[2] = LineEnd
      /\ \A j \in 1 .. Len(data) : Frame(h, data)[2 + j] = Cell(data[j])
      BY FrameShape
<1> DEFINE f == Frame(h, data)
<1> HIDE DEF f
<1>2. ASSUME NEW k \in 1 .. 2 + Len(data), k > 2
      PROVE  f[k] = Cell(Fill)
  <2>1. k - 2 \in 1 .. Len(data) /\ 2 + (k - 2) = k
        BY <1>1, <1>2
  <2> QED BY <1>1, <2>1 DEF f
<1>3. Cell(Fill) \notin Headers /\ LineEnd \notin Headers
      BY NegativeAssumption, LetterSets DEF Cells
<1>4. ASSUME NEW k \in 1 .. 2 + Len(data), f[k] \in Headers
      PROVE  k = 1 /\ f[k] = h
      BY <1>1, <1>2, <1>3, <1>4 DEF f
<1>5. Trails(f, 1, n)
  <2>1. 1 + 1 = 2 /\ 1 + 1 \in DOMAIN f /\ f[2] = LineEnd /\ Len(f) <= 1 + 1 + n
        BY <1>1 DEF f
  <2>2. \A k \in DOMAIN f : k > 1 + 1 => f[k] = Cell(Fill)
        BY <1>1, <1>2 DEF f
  <2> QED BY <2>1, <2>2 DEF Trails
<1> QED BY <1>1, <1>4, <1>5 DEF f

(* What the cases write when the device asks for a chunk.                  *)
LEMMA CaseFrames ==
    ASSUME part \in Partitions, NEW c \in Refusable
    PROVE  LET f == CASE c = "corrupt_chunk" -> CorruptFrame
                      [] c = "oob_offset" -> OobHeader
                      [] c = "partial_transfer" -> PartialFrame
               n == CellsFor(c)
           IN /\ n \in Nat /\ f \in Seq(Letters)
              /\ \A k \in DOMAIN f : f[k] \in Headers =>
                     f[k] = HeaderFor(c, part) /\ Trails(f, k, n)
<1>1. /\ Whole \in Seq(Data) /\ Len(Whole) = ChunkMax /\ ChunkMax \in Nat
      /\ PartOfPayload \in Seq(Data) /\ Len(PartOfPayload) = PartialSize /\ PartialSize \in Nat
      /\ PartialSize <= ChunkMax
      /\ HeaderOf(Whole, 0) \in Headers
      /\ [HeaderOf(Whole, 0) EXCEPT !.crc = BadCrc(Whole)] \in Headers
      /\ [len |-> ChunkMax, off |-> part.size, crc |-> 0] \in Headers
  <2>1. ChunkMax \in Nat /\ PartialSize \in Nat /\ PartialSize <= ChunkMax
        BY LimitsAssumption, NegativeAssumption
  <2> QED BY <2>1, CaseBytes
<1>2. \A j \in 1 .. Len(Whole) : Whole[j] = Fill
      BY <1>1 DEF Whole
<1>3. \A j \in 1 .. Len(PartOfPayload) : PartOfPayload[j] = Fill
      BY <1>1, <1>2 DEF PartOfPayload
<1>4. CASE c = "corrupt_chunk"
  <2>1. PICK h \in Headers : h = [HeaderOf(Whole, 0) EXCEPT !.crc = BadCrc(Whole)]
        BY <1>1
  <2>2. CorruptFrame = Frame(h, Whole) /\ HeaderFor(c, part) = h /\ CellsFor(c) = ChunkMax
        BY <1>4, <2>1 DEF CorruptFrame, HeaderFor, CellsFor
  <2>3. Len(Whole) <= ChunkMax
        BY <1>1
  <2>4. /\ Frame(h, Whole) \in Seq(Letters)
        /\ \A k \in DOMAIN Frame(h, Whole) : Frame(h, Whole)[k] \in Headers =>
               k = 1 /\ Frame(h, Whole)[k] = h /\ Trails(Frame(h, Whole), k, ChunkMax)
        BY <1>1, <1>2, <2>3, FillsFrame
  <2> QED BY <1>1, <1>4, <2>2, <2>4
<1>5. CASE c = "partial_transfer"
      BY <1>1, <1>3, <1>5, FillsFrame DEF PartialFrame, HeaderFor, CellsFor
<1>6. CASE c = "oob_offset"
  <2>1. PICK h \in Headers : h = [len |-> ChunkMax, off |-> part.size, crc |-> 0]
        BY <1>1
  <2>2. OobHeader = <<h, LineEnd>> /\ HeaderFor(c, part) = h /\ CellsFor(c) = 0
        BY <1>6, <2>1 DEF OobHeader, HeaderFor, CellsFor
  <2>3. h \in Letters /\ LineEnd \in Letters /\ LineEnd \notin Headers
        BY LetterSets DEF Letters, Symbols
  <2>4. /\ <<h, LineEnd>> \in Seq(Letters) /\ Len(<<h, LineEnd>>) = 2
        /\ DOMAIN <<h, LineEnd>> = {1, 2}
        /\ <<h, LineEnd>>[1] = h /\ <<h, LineEnd>>[2] = LineEnd
        BY <2>3
  <2>5. Trails(<<h, LineEnd>>, 1, 0)
        BY <2>4 DEF Trails
  <2> QED BY <1>6, <2>2, <2>3, <2>4, <2>5
<1> QED BY <1>4, <1>5, <1>6 DEF Refusable

LEMMA TrailsShifted ==
    ASSUME NEW s \in Seq(Letters), NEW t \in Seq(Letters), NEW at \in Nat, NEW n \in Nat,
           Trails(t, at, n)
    PROVE  Trails(s \o t, Len(s) + at, n)
<1>1. /\ Len(s) \in Nat /\ Len(t) \in Nat /\ DOMAIN t = 1 .. Len(t)
      /\ DOMAIN (s \o t) = 1 .. Len(s) + Len(t) /\ Len(s \o t) = Len(s) + Len(t)
      /\ \A i \in 1 .. Len(t) : (s \o t)[Len(s) + i] = t[i]
      OBVIOUS
<1>2. /\ at + 1 \in DOMAIN t /\ t[at + 1] = LineEnd /\ Len(t) <= at + 1 + n
      /\ \A k \in DOMAIN t : k > at + 1 => t[k] = Cell(Fill)
      BY DEF Trails
<1>3. ASSUME NEW k \in DOMAIN (s \o t), k > Len(s) + at + 1
      PROVE  (s \o t)[k] = Cell(Fill)
  <2>1. PICK i \in 1 .. Len(t) : k = Len(s) + i
    <3>1. k - Len(s) \in 1 .. Len(t) /\ k = Len(s) + (k - Len(s))
          BY <1>1, <1>3
    <3> QED BY <3>1
  <2>2. i > at + 1
        BY <1>1, <1>3, <2>1
  <2> QED BY <1>1, <1>2, <2>1, <2>2
<1>4. Len(s) + at + 1 \in DOMAIN (s \o t) /\ (s \o t)[Len(s) + at + 1] = LineEnd
  <2>1. at + 1 \in 1 .. Len(t) /\ Len(s) + (at + 1) = Len(s) + at + 1
        BY <1>1, <1>2
  <2>2. (s \o t)[Len(s) + (at + 1)] = LineEnd
        BY <1>1, <1>2, <2>1
  <2>3. Len(s) + at + 1 \in 1 .. Len(s) + Len(t)
        BY <1>1, <2>1
  <2> QED BY <1>1, <2>1, <2>2, <2>3
<1>5. Len(s \o t) <= Len(s) + at + 1 + n
      BY <1>1, <1>2
<1> QED BY <1>3, <1>4, <1>5 DEF Trails

(* A frame behind text in which there is no header.                        *)
LEMMA TrailSent ==
    ASSUME NEW n \in Nat, UNCHANGED vars, toDevice \in Seq(Letters), UsedHeaders = {},
           NEW f \in Seq(Letters), toDevice' = toDevice \o f,
           \A k \in DOMAIN f : f[k] \in Headers => Trails(f, k, n)
    PROVE  Trail(n)' /\ UsedHeaders' = ToSet(f) \cap Headers
<1>1. /\ Len(toDevice) \in Nat /\ Len(f) \in Nat
      /\ DOMAIN f = 1 .. Len(f) /\ DOMAIN toDevice = 1 .. Len(toDevice)
      /\ DOMAIN toDevice' = 1 .. Len(toDevice) + Len(f)
      /\ \A i \in 1 .. Len(toDevice) : toDevice'[i] = toDevice[i]
      /\ \A i \in 1 .. Len(f) : toDevice'[Len(toDevice) + i] = f[i]
      OBVIOUS
<1>2. ~InFrame /\ ToSet(toDevice) \cap Headers = {} /\ ToSet(line) \cap Headers = {}
      BY DEF UsedHeaders
<1>3. UNCHANGED <<phase, line, payload, chunk>>
      BY DEF vars, locals
<1>4. UsedHeaders' = ToSet(f) \cap Headers
  <2>1. ToSet(toDevice') = ToSet(toDevice) \cup ToSet(f)
        BY ElementsJoined
  <2> QED BY <1>2, <1>3, <2>1 DEF UsedHeaders, InFrame
<1>5. ASSUME NEW k \in DOMAIN toDevice', toDevice'[k] \in Headers
      PROVE  Trails(toDevice', k, n)
  <2>1. CASE k <= Len(toDevice)
    <3>1. toDevice[k] \in ToSet(toDevice) /\ toDevice[k] \in Headers
          BY <1>1, <1>5, <2>1 DEF ToSet
    <3> QED BY <1>2, <3>1
  <2>2. CASE k > Len(toDevice)
    <3>1. PICK i \in 1 .. Len(f) : k = Len(toDevice) + i
      <4>1. k - Len(toDevice) \in 1 .. Len(f) /\ k = Len(toDevice) + (k - Len(toDevice))
            BY <1>1, <2>2
      <4> QED BY <4>1
    <3>2. f[i] \in Headers /\ i \in Nat
          BY <1>1, <1>5, <3>1
    <3>3. Trails(f, i, n)
          BY <1>1, <3>2
    <3>4. Trails(toDevice \o f, Len(toDevice) + i, n)
          BY <3>2, <3>3, TrailsShifted
    <3> QED BY <3>1, <3>4
  <2> QED BY <1>1, <2>1, <2>2
<1>6. \A h \in Headers : line' # <<h>>
      BY <1>2, <1>3, ElementsOf
<1>7. phase' # "payload"
      BY <1>2, <1>3 DEF InFrame
<1> QED BY <1>4, <1>5, <1>6, <1>7, TrailNext

LEMMA TrailSame ==
    ASSUME NEW n \in Nat, UNCHANGED <<vars, toDevice>>
    PROVE  /\ Trail(n)' <=> Trail(n)
           /\ UsedHeaders' = UsedHeaders /\ WholeFrame' = WholeFrame
BY DEF vars, locals, Trail, Trails, UsedHeaders, InFrame, WholeFrame

(* One run of such a case on an undisturbed line, from a device that was   *)
(* sent nothing before.                                                    *)
Refusing == case \in Refusable /\ faults = 0 /\ runs = 1

RefusedSoFar ==
    /\ ~WholeFrame
    /\ UsedHeaders \subseteq {HeaderFor(case, part)}
    /\ hpc = "shake" => UsedHeaders = {}
    /\ Trail(CellsFor(case))

Unstarted == runs = 0 => hpc = "off" /\ Cleared

Refusal ==
    /\ NegativeWire /\ DevTrue /\ CaseTrue /\ Unstarted
    /\ Refusing => RefusedSoFar

LEMMA CellsOfCase == ASSUME NEW c \in Refusable PROVE CellsFor(c) \in Nat
<1>1. ChunkMax \in Nat /\ PartialSize \in Nat
      BY LimitsAssumption, NegativeAssumption
<1> QED BY <1>1 DEF Refusable, CellsFor

LEMMA CaseRuns ==
    ASSUME CaseMoves
    PROVE  case' = case /\ hpc \in CaseWaiting /\ hpc # "off"
BY DEF CaseMoves, CaseReads, CaseWaitEnds, CaseLosesPort, CaseReopens, CaseWaiting

LEMMA RunsCount ==
    ASSUME Limits, CaseKnown, [NegativeNext]_negativeVars
    PROVE  /\ runs \in Nat /\ faults \in Nat
           /\ UNCHANGED faults \/ faults' = faults + 1
           /\ \/ UNCHANGED runs
              \/ (CaseStarts \/ (HostStarts /\ case' = "none")) /\ runs' = runs + 1
<1>1. runs \in Nat /\ faults \in Nat
      BY DEF Limits
<1>2. CASE UNCHANGED negativeVars
      BY <1>1, <1>2 DEF negativeVars, transferVars, host
<1>3. CASE NegativeNext
  <2>1. UNCHANGED faults \/ faults' = faults + 1
        BY <1>3, Counts DEF NegativeNext, TransferNext
  <2>2. UNCHANGED runs \/ CaseStarts \/ (HostStarts /\ case' = "none")
    <3>1. CASE CaseStarts \/ (HostStarts /\ case' = "none")
          BY <3>1
    <3>2. CASE Device \/ Line \/ HostMoves \/ CaseMoves
      <4>1. ~HostStarts /\ ~CaseStarts
        <5>1. Device \/ Line => UNCHANGED hpc
              BY DeviceKeepsHost, LineKeepsHost
        <5>2. HostMoves \/ CaseMoves => hpc # "off"
              BY HostStays, CaseRuns DEF Waiting
        <5> QED BY <3>2, <5>1, <5>2 DEF HostStarts, CaseStarts
      <4> QED BY <3>2, <4>1, Counts DEF TransferNext
    <3> QED BY <1>3, <3>1, <3>2 DEF NegativeNext
  <2> QED BY <1>1, <2>1, <2>2 DEF CaseStarts, HostStarts
<1> QED BY <1>2, <1>3

LEMMA UnstartedStep ==
    ASSUME NegativeWire, DevTrue, Unstarted, [NegativeNext]_negativeVars
    PROVE  Unstarted'
<1> SUFFICES ASSUME runs' = 0 PROVE hpc' = "off" /\ Cleared'
    BY DEF Unstarted
<1>0. Inv /\ Limits /\ CaseKnown
      BY DEF NegativeWire, Wire
<1>1. runs = 0
      BY <1>0, RunsCount
<1>2. hpc = "off" /\ Cleared /\ toDevice = <<>>
      BY <1>1 DEF Unstarted, Cleared
<1>3. ~HostMoves /\ ~CaseMoves
      BY <1>2, HostStays, CaseRuns DEF Waiting
<1>4. ~CaseStarts /\ ~HostStarts
      BY <1>1 DEF CaseStarts, HostStarts
<1>5. CASE Device
      BY <1>0, <1>2, <1>5, ClearedStep, DeviceKeepsHost
<1>6. CASE Line
  <2>1. toDevice' = <<>>
        BY <1>2, <1>6 DEF Line, LosesByte, DamagesByte, LosesToken
  <2> QED BY <1>2, <1>6, <2>1, Elsewhere, ClearedRests, LineKeepsHost
<1>7. CASE UNCHANGED negativeVars
  <2>1. DeviceRests /\ UNCHANGED <<hpc, toDevice>>
        BY <1>7 DEF negativeVars, transferVars, host, DeviceRests
  <2> QED BY <1>2, <2>1, ClearedRests
<1> QED BY <1>3, <1>4, <1>5, <1>6, <1>7 DEF NegativeNext

LEMMA RefusedDevice ==
    ASSUME Wire, DevTrue, Refusing, RefusedSoFar, Device, UNCHANGED case, Refusing'
    PROVE  RefusedSoFar'
<1>0. Inv /\ WireTypes /\ TypeOK' /\ CheckedSoFar' /\ part \in Partitions
  <2>1. Wire'
        BY AnyStepWire DEF AnyStep
  <2> QED BY <2>1 DEF Wire, Inv, Shape, TypeOK
<1>1. PICK n \in Nat : n = CellsFor(case)
      BY CellsOfCase DEF Refusing
<1>2. /\ Trail(n)' /\ part' = part
      /\ WholeFrame' => (\A j \in DOMAIN payload' : payload'[j] = Fill) /\ Len(payload') <= n
  <2>1. Trail(n) /\ ~WholeFrame
        BY <1>1 DEF RefusedSoFar
  <2>2. faults' = faults
        BY DEF Refusing
  <2> QED BY <2>1, <2>2, TrailDevice
<1>3. UsedHeaders' \subseteq UsedHeaders
      BY <1>0, DeviceHeaders
<1>4. UsedHeaders' \subseteq {HeaderFor(case, part)}
      BY <1>3 DEF RefusedSoFar
<1>5. ~WholeFrame'
  <2>1. SUFFICES ASSUME WholeFrame' PROVE FALSE
        OBVIOUS
  <2>2. InFrame' /\ Len(payload') = chunk'.len /\ FrameIntact(payload)'
        BY <1>0, <2>1 DEF CheckedSoFar, WholeFrame, InFrame
  <2>3. chunk' = HeaderFor(case, part)
        BY <1>4, <2>2 DEF UsedHeaders
  <2>4. payload' \in Seq(Data)
        BY <1>0 DEF TypeOK
  <2>5. Crc16(payload') = chunk'.crc
        BY <2>2 DEF FrameIntact
  <2>6. PICK data \in Seq(Data) : data = payload'
        BY <2>4
  <2>7. /\ \A j \in DOMAIN data : data[j] = Fill
        /\ Len(data) <= CellsFor(case)
        /\ Len(data) = HeaderFor(case, part).len /\ Crc16(data) = HeaderFor(case, part).crc
        BY <1>1, <1>2, <2>1, <2>2, <2>3, <2>5, <2>6
  <2>8. case \in Refusable
        BY DEF Refusing
  <2> QED BY <1>0, <2>7, <2>8, NeverIntact
<1>6. hpc' = "shake" => UsedHeaders' = {}
      BY <1>3, DeviceKeepsHost DEF RefusedSoFar
<1>7. Trail(CellsFor(case))'
      BY <1>1, <1>2 DEF CellsFor
<1> QED BY <1>2, <1>4, <1>5, <1>6, <1>7 DEF RefusedSoFar

LEMMA RefusedStarts ==
    ASSUME Wire, DevTrue, Unstarted, CaseStarts, Refusing'
    PROVE  RefusedSoFar'
<1>1. Inv /\ runs \in Nat
      BY DEF Wire, Limits
<1>2. UNCHANGED vars /\ toDevice' = toDevice \o StartLineBytes /\ case' \in Refusable
      /\ runs' = runs + 1 /\ runs' = 1
      BY DEF CaseStarts, Refusing
<1>3. Cleared
      BY <1>1, <1>2 DEF Unstarted
<1>4. UsedHeaders = {} /\ ~WholeFrame /\ toDevice \in Seq(Letters)
      BY <1>3, ElementsOf DEF Cleared, UsedHeaders, InFrame, WholeFrame, Wire, WireTypes
<1>5. PICK n \in Nat : n = CellsFor(case')
      BY <1>2, CellsOfCase
<1>6. \A k \in DOMAIN StartLineBytes : StartLineBytes[k] \notin Headers
      BY LetterSets DEF ToSet
<1>7. Trail(n)' /\ UsedHeaders' = ToSet(StartLineBytes) \cap Headers
      BY <1>2, <1>4, <1>6, LineTexts, TrailSent
<1>8. UsedHeaders' = {}
      BY <1>7, LetterSets
<1>9. ~WholeFrame'
      BY <1>2, <1>4 DEF WholeFrame, vars
<1>10. Trail(CellsFor(case))'
      BY <1>5, <1>7 DEF CellsFor
<1> QED BY <1>8, <1>9, <1>10 DEF RefusedSoFar

(* A step of such a case: it writes one frame, in its handshake.           *)
LEMMA RefusedMoves ==
    ASSUME Wire, CaseKnown, CaseTrue, Refusing, RefusedSoFar, CaseMoves
    PROVE  RefusedSoFar'
<1>0. /\ UNCHANGED vars /\ case' = case /\ case \in Refusable
      /\ part \in Partitions /\ toDevice \in Seq(Letters)
  <2>1. UNCHANGED vars
        BY Elsewhere DEF DeviceRests
  <2> QED BY <2>1, CaseRuns DEF Refusing, Wire, Inv, Shape, TypeOK, WireTypes
<1>1. PICK n \in Nat : n = CellsFor(case)
      BY <1>0, CellsOfCase
<1>2. part' = part /\ HeaderFor(case, part)' = HeaderFor(case, part)
      /\ CellsFor(case)' = CellsFor(case)
      BY <1>0 DEF vars, HeaderFor, CellsFor
<1>3. ~WholeFrame' /\ Trail(n)
      BY <1>0, <1>1 DEF RefusedSoFar, WholeFrame, vars
<1>4. ASSUME UNCHANGED toDevice, hpc' = "shake" => hpc = "shake"
      PROVE  RefusedSoFar'
  <2>1. Trail(n)' /\ UsedHeaders' = UsedHeaders
        BY <1>0, <1>3, <1>4, TrailSame
  <2> QED BY <1>1, <1>2, <1>3, <1>4, <2>1 DEF RefusedSoFar
<1>5. ASSUME NEW f \in Seq(Letters), hpc = "shake", toDevice' = toDevice \o f,
             hpc' = "shake" => ToSet(f) \cap Headers = {},
             \A k \in DOMAIN f : f[k] \in Headers =>
                 f[k] = HeaderFor(case, part) /\ Trails(f, k, n)
      PROVE  RefusedSoFar'
  <2>1. UsedHeaders = {}
        BY <1>5 DEF RefusedSoFar
  <2>2. Trail(n)' /\ UsedHeaders' = ToSet(f) \cap Headers
        BY <1>0, <1>5, <2>1, TrailSent
  <2>3. ToSet(f) \cap Headers \subseteq {HeaderFor(case, part)}
        BY <1>5 DEF ToSet
  <2> QED BY <1>1, <1>2, <1>3, <1>5, <2>2, <2>3 DEF RefusedSoFar
<1>6. ASSUME hpc = "shake", Writes(StartLineBytes, "shake")
      PROVE  RefusedSoFar'
  <2>1. CASE handle = "main"
    <3>1. toDevice' = toDevice \o StartLineBytes
          BY <1>6, <2>1 DEF Writes
    <3>2. \A k \in DOMAIN StartLineBytes : StartLineBytes[k] \notin Headers
          BY LetterSets DEF ToSet
    <3> QED BY <1>5, <1>6, <3>1, <3>2, LineTexts, LetterSets
  <2>2. CASE handle # "main"
        BY <1>4, <1>6, <2>2 DEF Writes, Returns
  <2> QED BY <2>1, <2>2
<1>7. ASSUME hpc = "shake",
             \/ case = "corrupt_chunk" /\ Writes(CorruptFrame, "refusal")
             \/ case = "oob_offset" /\ Writes(OobHeader, "refusal")
             \/ case = "partial_transfer" /\ Disconnects
      PROVE  RefusedSoFar'
  <2> DEFINE f == CASE case = "corrupt_chunk" -> CorruptFrame
                    [] case = "oob_offset" -> OobHeader
                    [] case = "partial_transfer" -> PartialFrame
  <2>1. /\ f \in Seq(Letters)
        /\ \A k \in DOMAIN f : f[k] \in Headers =>
               f[k] = HeaderFor(case, part) /\ Trails(f, k, n)
        BY <1>0, <1>1, CaseFrames
  <2>2. \/ toDevice' = toDevice \o f /\ hpc' # "shake"
        \/ UNCHANGED toDevice /\ hpc' # "shake"
        BY <1>7 DEF Writes, Returns, Disconnects
  <2> HIDE DEF f
  <2> QED BY <1>4, <1>5, <1>7, <2>1, <2>2
<1>8. ASSUME CaseAnswers
      PROVE  RefusedSoFar'
  <2>1. hpc # "next" /\ case # "invalid_final_crc"
        BY <1>0 DEF CaseTrue, Refusable
  <2>2. CASE Ignores \/ \E c \in {"pass", "fail"} : Fails(c)
        BY <1>4, <2>2 DEF Ignores, Fails, Returns, host
  <2>3. CASE \E next \in {"next", "check", "check again", "settled", "back", "heartbeat"} :
                 Waits(next)
        BY <1>4, <2>3 DEF Waits
  <2> QED BY <1>6, <1>7, <1>8, <2>1, <2>2, <2>3 DEF CaseAnswers
<1>9. CASE CaseReads \/ CaseWaitEnds
      BY <1>8, <1>9, CaseAnswersWhich
<1>10. CASE CaseLosesPort \/ CaseReopens
      BY <1>4, <1>10 DEF CaseLosesPort, CaseReopens, Fails, Returns
<1> QED BY <1>9, <1>10 DEF CaseMoves

LEMMA RefusalInit == NegativeInit => Refusal
<1> SUFFICES ASSUME NegativeInit PROVE Refusal
    OBVIOUS
<1>1. CaseTrue
      BY DEF NegativeInit, TransferInit, CaseTrue, Waiting
<1>2. Unstarted
      BY DEF NegativeInit, TransferInit, Init, Unstarted, Cleared
<1>3. ~Refusing
      BY DEF NegativeInit, TransferInit, Refusing
<1> QED BY <1>1, <1>2, <1>3, NegativeWireInit, DevInit DEF Refusal, NegativeInit

LEMMA RefusalStep ==
    ASSUME Refusal, [NegativeNext]_negativeVars
    PROVE  Refusal'
<1>0. Wire /\ CaseKnown /\ Limits /\ NegativeWire /\ DevTrue /\ CaseTrue /\ Unstarted
      BY DEF Refusal, NegativeWire, Wire
<1>1. NegativeWire' /\ DevTrue' /\ CaseTrue' /\ Unstarted'
  <2>1. AnyStep
        BY <1>0, NegativeSteps
  <2> QED BY <1>0, <2>1, NegativeStep, AnyStepDev, CaseTrueStep, UnstartedStep
<1>2. ASSUME Refusing'
      PROVE  RefusedSoFar'
  <2>1. /\ runs \in Nat /\ faults \in Nat /\ faults = 0 /\ faults' = 0
        /\ runs' = runs \/ (CaseStarts /\ runs' = runs + 1)
    <3>1. case' # "none"
          BY <1>2 DEF Refusing, Refusable
    <3> QED BY <1>0, <1>2, <3>1, RunsCount DEF Refusing
  <2>2. CASE CaseStarts
        BY <1>0, <1>2, <2>2, RefusedStarts
  <2>3. CASE ~CaseStarts
    <3>1. runs = 1
          BY <1>2, <2>1, <2>3 DEF Refusing
    <3>2. ASSUME case' = case
          PROVE  Refusing /\ RefusedSoFar
          BY <1>2, <2>1, <3>1, <3>2 DEF Refusing, Refusal
    <3>3. CASE Device /\ UNCHANGED case
          BY <1>0, <1>2, <3>2, <3>3, RefusedDevice
    <3>4. CASE Line /\ UNCHANGED case
      <4>1. faults' = faults + 1
            BY <3>4 DEF Line, LosesByte, DamagesByte, LosesToken, Disturbed
      <4> QED BY <2>1, <4>1
    <3>5. CASE HostMoves /\ UNCHANGED case
      <4>1. case = "none"
            BY <1>0, <3>5, HostStays DEF CaseTrue
      <4> QED BY <3>2, <3>5, <4>1 DEF Refusing, Refusable
    <3>6. CASE HostStarts /\ case' = "none"
          BY <1>2, <3>6 DEF Refusing, Refusable
    <3>7. CASE CaseMoves
          BY <1>0, <3>2, <3>7, CaseRuns, RefusedMoves
    <3>8. CASE UNCHANGED negativeVars
      <4>1. UNCHANGED <<vars, toDevice, hpc, case>>
            BY <3>8 DEF negativeVars, transferVars, host
      <4>2. case \in Refusable /\ RefusedSoFar
            BY <3>2, <4>1 DEF Refusing
      <4>3. PICK n \in Nat : n = CellsFor(case)
            BY <4>2, CellsOfCase
      <4>4. Trail(n)' /\ UsedHeaders' = UsedHeaders /\ ~WholeFrame'
            BY <4>1, <4>2, <4>3, TrailSame DEF RefusedSoFar
      <4>5. HeaderFor(case, part)' = HeaderFor(case, part) /\ CellsFor(case)' = CellsFor(case)
            BY <4>1 DEF vars, HeaderFor, CellsFor
      <4> QED BY <4>1, <4>2, <4>3, <4>4, <4>5 DEF RefusedSoFar
    <3> QED BY <2>3, <3>3, <3>4, <3>5, <3>6, <3>7, <3>8 DEF NegativeNext
  <2> QED BY <2>2, <2>3
<1> QED BY <1>1, <1>2 DEF Refusal

(* Only a frame that is whole changes the flash.                           *)
LEMMA FlashNeedsFrame ==
    ASSUME Refusal, Refusing, NegativeNext
    PROVE  flash' = flash
<1>1. ~WholeFrame /\ Inv
      BY DEF Refusal, RefusedSoFar, NegativeWire, Wire
<1>2. CASE Device
  <2>1. ~(SkipErased \/ EraseSector \/ WriteChunk \/ EraseFails \/ WriteFails)
        BY <1>1 DEF WholeFrame, SkipErased, EraseSector, WriteChunk, EraseFails, WriteFails
  <2>2. CASE DeviceReads
        BY <2>2 DEF DeviceReads, ReadsAsText, ReadsAsPayload, LineByte, LineComplete, StartLine,
           EndLine, BadHeader, HeaderLine, PayloadByte, Unwritten
  <2>3. CASE DeviceWorks \/ FlashFails \/ HostTooSlow
        BY <2>1, <2>3 DEF DeviceWorks, FlashFails, HostTooSlow, Verify, LineIdle, PayloadIdle,
           Unwritten
  <2>4. CASE Idles \/ SelectUpdate \/ Reset
        BY <2>4, IdleMoves DEF SelectUpdate, Enter, Reset, vars
  <2> QED BY <1>2, <2>2, <2>3, <2>4, DeviceSteps
<1>3. CASE ~Device
      BY <1>3, Elsewhere DEF NegativeNext, DeviceRests, vars
<1> QED BY <1>2, <1>3

(* corrupt_chunk, oob_offset and partial_transfer leave the flash of a     *)
(* device as it was when nothing disturbs them: their frames are never     *)
(* whole and intact, whatever of them the device takes for text, for a     *)
(* header or for a payload, and however long it waits for the rest.        *)
THEOREM RefusedStays == NegativeSpec => RefusedChangeNothing
<1>1. Refusal /\ [NegativeNext]_negativeVars =>
          [flash' # flash => ~(case \in Refusable /\ faults = 0 /\ runs = 1)]_negativeVars
      BY FlashNeedsFrame DEF Refusing
<1>2. Refusal /\ [NegativeNext]_negativeVars => Refusal'
      BY RefusalStep
<1> QED BY <1>1, <1>2, RefusalInit, PTL DEF NegativeSpec, RefusedChangeNothing
=============================================================================
