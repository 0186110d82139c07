------------------------- MODULE UpdateTransfer -------------------------
(***************************************************************************)
(* A whole update: main() of send_update.py on one end of the USB serial   *)
(* line, the device on the other.  The device boots, in any mode; in       *)
(* update mode handle_update_mode (UpdateMode) runs.  What it prints       *)
(* travels to the host, what the host writes waits in the receive buffer   *)
(* until the device polls it.  A boot that fails, or an application that   *)
(* restarts, resets the device again and again. The script may be started  *)
(* at any moment and again after it gave up. Disturbances, at most         *)
(* MaxFaults of them: bytes and lines lost or damaged, flash failures,     *)
(* pauses longer than the device's timeout, and resets from outside.       *)
(* Every reset takes the port away from the host.                          *)
(***************************************************************************)
EXTENDS UpdateMode, SequencesExt

CONSTANTS
    Images,        \* partition images (append_crc.py) a host may send
    ChunkSize,     \* --chunk-size
    MaxRuns,       \* bound: how often the script is started
    MaxFaults      \* bound: how many disturbances there are

ASSUME TransferAssumption ==
    /\ Images \subseteq Seq(Data) \ {<<>>}
    /\ ChunkSize \in 1 .. ChunkMax
    /\ {MaxRuns, MaxFaults} \subseteq Nat

VARIABLES
    dev,       \* where the device is in call_start_cpu0, or in the application
    toDevice,  \* bytes on their way to the device
    toHost,    \* lines on their way to the host
    hpc,       \* what main() waits for; "off" when the script does not run
    handle,    \* the serial port wait_for_token reads: main()'s own, lost,
               \* the one only wait_for_token knows after a reconnect, or closed
    image,     \* the image being sent
    offset,
    code,      \* what main() returned; "none" before it did
    runs, faults

session == <<part, flash, phase, locals, errors, erased, result, tried, acked>>
host == <<hpc, handle, image, offset, code, runs>>
transferVars == <<vars, dev, toDevice, toHost, host, faults>>

Cell(d) == [cell |-> d]
Cells == {Cell(d) : d \in Data}
AppStart == [app |-> "START"]

TransferInit ==
    /\ Init
    /\ dev = "boot" /\ toDevice = <<>> /\ toHost = <<>>
    /\ hpc = "off" /\ handle = "main" /\ image \in Images /\ offset = 0 /\ code = "none"
    /\ runs = 0 /\ faults = 0

Disturbed == faults < MaxFaults /\ faults' = faults + 1

(* The waits of main() in send_update.py.                                  *)
Waiting == {"hello", "greet", "ready", "result", "final", "ended", "verdict", "handoff", "start"}

(* No script is there to write to the device.                              *)
NobodySends == hpc = "off" \/ handle = "closed"

-----------------------------------------------------------------------------
(* The device.                                                             *)

Prints(lines) == toHost' = toHost \o lines

(* call_start_cpu0 goes on at "next", and prints.                          *)
Proceeds(next, lines) ==
    /\ dev' = next /\ Prints(lines)
    /\ UNCHANGED <<vars, toDevice, host>>

(* The boot up to the mode decision prints tokens and reads nothing.       *)
BootToken ==
    /\ dev = "boot" /\ toHost = <<>> /\ hpc # "off"
    /\ Proceeds("boot", <<Evt("MODE_SELECTED")>>)
    /\ UNCHANGED faults

(* bootloader_init fails, or the partition table does not load.            *)
BootFails ==
    /\ dev = "boot"
    /\ Proceeds("fatal", <<Evt("FATAL_RESET")>>)
    /\ UNCHANGED faults

SelectNormal ==
    /\ dev = "boot"
    /\ Proceeds("check", <<Evt("DECISION_NORMAL"), Evt("APP_CRC_CHECK")>>)
    /\ UNCHANGED faults

SelectRecovery ==
    /\ dev = "boot"
    /\ Proceeds("recovery", <<Evt("DECISION_RECOVERY")>>)
    /\ UNCHANGED faults

(* Update mode is selected, and handle_update_mode returns at once.        *)
SelectUpdateRefused ==
    /\ dev = "boot" /\ SetupFails
    /\ Proceeds("recovery", <<Evt("UPDATE_SETUP_FAIL"), Evt("DECISION_RECOVERY")>>)
    /\ UNCHANGED faults

SelectUpdate ==
    /\ dev = "boot" /\ dev' = "update"
    /\ Enter /\ Prints(out')
    /\ UNCHANGED <<toDevice, host, faults>>

(* A payload byte where a line is expected is text, or ends the line.      *)
ReadsAsText(x) ==
    \/ x = LineEnd /\ LineComplete
    \/ x \in Symbols \ {LineEnd} /\ LineByte(x)
    \/ x \in Cells /\ (LineByte(Junk) \/ LineComplete)

(* Text where a payload is expected is payload.                            *)
ReadsAsPayload(x) ==
    \/ x \in Cells /\ PayloadByte(x.cell)
    \/ x \in Symbols /\ \E d \in Data : PayloadByte(d)

DeviceReads ==
    /\ toDevice # <<>> /\ toDevice' = Tail(toDevice)
    /\ ReadsAsText(Head(toDevice)) \/ ReadsAsPayload(Head(toDevice))
    /\ Prints(out')
    /\ UNCHANGED <<dev, host, faults>>

(* A read error refuses a good image.                                      *)
CheckReads == result' \/ ~ImageValid(flash, part)

DeviceWorks ==
    /\ SkipErased \/ EraseSector \/ WriteChunk \/ (Verify /\ CheckReads)
    /\ Prints(out')
    /\ UNCHANGED <<dev, toDevice, host, faults>>

FlashFails ==
    /\ Disturbed
    /\ EraseFails \/ WriteFails \/ (Verify /\ ~CheckReads)
    /\ Prints(out')
    /\ UNCHANGED <<dev, toDevice, host>>

HostTooSlow ==
    /\ toDevice = <<>>
    /\ IF NobodySends THEN UNCHANGED faults ELSE Disturbed
    /\ LineIdle \/ PayloadIdle
    /\ Prints(out')
    /\ UNCHANGED <<dev, toDevice, host>>

(* handle_update_mode has returned to call_start_cpu0.                     *)
SessionOver ==
    /\ dev = "update" /\ phase = "idle"
    /\ IF result THEN Proceeds("handoff", <<>>)
                 ELSE Proceeds("recovery", <<Evt("DECISION_RECOVERY")>>)
    /\ UNCHANGED faults

(* The check of a normal boot.                                             *)
BootCheckPasses ==
    /\ dev = "check" /\ ImageValid(flash, part)
    /\ Proceeds("handoff", <<Evt("APP_CRC_OK")>>)
    /\ UNCHANGED faults

BootCheckFails ==
    /\ dev = "check"
    /\ IF ImageValid(flash, part) THEN Disturbed ELSE UNCHANGED faults
    /\ Proceeds("recovery", <<Evt("APP_CRC_FAIL"), Evt("DECISION_RECOVERY")>>)

(* The loader starts the application, or refuses an image that passed the  *)
(* check.                                                                  *)
HandsOff ==
    /\ dev = "handoff"
    /\ \/ Proceeds("app", <<Evt("HANDOFF"), AppStart>>)
       \/ Proceeds("fatal", <<Evt("HANDOFF"), Evt("FATAL_RESET")>>)
    /\ UNCHANGED faults

(* The recovery console takes what the host sends for commands nobody      *)
(* knows; a payload byte may end a line.                                   *)
ConsoleReads ==
    /\ dev = "recovery" /\ toDevice # <<>> /\ toDevice' = Tail(toDevice)
    /\ \E refusal \in {<<>>, <<Evt("RECOVERY_CMD_UNKNOWN")>>} : Prints(refusal)
    /\ UNCHANGED <<vars, dev, host, faults>>

(* The device starts again: the port disappears with what was in it.       *)
Reset ==
    /\ dev' = "boot" /\ toDevice' = <<>> /\ toHost' = <<>>
    /\ Return(FALSE, <<>>)
    /\ erased' = {} /\ tried' = NoHistory /\ acked' = NoHistory
    /\ handle' = IF NobodySends THEN handle ELSE "lost"
    /\ UNCHANGED <<part, flash, hpc, image, offset, code, runs>>

(* fatal_reset_loop has blinked.                                           *)
FatalResets == dev = "fatal" /\ Reset /\ UNCHANGED faults

(* The fault hook of the application restarts the chip.                    *)
AppRestarts == dev = "app" /\ Reset /\ UNCHANGED faults

(* The reset pin, the watchdog, the power.                                 *)
DeviceResets == Disturbed /\ Reset

Boots == \/ BootToken \/ BootFails \/ SelectNormal \/ SelectRecovery \/ SelectUpdateRefused
         \/ BootCheckPasses \/ BootCheckFails \/ HandsOff \/ FatalResets
         \/ AppRestarts

Device == \/ Boots \/ SelectUpdate \/ DeviceReads \/ DeviceWorks \/ SessionOver
          \/ ConsoleReads \/ FlashFails \/ HostTooSlow \/ DeviceResets

-----------------------------------------------------------------------------
(* The line.                                                               *)

LosesByte ==
    /\ Disturbed
    /\ \E i \in DOMAIN toDevice : toDevice' = RemoveAt(toDevice, i)
    /\ UNCHANGED <<vars, dev, toHost, host>>

DamagesByte ==
    /\ Disturbed
    /\ \E i \in DOMAIN toDevice, x \in Cells \cup {Junk} :
           toDevice' = [toDevice EXCEPT ![i] = x]
    /\ UNCHANGED <<vars, dev, toHost, host>>

LosesToken ==
    /\ Disturbed
    /\ \E i \in DOMAIN toHost : toHost' = RemoveAt(toHost, i)
    /\ UNCHANGED <<vars, dev, toDevice, host>>

Line == LosesByte \/ DamagesByte \/ LosesToken

-----------------------------------------------------------------------------
(* The host.                                                               *)

Returns(c) == hpc' = "off" /\ code' = c /\ UNCHANGED <<handle, image, offset, runs>>

(* After a reconnect main()'s handle is the closed one: it cannot write.   *)
Writes(bytes, next) ==
    IF handle = "main"
    THEN /\ toDevice' = toDevice \o bytes
         /\ hpc' = next /\ UNCHANGED <<handle, image, offset, code, runs>>
    ELSE Returns("serial error") /\ UNCHANGED toDevice

(* The next wait starts again from main()'s handle.                        *)
Waits(next) ==
    /\ hpc' = next
    /\ handle' = IF handle = "main" THEN "main" ELSE "lost"
    /\ UNCHANGED <<toDevice, image, offset, code, runs>>

Fails(c) == Returns(c) /\ UNCHANGED toDevice

Ignores == UNCHANGED <<toDevice, host>>

StartLineBytes == <<Start, LineEnd>>

ChunkOf(i, o) == SubSeq(i, o + 1, Min({o + ChunkSize, Len(i)}))

ChunkAt(o) == ChunkOf(image, o)

HeaderOf(data, o) == [len |-> Len(data), off |-> o, crc |-> Crc16(data)]

(* Headers are all there are: the script sends no other.                   *)
ASSUME ChunkHeaders ==
    \A i \in Images : \A o \in 0 .. Len(i) - 1 : HeaderOf(ChunkOf(i, o), o) \in Headers

Frame(header, data) == <<header, LineEnd>> \o [i \in DOMAIN data |-> Cell(data[i])]

FrameAt(o) == Frame(HeaderOf(ChunkAt(o), o), ChunkAt(o))

SendsChunk == Writes(FrameAt(offset), "result")

Is(t, token) == "evt" \in DOMAIN t /\ t.evt = token

Refused(t) == Is(t, "UPDATE_START_FAIL") \/ Is(t, "DECISION_RECOVERY")

(* The handshake: any BL_EVT line ends a wait.                             *)
Hello(t) ==
    CASE Is(t, "READY_FOR_UPDATE") -> Writes(StartLineBytes, "ready")
      [] Is(t, "READY_FOR_CHUNK") -> SendsChunk
      [] Refused(t) -> Fails("refused")
      [] t = AppStart -> Ignores
      [] OTHER -> Waits("greet")

Greet(t) ==
    CASE Is(t, "READY_FOR_UPDATE") -> Writes(StartLineBytes, "greet")
      [] Is(t, "READY_FOR_CHUNK") -> SendsChunk
      [] Refused(t) -> Fails("refused")
      [] t = AppStart -> Ignores
      [] OTHER -> Waits("greet")

(* Mutant of NextOffset: every chunk counts for a whole one.               *)
WholeChunkOn == offset + ChunkSize

NextOffset == offset + Len(ChunkAt(offset))

Acknowledges(t) ==
    IF t.value # offset
    THEN Fails("offset mismatch")
    ELSE /\ offset' = NextOffset
         /\ hpc' = IF offset' < Len(image) THEN "ready" ELSE "final"
         /\ UNCHANGED <<toDevice, handle, image, code, runs>>

Result(t) ==
    CASE Is(t, "CHUNK_OK") -> Acknowledges(t)
      [] Is(t, "CHUNK_FAIL") -> Fails("chunk failed")
      [] OTHER -> Ignores

(* A wait for one token, all others being skipped.                         *)
Skips(t, token, action) == IF Is(t, token) THEN action ELSE Ignores

Verdict(t) ==
    CASE Is(t, "APP_CRC_OK") -> Waits("handoff")
      [] Is(t, "APP_CRC_FAIL") -> Fails("image refused")
      [] Is(t, "APP_CRC_CHECK") -> Waits("verdict")
      [] OTHER -> Ignores

Understands(t) ==
    CASE hpc = "hello" -> Hello(t)
      [] hpc = "greet" -> Greet(t)
      [] hpc = "ready" -> Skips(t, "READY_FOR_CHUNK", SendsChunk)
      [] hpc = "result" -> Result(t)
      [] hpc = "final" -> Skips(t, "READY_FOR_CHUNK", Writes(<<End, LineEnd>>, "ended"))
      [] hpc = "ended" -> Skips(t, "UPDATE_SESSION_END", Waits("verdict"))
      [] hpc = "verdict" -> Verdict(t)
      [] hpc = "handoff" -> Skips(t, "HANDOFF", Waits("start"))
      [] hpc = "start" -> IF t = AppStart THEN Fails("success") ELSE Ignores

(* START_UPDATE is written at once, without waiting for a prompt.          *)
HostStarts ==
    /\ hpc = "off" /\ runs < MaxRuns /\ runs' = runs + 1
    /\ image' \in Images
    /\ hpc' = "hello" /\ handle' = "main" /\ offset' = 0 /\ code' = "none"
    /\ toHost' \in {<<>>, toHost}
    /\ toDevice' = toDevice \o StartLineBytes
    /\ UNCHANGED <<vars, dev, faults>>

HostReads ==
    /\ hpc \in Waiting /\ handle # "lost" /\ toHost # <<>>
    /\ toHost' = Tail(toHost)
    /\ Understands(Head(toHost))
    /\ UNCHANGED <<vars, dev, faults>>

(* Mutant of CanTimeOut: the loop of the handshake does not look at None.  *)
NoTimeoutInGreeting == hpc \in Waiting \ {"greet"}

(* A wait has one deadline for all the lines it skips, and for the time it *)
(* takes to find the port again.                                           *)
CanTimeOut == hpc \in Waiting

HostTimesOut ==
    /\ CanTimeOut
    /\ Fails("timeout")
    /\ UNCHANGED <<vars, dev, toHost, faults>>

(* reconnect_cb: the new handle stays inside wait_for_token.               *)
HostReconnects ==
    /\ handle = "lost" /\ hpc \in Waiting \ {"result"}
    /\ handle' = "local"
    /\ toHost' \in {<<>>, toHost}
    /\ UNCHANGED <<vars, dev, toDevice, hpc, image, offset, code, runs, faults>>

(* wait_for_chunk_result does not reconnect, and reconnect_serial gives up.*)
HostLosesPort ==
    /\ handle = "lost" /\ hpc \in Waiting
    /\ Fails(IF hpc = "result" THEN "timeout" ELSE "port gone")
    /\ UNCHANGED <<vars, dev, toHost, faults>>

HostMoves == HostReads \/ HostTimesOut \/ HostReconnects \/ HostLosesPort

TransferNext == Device \/ Line \/ HostStarts \/ HostMoves

(* A wait ends: with its deadline, or with the line it waits for, which in *)
(* the handshake is any BL_EVT line, and the next wait has a new deadline. *)
WaitOver ==
    \/ HostTimesOut
    \/ HostReads /\ (hpc' # hpc \/ (hpc = "greet" /\ Head(toHost) # AppStart))

(* Time passes for the script; the device owes nobody anything.            *)
TransferSpec == TransferInit /\ [][TransferNext]_transferVars /\ WF_transferVars(WaitOver)

-----------------------------------------------------------------------------
(* Properties.                                                             *)

Places == {"boot", "check", "update", "recovery", "handoff", "app", "fatal"}

TransferTypeOK ==
    /\ TypeOK
    /\ dev \in Places
    /\ toDevice \in Seq(Symbols \cup Cells)
    /\ handle \in {"main", "lost", "local", "closed"}
    /\ image \in Seq(Data) /\ offset \in 0 .. Len(image)
    /\ runs \in 0 .. MaxRuns /\ faults \in 0 .. MaxFaults

(* When the script reports success, the partition holds the image it was   *)
(* asked to send: no stale answer of an earlier run, no frame of another   *)
(* image and no damage on the line makes it report an update that did not  *)
(* happen.                                                                 *)
SuccessMeansInstalled ==
    code = "success" => Read(flash, part.offset, Len(image)) = image

(* When the script reports success, the device can boot what its partition *)
(* holds, whatever was lost or damaged on the way, whatever failed and     *)
(* whoever reset it since: nothing touches the flash once the application  *)
(* was started.                                                            *)
SuccessMeansBootable == code = "success" => ImageValid(flash, part)

(* The script returns: each of its waits ends, however many lines it skips *)
(* and however often the port disappears.  There is one exception, the     *)
(* loop of its handshake, which starts a new wait with every BL_EVT line:  *)
(* it goes on for ever when the device goes on booting for ever, because   *)
(* the operator cycles the selector, or because the boot fails or the      *)
(* application restarts and so resets the device, which takes no operator. *)
(* Resets from outside are disturbances, of which there are finitely many. *)
HostReturns ==
    \/ hpc # "off" ~> hpc = "off"
    \/ <>[](hpc = "greet") /\ []<><<BootToken \/ FatalResets \/ AppRestarts>>_transferVars

(* send_update.py calls its handshake "race-safe": starting the script     *)
(* before, while or after the device enters update mode makes no frame     *)
(* fail when nothing else goes wrong.                                      *)
HandshakeRaceSafe == faults = 0 /\ runs <= 1 => code # "chunk failed"

(* README.md: "Scripts handle ESP32-C3 USB reenumeration during reset".    *)
ReenumerationHandled == code # "serial error"
=============================================================================
