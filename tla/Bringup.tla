----------------------------- MODULE Bringup -----------------------------
(***************************************************************************)
(* A board on the bench, from the image that is built for it to the        *)
(* verdict on its boot log: append_crc.py builds or rebuilds the partition *)
(* image, esptool writes it, the device boots and prints its tokens,       *)
(* watch_serial.py captures them, validate_bootlog.py judges the file.     *)
(* The device is call_start_cpu0 seen through its tokens: what it prints   *)
(* on which path, and whether its image passes the check.  A reset takes   *)
(* the port away; lines printed before the watcher has it back are lost.   *)
(***************************************************************************)
EXTENDS PartitionImage, BootLog

CONSTANTS
    Inputs,        \* application binaries and old partition images
    Tables,        \* partitions.csv, as sequences of rows
    MaxEvents,     \* bound: resets, recovery commands and chunks
    MaxStalls      \* bound: STALL lines of the log

ASSUME BringupAssumption ==
    /\ Inputs \subseteq Seq(SUBSET UNION Data)
    /\ {MaxEvents, MaxStalls} \subseteq Nat
    /\ \E p \in Partitions : Partitions = {p}

VARIABLES
    app,       \* the binary, or the image, the bench started from
    file,      \* the file append_crc.py reads and writes
    bad,       \* --bad-crc of its last run
    good,      \* run_app_crc_check passes
    pc,        \* what the device, or before it the bench, does next
    from,      \* why recovery was entered, or what called update mode
    recovered, \* this boot has been in recovery
    port,      \* the watcher's port
    log,       \* the captured file
    lost,      \* history: a line was printed without being captured
    events,    \* bound: resets, commands and chunks so far
    ran        \* history: how applications were reached

bench == <<app, file, bad>>
capture == <<port, log, lost>>
vars == <<bench, good, pc, from, recovered, capture, events, ran>>

Part == CHOOSE p \in Partitions : TRUE

Init ==
    /\ app \in Inputs /\ file = app /\ bad = FALSE
    /\ good = FALSE
    /\ pc = "bench" /\ from = "none" /\ recovered = FALSE
    /\ port \in {"open", "closed"} /\ log = <<>> /\ lost = FALSE
    /\ events = 0 /\ ran = {}

-----------------------------------------------------------------------------
(* The bench.                                                              *)

(* The build runs the script on the fresh binary, the commands of SETUP.md *)
(* on the file of the run before, in place.                                *)
Builds ==
    /\ pc \in {"bench", "built"} /\ pc' = "built"
    /\ \E input \in {app, file}, table \in Tables :
           /\ HasFactorySize(table) /\ Fits(input, FactorySize(table))
           /\ bad' \in BOOLEAN
           /\ file' = Build(input, FactorySize(table), bad')
    /\ UNCHANGED <<app, good, from, recovered, capture, events, ran>>

(* The files are not needed any more.                                      *)
Flashes ==
    /\ pc = "built" /\ pc' = "select"
    /\ good' = ImageValid(FlashWith(file, Part), Part)
    /\ app' = <<>> /\ file' = <<>> /\ bad' = FALSE
    /\ UNCHANGED <<from, recovered, capture, events, ran>>

-----------------------------------------------------------------------------
(* The watcher.                                                            *)

Prints(tokens) ==
    IF port = "open"
    THEN /\ log' = log \o [i \in DOMAIN tokens |-> Line(tokens[i])]
         /\ UNCHANGED <<port, lost>>
    ELSE lost' = TRUE /\ UNCHANGED <<port, log>>

PortReturns ==
    /\ port = "closed" /\ port' = "open"
    /\ UNCHANGED <<bench, good, pc, from, recovered, log, lost, events, ran>>

(* Mutant of Quoted: last_line is one line behind.                         *)
QuotedLate(lines) == lines[IF Len(lines) = 1 THEN 1 ELSE Len(lines) - 1].token

Quoted(lines) == Last(lines).token

(* The last line has not changed for a while.                              *)
Stalls ==
    /\ port = "open" /\ log # <<>>
    /\ Cardinality({i \in DOMAIN log : log[i].stall}) < MaxStalls
    /\ log' = Append(log, StallLine(Quoted(log)))
    /\ UNCHANGED <<bench, good, pc, from, recovered, port, lost, events, ran>>

-----------------------------------------------------------------------------
(* The device.                                                             *)

Device(next) == pc' = next /\ UNCHANGED <<bench, ran>>

Counts == events < MaxEvents /\ events' = events + 1

SelectNormal ==
    /\ pc = "select" /\ Prints(<<"DECISION_NORMAL">>)
    /\ Device("check") /\ UNCHANGED <<good, from, recovered, events>>

SelectUpdate ==
    /\ pc = "select" /\ Prints(<<"DECISION_UPDATE", "READY_FOR_UPDATE">>)
    /\ Device("session") /\ UNCHANGED <<good, from, recovered, events>>

EntersRecovery(why) == Device("recovery") /\ from' = why /\ recovered' = TRUE

SelectRecovery ==
    /\ pc = "select" /\ Prints(<<"DECISION_RECOVERY">>)
    /\ EntersRecovery("select") /\ UNCHANGED <<good, events>>

CheckPasses ==
    /\ pc = "check" /\ good /\ Prints(<<"APP_CRC_CHECK", "APP_CRC_OK">>)
    /\ Device("load") /\ UNCHANGED <<good, from, recovered, events>>

(* A wrong CRC or a flash that cannot be read.                             *)
CheckFails ==
    /\ pc = "check" /\ Prints(<<"APP_CRC_CHECK", "APP_CRC_FAIL", "DECISION_RECOVERY">>)
    /\ EntersRecovery("check") /\ UNCHANGED <<good, events>>

(* The recovery loop is left: one chosen by the operator goes on with the  *)
(* normal decision and its check, any other with the handoff.              *)
LeavesRecovery(tokens) ==
    IF from = "select"
    THEN Prints(Append(tokens, "DECISION_NORMAL")) /\ Device("check") /\ from' = "left"
    ELSE Prints(tokens) /\ Device("load") /\ UNCHANGED from

(* handle_update_mode asks for a chunk; what came before may have left     *)
(* anything in the partition.                                              *)
ReadyForChunk ==
    /\ pc \in {"session", "chunks"} /\ Counts
    /\ Prints(<<"READY_FOR_CHUNK">>)
    /\ good' \in IF pc = "session" THEN {good} ELSE BOOLEAN
    /\ Device("chunks") /\ UNCHANGED <<from, recovered>>

Accepted == <<"UPDATE_SESSION_END", "APP_CRC_CHECK", "APP_CRC_OK">>
Rejected == <<"UPDATE_SESSION_END", "APP_CRC_CHECK", "APP_CRC_FAIL">>

SessionAccepts ==
    /\ pc = "chunks" /\ good
    /\ IF recovered THEN LeavesRecovery(Accepted)
                    ELSE Prints(Accepted) /\ Device("load") /\ UNCHANGED from
    /\ UNCHANGED <<good, recovered, events>>

(* The selector's session ends in recovery, the console's in the console.  *)
SessionFails ==
    /\ pc \in {"session", "chunks"}
    /\ \E tokens \in {<<>>} \cup (IF pc = "chunks" THEN {Rejected} ELSE {}) :
           /\ good' \in IF pc = "chunks" /\ tokens = <<>> THEN BOOLEAN ELSE {good}
           /\ IF recovered
              THEN Prints(tokens) /\ Device("recovery") /\ UNCHANGED <<from, recovered>>
              ELSE Prints(Append(tokens, "DECISION_RECOVERY")) /\ EntersRecovery("update")
    /\ UNCHANGED events

CommandStatus ==
    /\ pc = "recovery" /\ Counts
    /\ Prints(<<"RECOVERY_CMD_STATUS">>)
    /\ Device("recovery") /\ UNCHANGED <<good, from, recovered>>

CommandUpdate ==
    /\ pc = "recovery" /\ Counts
    /\ Prints(<<"DECISION_UPDATE", "READY_FOR_UPDATE">>)
    /\ Device("session") /\ UNCHANGED <<good, from, recovered>>

CommandErase ==
    /\ pc = "recovery" /\ Counts
    /\ good' \in {FALSE, good}
    /\ Device("recovery") /\ UNCHANGED <<from, recovered, capture>>

CommandBoot ==
    /\ pc = "recovery" /\ Counts
    /\ \/ good /\ LeavesRecovery(<<"APP_CRC_CHECK", "APP_CRC_OK">>)
       \/ /\ Prints(<<"APP_CRC_CHECK", "APP_CRC_FAIL">>)
          /\ Device("recovery") /\ UNCHANGED from
    /\ UNCHANGED <<good, recovered>>

Handoff ==
    /\ pc = "load" /\ Prints(<<"LOAD_APP", "HANDOFF", "HANDOFF_APP">>)
    /\ Device("jump") /\ UNCHANGED <<good, from, recovered, events>>

AppStarts ==
    /\ pc = "jump" /\ pc' = "app"
    /\ Prints(<<"START", "BOOTLOADER_HANDOFF_OK">>)
    /\ ran' = ran \cup {IF recovered THEN "recovered" ELSE "direct"}
    /\ UNCHANGED <<bench, good, from, recovered, events>>

(* A command, a load that fails, the watchdog or the reset pin.            *)
Resets ==
    /\ pc \notin {"bench", "built"} /\ pc' = "select"
    /\ Counts
    /\ from' = "none" /\ recovered' = FALSE
    /\ port' = "closed"
    /\ UNCHANGED <<bench, good, log, lost, ran>>

Boots == \/ SelectNormal \/ SelectUpdate \/ SelectRecovery \/ CheckPasses \/ CheckFails
         \/ ReadyForChunk \/ SessionAccepts \/ SessionFails \/ CommandStatus \/ CommandUpdate
         \/ CommandErase \/ CommandBoot \/ Handoff \/ AppStarts \/ Resets

Next == Builds \/ Flashes \/ PortReturns \/ Stalls \/ Boots

Spec == Init /\ [][Next]_vars

-----------------------------------------------------------------------------
(* Properties.                                                             *)

Tokens == {log[i].token : i \in DOMAIN log}

TypeOK ==
    /\ app \in Inputs \cup {<<>>} /\ bad \in BOOLEAN /\ good \in BOOLEAN
    /\ file \in Seq(SUBSET UNION Data)
    /\ pc = "built" => Len(file) = Part.size
    /\ pc \in {"bench", "built", "select", "check", "session", "chunks", "recovery", "load",
               "jump", "app"}
    /\ from \in {"none", "select", "left", "check", "update"} /\ recovered \in BOOLEAN
    /\ port \in {"open", "closed"} /\ lost \in BOOLEAN
    /\ events \in 0 .. MaxEvents
    /\ ran \subseteq {"direct", "recovered"}

(* However often append_crc.py is run on its own output, with and without  *)
(* --bad-crc, the image still holds the application, and the device takes  *)
(* it exactly when the last run was not --bad-crc and states an image.     *)
BuiltImageIsTrue ==
    pc = "built" =>
        /\ ImageValid(FlashWith(file, Part), Part) = (~bad /\ StoredSize(file) # 0)
        /\ StoredSize(file) = 0 =>
               StripErased(SubSeq(app, 1, Min({Len(app), PayloadSize(Len(file))}))) = <<>>
        /\ StripErased(SubSeq(file, 1, PayloadSize(Len(file))))
               = StripErased(SubSeq(app, 1, Min({Len(app), PayloadSize(Len(file))})))

(* A complete log that passes the profile "normal" shows a boot straight   *)
(* into the application, and one that passes "recovery" shows none that    *)
(* came out of recovery, whatever boots, commands and updates it mixes.    *)
VerdictMeansPath ==
    ~lost =>
        /\ Validates(log, "normal", FALSE) => "direct" \in ran
        /\ Validates(log, "recovery", FALSE) => "recovered" \notin ran

(* A complete log of boots without recovery or failed check, one of which  *)
(* reached the application, is not rejected.                               *)
GoodBootPasses ==
    /\ ~lost /\ "direct" \in ran
    /\ Tokens \cap {"DECISION_RECOVERY", "APP_CRC_FAIL"} = {}
    => Validates(log, "normal", FALSE)

(* The lines watch_serial.py adds when nothing moves do not change the     *)
(* verdict on a complete log: it is that of the lines the board printed,   *)
(* each at its place.                                                      *)
StallsChangeNothing ==
    LET Printed == Restrict(log, {i \in DOMAIN log : ~log[i].stall})
    IN ~lost => \A profile \in Profiles, allow \in BOOLEAN :
                    Validates(log, profile, allow) = Validates(Printed, profile, allow)

(* A log whose capture began in the middle of its only update session is   *)
(* not rejected for the prompt it missed.                                  *)
LateCapturePasses ==
    /\ \E i, j \in DOMAIN log : /\ i < j /\ log[i].token = "READY_FOR_CHUNK"
                               /\ log[j].token = "UPDATE_SESSION_END"
    /\ "READY_FOR_UPDATE" \notin Tokens /\ Tokens \cap {"DECISION_RECOVERY", "APP_CRC_FAIL"} = {}
    => Validates(log, "update", FALSE)

(* The help of --allow-recovery-handoff: "Allow HANDOFF_APP after recovery *)
(* in logs where recovery command boot/update transitions are expected".   *)
FlagAllowsHandoff ==
    \A profile \in {"recovery", "update"} :
        ~lost /\ FindInOrder(log, profile) => Validates(log, profile, TRUE)
=============================================================================
