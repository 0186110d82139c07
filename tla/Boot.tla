------------------------------ MODULE Boot ------------------------------
(***************************************************************************)
(* call_start_cpu0 of main.c, the recovery console's commands and the      *)
(* application's start in app_test/main.c, across resets and power losses. *)
(* An update session is what UpdateSession promises of handle_update_mode, *)
(* and the mode selector any mode of its ring.  The power may fail, or the *)
(* watchdog or a reset pin strike, between any two steps.                  *)
(***************************************************************************)
EXTENDS UpdateSession

CONSTANTS
    FatalCycles,   \* blink cycles of fatal_reset_loop before its reset: 12
    Garbage        \* a value above BOOT_CTX_UPDATE in the RTC register

Contexts == {"UNKNOWN", "NORMAL", "RECOVERY", "UPDATE"}

Modes == {"NORMAL", "UPDATE", "RECOVERY"}

ASSUME FatalCyclesAssumption == FatalCycles \in Nat \ {0}
ASSUME GarbageAssumption == Garbage \notin Contexts

VARIABLES
    pc,        \* what call_start_cpu0, or the application, does next
    ctx,       \* the RTC registers: whether the magic is there, the value
    selected,  \* selected_mode
    from,      \* why enter_recovery_loop was called; "none" before it is
    sector,    \* the loop variable of erase_factory_partition
    cycles,    \* the loop variable of fatal_reset_loop
    route,     \* history: how this boot earned its handoff
    observed   \* the boot context the application printed

locals == <<selected, from, sector, cycles>>
bootVars == <<pc, ctx, locals, route, observed>>
vars == <<sessionVars, bootVars>>

Registers == [magic : BOOLEAN, value : Contexts \cup {Garbage}]

Published(c) == [magic |-> TRUE, value |-> c]

FreshLocals ==
    /\ selected' = "NORMAL" /\ from' = "none" /\ sector' = 0 /\ cycles' = 0
    /\ route' = "none" /\ observed' = "none"
    /\ active' = FALSE /\ result' = FALSE

Init ==
    /\ SessionInit
    /\ pc = "reset" /\ ctx \in Registers
    /\ selected = "NORMAL" /\ from = "none" /\ sector = 0 /\ cycles = 0
    /\ route = "none" /\ observed = "none"

(* The step leaves the flash and the update session alone.                 *)
NoSession == UNCHANGED sessionVars

-----------------------------------------------------------------------------
(* From reset to the mode decision.                                        *)

PublishUnknown ==
    /\ pc = "reset" /\ pc' = "bootloader_init"
    /\ ctx' = Published("UNKNOWN")
    /\ NoSession /\ UNCHANGED <<locals, route, observed>>

(* The initialisation at "at" works and the boot goes on at "next", or     *)
(* fatal_reset_loop takes over.                                            *)
OrFatal(at, next) ==
    /\ pc = at /\ pc' \in {next, "fatal"}
    /\ NoSession /\ UNCHANGED <<ctx, locals, route, observed>>

BootloaderInit == OrFatal("bootloader_init", "partition_table")
LoadPartitionTable == OrFatal("partition_table", "select")

(* Mutant of EnterRecovery: the recovery loop returns at once.             *)
SkipRecovery(why) ==
    /\ pc' = "publish" /\ from' = why
    /\ ctx' = Published("RECOVERY")
    /\ UNCHANGED <<sector, cycles, route, observed>>

(* Mutant of EnterRecovery: the recovery loop fails, and a fatal reset     *)
(* follows.                                                                *)
FatalRecovery(why) ==
    /\ pc' = "fatal" /\ from' = why
    /\ ctx' = Published("RECOVERY")
    /\ UNCHANGED <<sector, cycles, route, observed>>

EnterRecovery(why) ==
    /\ pc' = "recovery" /\ from' = why
    /\ ctx' = Published("RECOVERY")
    /\ UNCHANGED <<sector, cycles, route, observed>>

SelectNormal ==
    /\ pc = "select" /\ pc' = "check"
    /\ selected' = "NORMAL"
    /\ NoSession /\ UNCHANGED <<ctx, from, sector, cycles, route, observed>>

SelectUpdate ==
    /\ pc = "select" /\ pc' = "update"
    /\ selected' = "UPDATE"
    /\ NoSession /\ UNCHANGED <<ctx, from, sector, cycles, route, observed>>

SelectRecovery ==
    /\ pc = "select"
    /\ selected' = "RECOVERY"
    /\ EnterRecovery("mode")
    /\ NoSession

-----------------------------------------------------------------------------
(* The image check of a normal boot.                                       *)

CheckPasses ==
    /\ pc = "check" /\ TRUE \in CrcCheckOutcomes(flash, part)
    /\ pc' = "publish" /\ route' = "check"
    /\ NoSession /\ UNCHANGED <<ctx, locals, observed>>

CheckFails ==
    /\ pc = "check" /\ FALSE \in CrcCheckOutcomes(flash, part)
    /\ EnterRecovery("check")
    /\ NoSession /\ UNCHANGED selected

-----------------------------------------------------------------------------
(* The recovery loop.  Commands that change nothing are left out.          *)

(* enter_recovery_loop returns: chosen in the selector, the boot is then a *)
(* normal one with its check; otherwise the handoff comes next.            *)
AfterRecovery == IF from = "mode" THEN "check" ELSE "publish"

(* Mutant of LeaveRecovery: selected_mode is not set back to NORMAL.       *)
LeaveRecoverySelected ==
    /\ pc' = AfterRecovery /\ route' = "recovery"
    /\ UNCHANGED <<ctx, locals, observed>>

LeaveRecovery ==
    /\ pc' = AfterRecovery /\ route' = "recovery"
    /\ selected' = "NORMAL"
    /\ UNCHANGED <<ctx, from, sector, cycles, observed>>

CommandReboot ==
    /\ pc = "recovery" /\ pc' = "reset"
    /\ FreshLocals
    /\ UNCHANGED <<part, flash, ctx>>

CommandUpdate ==
    /\ pc = "recovery" /\ pc' = "update"
    /\ NoSession /\ UNCHANGED <<ctx, locals, route, observed>>

CommandBoot ==
    /\ pc = "recovery" /\ TRUE \in CrcCheckOutcomes(flash, part)
    /\ LeaveRecovery
    /\ NoSession

CommandErase ==
    /\ pc = "recovery"
    /\ part.size # 0 /\ part.size % SectorSize = 0
    /\ pc' = "erase" /\ sector' = 0
    /\ NoSession /\ UNCHANGED <<ctx, selected, from, cycles, route, observed>>

(* Mutant of SectorCount: one sector too many.                             *)
OneSectorMore == part.size \div SectorSize + 1

SectorCount == part.size \div SectorSize

EraseSector ==
    /\ pc = "erase" /\ sector < SectorCount
    /\ flash' = Erase(flash, SectorCells(flash, part.offset \div SectorSize + sector))
    /\ sector' = sector + 1
    /\ UNCHANGED <<part, active, result, pc, ctx, selected, from, cycles, route, observed>>

EraseFails ==
    /\ pc = "erase" /\ sector < SectorCount
    /\ \E cells \in SUBSET SectorCells(flash, part.offset \div SectorSize + sector) :
           flash' = Erase(flash, cells)
    /\ pc' = "recovery" /\ sector' = 0
    /\ UNCHANGED <<part, active, result, ctx, selected, from, cycles, route, observed>>

EraseDone ==
    /\ pc = "erase" /\ sector >= SectorCount
    /\ pc' = "recovery" /\ sector' = 0
    /\ NoSession /\ UNCHANGED <<ctx, selected, from, cycles, route, observed>>

-----------------------------------------------------------------------------
(* Update mode, called by the selector or by the recovery console.         *)

CalledBySelector == from = "none"

UpdateBegins ==
    /\ pc = "update" /\ Begin
    /\ UNCHANGED bootVars

UpdateWrites ==
    /\ pc = "update" /\ Rewrite
    /\ UNCHANGED bootVars

UpdateFails ==
    /\ pc = "update"
    /\ Refuse \/ Abandon
    /\ IF CalledBySelector
       THEN EnterRecovery("update") /\ UNCHANGED selected
       ELSE pc' = "recovery" /\ UNCHANGED <<ctx, locals, route, observed>>

UpdateSucceeds ==
    /\ pc = "update" /\ Accept
    /\ IF CalledBySelector
       THEN /\ pc' = "publish" /\ route' = "update"
            /\ UNCHANGED <<ctx, locals, observed>>
       ELSE LeaveRecovery

-----------------------------------------------------------------------------
(* Handoff and the application.                                            *)

PublishContext ==
    /\ pc = "publish" /\ pc' = "load_app"
    /\ ctx' = Published(IF selected = "UPDATE" THEN "UPDATE" ELSE "NORMAL")
    /\ NoSession /\ UNCHANGED <<locals, route, observed>>

(* bootloader_utility_load_boot_image starts the application, or returns.  *)
LoadBootImage == OrFatal("load_app", "app_main")

(* read_boot_context: without the magic, nothing is cleared.               *)
ReadBootContext ==
    /\ pc = "app_main" /\ pc' = "app"
    /\ observed' = IF ctx.magic /\ ctx.value # Garbage THEN ctx.value ELSE "UNKNOWN"
    /\ ctx' = IF ctx.magic THEN [magic |-> FALSE, value |-> "UNKNOWN"] ELSE ctx
    /\ NoSession /\ UNCHANGED <<locals, route>>

AppRestarts ==
    /\ pc = "app" /\ pc' = "reset"
    /\ FreshLocals
    /\ UNCHANGED <<part, flash, ctx>>

-----------------------------------------------------------------------------
(* Resets.                                                                 *)

(* Mutant of LastCycle: the cycle after the last.                          *)
CycleAfterLast(n) == n = FatalCycles

LastCycle(n) == n = FatalCycles - 1

FatalBlinks ==
    /\ pc = "fatal" /\ ~LastCycle(cycles)
    /\ cycles' = cycles + 1
    /\ NoSession /\ UNCHANGED <<pc, ctx, selected, from, sector, route, observed>>

FatalResets ==
    /\ pc = "fatal" /\ LastCycle(cycles)
    /\ pc' = "reset"
    /\ FreshLocals
    /\ UNCHANGED <<part, flash, ctx>>

(* The watchdog or the reset pin: the RTC registers keep their values.     *)
WatchdogReset ==
    /\ pc' = "reset"
    /\ FreshLocals
    /\ UNCHANGED <<part, flash, ctx>>

(* They hold anything when the power comes back.                           *)
PowerLoss ==
    /\ pc' = "reset"
    /\ FreshLocals
    /\ ctx' \in Registers
    /\ UNCHANGED <<part, flash>>

Startup == \/ PublishUnknown \/ BootloaderInit \/ LoadPartitionTable
           \/ CheckPasses \/ CheckFails
           \/ PublishContext \/ LoadBootImage \/ ReadBootContext
Selector == SelectNormal \/ SelectUpdate \/ SelectRecovery
Console == CommandReboot \/ CommandUpdate \/ CommandBoot \/ CommandErase
Erasing == EraseSector \/ EraseFails \/ EraseDone
Updating == UpdateBegins \/ UpdateWrites \/ UpdateFails \/ UpdateSucceeds
Fatal == FatalBlinks \/ FatalResets
Resets == AppRestarts \/ WatchdogReset \/ PowerLoss

Next == Startup \/ Selector \/ Console \/ Erasing \/ Updating \/ Fatal \/ Resets

Spec == Init /\ [][Next]_vars

-----------------------------------------------------------------------------
(* Properties.                                                             *)

Places == {"reset", "bootloader_init", "partition_table", "select", "check", "recovery",
           "erase", "update", "publish", "load_app", "app_main", "app", "fatal"}

TypeOK ==
    /\ part \in Partitions
    /\ flash \in FlashStates
    /\ active \in BOOLEAN /\ result \in BOOLEAN
    /\ pc \in Places /\ ctx \in Registers
    /\ selected \in Modes
    /\ from \in {"none", "mode", "check", "update"}
    /\ sector \in 0 .. SectorCount
    /\ cycles \in 0 .. FatalCycles - 1
    /\ route \in {"none", "check", "recovery", "update"}
    /\ observed \in {"none"} \cup Contexts

(* From the moment a boot is committed to the handoff until the next       *)
(* reset, the image in the partition passes the check: no path through     *)
(* the selector, an update, the recovery console or a failed load reaches  *)
(* the application with an image that was not checked or has changed since.*)
OnlyCheckedImagesRun ==
    pc \in {"publish", "load_app", "app_main", "app"} => ImageValid(flash, part)

(* The application is told UPDATE exactly when this boot went straight     *)
(* from a selected update to the handoff, NORMAL otherwise, and never what *)
(* an earlier boot, the recovery loop or a power loss left in the          *)
(* registers.                                                              *)
ContextIsTrue ==
    pc = "app" => observed = (IF route = "update" THEN "UPDATE" ELSE "NORMAL")

(* The whole boot chain keeps the promise of BootGate.                     *)
GatePromise == INSTANCE BootGate WITH running <- pc \in {"app_main", "app"}
KeepsGatePromise == GatePromise!GateSpec
=============================================================================
