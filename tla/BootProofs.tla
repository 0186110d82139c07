--------------------------- MODULE BootProofs ---------------------------
(***************************************************************************)
(* Proofs about Boot, for every partition table, flash and image check.    *)
(***************************************************************************)
EXTENDS Boot, FlashProofs

-----------------------------------------------------------------------------
(* Only an image that passes the check is ever started.                    *)

(* The check passes only for a valid image.                                *)
LEMMA PassedCheck ==
    ASSUME NEW f, NEW p, TRUE \in CrcCheckOutcomes(f, p)
    PROVE  ImageValid(f, p)
BY Zenon DEF CrcCheckOutcomes, ImageValid

(* OnlyCheckedImagesRun is inductive as it stands: every way into          *)
(* "publish" goes through the check, and from there to the reset nothing   *)
(* writes to the flash.                                                    *)
LEMMA CheckedStep ==
    ASSUME OnlyCheckedImagesRun, [Next]_vars
    PROVE  OnlyCheckedImagesRun'
<1> USE DEF OnlyCheckedImagesRun
<1>1. CASE UNCHANGED vars
  BY <1>1 DEF vars, sessionVars, bootVars
<1>2. CASE Startup
  BY <1>2, PassedCheck DEF Startup, PublishUnknown, BootloaderInit, LoadPartitionTable,
     OrFatal, CheckPasses, CheckFails, EnterRecovery, PublishContext, LoadBootImage,
     ReadBootContext, NoSession, sessionVars
<1>3. CASE Selector
  BY <1>3 DEF Selector, SelectNormal, SelectUpdate, SelectRecovery, EnterRecovery,
     NoSession, sessionVars
<1>4. CASE Console
  BY <1>4, PassedCheck DEF Console, CommandReboot, CommandUpdate, CommandBoot, CommandErase,
     LeaveRecovery, AfterRecovery, NoSession, sessionVars
<1>5. CASE Erasing
  BY <1>5 DEF Erasing, EraseSector, EraseFails, EraseDone
<1>6. CASE Updating
  BY <1>6 DEF Updating, UpdateBegins, UpdateWrites, UpdateFails, UpdateSucceeds,
     EnterRecovery, LeaveRecovery, Accept, bootVars
<1>7. CASE Fatal \/ Resets
  BY <1>7 DEF Fatal, FatalBlinks, FatalResets, Resets, AppRestarts, WatchdogReset, PowerLoss
<1> QED
  BY <1>1, <1>2, <1>3, <1>4, <1>5, <1>6, <1>7 DEF Next

(* From the commitment to the handoff until the next reset the image in    *)
(* the partition passes the check (run_app_crc_check), whatever was        *)
(* selected, updated, erased or interrupted before.                        *)
THEOREM CheckedImages == Spec => []OnlyCheckedImagesRun
<1>1. Init => OnlyCheckedImagesRun
  BY DEF Init, OnlyCheckedImagesRun
<1> QED
  BY <1>1, CheckedStep, PTL DEF Spec

-----------------------------------------------------------------------------
(* Types.                                                                  *)

(* The locals of a boot that starts again.                                 *)
LEMMA FreshTypes ==
    ASSUME TypeOK, FreshLocals, SectorCount \in Nat, SectorCount' = SectorCount,
           UNCHANGED <<part, flash>>, ctx' \in Registers, pc' = "reset"
    PROVE  TypeOK'
<1>1. active' \in BOOLEAN /\ result' \in BOOLEAN
  BY DEF FreshLocals
<1>2. sector' \in 0 .. SectorCount /\ cycles' \in 0 .. FatalCycles - 1
  BY FatalCyclesAssumption DEF FreshLocals
<1>3. /\ selected' \in Modes /\ from' = "none" /\ route' = "none" /\ observed' = "none"
      /\ pc' \in Places
  BY DEF FreshLocals, Modes, Places
<1> QED
  BY <1>1, <1>2, <1>3 DEF TypeOK

LEMMA TypeStep ==
    ASSUME TypeOK, [Next]_vars
    PROVE  TypeOK'
<1> USE DEF TypeOK
<1>0. /\ "NORMAL" \in Modes /\ "UPDATE" \in Modes /\ "RECOVERY" \in Modes
      /\ 0 \in 0 .. FatalCycles - 1
      /\ \A c \in Contexts : Published(c) \in Registers
  BY FatalCyclesAssumption DEF Modes, Published, Registers
<1>1. SectorCount \in Nat /\ SectorCount' = SectorCount
  <2>1. part.size \in Nat
    BY PartitionsAssumption
  <2>2. SectorCount \in Nat
    BY <2>1, DivBounds DEF SectorCount
  <2>3. part' = part
    BY DEF Next, vars, sessionVars, bootVars, locals, NoSession, FreshLocals,
       Startup, PublishUnknown, BootloaderInit, LoadPartitionTable,
       OrFatal, CheckPasses, CheckFails, PublishContext, LoadBootImage, ReadBootContext,
       Selector, SelectNormal, SelectUpdate, SelectRecovery,
       Console, CommandReboot, CommandUpdate, CommandBoot, CommandErase,
       Erasing, EraseSector, EraseFails, EraseDone,
       Updating, UpdateBegins, UpdateWrites, UpdateFails, UpdateSucceeds,
       Begin, Refuse, Rewrite, Abandon, Accept,
       Fatal, FatalBlinks, FatalResets, Resets, AppRestarts, WatchdogReset, PowerLoss
  <2> QED
    BY <2>2, <2>3 DEF SectorCount
<1>2. CASE UNCHANGED vars
  BY <1>1, <1>2 DEF vars, sessionVars, bootVars, locals
<1>3. CASE Startup
  <2>1. CASE ReadBootContext
    <3>1. observed' \in {"none"} \cup Contexts /\ ctx' \in Registers
      BY <2>1 DEF ReadBootContext, Registers, Contexts
    <3> QED
      BY <1>1, <2>1, <3>1 DEF ReadBootContext, NoSession, sessionVars, locals, Places
  <2>2. CASE PublishContext
    <3>1. ctx' \in Registers
      BY <1>0, <2>2 DEF PublishContext, Contexts
    <3> QED
      BY <1>1, <2>2, <3>1 DEF PublishContext, NoSession, sessionVars, locals, Places
  <2>3. CASE CheckPasses \/ CheckFails
    BY <1>0, <1>1, <2>3 DEF CheckPasses, CheckFails, EnterRecovery, NoSession, sessionVars,
       locals, Places, Contexts
  <2>4. CASE PublishUnknown \/ BootloaderInit \/ LoadPartitionTable \/ LoadBootImage
    BY <1>0, <1>1, <2>4 DEF PublishUnknown, BootloaderInit, LoadPartitionTable,
       LoadBootImage, OrFatal, NoSession, sessionVars, locals, Places, Contexts
  <2> QED
    BY <1>3, <2>1, <2>2, <2>3, <2>4 DEF Startup
<1>4. CASE Selector
  BY <1>0, <1>1, <1>4 DEF Selector, SelectNormal, SelectUpdate, SelectRecovery, EnterRecovery,
     NoSession, sessionVars, locals, Places, Contexts
<1>5. CASE Console
  <2>1. CASE CommandReboot
    BY <1>1, <2>1, FreshTypes DEF CommandReboot
  <2>2. CASE CommandUpdate \/ CommandErase
    BY <1>1, <2>2 DEF CommandUpdate, CommandErase, NoSession, sessionVars, locals, Places
  <2>3. CASE CommandBoot
    BY <1>0, <1>1, <2>3 DEF CommandBoot, LeaveRecovery, AfterRecovery, NoSession,
       sessionVars, Places
  <2> QED
    BY <1>5, <2>1, <2>2, <2>3 DEF Console
<1>6. CASE Erasing
  <2>1. flash' \in FlashStates
    BY <1>6, EraseType DEF Erasing, EraseSector, EraseFails, EraseDone, NoSession, sessionVars
  <2>2. sector' \in 0 .. SectorCount
    BY <1>1, <1>6 DEF Erasing, EraseSector, EraseFails, EraseDone
  <2> QED
    BY <1>1, <1>6, <2>1, <2>2 DEF Erasing, EraseSector, EraseFails, EraseDone, NoSession,
       sessionVars, Places
<1>7. CASE Updating
  BY <1>0, <1>1, <1>7 DEF Updating, UpdateBegins, UpdateWrites, UpdateFails, UpdateSucceeds,
     EnterRecovery, LeaveRecovery, AfterRecovery, Begin, Refuse, Rewrite, RewritesPartition,
     Abandon, Accept, bootVars, locals, Places, Contexts
<1>8. CASE Fatal \/ Resets
  <2>1. CASE FatalBlinks
    BY <1>1, <2>1, FatalCyclesAssumption DEF FatalBlinks, LastCycle, NoSession, sessionVars
  <2>2. CASE FatalResets \/ Resets
    <3>1. FreshLocals /\ UNCHANGED <<part, flash>> /\ ctx' \in Registers /\ pc' = "reset"
      BY <2>2 DEF FatalResets, Resets, AppRestarts, WatchdogReset, PowerLoss
    <3> QED
      BY <1>1, <3>1, FreshTypes
  <2> QED
    BY <1>8, <2>1, <2>2 DEF Fatal
<1> QED
  BY <1>2, <1>3, <1>4, <1>5, <1>6, <1>7, <1>8 DEF Next

(* The state of the boot chain keeps its type.                             *)
THEOREM BootTypes == Spec => []TypeOK
<1>1. Init => TypeOK
  <2> SUFFICES ASSUME Init PROVE TypeOK
    OBVIOUS
  <2>1. part \in Partitions /\ part.size \in Nat
    BY PartitionsAssumption DEF Init, SessionInit
  <2>2. 0 \in 0 .. SectorCount
    BY <2>1, DivBounds DEF SectorCount
  <2>3. 0 \in 0 .. FatalCycles - 1
    BY FatalCyclesAssumption
  <2> QED
    BY <2>1, <2>2, <2>3, InitialFlashAssumption DEF Init, SessionInit, TypeOK, Places, Modes
<1> QED
  BY <1>1, TypeStep, PTL DEF Spec

-----------------------------------------------------------------------------
(* The context the application reads.                                      *)

TrueContext == IF route = "update" THEN "UPDATE" ELSE "NORMAL"

(* What makes ContextIsTrue inductive: which loops have been entered tells *)
(* what selected_mode is, and from the publication on the registers hold   *)
(* the truth about this boot.                                              *)
ContextInvariant ==
    /\ pc \in {"reset", "bootloader_init", "partition_table", "select"} => from = "none"
    /\ pc \in {"recovery", "erase"} => from # "none"
    /\ pc = "check" => selected = "NORMAL"
    /\ pc = "update" /\ from = "none" => selected = "UPDATE"
    /\ pc = "publish" => selected = TrueContext
    /\ pc \in {"load_app", "app_main"} => ctx = Published(TrueContext)
    /\ ContextIsTrue

LEMMA ContextStep ==
    ASSUME TypeOK, ContextInvariant, [Next]_vars
    PROVE  ContextInvariant'
<1> USE DEF ContextInvariant, ContextIsTrue, TrueContext
<1>1. CASE UNCHANGED vars
  BY <1>1 DEF vars, bootVars, locals
<1>2. CASE PublishUnknown \/ BootloaderInit \/ LoadPartitionTable \/ LoadBootImage
  BY <1>2 DEF PublishUnknown, BootloaderInit, LoadPartitionTable, LoadBootImage,
     OrFatal, locals
<1>3. CASE CheckPasses \/ CheckFails
  BY <1>3 DEF CheckPasses, CheckFails, EnterRecovery, locals
<1>4. CASE PublishContext
  BY <1>4 DEF PublishContext, locals
<1>5. CASE ReadBootContext
  BY <1>5, GarbageAssumption DEF ReadBootContext, Published, Contexts, locals
<1>6. CASE Selector
  BY <1>6 DEF Selector, SelectNormal, SelectUpdate, SelectRecovery, EnterRecovery
<1>7. CASE Console
  BY <1>7 DEF Console, CommandReboot, CommandUpdate, CommandBoot, CommandErase,
     LeaveRecovery, AfterRecovery, FreshLocals, locals
<1>8. CASE Erasing
  BY <1>8 DEF Erasing, EraseSector, EraseFails, EraseDone
<1>9. CASE Updating
  BY <1>9 DEF Updating, UpdateBegins, UpdateWrites, UpdateFails, UpdateSucceeds,
     CalledBySelector, EnterRecovery, LeaveRecovery, AfterRecovery, bootVars, locals
<1>10. CASE Fatal \/ Resets
  BY <1>10 DEF Fatal, FatalBlinks, FatalResets, Resets, AppRestarts, WatchdogReset,
     PowerLoss, FreshLocals
<1> QED
  BY <1>1, <1>2, <1>3, <1>4, <1>5, <1>6, <1>7, <1>8, <1>9, <1>10 DEF Next, Startup

(* The context the application prints is the route this very boot took to  *)
(* the handoff (publish_boot_context, read_boot_context), whatever earlier *)
(* boots left in the registers.                                            *)
THEOREM TrueContexts == Spec => []ContextIsTrue
<1>1. Init => ContextInvariant
  BY DEF Init, ContextInvariant, ContextIsTrue
<1>2. ContextInvariant => ContextIsTrue
  BY DEF ContextInvariant
<1> QED
  BY <1>1, <1>2, ContextStep, BootTypes, PTL DEF Spec

-----------------------------------------------------------------------------
(* The boot chain implements BootGate.                                     *)

LEMMA SameCheck ==
    ASSUME NEW f, NEW p
    PROVE  GatePromise!ImageValid(f, p) <=> ImageValid(f, p)
BY DEF ImageValid, Descriptor, ImageSizeSane, DescriptorSize, Read,
   GatePromise!ImageValid, GatePromise!Descriptor, GatePromise!ImageSizeSane,
   GatePromise!DescriptorSize, GatePromise!Read

LEMMA SamePartition ==
    ASSUME NEW p PROVE GatePromise!Partition(p) = Partition(p)
BY DEF Partition, Span, GatePromise!Partition, GatePromise!Span

(* Erasing cells of one of its sectors leaves the rest of the flash alone. *)
LEMMA EraseConfined ==
    ASSUME TypeOK, sector < SectorCount, part.size % SectorSize = 0,
           NEW cells \in SUBSET SectorCells(flash, part.offset \div SectorSize + sector),
           flash' = Erase(flash, cells)
    PROVE  \A a \in DOMAIN flash \ Partition(part) : flash'[a] = flash[a]
<1> SUFFICES ASSUME NEW a \in DOMAIN flash \ Partition(part)
             PROVE  flash'[a] = flash[a]
  OBVIOUS
<1>1. a \in Nat
  BY FlashSizeAssumption DEF TypeOK, FlashStates
<1>2. sector \in Nat
  BY DivBounds, PartitionsAssumption DEF TypeOK, SectorCount
<1>3. a \notin cells
  BY <1>1, <1>2, SectorInside DEF SectorCells, SectorCount, TypeOK
<1> QED
  BY <1>3 DEF Erase

(* The console erases a partition of whole sectors only.                   *)
EraseWhole == pc = "erase" => part.size % SectorSize = 0

LEMMA EraseWholeStep ==
    ASSUME EraseWhole, [Next]_vars
    PROVE  EraseWhole'
<1> USE DEF EraseWhole
<1>1. CASE UNCHANGED vars
  BY <1>1 DEF vars, sessionVars, bootVars
<1>2. CASE Startup \/ Selector
  BY <1>2 DEF Startup, PublishUnknown, BootloaderInit, LoadPartitionTable, OrFatal,
     CheckPasses, CheckFails, EnterRecovery, PublishContext, LoadBootImage, ReadBootContext,
     Selector, SelectNormal, SelectUpdate, SelectRecovery
<1>3. CASE Console
  BY <1>3 DEF Console, CommandReboot, CommandUpdate, CommandBoot, CommandErase,
     LeaveRecovery, AfterRecovery, NoSession, sessionVars
<1>4. CASE Erasing
  BY <1>4 DEF Erasing, EraseSector, EraseFails, EraseDone
<1>5. CASE Updating
  BY <1>5 DEF Updating, UpdateBegins, UpdateWrites, UpdateFails, UpdateSucceeds,
     EnterRecovery, LeaveRecovery, AfterRecovery, Begin, Rewrite, bootVars
<1>6. CASE Fatal \/ Resets
  BY <1>6 DEF Fatal, FatalBlinks, FatalResets, Resets, AppRestarts, WatchdogReset, PowerLoss
<1> QED
  BY <1>1, <1>2, <1>3, <1>4, <1>5, <1>6 DEF Next

(* A step of the bootloader before and after which no application runs.    *)
LEMMA PrepareStep ==
    ASSUME part' = part, flash \in FlashStates, flash' \in FlashStates,
           \A a \in DOMAIN flash \ Partition(part) : flash'[a] = flash[a],
           pc \notin {"app_main", "app"}, pc' \notin {"app_main", "app"}
    PROVE  GatePromise!Prepare
<1>1. DOMAIN flash' = DOMAIN flash
  BY DEF FlashStates
<1> QED
  BY <1>1, SamePartition DEF GatePromise!Prepare

LEMMA GateStep ==
    ASSUME TypeOK, TypeOK', OnlyCheckedImagesRun, EraseWhole, [Next]_vars
    PROVE  [GatePromise!GateNext]_GatePromise!gateVars
<1> USE DEF GatePromise!GateNext, GatePromise!gateVars
<1>1. CASE UNCHANGED vars
  BY <1>1 DEF vars, sessionVars, bootVars
<1>2. CASE PublishUnknown \/ BootloaderInit \/ LoadPartitionTable
  BY <1>2 DEF PublishUnknown, BootloaderInit, LoadPartitionTable, OrFatal, NoSession, sessionVars
<1>3. CASE CheckPasses \/ CheckFails \/ PublishContext \/ Selector
  <2>1. UNCHANGED <<part, flash>>
    BY <1>3 DEF CheckPasses, CheckFails, PublishContext, Selector, SelectNormal,
       SelectUpdate, SelectRecovery, NoSession, sessionVars
  <2>2. /\ pc \in {"check", "publish", "select"}
        /\ pc' \in {"publish", "recovery", "load_app", "check", "update"}
    BY <1>3 DEF CheckPasses, CheckFails, EnterRecovery, PublishContext, Selector,
       SelectNormal, SelectUpdate, SelectRecovery
  <2> QED
    BY <2>1, <2>2
<1>4. CASE LoadBootImage
  <2>1. ImageValid(flash, part) /\ UNCHANGED <<part, flash>>
    BY <1>4 DEF LoadBootImage, OrFatal, OnlyCheckedImagesRun, NoSession, sessionVars
  <2> QED
    BY <1>4, <2>1, SameCheck DEF LoadBootImage, OrFatal, GatePromise!Launch
<1>5. CASE ReadBootContext
  BY <1>5 DEF ReadBootContext, NoSession, sessionVars
<1>6. CASE Console
  <2>1. UNCHANGED <<part, flash>> /\ pc = "recovery"
    BY <1>6 DEF Console, CommandReboot, CommandUpdate, CommandBoot, CommandErase,
       NoSession, sessionVars
  <2>2. pc' \in {"reset", "update", "check", "publish", "erase"}
    BY <1>6 DEF Console, CommandReboot, CommandUpdate, CommandBoot, CommandErase,
       LeaveRecovery, AfterRecovery
  <2> QED
    BY <2>1, <2>2
<1>7. CASE EraseSector \/ EraseFails
  <2>1. \A a \in DOMAIN flash \ Partition(part) : flash'[a] = flash[a]
    <3>1. CASE EraseSector
      BY <3>1, EraseConfined DEF EraseSector, EraseWhole
    <3>2. CASE EraseFails
      BY <3>2, EraseConfined DEF EraseFails, EraseWhole
    <3> QED
      BY <1>7, <3>1, <3>2
  <2> QED
    BY <1>7, <2>1, PrepareStep DEF EraseSector, EraseFails, TypeOK
<1>8. CASE EraseDone
  BY <1>8 DEF EraseDone, NoSession, sessionVars
<1>9. CASE UpdateWrites \/ UpdateFails
  <2>1. \A a \in DOMAIN flash \ Partition(part) : flash'[a] = flash[a]
    BY <1>9 DEF UpdateWrites, UpdateFails, Rewrite, Refuse, Abandon, RewritesPartition
  <2>2. part' = part /\ pc = "update" /\ pc' \in {"update", "recovery"}
    BY <1>9 DEF UpdateWrites, UpdateFails, Rewrite, Refuse, Abandon, EnterRecovery, bootVars
  <2> QED
    BY <2>1, <2>2, PrepareStep DEF TypeOK
<1>10. CASE UpdateBegins \/ UpdateSucceeds
  <2>1. UNCHANGED <<part, flash>>
    BY <1>10 DEF UpdateBegins, UpdateSucceeds, Begin, Accept
  <2>2. pc = "update" /\ pc' \in {"update", "check", "publish"}
    BY <1>10 DEF UpdateBegins, UpdateSucceeds, LeaveRecovery, AfterRecovery, bootVars
  <2> QED
    BY <2>1, <2>2
<1>11. CASE Fatal
  BY <1>11 DEF Fatal, FatalBlinks, FatalResets, NoSession, sessionVars
<1>12. CASE Resets
  <2>1. UNCHANGED <<part, flash>> /\ pc' = "reset"
    BY <1>12 DEF Resets, AppRestarts, WatchdogReset, PowerLoss
  <2> QED
    BY <2>1 DEF GatePromise!Reset
<1> QED
  BY <1>1, <1>2, <1>3, <1>4, <1>5, <1>6, <1>7, <1>8, <1>9, <1>10, <1>11, <1>12
     DEF Next, Startup, Erasing, Updating

(* Whatever is selected, received, erased or interrupted, over any number  *)
(* of resets: the application runs only from a partition that passes the   *)
(* check and is not changed under it, and no cell outside the partition    *)
(* ever changes.                                                           *)
THEOREM BootKeepsGate == Spec => KeepsGatePromise
<1>1. Init => GatePromise!GateInit /\ EraseWhole
  BY DEF Init, SessionInit, GatePromise!GateInit, EraseWhole
<1> QED
  BY <1>1, EraseWholeStep, GateStep, BootTypes, CheckedImages, PTL
     DEF Spec, KeepsGatePromise, GatePromise!GateSpec
=============================================================================
