---------------------------- MODULE BootLive ----------------------------
(***************************************************************************)
(* Boot when calm comes: from some moment on nobody touches the device,    *)
(* the power stays, the hardware works and the loader takes a checked      *)
(* image.                                                                  *)
(***************************************************************************)
EXTENDS Boot

VARIABLE calm

liveVars == <<vars, calm>>

(* Hardware that fails: an initialisation, the loader, or a flash read     *)
(* during the image check.                                                 *)
Failure == \/ (BootloaderInit \/ LoadPartitionTable \/ LoadBootImage) /\ pc' = "fatal"
           \/ CheckFails /\ ImageValid(flash, part)

(* What the CPU does by itself; an update session nobody feeds fails.      *)
Progress == \/ Startup \/ SelectNormal \/ EraseSector \/ EraseDone \/ Fatal
            \/ UpdateFails

(* What a reset, the operator, a host or a failing flash does.             *)
Disturbance == \/ Resets \/ Console \/ SelectUpdate \/ SelectRecovery
               \/ UpdateBegins \/ UpdateWrites \/ UpdateSucceeds \/ EraseFails

LiveInit == Init /\ calm = FALSE

Undisturbed == Progress /\ (calm => ~Failure) /\ UNCHANGED calm

Disturbed == ~calm /\ Disturbance /\ UNCHANGED calm

CalmComes == ~calm /\ calm' = TRUE /\ UNCHANGED vars

LiveNext == Disturbed \/ Undisturbed \/ CalmComes

(* The core keeps executing.  That an update session without a host        *)
(* returns is SilenceEndsSession of UpdateModeTiming.                      *)
LiveSpec == LiveInit /\ [][LiveNext]_liveVars /\ WF_liveVars(Undisturbed)

-----------------------------------------------------------------------------
(* However updates, erases and resets were cut short before, a device left *)
(* alone ends up running the application or waiting in the recovery loop:  *)
(* it neither hangs nor resets for ever.                                   *)
Settles == calm ~> [](pc \in {"app", "recovery"})

(* An undisturbed boot from reset with a good image ends in the            *)
(* application. (That one with a bad image ends in recovery follows from   *)
(* Settles and OnlyCheckedImagesRun.)                                      *)
GoodImageBoots == calm /\ pc = "reset" /\ ImageValid(flash, part) ~> pc = "app"
=============================================================================
