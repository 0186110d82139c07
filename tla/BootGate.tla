---------------------------- MODULE BootGate ----------------------------
(***************************************************************************)
(* What the boot chain promises the product, seen from outside: the        *)
(* application runs only while the image in its partition passes the       *)
(* check, nothing changes the flash under it, and nothing but the          *)
(* partition ever changes, over any number of resets.                      *)
(***************************************************************************)
EXTENDS AppImage

VARIABLES part, flash, running

gateVars == <<part, flash, running>>

GateInit ==
    /\ part \in Partitions
    /\ flash \in InitialFlash
    /\ ~running

(* The bootloader at work.                                                 *)
Prepare ==
    /\ ~running /\ ~running'
    /\ DOMAIN flash' = DOMAIN flash
    /\ \A a \in DOMAIN flash \ Partition(part) : flash'[a] = flash[a]
    /\ UNCHANGED part

Launch ==
    /\ ~running /\ running'
    /\ ImageValid(flash, part)
    /\ UNCHANGED <<part, flash>>

Reset ==
    /\ running /\ ~running'
    /\ UNCHANGED <<part, flash>>

GateNext == Prepare \/ Launch \/ Reset

GateSpec == GateInit /\ [][GateNext]_gateVars
=============================================================================
