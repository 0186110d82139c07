-------------------------- MODULE UpdateSession --------------------------
(***************************************************************************)
(* What an update session promises its caller in main.c, whatever the      *)
(* host sends and however the flash fails: it changes nothing outside the  *)
(* application partition, and it answers TRUE only for an image that       *)
(* passes the check.                                                       *)
(***************************************************************************)
EXTENDS AppImage

VARIABLES part, flash, active, result

sessionVars == <<part, flash, active, result>>

(* The partition holds anything now; the rest of the flash is as it was.   *)
RewritesPartition ==
    /\ flash' \in FlashStates
    /\ \A a \in DOMAIN flash \ Partition(part) : flash'[a] = flash[a]

SessionInit ==
    /\ part \in Partitions
    /\ flash \in InitialFlash
    /\ active = FALSE /\ result = FALSE

Begin ==
    /\ ~active /\ active' = TRUE
    /\ UNCHANGED <<part, flash, result>>

Refuse ==
    /\ ~active /\ result' = FALSE
    /\ UNCHANGED <<part, flash, active>>

Rewrite ==
    /\ active
    /\ RewritesPartition
    /\ UNCHANGED <<part, active, result>>

Abandon ==
    /\ active /\ active' = FALSE
    /\ RewritesPartition
    /\ result' = FALSE
    /\ UNCHANGED part

Accept ==
    /\ active /\ active' = FALSE
    /\ ImageValid(flash, part)
    /\ result' = TRUE
    /\ UNCHANGED <<part, flash>>

SessionNext == Begin \/ Refuse \/ Rewrite \/ Abandon \/ Accept

SessionSpec == SessionInit /\ [][SessionNext]_sessionVars
=============================================================================
