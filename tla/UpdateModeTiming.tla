------------------------ MODULE UpdateModeTiming ------------------------
(***************************************************************************)
(* UpdateMode with a clock on the wait in progress, a host that may fall   *)
(* silent for good, and the fairness of a CPU that keeps executing.        *)
(***************************************************************************)
EXTENDS UpdateMode, FiniteSetsExt

VARIABLES
    elapsed,   \* history: milliseconds since the present wait began
    silent     \* the host sends nothing any more

timingVars == <<vars, elapsed, silent>>

(* No need to count further than one past the timeout.                     *)
ElapsedBound == Timeout + 1

(* A wait begins when the phase changes or a new prompt is printed.        *)
WaitBegins == phase' # phase \/ out' # <<>>

Clock(ms) == elapsed' = IF WaitBegins THEN 0 ELSE Min({elapsed + ms, ElapsedBound})

TimingInit == Init /\ elapsed = 0 /\ silent = FALSE

(* An empty poll costs a millisecond; everything else is fast beside it.   *)
Poll == Wait /\ Clock(1) /\ UNCHANGED silent
Compute == Work /\ Clock(0) /\ UNCHANGED silent
Called == Call /\ Clock(0) /\ UNCHANGED silent
HostTalks == ~silent /\ Receive /\ Clock(0) /\ UNCHANGED silent
HostFallsSilent == ~silent /\ silent' = TRUE /\ UNCHANGED <<vars, elapsed>>

TimingNext == Poll \/ Compute \/ Called \/ HostTalks \/ HostFallsSilent

(* The loop polls until it returns: nothing can keep the core from it.     *)
Fairness == WF_timingVars(Poll) /\ WF_timingVars(Compute)

TimingSpec == TimingInit /\ [][TimingNext]_timingVars /\ Fairness

-----------------------------------------------------------------------------
(* A host that stops talking, at any point of a session, never leaves the  *)
(* device in update mode: after at most MaxErrors timeouts the session     *)
(* returns (KNOWN_LIMITS.md, update limits).                               *)
SilenceEndsSession == silent ~> phase = "idle"

(* A wait for a payload that goes on is shorter than the timeout, however  *)
(* the bytes trickle in.                                                   *)
PayloadWaitBounded == phase = "payload" => elapsed < Timeout
=============================================================================
